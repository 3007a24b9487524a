------------------------------ MODULE MCImage ------------------------------
(***************************************************************************)
(* Families of small links for Image.                                      *)
(***************************************************************************)
EXTENDS Image

At(seg, name, align, size, input, off) ==
  [seg |-> seg, name |-> name, align |-> align, size |-> size, input |-> input,
   off |-> off, calls |-> <<>>, fn |-> 0, lsda |-> 0]
Text(align, size, off) == At("__TEXT", "__text", align, size, 1, off)
Calling(a, cs) == [a EXCEPT !.calls = cs]
Call(at, to, plus) == [at |-> at, to |-> to, plus |-> plus]
Synth(seg, name, align, data) == [seg |-> seg, name |-> name, align |-> align, data |-> data]
Stubs == Synth("__TEXT", "__stubs", 1, 3)

\* Calls over a distance, forwards and backwards, with and without an addend,
\* to another section, to another segment and to the stubs.
Far ==
  {[atoms |-> <<Calling(At("__TEXT", "__text", al[1], sz[1], 1, 0), c1),
                At("__TEXT", "__text", 1, sz[2], 2, 0),
                Calling(At(s3[1], s3[2], al[2], sz[3], 3, 0), c3)>>,
    synth |-> <<Stubs>>, thunks |-> m] :
     sz \in {2, 7} \X {2, 7, 12} \X {2, 7}, al \in {1, 4} \X {1, 4},
     s3 \in {<<"__TEXT", "__text">>, <<"__TEXT", "__const">>, <<"__AUX", "__text">>},
     c1 \in {<<Call(0, 3, 0)>>, <<Call(0, 3, 0), Call(1, 3, 1)>>, <<Call(0, 3, 0), Call(1, 0, 0)>>},
     c3 \in {<<>>, <<Call(1, 1, 0)>>}, m \in {"none", "safe", "all"}}

\* Two callers, a cluster apart, whose calls are about as long as the reach.
Swinging ==
  {[atoms |-> <<Calling(Text(1, b, 0), <<Call(b - 1, 4, 0)>>),
                Text(1, f, b),
                Calling(Text(1, 2, b + f), <<Call(0, 5, 0)>>),
                Text(1, 8, b + f + 2),
                Text(8, 2, b + f + 10)>>,
    synth |-> <<Stubs>>, thunks |-> "safe"] : b \in 2 .. 6, f \in 3 .. 11}

\* Calls into an aligned section that the header moves closer or further away.
Shifted ==
  {[atoms |-> <<Text(1, g, 0), Calling(Text(1, 1, g), <<Call(0, 4, 0)>>), Text(1, f, g + 1),
                At("__TEXT", "__const", a, 2, 1, 0)>>,
    synth |-> <<Stubs>>, thunks |-> "safe"] : g \in 1 .. 3, f \in 1 .. 9, a \in {4, 8, 16}}

\* Functions with unwind records, near each other and in another segment, and
\* initialised, zero-filled and linker-made data of several alignments.
Unwound ==
  {[atoms |-> <<Text(1, sz[1], 0),
                At(f2[1], f2[2], al, sz[2], 1, sz[1]),
                At("__DATA", "__data", 1, sz[2], 1, 0),
                At("__DATA", "__bss", 8, 3, 1, 0),
                At("__DATA", "__common", 1, sz[1], 2, 0),
                [At("__LD", "__compact_unwind", 2, 8, 1, 0) EXCEPT !.fn = 1],
                [At("__LD", "__compact_unwind", 2, 8, 1, 8) EXCEPT !.fn = 2, !.lsda = 3]>>,
    synth |-> <<Stubs, Synth("__DATA_CONST", "__got", 2, 2)>> \o own, thunks |-> "safe"] :
     sz \in (1 .. 6) \X (1 .. 4), al \in {1, 4, 8},
     f2 \in {<<"__TEXT", "__text">>, <<"__TEXT", "__zz">>, <<"__AUX", "__text">>},
     own \in {<<>>, <<Synth("__DATA", "__data", 2, 2)>>}}

MCCustom == <<"__AUX", "__LD">>
MCOther == <<"__compact_unwind", "__text", "__zz">>
MCLinks == Far \cup Swinging \cup Shifted \cup Unwound
=============================================================================
