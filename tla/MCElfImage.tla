----------------------------- MODULE MCElfImage -----------------------------
(***************************************************************************)
(* Small links for ElfImage.  An object that refers to a symbol in two     *)
(* ways is linked with every kind of definition, or none; sections of      *)
(* every kind and alignment are combined; thread-locals, constructor       *)
(* arrays and unwind records come from two objects; and each family has    *)
(* links that fail.                                                        *)
(***************************************************************************)
EXTENDS ElfImage

CONSTANTS main, foo, bar, fv, tv, end, initStart, initEnd, ipltStart, ipltEnd, gotSym, bssStart, tga

MCNames == {main, foo, bar, fv, tv, end, initStart, initEnd, ipltStart, ipltEnd, gotSym, bssStart,
            tga}
MCBaseOf == fv :> foo
MCDefault == {fv}
MCLinkerRole ==
  (end :> "end") @@ (initStart :> "init_start") @@ (initEnd :> "init_end")
    @@ (ipltStart :> "iplt_start") @@ (ipltEnd :> "iplt_end") @@ (gotSym :> "got")
    @@ (bssStart :> "bss_start")
MCLinkerSyms == {end, initStart, initEnd, ipltStart, ipltEnd, gotSym, bssStart}
MCRuntimeSyms == {end, bssStart}
\* Some names share a bucket.
MCElfHash == [n \in MCNames |->
                CASE n = foo -> 6 [] n = bar -> 12 [] n = tv -> 7 [] n = end -> 18
                  [] n = main -> 5 [] OTHER -> 24]
-----------------------------------------------------------------------------
(* Objects. *)

Sym(n, bind, shndx, sec, value, typ) ==
  [name |-> n, bind |-> bind, vis |-> "DEFAULT", shndx |-> shndx, sec |-> sec,
   value |-> value, typ |-> typ, size |-> 0, align |-> 0]
Def(n, sec, value) == Sym(n, "GLOBAL", "DEF", sec, value, "NOTYPE")
Ifunc(n, sec, value) == Sym(n, "GLOBAL", "DEF", sec, value, "IFUNC")
Abs(n, value) == Sym(n, "GLOBAL", "ABS", 0, value, "NOTYPE")
Common(n, size, align) ==
  [Sym(n, "GLOBAL", "COMMON", 0, 0, "NOTYPE") EXCEPT !.size = size, !.align = align]
Ref(n) == Sym(n, "GLOBAL", "UNDEF", 0, 0, "NOTYPE")
WeakRef(n) == Sym(n, "WEAK", "UNDEF", 0, 0, "NOTYPE")
HiddenRef(n) == [Ref(n) EXCEPT !.vis = "HIDDEN"]

Rela(off, type, sym, add) ==
  [off |-> off, type |-> type, sym |-> sym, add |-> add, pro |-> TRUE]
Sec(name, flags, size, align, relas) ==
  [name |-> name, suffix |-> <<>>, flags |-> flags, ent |-> 0, nobits |-> FALSE,
   align |-> align, size |-> size, relas |-> relas, recs |-> <<>>]
Text(size, relas) == Sec(".text", {"X"}, size, 16, relas)
Data(size, relas) == Sec(".data", {"W"}, size, 8, relas)
Zero(name, flags, size, align) == [Sec(name, flags, size, align, <<>>) EXCEPT !.nobits = TRUE]
Array(name, suffix, relas) ==
  [Sec(name, {"W"}, 8 * Len(relas), 8, relas) EXCEPT !.suffix = suffix]

Rec(kind, off, len, cie) ==
  [kind |-> kind, off |-> off, len |-> len, cie |-> cie, enc |-> "pcrel"]
Unwind(recs, size, relas) ==
  [Sec(".eh_frame", {}, size, 8, relas) EXCEPT !.recs = recs]

Object(syms, secs) == [syms |-> syms, secs |-> secs, xstack |-> FALSE]

Lib(soname, exports, undefs) == [soname |-> soname, exports |-> exports, undefs |-> undefs]
Export(func, ver) == [func |-> func, ver |-> ver]

Job(objs, libs, dynamic) ==
  [objs |-> objs, libs |-> libs, dynamic |-> dynamic, entry |-> main, hdr |-> FALSE,
   stack |-> <<>>, now |-> FALSE]
-----------------------------------------------------------------------------
(* References: main refers to a name from code, by a call, and from data.    *)

ReferenceTypes == {"64", "32", "32S", "PC32", "PLT32", "GOTPCREL"}
Addend(type) == IF type \in {"PC32", "PLT32", "GOTPCREL"} THEN -4 ELSE 0

\* The references of main are to symbol 2.
Referring(ref, inText, inData) ==
  Object(<<Def(main, 1, 0), ref>>,
         <<Text(20, <<Rela(4, inText, 2, Addend(inText)),
                      Rela(12, "PLT32", 2, -4)>>),
           Data(16, <<Rela(8, inData, 2, Addend(inData))>>)>>)

\* What else there is of the name: an object with other sections before it.
Providers(n) ==
  {<<Object(<<Def(bar, 1, 0)>> \o syms, <<Text(24, <<>>), Data(12, <<>>)>>)>> : syms \in
     {<<Def(n, 1, 8)>>, <<Ifunc(n, 1, 8)>>, <<Def(n, 2, 4)>>, <<Common(n, 12, 8)>>,
      <<Abs(n, 77)>>, <<Abs(n, 10000000)>>, <<Abs(n, 33554432)>>,
      <<Common(n, 4, 4), Common(bar, 0, 0)>>}}
    \cup {<<>>}

MCLibs ==
  {<<>>,
   <<Lib("c", foo :> Export(TRUE, ""), <<>>)>>,
   <<Lib("d", <<>>, <<foo, end, main>>), Lib("c", foo :> Export(TRUE, "V1"), <<>>)>>,
   <<Lib("c", foo :> Export(FALSE, ""), <<bar>>)>>,
   <<Lib("c", (foo :> Export(TRUE, "V2")) @@ (fv :> Export(TRUE, "V2")), <<>>),
     Lib("d", bar :> Export(FALSE, "V1"), <<foo, foo>>)>>}

ReferenceJobs ==
  {Job(<<Referring(ref, t, d)>> \o p, libs, dynamic) :
     ref \in {Ref(foo)}, t \in ReferenceTypes, d \in {"64", "GOTPCREL", "PLT32"},
     p \in Providers(foo), libs \in MCLibs, dynamic \in {TRUE}}
  \cup
  {Job(<<Referring(ref, t, d)>> \o p, <<>>, FALSE) :
     ref \in {Ref(foo), WeakRef(foo)}, t \in ReferenceTypes, d \in {"64", "GOTPCREL"},
     p \in Providers(foo)}

\* Two spellings of one import, several slots, imported data, linker symbols.
MixedJobs ==
  {[Job(<<Object(<<Def(main, 1, 0), Ref(foo), Ref(fv), Ref(bar), WeakRef(tv), Ref(x)>>,
                 <<Text(48, <<Rela(0, "PLT32", 2, -4), Rela(4, "GOTPCREL", 3, -4),
                              Rela(8, t, 3, Addend(t)), Rela(16, "GOTPCREL", 4, -4),
                              Rela(20, "GOTPCREL", 5, -4), Rela(24, "PC32", 6, -4),
                              Rela(32, "64", 5, 0)>>)>>)>>
          \o more, libs, TRUE) EXCEPT !.now = now] :
     t \in {"PLT32", "PC32", "64"}, x \in MCLinkerSyms, now \in BOOLEAN,
     more \in {<<>>, <<Object(<<Def(bar, 1, 0)>>, <<Text(4, <<>>)>>)>>,
               <<Object(<<Ifunc(bar, 1, 0)>>, <<Text(4, <<>>), Zero(".bss", {"W"}, 8, 32)>>)>>},
     libs \in {l \in MCLibs : Len(l) = 2}}

-----------------------------------------------------------------------------
(* Sections: every choice of kinds, with awkward sizes, in one or two objects. *)

Kinds ==
  {Sec(".rodata", {}, 5, 32, <<>>), Data(12, <<Rela(4, "64", 2, 0)>>),
   Sec(".wx", {"W", "X"}, 6, 4, <<>>), Zero(".bss", {"W"}, 10, 64),
   Sec(".tdata", {"W", "T"}, 16, 8, <<>>), Zero(".tbss", {"W", "T"}, 8, 16)}

SectionJobs ==
  {[Job(<<Object(<<Def(main, 1, 0), Ref(foo)>>, <<Text(21, <<Rela(3, "PC32", 2, -4)>>)>>
                   \o SetToSeq(ks)),
          Object(<<Def(foo, 1, 1), Common(bar, 20, 16)>>, <<Text(7, <<>>), Data(3, <<>>),
                   Zero(".bss", {"W"}, 4, 4)>>)>>,
        IF dynamic THEN <<Lib("c", <<>>, <<bar>>)>> ELSE <<>>, dynamic)
      EXCEPT !.stack = stack] :
     ks \in SUBSET Kinds, dynamic \in BOOLEAN, stack \in {<<>>, <<TRUE>>}}
  \cup
  {Job(<<Object(<<Def(main, 1, 0), Def(foo, 2, 0)>>, <<Text(4, <<>>), s>>),
         Object(<<Ref(foo)>>, <<Text(8, <<Rela(0, "PC32", 1, 0)>>), t>>)>>, <<>>, dynamic) :
     s \in {Zero(".d", {"W"}, 8, 8), Sec(".d", {"W"}, 8, 8, <<>>),
            Sec(".d", {"M"}, 8, 8, <<>>), [Sec(".d", {"M"}, 8, 8, <<>>) EXCEPT !.ent = 1]},
     t \in {Sec(".d", {"W"}, 4, 4, <<>>), [Sec(".d", {"M"}, 3, 1, <<>>) EXCEPT !.ent = 1],
            Sec(".d", {"W"}, 4, 4, <<Rela(2, "64", 1, 0)>>)},
     dynamic \in BOOLEAN}

\* Links that end in an error, and one that overrides a tentative definition.
BrokenJobs ==
  {Job(<<Object(<<Def(main, 1, 0)>> \o syms, <<Text(8, <<Rela(4, t, 2, 0)>>), Data(8, <<>>)>>),
         Object(more, <<Text(8, <<>>)>>)>>, <<>>, dynamic) :
     syms \in {<<HiddenRef(foo)>>, <<Ref(foo)>>, <<Common(foo, 4, 4)>>, <<Def(foo, 3, 0)>>, <<>>},
     t \in {"PC32", "COPY"},
     more \in {<<Def(foo, 1, 0)>>, <<Def(main, 1, 4)>>, <<Common(foo, 16, 16), WeakRef(bar)>>, <<>>},
     dynamic \in BOOLEAN}
-----------------------------------------------------------------------------
(* Thread-locals: main reaches tv, of another object, in two ways. *)

\* A local dynamic access is a TLSLD with its call, then offsets.
TlsAccess(type, off) ==
  CASE type = "LD" -> <<Rela(off + 3, "TLSLD", 2, -4), Rela(off + 8, "PLT32", 3, -4),
                        Rela(off + 16, "DTPOFF32", 2, 0)>>
    [] type = "LD64" -> <<Rela(off + 3, "TLSLD", 2, -4), Rela(off + 8, "PLT32", 3, -4),
                          Rela(off + 12, "DTPOFF64", 2, 0)>>
    [] type = "GD" -> <<Rela(off + 4, "TLSGD", 2, -4), Rela(off + 12, "PLT32", 3, -4)>>
    [] type = "GOTTPOFF" -> <<Rela(off, "GOTTPOFF", 2, -4)>>
    [] OTHER -> <<Rela(off, type, 2, 4)>>

ThreadUser(ref, a, b) ==
  Object(<<Def(main, 1, 0), ref, Ref(tga)>>,
         <<Text(48, TlsAccess(a, 0) \o TlsAccess(b, 24)),
           Sec(".tdata", {"W", "T"}, 8, 8, <<Rela(0, "64", 1, 0)>>)>>)

ThreadVariables ==
  {<<Object(<<Def(tv, 1, 4)>>, <<s, t>>)>> :
     s \in {Sec(".tdata", {"W", "T"}, 8, 4, <<>>), Zero(".tbss", {"W", "T"}, 20, 16)},
     t \in {Sec(".tdata", {"W", "T"}, 24, 32, <<>>), Zero(".tbss", {"W", "T"}, 4, 4)}}
    \cup {<<>>, <<Object(<<Def(tv, 1, 0)>>, <<Data(8, <<>>)>>)>>}

ThreadJobs(refs, kinds) ==
  {Job(<<ThreadUser(ref, a, b)>> \o v, <<>>, dynamic) :
     ref \in refs, a \in kinds, b \in kinds, v \in ThreadVariables,
     dynamic \in BOOLEAN}

\* The access is not the sequence that can be rewritten.
OddAccesses ==
  {Job(<<[ThreadUser(Ref(tv), a, "TPOFF32") EXCEPT !.secs[1].relas[1].pro = FALSE]>>
         \o <<Object(<<Def(tv, 1, 0)>>, <<Zero(".tbss", {"W", "T"}, 4, 4)>>)>>, <<>>, dynamic) :
     a \in {"LD", "GD"}, dynamic \in BOOLEAN}
-----------------------------------------------------------------------------
(* Constructors: two objects with arrays of every suffix, and the symbols   *)
(* that bracket them.                                                       *)

ArraySuffixes == {<<>>, <<-1>>, <<3>>, <<101>>}

ArrayJobs ==
  {Job(<<Object(<<Def(main, 1, 0), Ref(initStart), Ref(initEnd), Def(foo, 1, 8)>>,
                <<Text(16, <<Rela(0, "PC32", 2, -4), Rela(4, "32S", 3, 0)>>),
                  Array(".init_array", a, <<Rela(0, "64", 4, 0)>>),
                  Array(".init_array", b, <<Rela(0, "64", 1, 0), Rela(8, "64", 4, 4)>>)>>),
         Object(<<Def(bar, 1, 0)>>,
                <<Text(4, <<>>), Array(".init_array", c, <<Rela(0, "64", 1, 0)>>),
                  Array(base, <<>>, <<Rela(0, "64", 1, 2)>>)>>)>>,
       <<>>, dynamic) :
     a \in ArraySuffixes, b \in ArraySuffixes, c \in ArraySuffixes,
     base \in {".preinit_array", ".fini_array"}, dynamic \in BOOLEAN}
-----------------------------------------------------------------------------
(* Unwind records: functions in one order, records in another; a terminator *)
(* in the last object.                                                      *)

Frames(a, b) ==
  Unwind(<<Rec("CIE", 0, 24, 0), Rec("FDE", 24, 24, 0), Rec("FDE", 48, 24, 0)>>, 72,
         <<Rela(32, "PC32", a, 0), Rela(56, "PC32", b, 0)>>)
Ended == Unwind(<<Rec("CIE", 0, 24, 0), Rec("FDE", 24, 24, 0), Rec("END", 48, 4, 0)>>, 52,
                <<Rela(32, "PC32", 1, 0)>>)
OddFrames ==
  {[Ended EXCEPT !.recs[1].enc = "absptr"], [Ended EXCEPT !.recs[1].kind = "BAD"],
   [Ended EXCEPT !.recs[2].cie = 4], [Ended EXCEPT !.flags = {"W"}]}

UnwindJobs ==
  {[Job(<<Object(<<Def(main, 1, 16), Def(foo, 1, 0)>>, <<Text(24, <<>>), Frames(fr[1], fr[2])>>),
          Object(<<Def(bar, 1, 0)>>, <<Text(8, <<>>), last, Sec(".rodata", {}, 3, 1, <<>>)>>)>>,
        IF dynamic THEN <<Lib("c", <<>>, <<foo>>)>> ELSE <<>>, dynamic) EXCEPT !.hdr = hdr] :
     fr \in {<<1, 2>>, <<2, 1>>}, last \in {Ended} \cup OddFrames, hdr \in BOOLEAN,
     dynamic \in BOOLEAN}
-----------------------------------------------------------------------------
MCJobs ==
  ReferenceJobs \cup MixedJobs \cup SectionJobs \cup BrokenJobs
    \cup ThreadJobs({Ref(tv), WeakRef(tv)}, {"LD", "LD64", "GOTTPOFF", "TPOFF32"})
    \cup OddAccesses \cup ArrayJobs \cup UnwindJobs

GeneralDynamicJobs == ThreadJobs({Ref(tv)}, {"GD", "TPOFF32"})
=============================================================================
