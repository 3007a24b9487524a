------------------------------- MODULE MCFold -------------------------------
(* Five atoms of two inputs: "f" and "z" are the callees at atoms 1 and 2,   *)
(* 3, 4 and 5 refer to them in every way.                                    *)
EXTENDS MCDeadStrip, Fold

None == [kind |-> "none", sym |-> NoSymbol, id |-> 0, sec |-> 0, off |-> 0]
Global(s) == [None EXCEPT !.kind = "global", !.sym = s]
Local(id, sec, off) ==
  [None EXCEPT !.kind = "local", !.id = id, !.sec = sec, !.off = off]
Section(sec) == [None EXCEPT !.kind = "section", !.sec = sec]
Abs(v) == [None EXCEPT !.kind = "abs", !.off = v]
Unknown == [None EXCEPT !.kind = "unknown"]

R(a, kind, ref, minus, addend, implicit) ==
  [from |-> a, slot |-> 0, kind |-> kind, ref |-> ref, minus |-> minus,
   addend |-> addend, implicit |-> implicit]

Call(a, ref) == R(a, "branch", ref, None, 0, 0)

Put(input, order, sec, off, kind, body) ==
  [input |-> input, order |-> order, sec |-> sec, off |-> off, size |-> 4,
   kind |-> kind, out |-> kind, body |-> body]

\* Atoms 1, 3 and 5 are in input 1, atoms 2 and 4 in input 2, an archive member
\* that may come before; atom 5 may be data with the bytes of a function.
Places(second, sec, body) ==
  <<Put(1, <<2, 0>>, 1, 0, "Text", "callee"), Put(2, second, 1, 0, "Text", "callee"),
    Put(1, <<2, 0>>, 1, 4, "Text", "caller"), Put(2, second, 1, 4, "Text", "caller"),
    IF sec = 1 THEN Put(1, <<2, 0>>, 1, 8, "Text", body)
               ELSE Put(1, <<2, 0>>, 2, 0, "Data", body)>>

FoldTable(zKind) ==
  [m |-> Sym("Defined", 5, FALSE, TRUE, "m"),
   f |-> Sym("Defined", 1, FALSE, TRUE, "f"),
   alias |-> Sym("Alias", 0, FALSE, TRUE, "f"),
   z |-> Sym(zKind, IF zKind = "Defined" THEN 2 ELSE 0, FALSE, TRUE, "z")]

FoldLink(strip, table, private, code, at) ==
  LET l == [kind |-> "exe", entry |-> "m", sym |-> table, noStrip |-> {}, support |-> {},
            cie |-> {}, parent |-> <<0, 0, 0, 0, 0>>, strip |-> strip, icf |-> TRUE,
            at |-> at, code |-> code, private |-> private, value |-> [m |-> 0, f |-> 0, alias |-> 0, z |-> 8],
            relocs |-> {}]
  IN  [l EXCEPT !.relocs = Edges(l)]

Referents ==
  {Global(s) : s \in {"f", "alias", "z", "m"}}
  \cup {Local(1, 1, 0), Local(2, 1, 4), Local(3, 1, 12), Section(1), Abs(8), Unknown}

Code(x, y, fifth) == <<Call(3, x), Call(4, y), fifth>>

\* Callers that become equal once their callees are merged, in either order.
Chains ==
  {FoldLink(sp[1], FoldTable(zKind), sp[2], Code(Global(s), Global(t), Call(5, Global(u))),
            Places(second, 1, "caller")) :
     sp \in {<<TRUE, {"f", "z"}>>, <<FALSE, {"f", "z", "m"}>>},
     zKind \in {"Defined", "Absolute", "Other"}, s, t, u \in {"f", "alias", "z", "m"},
     second \in {<<1, 1>>, <<3, 0>>}}

\* Two callers of every sort of referent.
Callers ==
  {FoldLink(FALSE, FoldTable("Defined"), {"f", "z", "m"}, Code(x, y, Call(5, u)),
            Places(<<1, 1>>, sb[1], sb[2])) :
     x, y \in Referents, u \in {Global("f"), Section(1)},
     sb \in {<<1, "caller">>, <<1, "other">>, <<2, "caller">>}}

\* Atom 5 takes an address.
Addresses ==
  {FoldLink(strip, FoldTable("Defined"), private,
            Code(Global("f"), y, fifth), Places(<<1, 1>>, 1, "other")) :
     strip \in BOOLEAN, private \in {{"z", "m"}, {"f", "z", "m"}}, y \in {Global("f"), Global("z")},
     fifth \in {R(5, k, x, None, ni[1], ni[2]) :
                  k \in {"pointer", "page"}, x \in Referents,
                  ni \in {<<0, 0>>, <<0, 4>>, <<4, 4>>, <<-4, 0>>}}
               \cup {R(5, "difference", x, z, 0, 0) :
                       x, z \in {Global("z"), Local(1, 1, 0), Local(2, 1, 4), Section(1)}}}

FoldLinks == Chains \cup Callers \cup Addresses

AllLinks == MCLinks \cup FoldLinks
=============================================================================
