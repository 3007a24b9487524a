----------------------------- MODULE MCDeadStrip -----------------------------
(* All small links: an entry symbol, an ordinary symbol and an alias of it,  *)
(* every reference relation on three atoms, and the marks; two more atoms    *)
(* are not used.                                                             *)
EXTENDS DeadStrip

Sym(kind, atom, noStrip, hidden, final) ==
  [kind |-> kind, atom |-> atom, noStrip |-> noStrip, hidden |-> hidden,
   final |-> final]

\* "m" is at atom 1, "f" at atom 2, "alias" leads to "f", "z" has no atom.
Table(marked, hidden, aliasHidden) ==
  [m |-> Sym("Defined", 1, FALSE, TRUE, "m"), f |-> Sym("Defined", 2, marked, hidden, "f"),
   alias |-> Sym("Alias", 0, FALSE, aliasHidden, "f"), z |-> Sym("Defined", 0, marked, hidden, "z")]

\* Executables export nothing, so hiding makes no difference to them.
KindsAndTables ==
  {<<"exe", Table(marked, TRUE, TRUE)>> : marked \in BOOLEAN}
  \cup {<<"dylib", Table(FALSE, h, ah)>> : h \in BOOLEAN, ah \in BOOLEAN}

Pairs(S) == {e \in S \X S : e[1] # e[2]}

Direct(e) == [from |-> e[1], sym |-> NoSymbol, atoms |-> {e[2]}]
Named(a) == [from |-> a, sym |-> "alias", atoms |-> {}]

MCLink(kind, entry, table, noStrip, support, relocs, cie, parent) ==
  [kind |-> kind, entry |-> entry, sym |-> table, noStrip |-> noStrip, support |-> support,
   relocs |-> relocs, cie |-> cie, parent |-> <<0, 0, parent, 0, 0>>,
   strip |-> TRUE, icf |-> FALSE]

MCLinks ==
  {MCLink(kt[1], "m", kt[2], ns, su, {Direct(e) : e \in refs}, {}, p) :
     kt \in KindsAndTables, ns \in {{}, {3}}, su \in SUBSET {2, 3},
     refs \in SUBSET Pairs({1, 2, 3}), p \in {NoAtom, 1, 2}}
  \cup
  {MCLink("exe", e, Table(FALSE, TRUE, TRUE), {}, {}, {Named(a)}, {c}, NoAtom) :
     e \in {"m", NoSymbol}, a \in {1, 2, 3}, c \in {1, 2, 3} \X {1, 2, 3}}
=============================================================================
