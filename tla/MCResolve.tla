----------------------------- MODULE MCResolve -----------------------------
(***************************************************************************)
(* Small links for Resolve: one object, an archive L of two members, an    *)
(* archive K of one, and a dylib, in several orders, with every choice of  *)
(* a few shapes for the files.                                             *)
(***************************************************************************)
EXTENDS Resolve, TLC

CONSTANTS a, b, main, m1, m2, m3, L, K, D

MCNames == {a, b}
MCFiles == {main, m1, m2, m3}
MCArchives == {L, K}
MCDylibs == {D}

Raw(n, type) == [name |-> n, type |-> type, weak |-> FALSE, size |-> 8,
                 align |-> 3, to |-> n]
Undef(n) == Raw(n, "undef")
WeakUndef(n) == [Undef(n) EXCEPT !.weak = TRUE]
Def(n) == Raw(n, "def")
WeakDef(n) == [Def(n) EXCEPT !.weak = TRUE]
Common(n) == Raw(n, "common")
Indirect(n, to) == [Raw(n, "indirect") EXCEPT !.to = to]

MainShapes == {<<Undef(a)>>, <<Undef(a), Undef(b)>>, <<WeakUndef(a), Def(b)>>,
               <<Common(a), Undef(b)>>, <<Indirect(a, b)>>}

MemberShapes == {<<Def(a)>>, <<Def(b), Undef(a)>>, <<Def(a), Undef(b)>>,
                 <<Def(a), Def(b)>>, <<WeakDef(a), Undef(b)>>,
                 <<Common(b), Undef(a)>>, <<Indirect(b, a)>>}

Obj(f) == [type |-> "Object", id |-> f]
Arc(x) == [type |-> "Archive", id |-> x]
Force(x) == [type |-> "ForceLoadArchive", id |-> x]
Dyl(d) == [type |-> "Dylib", id |-> d]

Lines == {<<Obj(main), Arc(L)>>, <<Arc(L), Obj(main), Arc(K)>>,
          <<Obj(main), Arc(L), Dyl(D), Arc(K)>>, <<Obj(main), Force(L), Arc(K)>>,
          <<Dyl(D), Arc(K), Obj(main), Arc(L)>>}

IndexOf(syms, m) ==
  LET defs == SelectSeq(syms[m], LAMBDA r : r.type # "undef")
  IN  [j \in DOMAIN defs |-> [name |-> defs[j].name, member |-> m]]

Link(syms, line, stale, bad, all, legacy, treatment) ==
  [line |-> line, syms |-> syms,
   index |-> [x \in MCArchives |->
                IF x = K THEN IndexOf(syms, m3)
                ELSE (IF stale THEN <<[name |-> b, member |-> m1]>> ELSE <<>>)
                       \o IndexOf(syms, m1) \o IndexOf(syms, m2)],
   members |-> [x \in MCArchives |-> IF x = K THEN <<m3>> ELSE <<m1, m2>>],
   exports |-> [d \in MCDylibs |-> <<[name |-> b, weak |-> FALSE]>>],
   bad |-> bad, allLoad |-> all, legacy |-> legacy, treatment |-> treatment]

SymTables ==
  [{main} -> MainShapes] \X [{m1, m2} -> MemberShapes]
    \X [{m3} -> {<<Def(b), Undef(a)>>}]

Tables == {t[1] @@ t[2] @@ t[3] : t \in SymTables}

\* Every order and shape with honest or stale indexes, then load failures,
\* -all_load, legacy force loads and the undefined policies on fewer orders.
MCPrograms ==
  {Link(t, l, s, {}, FALSE, <<>>, "Error") : t \in Tables, l \in Lines, s \in BOOLEAN}
    \cup {Link(t, <<Obj(main), Arc(L), Arc(K)>>, FALSE, bad, all, <<>>, "Warning") :
            t \in Tables, bad \in {{m1}, {m2}}, all \in BOOLEAN}
    \cup {Link(t, <<Obj(main), Arc(L)>>, FALSE, {}, FALSE, leg, treatment) :
            t \in Tables, leg \in {<<>>, <<L>>, <<L, K>>},
            treatment \in {"Suppress", "DynamicLookup"}}
=============================================================================
