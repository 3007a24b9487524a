------------------------------- MODULE MCElf -------------------------------
(***************************************************************************)
(* Small ELF links for ElfLink: every way to order a main object, two      *)
(* archives whose members need each other, and shared libraries, inside    *)
(* and outside groups; and collected links with retained sections, unwind  *)
(* records and libraries that call back into the program.                  *)
(***************************************************************************)
EXTENDS ElfLink

CONSTANTS main, f, h, fv, fo, end, m1, m2

MCNames == {main, f, h, fv, fo, end}
MCBaseOf == fv :> f @@ fo :> f
MCDefault == {fv}
MCLinker == {end}
-----------------------------------------------------------------------------
(* Objects. *)

Sym(n, bind, vis, shndx, sec) ==
  [name |-> n, bind |-> bind, vis |-> vis, shndx |-> shndx, sec |-> sec,
   size |-> 0, align |-> 0]
Def(n, sec) == Sym(n, "GLOBAL", "DEFAULT", "DEF", sec)
WeakDef(n, sec) == Sym(n, "WEAK", "DEFAULT", "DEF", sec)
Common(n, size, align) ==
  [Sym(n, "GLOBAL", "DEFAULT", "COMMON", 0) EXCEPT !.size = size, !.align = align]
Ref(n) == Sym(n, "GLOBAL", "DEFAULT", "UNDEF", 0)
HiddenRef(n) == Sym(n, "GLOBAL", "HIDDEN", "UNDEF", 0)
WeakRef(n) == Sym(n, "WEAK", "DEFAULT", "UNDEF", 0)

Sec(root, exec, relas) == [root |-> root, exec |-> exec, relas |-> relas, recs |-> <<>>]
Text(relas) == Sec(FALSE, TRUE, relas)
Data(relas) == Sec(FALSE, FALSE, relas)
Array(relas) == Sec(TRUE, FALSE, relas)
EhFrame(root, recs) == [root |-> root, exec |-> FALSE, relas |-> <<>>, recs |-> recs]
Cie(relas) == [cie |-> 0, target |-> 0, relas |-> relas]
Fde(target, relas) == [cie |-> 1, target |-> target, relas |-> <<target>> \o relas]

\* One code section with the given definitions, and all the references.
Unit(defs, refs) ==
  [syms |-> defs \o refs,
   secs |-> <<Text([i \in DOMAIN refs |-> Len(defs) + i])>>]

Object(o) == [kind |-> "Object", object |-> o]
Archive(index, members) ==
  [kind |-> "Archive", opens |-> TRUE, index |-> index, members |-> members]
Entry(n, m) == [name |-> n, member |-> m]
Start == [kind |-> "GroupStart"]
End == [kind |-> "GroupEnd"]
Shared(soname, exports, strong, needed, asNeeded) ==
  [kind |-> "Shared", soname |-> soname, exports |-> exports, undefs |-> strong,
   strong |-> strong, needed |-> needed, complete |-> TRUE, asNeeded |-> asNeeded]
Program(items, dynamic, gc) ==
  [items |-> items, entry |-> main, dynamic |-> dynamic, gc |-> gc]
-----------------------------------------------------------------------------
(* Input selection. *)

MainObjects ==
  {Object(Unit(<<Def(main, 1)>>, refs)) :
     refs \in {<<Ref(f)>>, <<HiddenRef(f)>>, <<WeakRef(f), Ref(end)>>,
               <<Ref(h), Ref(fv)>>, <<Ref(f), HiddenRef(h)>>}}
    \cup {Object(Unit(<<Common(f, 8, 4), WeakDef(h, 1)>>, <<Ref(h)>>))}

\* Two members: the first defines f, the second h or, tentatively, both.
FirstArchives ==
  {Archive(<<Entry(n, m1), Entry(h, m2)>>,
           m1 :> Unit(<<Def(n, 1)>>, refs) @@ m2 :> second) :
     n \in {f, fv}, refs \in {<<>>, <<Ref(h)>>},
     second \in {Unit(<<Def(h, 1)>>, <<Ref(main)>>),
                 Unit(<<Common(h, 4, 8), Common(f, 8, 8)>>, <<>>)}}

\* A member for two names, two members for one name, one for the entry and an
\* unreadable one, an unreadable archive.
SecondArchives ==
  {Archive(<<Entry(h, m1), Entry(f, m1)>>,
           m1 :> Unit(<<Def(h, 1), WeakDef(f, 1)>>, <<HiddenRef(f)>>)),
   Archive(<<Entry(h, m2), Entry(f, m1), Entry(h, m1)>>,
           m1 :> Unit(<<Def(f, 1), WeakDef(h, 1)>>, <<>>) @@ m2 :> Unit(<<Def(h, 1)>>, <<>>)),
   Archive(<<Entry(main, m1), Entry(h, m2)>>,
           m1 :> Unit(<<Def(main, 1)>>, <<Ref(f)>>)),
   [Archive(<<>>, <<>>) EXCEPT !.opens = FALSE]}

Libraries1 ==
  {Shared("s", exports, strong, {}, asNeeded) :
     exports \in {{f}, {f, h}}, strong \in {<<>>, <<h>>}, asNeeded \in BOOLEAN}
Libraries2 == {Shared("t", {h}, <<>>, {"s"}, TRUE), Shared("s", {f, h}, <<f>>, {}, FALSE)}

StaticOrders(M, A, B) ==
  {<<M, A, B>>, <<B, M, A>>, <<Start, M, B, A, End>>, <<M, Start, A, Start, B, End, End>>,
   <<M, End>>, <<M, Start, A>>, <<B, Start, A, M, End>>}
DynamicOrders(M, A, B, S, T) ==
  {<<M, S, A>>, <<M, A, S>>, <<M, Start, S, A, T, End>>, <<M, Start, T, B, S, End>>,
   <<S, M, T, A>>, <<M, S, S, T>>}

Selections ==
  {Program(items, FALSE, gc) : gc \in BOOLEAN,
     items \in UNION {StaticOrders(M, A, B) :
                        M \in MainObjects, A \in FirstArchives, B \in SecondArchives}}
    \cup
  {Program(items, TRUE, gc) : gc \in BOOLEAN,
     items \in UNION {DynamicOrders(M, A, CHOOSE B \in SecondArchives : B.opens, S, T) :
                        M \in MainObjects, A \in FirstArchives,
                        S \in Libraries1, T \in Libraries2}}
-----------------------------------------------------------------------------
(* Definitions of one name and its versions, in every order. *)

Definitions ==
  {Def(f, 1), WeakDef(f, 1), Common(f, 8, 4), Common(f, 4, 8), Common(f, 8, 8),
   Def(fv, 1), WeakDef(fv, 1), Def(fo, 1)}

Coalescings ==
  {Program(<<Object(Unit(<<Def(main, 1), d1>>, <<Ref(f)>>)),
             Object(Unit(<<d2>>, <<>>)), Object(Unit(<<d3>>, <<>>))>>, FALSE, FALSE) :
     d1 \in Definitions, d2 \in Definitions, d3 \in Definitions}
-----------------------------------------------------------------------------
(* Collected links: symbols 1 main, 2 f, 3 h (data or undefined), 4 a local  *)
(* function, 5 fv undefined; sections 1 main, 2 f, 3 data, 4 helper, 5       *)
(* .eh_frame, 6 an init array.                                              *)

CollectedObject(mainRelas, fRelas, gSym, recs, arrayRelas) ==
  Object([syms |-> <<Def(main, 1), Def(f, 2), gSym, Sym(NoName, "LOCAL", "DEFAULT", "DEF", 4),
                     Ref(fv), Sym(NoName, "LOCAL", "DEFAULT", "DEF", 5)>>,
          secs |-> <<Text(mainRelas), Text(fRelas), Data(<<4>>), Text(<<>>),
                     EhFrame(FALSE, recs), Array(arrayRelas)>>])

Records ==
  {<<Cie(<<>>), Fde(1, <<>>), Fde(2, <<3>>)>>,
   <<Cie(<<4>>), Fde(4, <<2>>), Fde(2, <<>>)>>,
   <<Cie(<<>>), Fde(4, <<3>>), Fde(1, <<6>>)>>,
   <<Cie(<<>>), Fde(2, <<>>), [Fde(3, <<>>) EXCEPT !.target = 0]>>}

Collected ==
  {Program(<<CollectedObject(mr, fr, gs, rs, ar)>> \o libs, TRUE, TRUE) :
     mr \in {<<>>, <<2>>, <<3>>, <<5>>}, fr \in {<<>>, <<3>>, <<5>>},
     gs \in {Def(h, 3), Ref(h)}, rs \in Records, ar \in {<<>>, <<4>>, <<6>>},
     libs \in {<<Shared("s", {fv}, <<f>>, {}, TRUE), Shared("t", {h}, <<f>>, {}, TRUE)>>,
               <<Shared("s", {fv}, <<h>>, {}, TRUE), Shared("t", {h}, <<>>, {}, TRUE)>>,
               <<Shared("t", {fv, h}, <<>>, {}, FALSE)>>}}

MCPrograms == Selections \cup Coalescings \cup Collected
=============================================================================
