----------------------------- MODULE AtomProofs -----------------------------
(***************************************************************************)
(* Which atoms the image has, for every link.  The marking of              *)
(* DeadStripAnalysis::build is exact: it marks nothing that some image     *)
(* could do without, and what it leaves is an image on its own.  The       *)
(* folding of fold_safe cannot be told from the program it started with,   *)
(* and merges all that it may.                                             *)
(***************************************************************************)
EXTENDS FoldTheorems


\* Any set of atoms is a finite set of numbers.
LEMMA AtomSetsFinite ==
  ASSUME NEW S \in SUBSET Atoms
  PROVE  IsFiniteSet(S) /\ S \subseteq Nat /\ Cardinality(S) \in Nat
  BY FS_Subset, FS_CardinalityType, DeadStripAssumption, Zenon

\* A listing of a set leaves no element out.
LEMMA ListingsAreComplete ==
  ASSUME NEW S \in SUBSET Atoms, NEW s \in Listings(S)
  PROVE  /\ s \in Seq(Atoms)
         /\ \A a \in Atoms : a \in S <=> Occurs(a, s)
PROOF
  <1>0. IsFiniteSet(S) /\ Cardinality(S) \in Nat
    BY AtomSetsFinite
  <1> DEFINE n == Cardinality(S)
  <1>1. s \in [1 .. n -> S] /\ DOMAIN s = 1 .. n
    BY DEF Listings
  <1>2. s \in Seq(Atoms)
    BY <1>0, <1>1
  <1>3. s \in Injection(1 .. n, S)
    BY <1>1, OneToOne, Zenon DEF Listings
  <1>4. Cardinality(1 .. n) = n
    BY <1>0, FS_Interval
  <1>5. s \in Surjection(1 .. n, S)
    <2> HIDE DEF n
    <2>1. Cardinality(1 .. n) = Cardinality(S)
      BY <1>4 DEF n
    <2> QED BY <1>0, <1>3, <2>1, FS_Injection, Zenon
  <1>6. \A a \in S : \E i \in 1 .. n : s[i] = a
    BY <1>5, Zenon DEF Surjection
  <1> QED BY <1>1, <1>2, <1>6, Zenon DEF Occurs

\* The sorted sequence of a set lists the set.
LEMMA InOrderLists ==
  ASSUME NEW S \in SUBSET Atoms
  PROVE  /\ InOrder(S) \in Seq(Atoms)
         /\ \A a \in Atoms : a \in S <=> Occurs(a, InOrder(S))
PROOF
  <1>1. InOrder(S) \in Seq(S) /\ SetOf(InOrder(S)) = S
    BY AtomSetsFinite, InOrderSorts, Zenon
  <1>2. InOrder(S) \in Seq(Atoms)
    BY <1>1
  <1> QED BY <1>1, <1>2 DEF Occurs, SetOf

\* What a concatenation lists.
LEMMA OccursConcat ==
  ASSUME NEW s \in Seq(Atoms), NEW t \in Seq(Atoms), NEW a
  PROVE  /\ s \o t \in Seq(Atoms)
         /\ Occurs(a, s \o t) <=> Occurs(a, s) \/ Occurs(a, t)
PROOF
  <1>1. \A l : Occurs(a, l) <=> a \in SetOf(l)
    BY Zenon DEF Occurs, SetOf
  <1>2. s \o t \in Seq(Atoms) /\ SetOf(s \o t) = SetOf(s) \cup SetOf(t)
    BY ListConcat
  <1> QED BY <1>1, <1>2, Zenon

\* What a worklist still lists once its head is taken off.
LEMMA OccursTail ==
  ASSUME NEW s \in Seq(Atoms), s # <<>>, NEW a
  PROVE  /\ Head(s) \in Atoms /\ Tail(s) \in Seq(Atoms)
         /\ Occurs(Head(s), s)
         /\ Occurs(a, s) => a = Head(s) \/ Occurs(a, Tail(s))
         /\ Occurs(a, Tail(s)) => Occurs(a, s)
PROOF
  <1>1. \A b, l : Occurs(b, l) <=> b \in SetOf(l)
    BY Zenon DEF Occurs, SetOf
  <1>2. /\ Head(s) \in Atoms /\ Tail(s) \in Seq(Atoms)
        /\ SetOf(s) = {Head(s)} \cup SetOf(Tail(s))
    BY ListHead
  <1> QED BY <1>1, <1>2
-----------------------------------------------------------------------------
\* The roots and edges that the analysis builds say what the rules say.
LEMMA RootsMeetRules ==
  ASSUME NEW l, IsLink(l)
  PROVE  /\ Roots(l) \subseteq Atoms
         /\ \A a \in Atoms : a \in Roots(l) <=> MustStart(l, a)
PROOF
  <1>1. \A s \in Symbols : l.sym[s].atom \in Atoms \cup {NoAtom} /\ l.sym[s].final \in Symbols
    BY DEF IsLink, SymbolEntry
  <1>2. Roots(l) \subseteq Atoms
    <2>1. EntryAtoms(l) \subseteq Atoms
      BY <1>1 DEF EntryAtoms, HasAtom
    <2>2. NoDeadStripAtoms(l) \subseteq Atoms
      BY <1>1 DEF NoDeadStripAtoms, HasAtom, IsLink
    <2>3. ExportedAtoms(l) \subseteq Atoms
      BY <1>1 DEF ExportedAtoms, HasAtom
    <2> QED BY <2>1, <2>2, <2>3 DEF Roots
  <1>3. \A a \in Atoms : a # NoAtom
    BY DeadStripAssumption DEF NoAtom
  <1>4. ASSUME NEW a \in Atoms PROVE a \in Roots(l) <=> MustStart(l, a)
    <2>1. a \in EntryAtoms(l) <=> \E s \in Symbols : s = l.entry /\ Stands(l, s, a)
      BY <1>3, Zenon DEF EntryAtoms, HasAtom, Stands
    <2>2. a \in NoDeadStripAtoms(l) <=>
            \/ a \in l.noStrip
            \/ a \notin l.support /\ \E s \in Symbols : l.sym[s].noStrip /\ Stands(l, s, a)
      BY <1>3 DEF NoDeadStripAtoms, HasAtom, Stands
    <2>3. a \in ExportedAtoms(l) <=>
            /\ l.kind = "dylib"
            /\ \E s \in Symbols :
                 /\ ~l.sym[s].hidden
                 /\ \/ Stands(l, s, a)
                    \/ l.sym[s].kind = "Alias" /\ Stands(l, l.sym[s].final, a)
      BY <1>3, Zenon DEF ExportedAtoms, IsExported, HasAtom, Stands
    <2> QED BY <2>1, <2>2, <2>3 DEF Roots, MustStart
  <1> QED BY <1>2, <1>4

\* The edges of build_forward_edges are the references of the rules.
LEMMA ForwardMeetsRules ==
  ASSUME NEW l, IsLink(l), NEW a \in Atoms
  PROVE  /\ Forward(l, a) \subseteq Atoms
         /\ \A b \in Atoms : b \in Forward(l, a) <=> RefersTo(l, a, b)
PROOF
  <1>1. \A s \in Symbols : l.sym[s].atom \in Atoms \cup {NoAtom} /\ l.sym[s].final \in Symbols
    BY Zenon DEF IsLink, SymbolEntry
  <1>2. \A r \in l.relocs : r.atoms \subseteq Atoms
    BY Zenon DEF IsLink, Reloc
  <1>3. \A r \in l.relocs : TargetsOf(l, r) \subseteq Atoms
    BY <1>1, <1>2 DEF TargetsOf, HasAtom
  <1>4. \A e \in l.cie : e[2] \in Atoms /\ e = <<e[1], e[2]>>
    <2>1. l.cie \subseteq Atoms \X Atoms
      BY Zenon DEF IsLink
    <2> QED BY <2>1
  <1>5. Forward(l, a) \subseteq Atoms
    BY <1>3, <1>4, Zenon DEF Forward
  <1>6. ASSUME NEW b \in Atoms PROVE b \in Forward(l, a) <=> RefersTo(l, a, b)
    <2>1. b # NoAtom
      BY DeadStripAssumption DEF NoAtom
    <2>2. \A r \in l.relocs : b \in TargetsOf(l, r) <=>
            \/ b \in r.atoms
            \/ \E s \in Symbols : r.sym = s /\ Stands(l, l.sym[s].final, b)
      BY <2>1, Zenon DEF TargetsOf, HasAtom, Stands
    <2>3. (\E e \in l.cie : e[1] = a /\ e[2] = b) <=> <<a, b>> \in l.cie
      BY <1>4
    <2>4. b \in Forward(l, a) <=>
            /\ a # b
            /\ \/ \E r \in l.relocs : r.from = a /\ b \in TargetsOf(l, r)
               \/ \E e \in l.cie : e[1] = a /\ e[2] = b
      <3> DEFINE named == UNION {TargetsOf(l, r) : r \in {r \in l.relocs : r.from = a}}
                 cies == {e[2] : e \in {e \in l.cie : e[1] = a}}
      <3>1. b \in named <=> \E r \in l.relocs : r.from = a /\ b \in TargetsOf(l, r)
        BY Zenon
      <3>2. b \in cies <=> \E e \in l.cie : e[1] = a /\ e[2] = b
        OBVIOUS
      <3>3. Forward(l, a) = (named \cup cies) \ {a}
        BY DEF Forward
      <3> HIDE DEF named, cies
      <3> QED BY <3>1, <3>2, <3>3
    <2> QED BY <2>2, <2>3, <2>4 DEF RefersTo
  <1> QED BY <1>5, <1>6

\* Edges lead from atoms to atoms.
LEMMA SuccessorsAreAtoms ==
  ASSUME NEW l, IsLink(l), NEW a \in Atoms
  PROVE  /\ Records(l, a) \subseteq Atoms /\ Forward(l, a) \subseteq Atoms
         /\ Supporters(l, a) \subseteq Atoms /\ Successors(l, a) \subseteq Atoms
  BY ForwardMeetsRules, Zenon DEF Records, Supporters, Successors, IsLink

\* An image obeys the rules iff it has the roots and is closed under the edges.
LEMMA ClosedMeetsRules ==
  ASSUME NEW l, IsLink(l), NEW S \in SUBSET Atoms
  PROVE  Closed(l, S) <=>
           Roots(l) \subseteq S /\ \A a \in S : Successors(l, a) \subseteq S
PROOF
  <1>1. Roots(l) \subseteq S <=> \A a \in Atoms : MustStart(l, a) => a \in S
    BY RootsMeetRules, Zenon
  <1>2. \A a \in S : Forward(l, a) \subseteq S <=>
                      \A b \in Atoms : RefersTo(l, a, b) => b \in S
    BY ForwardMeetsRules, Zenon
  <1>3. \A a \in S : Records(l, a) \subseteq S <=>
                      \A b \in Atoms : l.parent[b] = a => b \in S
    BY DEF Records
  <1>4. \A a \in S : Supporters(l, a) \subseteq S <=>
          \A b \in Atoms : b \in l.support /\ a \notin l.support /\ RefersTo(l, b, a)
                             => b \in S
    BY ForwardMeetsRules DEF Supporters, IsLink
  <1> QED BY <1>1, <1>2, <1>3, <1>4 DEF Closed, Successors
-----------------------------------------------------------------------------
\* A live atom is on the worklist or all that it keeps is live.
Scanned ==
  /\ Roots(link) \subseteq live
  /\ \A a \in Atoms : Occurs(a, worklist) => a \in live
  /\ \A a \in live : Occurs(a, worklist) \/ Successors(link, a) \subseteq live

IInv ==
  /\ TypeOK
  /\ pc = "seed" => live = {}
  /\ pc # "seed" => Scanned
  /\ pc = "done" => worklist = <<>>
  /\ OnlyNeededLive

\* The analysis begins in IInv.
LEMMA InitIInv == Init => IInv
PROOF
  <1> SUFFICES ASSUME Init PROVE IInv
    OBVIOUS
  <1>1. cause \in [Atoms -> Causes]
    BY DEF Init, Unset, Causes
  <1>2. TypeOK
    BY <1>1, DeadStripAssumption DEF Init, TypeOK
  <1> QED BY <1>2, Zenon DEF Init, IInv, OnlyNeededLive

\* Seeding the roots keeps IInv.
LEMMA SeedStep ==
  ASSUME IInv, Seed
  PROVE  IInv'
PROOF
  <1> USE DEF IInv
  <1>1. IsLink(link) /\ link' = link /\ live' = Roots(link) /\ pc' = "mark"
    BY DEF TypeOK, Seed
  <1>2. Roots(link) \in SUBSET Atoms
    BY <1>1, RootsMeetRules, Zenon
  <1>3. worklist' \in Listings(Roots(link))
    BY DEF Seed
  <1>4. worklist' \in Seq(Atoms) /\ \A a \in Atoms : a \in Roots(link) <=> Occurs(a, worklist')
    BY <1>2, <1>3, ListingsAreComplete
  <1>5. cause' \in [Atoms -> Causes]
    BY DEF Seed, Rooted, Unset, Causes
  <1>6. TypeOK'
    BY <1>1, <1>2, <1>4, <1>5, Zenon DEF TypeOK
  <1>7. Scanned'
    BY <1>1, <1>2, <1>4 DEF Scanned
  <1>8. OnlyNeededLive'
    BY <1>1, ClosedMeetsRules DEF OnlyNeededLive
  <1> QED BY <1>1, <1>6, <1>7, <1>8

\* One round of the worklist keeps IInv.
LEMMA MarkStep ==
  ASSUME IInv, Mark
  PROVE  IInv'
PROOF
  <1> USE DEF IInv
  <1> DEFINE a == Head(worklist)
             records == Records(link, a) \ live
             targets == Forward(link, a) \ (live \cup records)
             supporters == Supporters(link, a) \ (live \cup records \cup targets)
             front == Tail(worklist)
             queue == ((front \o InOrder(records)) \o InOrder(targets)) \o InOrder(supporters)
  <1>1. /\ IsLink(link) /\ link' = link /\ pc = "mark" /\ pc' = "mark"
        /\ worklist \in Seq(Atoms) /\ worklist # <<>> /\ live \subseteq Atoms
    BY DEF TypeOK, Mark
  <1>2. a \in Atoms /\ a \in live /\ front \in Seq(Atoms)
    BY <1>1, OccursTail DEF Scanned
  <1>3. /\ records \in SUBSET Atoms /\ targets \in SUBSET Atoms
        /\ supporters \in SUBSET Atoms
    BY <1>1, <1>2, SuccessorsAreAtoms, Zenon
  <1>4. live' = live \cup Successors(link, a)
    BY DEF Mark, Successors
  <1>5. worklist' = queue
    BY DEF Mark
  <1>6. /\ InOrder(records) \in Seq(Atoms) /\ InOrder(targets) \in Seq(Atoms)
        /\ InOrder(supporters) \in Seq(Atoms)
    BY <1>3, InOrderLists, Zenon
  <1>7. ASSUME NEW b \in Atoms
        PROVE  Occurs(b, queue) <=>
                 Occurs(b, front) \/ b \in records \/ b \in targets \/ b \in supporters
    <2> HIDE DEF records, targets, supporters, front
    <2>1. /\ Occurs(b, InOrder(records)) <=> b \in records
          /\ Occurs(b, InOrder(targets)) <=> b \in targets
          /\ Occurs(b, InOrder(supporters)) <=> b \in supporters
      BY <1>3, InOrderLists, Zenon
    <2>2. /\ front \o InOrder(records) \in Seq(Atoms)
          /\ Occurs(b, front \o InOrder(records)) <=> Occurs(b, front) \/ b \in records
      BY <1>2, <1>6, <2>1, OccursConcat
    <2>3. /\ (front \o InOrder(records)) \o InOrder(targets) \in Seq(Atoms)
          /\ Occurs(b, (front \o InOrder(records)) \o InOrder(targets)) <=>
               Occurs(b, front) \/ b \in records \/ b \in targets
      BY <1>6, <2>1, <2>2, OccursConcat, Zenon
    <2> QED BY <1>6, <2>1, <2>3, OccursConcat, Zenon
  <1>8. queue \in Seq(Atoms)
    BY <1>2, <1>6, OccursConcat
  <1>9. records \cup targets \cup supporters = Successors(link, a) \ live
    BY Zenon DEF Successors
  <1>10. cause' \in [Atoms -> Causes]
    <2>1. \A k \in {"record", "referenced", "supports"} : [kind |-> k, atom |-> a] \in Causes
      BY <1>2 DEF Causes
    <2>2. cause \in [Atoms -> Causes]
      BY DEF TypeOK
    <2> HIDE DEF a, records, targets, supporters
    <2>3. cause' = [b \in Atoms |->
              CASE b \in records    -> [kind |-> "record", atom |-> a]
                [] b \in targets    -> [kind |-> "referenced", atom |-> a]
                [] b \in supporters -> [kind |-> "supports", atom |-> a]
                [] OTHER            -> cause[b]]
      BY Zenon DEF Mark, a, records, targets, supporters
    <2> QED BY <2>1, <2>2, <2>3, Zenon
  <1>11. Successors(link, a) \subseteq Atoms
    BY <1>1, <1>2, SuccessorsAreAtoms
  <1>12. TypeOK'
    BY <1>1, <1>4, <1>5, <1>8, <1>10, <1>11 DEF TypeOK
  <1>13. \A b \in Atoms : Occurs(b, worklist') <=>
                           Occurs(b, front) \/ b \in Successors(link, a) \ live
    BY <1>5, <1>7, <1>9, Zenon
  <1>14. \A b \in Atoms : /\ Occurs(b, worklist) => b = a \/ Occurs(b, front)
                          /\ Occurs(b, front) => Occurs(b, worklist)
    BY <1>1, OccursTail
  <1> HIDE DEF a, records, targets, supporters, front, queue
  <1>15. Scanned'
    BY <1>1, <1>2, <1>4, <1>11, <1>13, <1>14, Zenon DEF Scanned
  <1>16. OnlyNeededLive'
    BY <1>1, <1>2, <1>4, ClosedMeetsRules DEF OnlyNeededLive
  <1> QED BY <1>1, <1>12, <1>15, <1>16, Zenon

\* Every step keeps IInv.
LEMMA StepIInv == IInv /\ [Next]_vars => IInv'
PROOF
  <1> SUFFICES ASSUME IInv, [Next]_vars PROVE IInv'
    OBVIOUS
  <1>1. CASE Seed
    BY <1>1, SeedStep
  <1>2. CASE Mark
    BY <1>2, MarkStep, Zenon
  <1>3. CASE MarkDone
    BY <1>3 DEF MarkDone, IInv, TypeOK, Scanned, OnlyNeededLive
  <1>4. CASE Over \/ UNCHANGED vars
    BY <1>4 DEF Over, vars, IInv, TypeOK, Scanned, OnlyNeededLive
  <1> QED BY <1>1, <1>2, <1>3, <1>4, Zenon DEF Next

\* The worklist never loses an atom whose edges are still to be followed.
THEOREM Invariance == Spec => []IInv
  BY InitIInv, StepIInv, PTL DEF Spec

\* The state of the analysis keeps its type.
THEOREM TypeCorrect == Spec => []TypeOK
  BY Invariance, PTL DEF IInv

\* At no time is an atom live that some image obeying the rules leaves out.
THEOREM NothingNeedless == Spec => []OnlyNeededLive
  BY Invariance, PTL DEF IInv

\* When DeadStripAnalysis::build returns, its atoms are an image: with
\* NothingNeedless, the least one.
THEOREM NothingMissing == Spec => []ImageIsClosed
PROOF
  <1>1. IInv => ImageIsClosed
    <2> SUFFICES ASSUME IInv, pc = "done" PROVE Closed(link, live)
      BY Zenon DEF ImageIsClosed
    <2>1. IsLink(link) /\ live \in SUBSET Atoms /\ worklist = <<>> /\ Scanned
      BY Zenon DEF IInv, TypeOK
    <2>2. \A a \in live : ~Occurs(a, worklist)
      BY <2>1 DEF Occurs
    <2> QED BY <2>1, <2>2, ClosedMeetsRules DEF Scanned
  <1> QED BY <1>1, Invariance, PTL
-----------------------------------------------------------------------------
(* The explanations of -why_live, along chains of causes of any length.     *)

\* One step up from an atom to what keeps it.
Up(c) == IF cause[c].atom = NoAtom THEN c ELSE cause[c].atom

\* A rank of the live atoms that every step up decreases.
IsRank(d) ==
  /\ d \in [Atoms -> Nat]
  /\ \A a \in live :
       /\ d[a] < Cardinality(live)
       /\ \/ cause[a] = Rooted
          \/ cause[a].atom \in live /\ d[cause[a].atom] < d[a]
Ranked == \E d : IsRank(d)

\* Explanation is the walk its recursive definition describes.
LEMMA ExplanationSteps ==
  ASSUME TypeOK, NEW a \in Atoms, NEW h \in Nat, h = Cardinality(Atoms)
  PROVE  /\ Explanation(a)[0] = a
         /\ \A n \in 1 .. h : Explanation(a)[n] = Up(Explanation(a)[n - 1])
PROOF
  <1> DEFINE F == [i \in Nat |-> [c \in Atoms |-> Up(c)]]
             Body(w) == [n \in 0 .. Cardinality(Atoms) |->
                           IF n = 0 THEN a
                           ELSE LET c == w[n - 1]
                                IN  IF cause[c].atom = NoAtom THEN c ELSE cause[c].atom]
  <1>1. \A c \in Atoms : Up(c) \in Atoms
    BY Zenon DEF TypeOK, Causes, Up
  <1>2. F \in Steppers(Atoms)
    BY <1>1, Zenon DEF Steppers
  <1>3. PICK w : IsRun(Atoms, F, a, h, w)
    <2> HIDE DEF F
    <2> QED BY <1>2, IterationExists
  <1>4. /\ w \in [0 .. h -> Atoms] /\ w[0] = a
        /\ \A i \in 1 .. h : w[i] = Up(w[i - 1])
    <2>1. /\ w \in [0 .. h -> Atoms] /\ w[0] = a
          /\ \A i \in 1 .. h : w[i] = F[i][w[i - 1]]
      <3> HIDE DEF F
      <3> QED BY <1>3, Zenon DEF IsRun
    <2>2. ASSUME NEW i \in 1 .. h PROVE w[i] = Up(w[i - 1])
      <3>1. i \in Nat /\ w[i - 1] \in Atoms
        BY <2>1
      <3>2. F[i][w[i - 1]] = Up(w[i - 1])
        BY <3>1, Zenon
      <3> QED BY <2>1, <3>2
    <2> QED BY <2>1, <2>2
  <1>5. w = Body(w)
    BY <1>4 DEF Up
  <1>6. Explanation(a) = CHOOSE v : v = Body(v)
    BY Zenon DEF Explanation
  <1> DEFINE v == Explanation(a)
  <1>7. v = Body(v)
    <2> HIDE DEF Body
    <2> QED BY <1>5, <1>6, Zenon
  <1> HIDE DEF v
  <1>8. v[0] = a /\ \A n \in 1 .. h : v[n] = Up(v[n - 1])
    <2>1. Body(v)[0] = a /\ \A n \in 1 .. h : Body(v)[n] = Up(v[n - 1])
      BY DEF Up
    <2> HIDE DEF Body
    <2> QED BY <1>7, <2>1, Zenon
  <1> QED BY <1>8 DEF v

\* Where steps up decrease a rank, the walk is at a root after as many steps as
\* there are atoms.
LEMMA RanksEndAtRoots ==
  ASSUME TypeOK, Ranked
  PROVE  ExplanationsEndAtRoots
PROOF
  <1>1. PICK d : IsRank(d)
    BY Zenon DEF Ranked
  <1>2. SUFFICES ASSUME NEW a \in live
                 PROVE  cause[Explanation(a)[Cardinality(Atoms)]] = Rooted
    BY DEF ExplanationsEndAtRoots
  <1> DEFINE h == Cardinality(Atoms)
             w == Explanation(a)
             T(n) == {c \in live : cause[c] = Rooted \/ d[c] + n < h}
  <1>3. live \subseteq Atoms /\ a \in Atoms
    BY DEF TypeOK
  <1>4. h \in Nat /\ Cardinality(live) \in Nat /\ Cardinality(live) <= h
    BY <1>3, DeadStripAssumption, FS_CardinalityType, FS_Subset, Zenon
  <1>5. w[0] = a /\ \A n \in 1 .. h : w[n] = Up(w[n - 1])
    <2> HIDE DEF h
    <2> QED BY <1>3, <1>4, ExplanationSteps DEF h
  <1> HIDE DEF h, w
  <1>6. ASSUME NEW n \in 1 .. h, NEW c \in T(n - 1) PROVE Up(c) \in T(n)
    <2>1. c \in Atoms /\ d[c] \in Nat
      BY <1>1, <1>3 DEF IsRank
    <2>2. CASE cause[c] = Rooted
      BY <2>2 DEF Up, Rooted
    <2>3. CASE cause[c] # Rooted
      <3>1. cause[c].atom \in live /\ d[cause[c].atom] < d[c]
        BY <1>1, <2>3, Zenon DEF IsRank
      <3>2. Up(c) = cause[c].atom
        BY <1>3, <3>1, DeadStripAssumption DEF Up, NoAtom
      <3>3. d[cause[c].atom] \in Nat
        BY <1>1, <1>3, <3>1, Zenon DEF IsRank
      <3>4. d[c] + (n - 1) < h
        BY <2>3
      <3>5. d[cause[c].atom] + n < h
        BY <1>4, <2>1, <3>1, <3>3, <3>4
      <3> QED BY <3>1, <3>2, <3>5, Zenon
    <2> QED BY <2>2, <2>3, Zenon
  <1>7. a \in T(0)
    BY <1>1, <1>2, <1>3, <1>4 DEF IsRank
  <1> DEFINE Good == {n \in Nat : n <= h => w[n] \in T(n)}
  <1>8. 0 \in Good
    BY <1>5, <1>7, Zenon
  <1>9. ASSUME NEW n \in Nat, n \in Good PROVE n + 1 \in Good
    <2> SUFFICES ASSUME n + 1 <= h PROVE w[n + 1] \in T(n + 1)
      OBVIOUS
    <2> HIDE DEF T
    <2>1. n + 1 \in 1 .. h /\ w[n] \in T(n) /\ (n + 1) - 1 = n
      BY <1>4, <1>9
    <2>2. w[n + 1] = Up(w[n])
      BY <1>5, <2>1
    <2> QED BY <1>6, <2>1, <2>2
  <1> HIDE DEF Good
  <1>10. h \in Good
    BY <1>4, <1>8, <1>9, SetInduction
  <1>11. w[h] \in T(h)
    BY <1>4, <1>10 DEF Good
  <1>12. w[h] \in live /\ d[w[h]] \in Nat
    BY <1>1, <1>3, <1>11 DEF IsRank
  <1>13. cause[w[h]] = Rooted
    BY <1>4, <1>11, <1>12
  <1> QED BY <1>13, Zenon DEF h, w

\* Roots have rank 0.
LEMMA SeedRanks ==
  ASSUME IInv, Seed
  PROVE  Ranked'
PROOF
  <1> DEFINE d == [a \in Atoms |-> 0]
  <1>1. live' = Roots(link) /\ Roots(link) \subseteq Atoms
    BY RootsMeetRules DEF IInv, TypeOK, Seed
  <1>2. \A a \in Roots(link) : cause'[a] = Rooted
    BY <1>1, Zenon DEF Seed
  <1>3. ASSUME NEW a \in Roots(link) PROVE 0 < Cardinality(Roots(link))
    <2>1. IsFiniteSet(Roots(link)) /\ Cardinality(Roots(link)) \in Nat
      BY <1>1, AtomSetsFinite
    <2>2. Cardinality(Roots(link)) # 0
      BY <1>3, <2>1, FS_EmptySet
    <2> QED BY <2>1, <2>2
  <1>4. IsRank(d)'
    BY <1>1, <1>2, <1>3, Zenon DEF IsRank
  <1> QED BY <1>4, Zenon DEF Ranked

\* What an atom of the worklist makes live ranks next above it; there is room,
\* since the ranks grow no faster than the set of live atoms.
LEMMA MarkRanks ==
  ASSUME IInv, Mark, Ranked
  PROVE  Ranked'
PROOF
  <1> DEFINE a == Head(worklist)
             new == Successors(link, a) \ live
  <1>1. /\ live' = live \cup new
        /\ \A b \in new : cause'[b].atom = a
        /\ \A b \in live : cause'[b] = cause[b]
        /\ a \in live /\ live \subseteq Atoms /\ new \subseteq Atoms
    <2> DEFINE records == Records(link, a) \ live
               targets == Forward(link, a) \ (live \cup records)
               supporters == Supporters(link, a) \ (live \cup records \cup targets)
    <2>1. /\ IsLink(link) /\ worklist \in Seq(Atoms) /\ worklist # <<>>
          /\ live \subseteq Atoms /\ Scanned
      BY DEF IInv, TypeOK, Mark
    <2>2. a \in Atoms /\ a \in live
      BY <2>1, OccursTail DEF Scanned
    <2>3. new = records \cup targets \cup supporters /\ new \subseteq Atoms
      BY <2>1, <2>2, SuccessorsAreAtoms, Zenon DEF Successors
    <2>4. live' = live \cup records \cup targets \cup supporters
      BY DEF Mark
    <2>5. cause' = [b \in Atoms |->
              CASE b \in records    -> [kind |-> "record", atom |-> a]
                [] b \in targets    -> [kind |-> "referenced", atom |-> a]
                [] b \in supporters -> [kind |-> "supports", atom |-> a]
                [] OTHER            -> cause[b]]
      BY DEF Mark
    <2>6. \A b \in live : b \notin records /\ b \notin targets /\ b \notin supporters
      BY Zenon
    <2> HIDE DEF a, new, records, targets, supporters
    <2> QED BY <2>1, <2>2, <2>3, <2>4, <2>5, <2>6
  <1>2. PICK d : IsRank(d)
    BY DEF Ranked
  <1> DEFINE e == [b \in Atoms |-> IF b \in new THEN d[a] + 1 ELSE d[b]]
  <1> HIDE DEF a, new
  <1>3. /\ Cardinality(live) \in Nat /\ Cardinality(live \cup new) \in Nat
        /\ Cardinality(live) <= Cardinality(live \cup new)
    BY <1>1, AtomSetsFinite, FS_Subset
  <1>4. ASSUME NEW b \in new PROVE Cardinality(live) < Cardinality(live \cup new)
    <2>1. live # live \cup new
      BY <1>4 DEF new
    <2>2. Cardinality(live) # Cardinality(live \cup new)
      <3>1. IsFiniteSet(live \cup new) /\ live \in SUBSET (live \cup new)
        BY <1>1, AtomSetsFinite
      <3> QED BY <2>1, <3>1, FS_Subset, Zenon
    <2> QED BY <1>3, <2>2
  <1>5. d[a] \in Nat /\ d[a] < Cardinality(live) /\ e \in [Atoms -> Nat]
    BY <1>1, <1>2 DEF IsRank
  <1>6. ASSUME NEW b \in live \cup new
        PROVE  /\ e[b] < Cardinality(live \cup new)
               /\ \/ cause'[b] = Rooted
                  \/ cause'[b].atom \in live \cup new /\ e[cause'[b].atom] < e[b]
    <2>1. CASE b \in new
      <3>1. e[b] = d[a] + 1 /\ cause'[b].atom = a /\ e[a] = d[a]
        BY <1>1, <2>1 DEF new
      <3> HIDE DEF e
      <3> QED BY <1>1, <1>3, <1>4, <1>5, <2>1, <3>1
    <2>2. CASE b \in live
      <3>1. cause'[b] = cause[b] /\ e[b] = d[b] /\ d[b] \in Nat /\ d[b] < Cardinality(live)
        BY <1>1, <1>2, <2>2 DEF IsRank, new
      <3>2. cause[b] = Rooted \/ (cause[b].atom \in live /\ d[cause[b].atom] < d[b])
        BY <1>2, <2>2, Zenon DEF IsRank
      <3>3. cause[b].atom \in live => e[cause[b].atom] = d[cause[b].atom]
        BY <1>1 DEF new
      <3> HIDE DEF e
      <3> QED BY <1>3, <3>1, <3>2, <3>3
    <2> QED BY <2>1, <2>2
  <1> HIDE DEF e
  <1>7. PICK f : f = e
    OBVIOUS
  <1>8. IsRank(f)'
    BY <1>1, <1>5, <1>6, <1>7, Zenon DEF IsRank
  <1> QED BY <1>8 DEF Ranked

\* The chain that -why_live prints for any live atom ends at a root, in any
\* link and at any time of the analysis.
THEOREM ExplanationsEnd == Spec => []ExplanationsEndAtRoots
PROOF
  <1>1. Init => Ranked
    <2> SUFFICES ASSUME Init PROVE Ranked
      OBVIOUS
    <2>1. IsRank([a \in Atoms |-> 0])
      BY DEF Init, IsRank
    <2> QED BY <2>1, Zenon DEF Ranked
  <1>2. IInv /\ Ranked /\ [Next]_vars => Ranked'
    <2> SUFFICES ASSUME IInv, Ranked, [Next]_vars PROVE Ranked'
      OBVIOUS
    <2>1. CASE Seed
      BY <2>1, SeedRanks
    <2>2. CASE Mark
      BY <2>2, MarkRanks, Zenon
    <2>3. CASE MarkDone \/ Over \/ UNCHANGED vars
      BY <2>3 DEF MarkDone, Over, vars, Ranked, IsRank
    <2> QED BY <2>1, <2>2, <2>3, Zenon DEF Next
  <1>3. IInv /\ Ranked => ExplanationsEndAtRoots
    BY RanksEndAtRoots DEF IInv
  <1> QED BY <1>1, <1>2, <1>3, Invariance, PTL DEF Spec
-----------------------------------------------------------------------------
(* Folding. *)

Stages == {"idle", "group", "fold", "rebind", "folded"}

\* Before it starts, folding has done nothing; it starts once stripping is over.
Waiting ==
  /\ stage = "idle" => /\ kept = {} /\ redirect = [a \in Atoms |-> NoAtom]
                       /\ bound = [s \in Symbols |-> link.sym[s].atom]
  /\ stage # "idle" => link.icf /\ (link.strip => pc = "done")

\* An atom of the image is kept or folded, and then a kept one stands for it.
Placed ==
  /\ kept \subseteq Base
  /\ \A a \in Atoms : redirect[a] # NoAtom => a \in Base \ kept
  /\ stage # "idle" => \A a \in Base : Canonical(a) \in kept

\* The buckets of a round hold candidates that are the same up to the folds made
\* so far, and share none.
Bucketed ==
  /\ buckets # {} => stage = "fold"
  /\ \A B \in buckets :
       /\ B \subseteq kept
       /\ \E a, b \in B : a # b
       /\ \A a \in B : Foldable(link, a)
       /\ \A a, b \in B : SameCode(link, Kernel, a, b)
  /\ \A B, C \in buckets : B = C \/ B \cap C = {}

\* What stands for an atom is the same up to the folds made so far and comes
\* before it; neither has an address that shows.
StandIns ==
  /\ \A a \in Atoms : redirect[a] # NoAtom =>
       Foldable(link, a) /\ Foldable(link, redirect[a])
  /\ \A a \in Atoms : Canonical(a) # a =>
       SameCode(link, Kernel, a, Canonical(a)) /\ FoldOrder(link, Canonical(a), a)

\* A round that finds no bucket leaves no two atoms that could be merged.
Exhausted ==
  stage \in {"rebind", "folded"} \/ (stage = "fold" /\ buckets = {} /\ ~changed) =>
    \A a, b \in kept : a # b /\ Mergeable(link, a) /\ Mergeable(link, b)
                         => ~SameCode(link, Kernel, a, b)
-----------------------------------------------------------------------------
(* The invariant of folding. *)

FoldInv ==
  /\ link \in Links
  /\ stage \in Stages /\ changed \in BOOLEAN
  /\ ChainsEnd(redirect)
  /\ Waiting /\ Placed /\ BoundTo /\ Bucketed /\ StandIns /\ Exhausted

\* What is known of a link that is folded.
LEMMA LinkFacts ==
  ASSUME FoldInv
  PROVE  /\ IsLink(link) /\ link.strip \in BOOLEAN
         /\ stage # "idle" => link.icf /\ IsFoldLink(link)
  BY DeadStripAssumption, FoldAssumption DEF FoldInv, Waiting

\* Standing for the same atom is an equivalence.
LEMMA KernelIsEquivalence ==
  ASSUME ChainsEnd(redirect)
  PROVE  IsEquivalence(Kernel) /\ Kernel \subseteq Atoms \X Atoms
  BY Zenon DEF IsEquivalence, Kernel

\* Folding begins in FoldInv.
LEMMA InitFoldInv == AtomsInit => FoldInv
PROOF
  <1> SUFFICES ASSUME AtomsInit PROVE FoldInv
    OBVIOUS
  <1> USE DEF AtomsInit, Init, FoldInit
  <1>1. IsLink(link) /\ link \in Links
    BY DeadStripAssumption
  <1>2. ChainsEnd(redirect)
    BY NoChains, Zenon
  <1>3. \A a \in Atoms : redirect[a] = NoAtom /\ Canonical(a) = a
    BY <1>2, ChainFacts DEF Canonical
  <1>4. Waiting
    BY Zenon DEF Waiting
  <1>5. Placed
    BY <1>3 DEF Placed, Base
  <1>6. BoundTo
    <2>1. \A s \in Symbols : link.sym[s].atom \in Atoms \cup {NoAtom}
      BY <1>1 DEF IsLink, SymbolEntry
    <2>2. \A s \in Symbols : bound[s] = link.sym[s].atom
      BY Zenon
    <2>3. bound \in [Symbols -> Atoms \cup {NoAtom}]
      BY <2>1
    <2> QED BY <2>2, <2>3 DEF BoundTo
  <1>7. Bucketed
    BY DEF Bucketed
  <1>8. StandIns
    BY <1>3, Zenon DEF StandIns
  <1>9. Exhausted
    BY DEF Exhausted
  <1> QED BY <1>1, <1>2, <1>4, <1>5, <1>6, <1>7, <1>8, <1>9, Zenon DEF FoldInv, Stages

\* What a step leaves alone.
LEMMA SameRedirects ==
  ASSUME redirect' = redirect, link' = link
  PROVE  /\ \A a : Canonical(a)' = Canonical(a)
         /\ Kernel' = Kernel /\ (StandIns' <=> StandIns)
         /\ (ChainsEnd(redirect)' <=> ChainsEnd(redirect))
PROOF
  <1>1. \A a : Canonical(a)' = Canonical(a)
    BY DEF Canonical
  <1>2. Kernel' = Kernel
    BY <1>1 DEF Kernel
  <1>3. StandIns' <=> StandIns
    BY <1>1, <1>2, Zenon DEF StandIns
  <1> QED BY <1>1, <1>2, <1>3

\* Steps in which nothing changes.
LEMMA StillFoldInv ==
  ASSUME FoldInv, UNCHANGED <<vars, fvars>>
  PROVE  FoldInv'
PROOF
  <1> USE DEF vars, fvars
  <1>1. /\ \A a : Canonical(a)' = Canonical(a)
        /\ Kernel' = Kernel /\ (StandIns' <=> StandIns)
        /\ (ChainsEnd(redirect)' <=> ChainsEnd(redirect))
    BY SameRedirects
  <1>2. Waiting' /\ Placed'
    BY <1>1, Zenon DEF FoldInv, Waiting, Placed, Base
  <1>3. BoundTo'
    BY <1>1 DEF FoldInv, BoundTo
  <1>4. Bucketed' /\ Exhausted'
    BY <1>1 DEF FoldInv, Bucketed, Exhausted
  <1> QED BY <1>1, <1>2, <1>3, <1>4 DEF FoldInv

\* Stripping is over before folding begins.
LEMMA StripStepFoldInv ==
  ASSUME FoldInv, StripStep
  PROVE  FoldInv'
PROOF
  <1>1. CASE UNCHANGED vars
    BY <1>1, StillFoldInv, Zenon DEF StripStep
  <1>2. CASE pc # "done"
    <2>1. link' = link /\ UNCHANGED fvars /\ link.strip
      BY DEF StripStep, Next, Seed, Mark, MarkDone, Over, vars
    <2> USE <2>1 DEF fvars
    <2>2. stage = "idle"
      BY <1>2 DEF FoldInv, Waiting
    <2>3. /\ \A a : Canonical(a)' = Canonical(a)
          /\ Kernel' = Kernel /\ (StandIns' <=> StandIns)
          /\ (ChainsEnd(redirect)' <=> ChainsEnd(redirect))
      BY SameRedirects
    <2>4. Waiting'
      BY <2>2 DEF FoldInv, Waiting
    <2>5. kept' = {} /\ redirect' = [a \in Atoms |-> NoAtom]
      BY <2>2 DEF FoldInv, Waiting
    <2>6. Placed'
      BY <2>2, <2>5 DEF Placed
    <2>7. BoundTo'
      BY <2>3 DEF FoldInv, BoundTo
    <2>8. Bucketed' /\ Exhausted'
      BY <2>3 DEF FoldInv, Bucketed, Exhausted
    <2> QED BY <2>3, <2>4, <2>6, <2>7, <2>8 DEF FoldInv
  <1>3. CASE pc = "done" /\ ~UNCHANGED vars
    BY <1>3 DEF StripStep, Next, Seed, Mark, MarkDone, Over
  <1> QED BY <1>1, <1>2, <1>3

\* Folding begins with what stripping left.
LEMMA StartFoldStep ==
  ASSUME FoldInv, live \subseteq Atoms, StartFold, UNCHANGED vars
  PROVE  FoldInv'
PROOF
  <1> USE DEF StartFold, vars
  <1>1. /\ \A a : Canonical(a)' = Canonical(a)
        /\ Kernel' = Kernel /\ (StandIns' <=> StandIns)
        /\ (ChainsEnd(redirect)' <=> ChainsEnd(redirect))
    BY SameRedirects
  <1>2. kept' = Base /\ Base' = Base /\ Base \subseteq Atoms
    BY DEF Base
  <1>3. \A a \in Atoms : redirect[a] = NoAtom /\ Canonical(a) = a
    BY ChainFacts DEF FoldInv, Waiting, Canonical
  <1>4. Waiting'
    BY DEF Waiting
  <1>5. Placed'
    BY <1>1, <1>2, <1>3, Zenon DEF Placed
  <1>6. BoundTo'
    BY <1>1 DEF FoldInv, BoundTo
  <1>7. Bucketed' /\ Exhausted'
    BY Zenon DEF FoldInv, Bucketed, Exhausted
  <1> QED BY <1>1, <1>4, <1>5, <1>6, <1>7, Zenon DEF FoldInv, Stages

\* Sets of atoms with more than one.
LEMMA MoreThanOne ==
  ASSUME NEW B \in SUBSET Atoms
  PROVE  Cardinality(B) > 1 <=> \E a, b \in B : a # b
PROOF
  <1>1. IsFiniteSet(B) /\ Cardinality(B) \in Nat /\ (B # {} => Cardinality(B) # 0)
    BY AtomsCounted, Zenon
  <1>2. ASSUME Cardinality(B) > 1 PROVE \E a, b \in B : a # b
    <2>1. B # {} /\ \A x : B # {x}
      BY <1>1, <1>2, FS_EmptySet, FS_Singleton
    <2>2. PICK a \in B : TRUE
      BY <2>1, Zenon
    <2>3. PICK b \in B : b # a
      BY <2>1, <2>2
    <2> QED BY <2>2, <2>3
  <1>3. ASSUME NEW a \in B, NEW b \in B, a # b PROVE Cardinality(B) > 1
    <2>1. Cardinality(B) # 0
      BY <1>1, <1>3
    <2>2. Cardinality(B) # 1
      <3>1. \A x : B # {x}
        BY <1>3
      <3> QED BY <1>1, <3>1, FS_Singleton, Zenon
    <2> QED BY <1>1, <2>1, <2>2
  <1> QED BY <1>2, <1>3

\* The buckets of a round are classes of equal candidates.
LEMMA GroupStep ==
  ASSUME FoldInv, live \subseteq Atoms, Group, UNCHANGED vars
  PROVE  FoldInv'
PROOF
  <1> DEFINE C == {a \in kept : Foldable(link, a)}
             same(a) == {b \in C : FoldKey(link, b) = FoldKey(link, a)}
  <1>1. /\ stage = "group" /\ stage' = "fold" /\ changed' = FALSE
        /\ link' = link /\ live' = live /\ pc' = pc
        /\ kept' = kept /\ redirect' = redirect /\ bound' = bound
    BY DEF Group, vars
  <1>2. buckets' = {B \in {same(a) : a \in C} : Cardinality(B) > 1}
    <2> DEFINE key == [a \in C |-> FoldKey(link, a)]
               eq(a) == {b \in C : key[b] = key[a]}
    <2>1. buckets' = {B \in {eq(a) : a \in C} : Cardinality(B) > 1}
      BY Zenon DEF Group
    <2>2. \A a \in C : key[a] = FoldKey(link, a)
      OBVIOUS
    <2> HIDE DEF key, C
    <2>3. \A a \in C : eq(a) = same(a)
      BY <2>2, Zenon
    <2> HIDE DEF eq, same
    <2>4. {eq(a) : a \in C} = {same(a) : a \in C}
      BY <2>3
    <2> QED BY <2>1, <2>4
  <1>3. IsLink(link) /\ IsFoldLink(link) /\ BoundTo
    BY <1>1, LinkFacts DEF FoldInv
  <1>4. kept \subseteq Atoms
    BY DEF FoldInv, Placed, Base
  <1>5. /\ \A a : Canonical(a)' = Canonical(a)
        /\ Kernel' = Kernel /\ (StandIns' <=> StandIns)
        /\ (ChainsEnd(redirect)' <=> ChainsEnd(redirect))
    BY <1>1, SameRedirects
  <1>6. Waiting' /\ Placed'
    BY <1>1, <1>5 DEF FoldInv, Waiting, Placed, Base
  <1>7. BoundTo'
    BY <1>1, <1>5, Zenon DEF FoldInv, BoundTo
  <1>8. \A B \in buckets' : (\E a \in C : B = same(a)) /\ B \in SUBSET Atoms /\ Cardinality(B) > 1
    BY <1>2, <1>4
  <1>9. Bucketed'
    <2>1. ASSUME NEW B \in buckets'
          PROVE  /\ B \subseteq kept /\ \E a, b \in B : a # b
                 /\ \A a \in B : Foldable(link, a)
                 /\ \A a, b \in B : SameCode(link, Kernel, a, b)
      <3>1. PICK c \in C : B = same(c)
        BY <1>8, Zenon
      <3>2. B \subseteq kept /\ \A a \in B : Foldable(link, a)
        BY <3>1
      <3>3. \E a, b \in B : a # b
        BY <1>8, MoreThanOne
      <3>4. ASSUME NEW a \in B, NEW b \in B PROVE SameCode(link, Kernel, a, b)
        <4>1. FoldKey(link, a) = FoldKey(link, b)
          BY <3>1, Zenon
        <4> QED BY <1>3, <3>2, <4>1, EqualKeys
      <3> QED BY <3>2, <3>3, <3>4
    <2>2. ASSUME NEW B \in buckets', NEW D \in buckets', B \cap D # {} PROVE B = D
      <3>1. PICK b \in C : B = same(b)
        BY <1>8, Zenon
      <3>2. PICK d \in C : D = same(d)
        BY <1>8
      <3>3. PICK a \in C : FoldKey(link, a) = FoldKey(link, b) /\ FoldKey(link, a) = FoldKey(link, d)
        BY <2>2, <3>1, <3>2
      <3>4. same(b) = same(d)
        BY <3>3
      <3> QED BY <3>1, <3>2, <3>4
    <2> QED BY <1>1, <1>5, <2>1, <2>2 DEF Bucketed
  <1>10. Exhausted'
    <2> SUFFICES ASSUME buckets' = {}, NEW a \in kept, NEW b \in kept, a # b,
                        Mergeable(link, a), Mergeable(link, b), SameCode(link, Kernel, a, b)
                 PROVE  FALSE
      BY <1>1, <1>5, Zenon DEF Exhausted
    <2>1. FoldKey(link, a) = FoldKey(link, b)
      BY <1>3, MergeableKeys
    <2>2. a \in C /\ b \in C
      BY <1>3, <1>4, MergeableFoldable, Zenon
    <2>3. a \in same(a) /\ b \in same(a) /\ same(a) \in SUBSET Atoms
      BY <1>4, <2>1, <2>2
    <2>4. Cardinality(same(a)) > 1
      <3> HIDE DEF same
      <3> QED BY <2>3, MoreThanOne, Zenon
    <2>5. same(a) \in buckets'
      <3> HIDE DEF same, C
      <3> QED BY <1>2, <2>2, <2>4
    <2> QED BY <2>5
  <1> QED BY <1>1, <1>5, <1>6, <1>7, <1>9, <1>10, Zenon DEF FoldInv, Stages

\* A bucket is folded into its first atom.
LEMMA FoldBucketStep ==
  ASSUME FoldInv, live \subseteq Atoms, FoldBucket, UNCHANGED vars
  PROVE  FoldInv'
PROOF
  <1>1. /\ stage = "fold" /\ stage' = stage /\ changed' = TRUE
        /\ link' = link /\ live' = live /\ pc' = pc
    BY DEF FoldBucket, vars
  <1>2. PICK B \in buckets :
          LET winner == FirstOf(link, B)
              losers == B \ {winner}
          IN  /\ buckets' = buckets \ {B}
              /\ redirect' = [a \in Atoms |-> IF a \in losers THEN winner ELSE redirect[a]]
              /\ kept' = kept \ losers
              /\ bound' = [s \in Symbols |-> IF HasAtom(link, s) /\ link.sym[s].atom \in losers
                                               THEN winner ELSE bound[s]]
    BY DEF FoldBucket
  <1> DEFINE w == FirstOf(link, B)
             L == B \ {w}
  <1>3. /\ buckets' = buckets \ {B}
        /\ redirect' = [a \in Atoms |-> IF a \in L THEN w ELSE redirect[a]]
        /\ kept' = kept \ L
        /\ bound' = [s \in Symbols |-> IF HasAtom(link, s) /\ link.sym[s].atom \in L
                                         THEN w ELSE bound[s]]
    BY <1>2, Zenon
  <1>4. IsLink(link) /\ IsFoldLink(link) /\ ChainsEnd(redirect)
    BY <1>1, LinkFacts DEF FoldInv
  <1>5. /\ B \subseteq kept /\ \E a, b \in B : a # b
        /\ \A a \in B : Foldable(link, a)
        /\ \A a, b \in B : SameCode(link, Kernel, a, b)
    BY Zenon DEF FoldInv, Bucketed
  <1>6. kept \subseteq Atoms /\ B \in SUBSET Atoms /\ B # {}
    BY <1>5, Zenon DEF FoldInv, Placed, Base
  <1>7. w \in B /\ \A b \in B : b = w \/ FoldOrder(link, w, b)
    BY <1>4, <1>6, FirstExists
  <1> HIDE DEF w
  <1>8. L \in SUBSET Atoms /\ L # {} /\ w \in Atoms \ L /\ L \subseteq B
    BY <1>5, <1>6, <1>7
  <1>9. \A a \in L \cup {w} : redirect[a] = NoAtom
    BY <1>5, <1>6, <1>7, Zenon DEF FoldInv, Placed
  <1> HIDE DEF L
  <1>10. /\ ChainsEnd(redirect')
         /\ \A a \in Atoms : CanonicalAtom(redirect', a) =
              IF CanonicalAtom(redirect, a) \in L THEN w ELSE CanonicalAtom(redirect, a)
    <2> DEFINE new == [a \in Atoms |-> IF a \in L THEN w ELSE redirect[a]]
    <2>1. /\ ChainsEnd(new)
          /\ \A a \in Atoms : CanonicalAtom(new, a) =
               IF CanonicalAtom(redirect, a) \in L THEN w ELSE CanonicalAtom(redirect, a)
      <3>1. PICK red : red = redirect
        OBVIOUS
      <3>2. PICK n : n = [a \in Atoms |-> IF a \in L THEN w ELSE red[a]]
        BY Zenon
      <3>3. /\ ChainsEnd(n)
            /\ \A a \in Atoms : CanonicalAtom(n, a) =
                 IF CanonicalAtom(red, a) \in L THEN w ELSE CanonicalAtom(red, a)
        BY <1>4, <1>8, <1>9, <3>1, <3>2, ChainsGrow
      <3>4. n = new
        BY <3>1, <3>2
      <3> HIDE DEF new
      <3> QED BY <3>1, <3>3, <3>4
    <2>2. redirect' = new
      BY <1>3, Zenon
    <2> HIDE DEF new
    <2> QED BY <2>1, <2>2
  <1>11. \A a \in Atoms : Canonical(a)' = IF Canonical(a) \in L THEN w ELSE Canonical(a)
    BY <1>10 DEF Canonical
  <1>12. \A a \in Atoms : /\ Canonical(a) \in Atoms /\ redirect[Canonical(a)] = NoAtom
                          /\ redirect[a] = NoAtom => Canonical(a) = a
    BY <1>4, ChainFacts DEF Canonical
  <1>13. Kernel \subseteq Kernel'
    BY <1>11 DEF Kernel
  <1>14. IsEquivalence(Kernel) /\ IsEquivalence(Kernel')
    <2>1. IsEquivalence(Kernel)
      BY <1>4, KernelIsEquivalence
    <2>2. IsEquivalence(Kernel')
      BY DEF IsEquivalence, Kernel
    <2> QED BY <2>1, <2>2
  <1>15. \A a, b : SameCode(link, Kernel, a, b) => SameCode(link, Kernel', a, b)
    BY <1>4, <1>13, <1>14, SameCodeLaws, Zenon
  <1>16. Waiting'
    BY <1>1 DEF FoldInv, Waiting
  <1>17. Placed'
    <2>1. Base' = Base
      BY <1>1 DEF Base
    <2>2. \A a \in Atoms : redirect'[a] # NoAtom => a \in Base \ kept'
      BY <1>3, <1>5, <1>8, Zenon DEF FoldInv, Placed
    <2>3. ASSUME NEW a \in Base PROVE Canonical(a)' \in kept'
      <3>1. Canonical(a) \in kept /\ a \in Atoms
        BY <1>1 DEF FoldInv, Placed, Base
      <3> QED BY <1>3, <1>5, <1>7, <1>8, <1>11, <3>1
    <2>4. kept' \subseteq Base
      BY <1>3, Zenon DEF FoldInv, Placed
    <2> QED BY <2>1, <2>2, <2>3, <2>4 DEF Placed
  <1>18. BoundTo'
    <2>1. bound \in [Symbols -> Atoms \cup {NoAtom}] /\ NoAtom \notin Atoms
      BY AtomsCounted, Zenon DEF FoldInv, BoundTo
    <2>2. bound' \in [Symbols -> Atoms \cup {NoAtom}]
      BY <1>3, <1>8, <2>1
    <2>3. ASSUME NEW s \in Symbols
          PROVE  /\ bound'[s] = NoAtom <=> link.sym[s].atom = NoAtom
                 /\ HasAtom(link, s) => (Canonical(bound[s]) = Canonical(link.sym[s].atom))'
      <3>1. /\ bound[s] = NoAtom <=> link.sym[s].atom = NoAtom
            /\ HasAtom(link, s) => Canonical(bound[s]) = Canonical(link.sym[s].atom)
            /\ bound[s] \in Atoms \cup {NoAtom} /\ link.sym[s].atom \in Atoms \cup {NoAtom}
        BY <1>4, <2>1 DEF FoldInv, BoundTo, IsLink, SymbolEntry
      <3>2. CASE HasAtom(link, s) /\ link.sym[s].atom \in L
        <4>1. bound'[s] = w
          BY <1>3, <3>2
        <4>2. Canonical(w) = w /\ Canonical(link.sym[s].atom) = link.sym[s].atom
          BY <1>8, <1>9, <1>12, <3>2, Zenon
        <4>3. CanonicalAtom(redirect', w) = w /\ CanonicalAtom(redirect', link.sym[s].atom) = w
          BY <1>8, <1>10, <3>2, <4>2 DEF Canonical
        <4>4. (Canonical(bound[s]) = Canonical(link.sym[s].atom))'
          BY <1>1, <4>1, <4>3, Zenon DEF Canonical
        <4> QED BY <1>8, <2>1, <3>2, <4>1, <4>4, Zenon
      <3>3. CASE ~(HasAtom(link, s) /\ link.sym[s].atom \in L)
        <4>1. bound'[s] = bound[s]
          BY <1>3, <3>3, Zenon
        <4>2. ASSUME HasAtom(link, s)
              PROVE  (Canonical(bound[s]) = Canonical(link.sym[s].atom))'
          <5>1. /\ bound[s] \in Atoms /\ link.sym[s].atom \in Atoms
                /\ CanonicalAtom(redirect, bound[s]) = CanonicalAtom(redirect, link.sym[s].atom)
            BY <3>1, <4>2, Zenon DEF HasAtom, Canonical
          <5>2. CanonicalAtom(redirect', bound[s]) = CanonicalAtom(redirect', link.sym[s].atom)
            BY <1>10, <5>1
          <5> QED BY <1>1, <4>1, <5>2 DEF Canonical
        <4> QED BY <3>1, <4>1, <4>2
      <3> QED BY <3>2, <3>3, Zenon
    <2> QED BY <1>1, <2>2, <2>3 DEF BoundTo
  <1>19. Bucketed'
    <2>1. ASSUME NEW D \in buckets'
          PROVE  /\ D \subseteq kept' /\ \E a, b \in D : a # b
                 /\ \A a \in D : Foldable(link, a)
                 /\ \A a, b \in D : SameCode(link, Kernel', a, b)
      <3>1. D \in buckets /\ D # B
        BY <1>3, Zenon
      <3>2. /\ D \subseteq kept /\ \E a, b \in D : a # b
            /\ \A a \in D : Foldable(link, a)
            /\ \A a, b \in D : SameCode(link, Kernel, a, b)
            /\ D \cap B = {}
        BY <3>1 DEF FoldInv, Bucketed
      <3> QED BY <1>3, <1>8, <1>15, <3>2
    <2>2. \A D, E \in buckets' : D = E \/ D \cap E = {}
      BY <1>3 DEF FoldInv, Bucketed
    <2> QED BY <1>1, <2>1, <2>2, Zenon DEF Bucketed
  <1>20. StandIns'
    <2>1. ASSUME NEW a \in Atoms, redirect'[a] # NoAtom
          PROVE  Foldable(link, a) /\ Foldable(link, redirect'[a])
      <3>1. CASE a \in L
        BY <1>3, <1>5, <1>7, <1>8, <3>1, Zenon
      <3>2. CASE a \notin L
        BY <1>3, <2>1, <3>2 DEF FoldInv, StandIns
      <3> QED BY <3>1, <3>2
    <2>2. ASSUME NEW a \in Atoms, Canonical(a)' # a
          PROVE  SameCode(link, Kernel', a, Canonical(a)') /\ FoldOrder(link, Canonical(a)', a)
      <3>1. CASE Canonical(a) \in L
        <4>1. Canonical(a)' = w
          BY <1>11, <3>1, Zenon
        <4>2. /\ SameCode(link, Kernel', Canonical(a), w)
              /\ FoldOrder(link, w, Canonical(a))
          BY <1>5, <1>7, <1>8, <1>15, <3>1
        <4>3. CASE Canonical(a) = a
          BY <4>1, <4>2, <4>3
        <4>4. CASE Canonical(a) # a
          <5>1. SameCode(link, Kernel', a, Canonical(a)) /\ FoldOrder(link, Canonical(a), a)
            BY <1>15, <4>4 DEF FoldInv, StandIns
          <5>2. SameCode(link, Kernel', a, w)
            BY <1>4, <1>14, <4>2, <5>1, SameCodeLaws, Zenon
          <5>3. FoldOrder(link, w, a)
            BY <1>4, <1>8, <1>12, <4>2, <5>1, FoldOrderLaws
          <5> QED BY <4>1, <5>2, <5>3, Zenon
        <4> QED BY <4>3, <4>4
      <3>2. CASE Canonical(a) \notin L
        <4>1. Canonical(a)' = Canonical(a)
          BY <1>11, <3>2, Zenon
        <4> QED BY <1>15, <2>2, <4>1 DEF FoldInv, StandIns
      <3> QED BY <3>1, <3>2, Zenon
    <2> QED BY <1>1, <2>1, <2>2, Zenon DEF StandIns
  <1>21. Exhausted'
    BY <1>1 DEF Exhausted
  <1> QED BY <1>1, <1>10, <1>16, <1>17, <1>18, <1>19, <1>20, <1>21, Zenon DEF FoldInv

\* A round ends.
LEMMA EndRoundStep ==
  ASSUME FoldInv, EndRound, UNCHANGED vars
  PROVE  FoldInv'
PROOF
  <1> USE DEF EndRound, vars
  <1>1. /\ \A a : Canonical(a)' = Canonical(a)
        /\ Kernel' = Kernel /\ (StandIns' <=> StandIns)
        /\ (ChainsEnd(redirect)' <=> ChainsEnd(redirect))
    BY SameRedirects
  <1>2. Waiting' /\ Placed'
    BY <1>1 DEF FoldInv, Waiting, Placed, Base
  <1>3. BoundTo'
    BY <1>1, Zenon DEF FoldInv, BoundTo
  <1>4. Bucketed'
    BY DEF Bucketed
  <1>5. Exhausted'
    BY <1>1 DEF FoldInv, Exhausted
  <1> QED BY <1>1, <1>2, <1>3, <1>4, <1>5 DEF FoldInv, Stages

\* Symbols are bound to what stands for their atoms.
LEMMA RebindStep ==
  ASSUME FoldInv, Rebind, UNCHANGED vars
  PROVE  FoldInv'
PROOF
  <1>0. /\ stage = "rebind" /\ stage' = "folded"
        /\ kept' = kept /\ redirect' = redirect /\ buckets' = buckets /\ changed' = changed
        /\ link' = link /\ live' = live /\ pc' = pc
    BY DEF Rebind, vars
  <1>1. /\ \A a : Canonical(a)' = Canonical(a)
        /\ Kernel' = Kernel /\ (StandIns' <=> StandIns)
        /\ (ChainsEnd(redirect)' <=> ChainsEnd(redirect))
    BY <1>0, SameRedirects
  <1>2. Waiting' /\ Placed'
    BY <1>0, <1>1, Zenon DEF FoldInv, Waiting, Placed, Base
  <1>3. BoundTo'
    <2>1. bound \in [Symbols -> Atoms \cup {NoAtom}] /\ NoAtom \notin Atoms
      BY AtomsCounted, Zenon DEF FoldInv, BoundTo
    <2>2. \A a \in Atoms : Canonical(a) \in Atoms /\ Canonical(Canonical(a)) = Canonical(a)
      BY ChainFacts DEF FoldInv, Canonical
    <2>3. bound' = [s \in Symbols |-> IF link.sym[s].kind = "Defined" /\ bound[s] # NoAtom
                                        THEN Canonical(bound[s]) ELSE bound[s]]
      BY DEF Rebind, Canonical
    <2>4. bound' \in [Symbols -> Atoms \cup {NoAtom}]
      BY <2>1, <2>2, <2>3, Zenon
    <2>5. ASSUME NEW s \in Symbols
          PROVE  /\ bound'[s] = NoAtom <=> link.sym[s].atom = NoAtom
                 /\ HasAtom(link, s) => /\ bound'[s] = Canonical(link.sym[s].atom)
                                        /\ Canonical(bound'[s]) = Canonical(link.sym[s].atom)
      <3>1. /\ bound[s] = NoAtom <=> link.sym[s].atom = NoAtom
            /\ HasAtom(link, s) => Canonical(bound[s]) = Canonical(link.sym[s].atom)
            /\ bound[s] \in Atoms \cup {NoAtom}
        BY <2>1 DEF FoldInv, BoundTo
      <3>2. bound'[s] = NoAtom <=> link.sym[s].atom = NoAtom
        BY <2>1, <2>2, <2>3, <3>1, Zenon
      <3>3. ASSUME HasAtom(link, s)
            PROVE  /\ bound'[s] = Canonical(link.sym[s].atom)
                   /\ Canonical(bound'[s]) = Canonical(link.sym[s].atom)
        <4>1. link.sym[s].kind = "Defined" /\ bound[s] # NoAtom
          BY <3>1, <3>3 DEF HasAtom
        <4>2. bound'[s] = Canonical(bound[s])
          BY <2>3, <4>1, Zenon
        <4> QED BY <2>2, <3>1, <3>3, <4>1, <4>2
      <3> QED BY <3>2, <3>3
    <2>6. ASSUME NEW s \in Symbols
          PROVE  (Canonical(bound[s]))' = Canonical(bound'[s])
                   /\ (Canonical(link.sym[s].atom))' = Canonical(link.sym[s].atom)
      BY <1>0 DEF Canonical
    <2> QED BY <1>0, <2>4, <2>5, <2>6 DEF BoundTo
  <1>4. Bucketed'
    BY <1>0, <1>1 DEF FoldInv, Bucketed
  <1>5. Exhausted'
    BY <1>0, <1>1, Zenon DEF FoldInv, Exhausted
  <1> QED BY <1>0, <1>1, <1>2, <1>3, <1>4, <1>5, Zenon DEF FoldInv, Stages

\* Every step keeps FoldInv.
LEMMA StepFoldInv == FoldInv /\ IInv /\ [AtomsNext]_<<vars, fvars>> => FoldInv'
PROOF
  <1> SUFFICES ASSUME FoldInv, IInv, [AtomsNext]_<<vars, fvars>> PROVE FoldInv'
    BY Zenon
  <1>1. live \subseteq Atoms
    BY DEF IInv, TypeOK
  <1>2. CASE StripStep
    BY <1>2, StripStepFoldInv
  <1>3. CASE FoldStep
    BY <1>1, <1>3, StartFoldStep, GroupStep, FoldBucketStep, EndRoundStep, RebindStep
       DEF FoldStep, FoldNext
  <1>4. CASE ImageOver \/ UNCHANGED <<vars, fvars>>
    BY <1>4, StillFoldInv DEF ImageOver
  <1> QED BY <1>2, <1>3, <1>4 DEF AtomsNext

\* With folding after it, stripping is still the analysis of DeadStrip: all that
\* is proved of that holds of it.
THEOREM StrippingUndisturbed == AtomsSpec => Spec
PROOF
  <1>1. AtomsInit => Init
    BY DEF AtomsInit
  <1>2. [AtomsNext]_<<vars, fvars>> => [Next]_vars
    BY DEF AtomsNext, StripStep, FoldStep, ImageOver
  <1> QED BY <1>1, <1>2, PTL DEF AtomsSpec, Spec

\* The invariant of folding holds in every link.
THEOREM FoldInvariance == AtomsSpec => []FoldInv
  BY InitFoldInv, StepFoldInv, StrippingUndisturbed, Invariance, PTL DEF AtomsSpec

\* Folding cannot be told from outside, in any link: what stands for an atom has
\* the same contents and leads to the same places, no address that shows is
\* merged with another, and no reference is left without a target.
THEOREM FoldsSoundly == AtomsSpec => []FoldingSound
PROOF
  <1>1. ASSUME FoldInv PROVE FoldingSound
    <2>1. ChainsEnd(redirect) /\ IsEquivalence(Kernel) /\ Kernel \subseteq Atoms \X Atoms
      BY <1>1, KernelIsEquivalence DEF FoldInv
    <2>2. FoldsAreEquivalent
      <3> SUFFICES ASSUME stage = "folded", NEW a \in Atoms, redirect[a] # NoAtom
                   PROVE  <<a, Canonical(a)>> \in Equivalent(link)
        BY DEF FoldsAreEquivalent
      <3>1. IsFoldLink(link)
        BY <1>1, LinkFacts
      <3>2. \A b \in Atoms : Canonical(b) # b => SameCode(link, Kernel, b, Canonical(b))
        BY <1>1, Zenon DEF FoldInv, StandIns
      <3>3. ASSUME NEW e \in Kernel PROVE e[1] = e[2] \/ SameCode(link, Kernel, e[1], e[2])
        <4>1. e[1] \in Atoms /\ e[2] \in Atoms /\ Canonical(e[1]) = Canonical(e[2])
          BY Zenon DEF Kernel
        <4>2. PICK c : c = Canonical(e[1])
          OBVIOUS
        <4>3. /\ c # e[1] => SameCode(link, Kernel, e[1], c)
              /\ c # e[2] => SameCode(link, Kernel, e[2], c)
          BY <3>2, <4>1, <4>2
        <4>4. c # e[2] => SameCode(link, Kernel, c, e[2])
          BY <2>1, <3>1, <4>3, SameCodeLaws
        <4> QED BY <2>1, <3>1, <4>3, <4>4, SameCodeLaws
      <3>4. Kernel \subseteq Equivalent(link)
        BY <2>1, <3>1, <3>3, EquivalentHolds, Zenon
      <3>5. /\ Canonical(a) \in Atoms /\ Canonical(Canonical(a)) = Canonical(a)
        BY <2>1, ChainFacts DEF Canonical
      <3>6. <<a, Canonical(a)>> \in Kernel
        BY <3>5, Zenon DEF Kernel
      <3> QED BY <3>4, <3>6, Zenon
    <2>3. IdentityKept
      <3> SUFFICES ASSUME NEW a \in Atoms, NEW b \in Atoms, redirect[b] = a \/ redirect[a] = b
                   PROVE  ~Observable(link, a)
        BY Zenon DEF IdentityKept
      <3>1. redirect[b] # NoAtom \/ redirect[a] # NoAtom
        BY AtomsCounted
      <3>2. IsFoldLink(link)
        <4>1. stage # "idle"
          BY <1>1, <3>1 DEF FoldInv, Waiting
        <4> QED BY <1>1, <4>1, LinkFacts, Zenon
      <3>3. Foldable(link, a)
        <4>1. CASE redirect[b] = a
          BY <1>1, <4>1, AtomsCounted DEF FoldInv, StandIns
        <4>2. CASE redirect[a] = b
          BY <1>1, <4>2, AtomsCounted DEF FoldInv, StandIns
        <4> QED BY <4>1, <4>2
      <3> QED BY <3>2, <3>3, FoldableHidden
    <2>4. NothingDangles
      BY <1>1, Zenon DEF FoldInv, Placed, BoundTo, NothingDangles
    <2> QED BY <2>2, <2>3, <2>4, Zenon DEF FoldingSound
  <1>2. FoldInv => FoldingSound
    BY <1>1
  <1> QED BY <1>2, FoldInvariance, PTL

\* Folding is complete in any link: what is earlier on the command line stands
\* for what is later, and no two atoms that could be merged are left.
THEOREM FoldsCompletely == AtomsSpec => []FoldingIsComplete
PROOF
  <1>1. ASSUME FoldInv PROVE FoldingIsComplete
    <2> SUFFICES ASSUME stage = "folded"
                 PROVE  /\ \A a \in Atoms : ~Earlier(link, a, Canonical(a))
                        /\ \A a, b \in kept : a # b /\ Mergeable(link, a) /\ Mergeable(link, b)
                                                => ~SameCode(link, Kernel, a, b)
      BY DEF FoldingIsComplete, Kernel
    <2>1. IsFoldLink(link) /\ ChainsEnd(redirect)
      BY <1>1, LinkFacts, Zenon DEF FoldInv
    <2>2. ASSUME NEW a \in Atoms PROVE ~Earlier(link, a, Canonical(a))
      <3>1. CASE Canonical(a) = a
        <4>1. link.at[a].order[1] \in Nat /\ link.at[a].order[2] \in Nat /\ link.at[a].off \in Nat
          BY <2>1, Zenon DEF IsFoldLink
        <4> QED BY <3>1, <4>1 DEF Earlier
      <3>2. CASE Canonical(a) # a
        <4>1. Canonical(a) \in Atoms
          BY <2>1, ChainFacts DEF Canonical
        <4>2. FoldOrder(link, Canonical(a), a)
          BY <1>1, <3>2 DEF FoldInv, StandIns
        <4> QED BY <2>1, <4>1, <4>2, FoldOrderLaws, Zenon
      <3> QED BY <3>1, <3>2
    <2>3. \A a, b \in kept : a # b /\ Mergeable(link, a) /\ Mergeable(link, b)
                               => ~SameCode(link, Kernel, a, b)
      BY <1>1 DEF FoldInv, Exhausted
    <2> QED BY <2>2, <2>3
  <1>2. FoldInv => FoldingIsComplete
    BY <1>1, Zenon
  <1> QED BY <1>2, FoldInvariance, PTL
=============================================================================
