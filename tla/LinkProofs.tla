------------------------------ MODULE LinkProofs ------------------------------
(***************************************************************************)
(* What a link as a whole promises.  Alias chains of any length:           *)
(* alias_would_cycle keeps them free of cycles although it looks at a few  *)
(* hops only, and in a link that succeeds they lead to names that the      *)
(* inputs provide.  And archive members are loaded as DemandLoading        *)
(* prescribes.                                                             *)
(***************************************************************************)
EXTENDS ResolveProofs, DataTheorems


\* One hop of an alias walk.
Hop(t, c) == IF t[c].kind = "Alias" THEN t[c].to ELSE c

\* A hop leads to a name.
LEMMA HopType ==
  ASSUME NEW t \in Table, NEW c \in Names
  PROVE  Hop(t, c) \in Names
  BY KindsTellShapes DEF Table, Hop, AliasSymbols

\* AliasWalk is the walk its recursive definition describes.
LEMMA AliasWalkHops ==
  ASSUME NEW t \in Table, NEW n \in Names, NEW h \in Nat
  PROVE  /\ AliasWalk(t, n, h) \in [0 .. h -> Names]
         /\ AliasWalk(t, n, h)[0] = n
         /\ \A i \in 1 .. h : AliasWalk(t, n, h)[i] = Hop(t, AliasWalk(t, n, h)[i - 1])
PROOF
  <1> DEFINE F == [i \in Nat |-> [c \in Names |-> Hop(t, c)]]
             Body(w) == [i \in 0 .. h |->
                           IF i = 0 THEN n
                           ELSE LET c == w[i - 1]
                                IN  IF t[c].kind = "Alias" THEN t[c].to ELSE c]
  <1>1. F \in Steppers(Names)
    BY HopType DEF Steppers
  <1>2. PICK w : IsRun(Names, F, n, h, w)
    <2> HIDE DEF F
    <2> QED BY <1>1, IterationExists
  <1>3. /\ w \in [0 .. h -> Names] /\ w[0] = n
        /\ \A i \in 1 .. h : w[i] = Hop(t, w[i - 1])
    <2>1. /\ w \in [0 .. h -> Names] /\ w[0] = n
          /\ \A i \in 1 .. h : w[i] = F[i][w[i - 1]]
      <3> HIDE DEF F
      <3> QED BY <1>2, Zenon DEF IsRun
    <2>2. ASSUME NEW i \in 1 .. h PROVE w[i] = Hop(t, w[i - 1])
      <3>1. i \in Nat /\ w[i - 1] \in Names
        BY <2>1
      <3>2. F[i][w[i - 1]] = Hop(t, w[i - 1])
        BY <3>1
      <3> QED BY <2>1, <3>2, Zenon
    <2> QED BY <2>1, <2>2
  <1>4. w = Body(w)
    BY <1>3 DEF Hop
  <1>5. AliasWalk(t, n, h) = CHOOSE v : v = Body(v)
    BY Zenon DEF AliasWalk
  <1> DEFINE v == AliasWalk(t, n, h)
  <1>6. v = Body(v)
    <2> HIDE DEF Body
    <2> QED BY <1>4, <1>5
  <1> HIDE DEF v
  <1>7. v[0] = n /\ \A i \in 1 .. h : v[i] = Hop(t, v[i - 1])
    BY <1>6 DEF Hop
  <1>8. \A i \in 0 .. h : v[i] \in Names
    BY <1>7, HopType, IterationKeeps
  <1>9. v = [i \in 0 .. h |-> v[i]]
    BY <1>6
  <1> QED BY <1>7, <1>8, <1>9 DEF v

\* A depth of the names that every alias hop decreases: the alias graph has no
\* cycle and every chain ends.
IsDepth(t, d) ==
  /\ d \in [Names -> Nat]
  /\ \A c \in Names : t[c].kind = "Alias" => d[t[c].to] < d[c]
AliasesEnd(t) == \E d : IsDepth(t, d)

\* Where hops decrease a depth, no chain leads back to its start.
LEMMA DepthsAreAcyclic ==
  ASSUME NEW t \in Table, AliasesEnd(t), NEW n \in Names, t[n].kind = "Alias",
         NEW h \in Nat
  PROVE  \A i \in 0 .. h : AliasWalk(t, t[n].to, h)[i] # n
PROOF
  <1>1. PICK d : IsDepth(t, d)
    BY Zenon DEF AliasesEnd
  <1> DEFINE w == AliasWalk(t, t[n].to, h)
             Below == {c \in Names : d[c] < d[n]}
  <1>2. t[n].to \in Names
    BY KindsTellShapes DEF Table, AliasSymbols
  <1>3. /\ w[0] = t[n].to
        /\ \A i \in 1 .. h : w[i] = Hop(t, w[i - 1])
    BY <1>2, AliasWalkHops, Zenon
  <1>4. \A c \in Below : Hop(t, c) \in Below
    <2> TAKE c \in Below
    <2>1. Hop(t, c) \in Names
      BY HopType
    <2>2. d[c] \in Nat /\ d[Hop(t, c)] \in Nat
      BY <1>1, <2>1 DEF IsDepth
    <2>3. CASE t[c].kind = "Alias"
      <3>1. d[Hop(t, c)] < d[c]
        BY <1>1, <2>3 DEF IsDepth, Hop
      <3> QED BY <1>1, <2>1, <2>2, <3>1 DEF IsDepth
    <2>4. CASE t[c].kind # "Alias"
      BY <2>4 DEF Hop
    <2> QED BY <2>3, <2>4
  <1>5. t[n].to \in Below
    BY <1>1, <1>2 DEF IsDepth
  <1>6. \A i \in 0 .. h : w[i] \in Below
    <2> HIDE DEF w, Below
    <2> QED BY <1>3, <1>4, <1>5, IterationKeeps, Zenon
  <1> QED BY <1>1, <1>6 DEF IsDepth

\* An alias that alias_would_cycle lets through joins no cycle: the names its
\* target's walk visits are closed under hops and leave the new alias out.
LEMMA NewAliasEnds ==
  ASSUME NEW t \in Table, AliasesEnd(t), NEW n \in Names, NEW s \in AliasSymbols,
         ~AliasWouldCycle(t, n, s.to)
  PROVE  AliasesEnd([t EXCEPT ![n] = s])
PROOF
  <1>1. PICK d : IsDepth(t, d)
    BY DEF AliasesEnd
  <1> DEFINE h == MaxAliasDepth - 1
             w == AliasWalk(t, s.to, h)
             Seen == {w[i] : i \in 0 .. h}
             u == [t EXCEPT ![n] = s]
             k == d[s.to] + 1
             e == [c \in Names |-> IF c \in Seen THEN d[c] ELSE d[c] + k]
  <1>2. s.to \in Names /\ h \in Nat
    BY ConstantsAssumption DEF AliasSymbols
  <1>3. /\ w \in [0 .. h -> Names] /\ w[0] = s.to
        /\ \A i \in 1 .. h : w[i] = Hop(t, w[i - 1])
    <2> HIDE DEF h
    <2> QED BY <1>2, AliasWalkHops
  <1>4. n \notin Seen /\ t[w[h]].kind # "Alias"
    BY Zenon DEF AliasWouldCycle
  <1> HIDE DEF w, h
  <1>5. ASSUME NEW c \in Seen, t[c].kind = "Alias" PROVE t[c].to \in Seen
    <2>1. PICK i \in 0 .. h : c = w[i]
      BY <1>5, Zenon
    <2>2. i # h
      BY <1>4, <1>5, <2>1
    <2>3. i + 1 \in 1 .. h /\ w[i + 1] = Hop(t, w[(i + 1) - 1])
      BY <1>2, <1>3, <2>2
    <2>4. w[i + 1] = t[c].to
      BY <1>2, <1>5, <2>1, <2>3 DEF Hop
    <2> QED BY <1>2, <2>3, <2>4
  <1>6. s.to \in Seen
    BY <1>2, <1>3
  <1> HIDE DEF Seen
  <1>7. d \in [Names -> Nat] /\ k \in Nat \ {0} /\ e \in [Names -> Nat]
    BY <1>1, <1>2 DEF IsDepth
  <1>8. ASSUME NEW c \in Names, u[c].kind = "Alias" PROVE e[u[c].to] < e[c]
    <2>1. CASE c = n
      <3>1. u[c].to = s.to /\ e[s.to] = d[s.to] /\ e[n] = d[n] + k
        BY <1>2, <1>4, <1>6, <2>1 DEF Table
      <3> QED BY <1>2, <1>7, <2>1, <3>1
    <2>2. CASE c # n
      <3>1. u[c] = t[c] /\ t[c].to \in Names
        BY <1>8, <2>2, KindsTellShapes DEF Table, AliasSymbols
      <3>2. d[t[c].to] < d[c]
        BY <1>1, <1>8, <3>1 DEF IsDepth
      <3>3. c \in Seen => t[c].to \in Seen
        BY <1>5, <1>8, <3>1
      <3> QED BY <1>7, <3>1, <3>2, <3>3
    <2> QED BY <2>1, <2>2
  <1> QED BY <1>7, <1>8, Zenon DEF AliasesEnd, IsDepth

\* A table that gains no alias keeps every depth it had.
LEMMA NoNewAlias ==
  ASSUME NEW t, NEW u, AliasesEnd(t),
         \A c \in Names : u[c].kind = "Alias" => u[c] = t[c]
  PROVE  AliasesEnd(u)
PROOF
  <1>1. PICK d : IsDepth(t, d)
    BY DEF AliasesEnd
  <1>2. IsDepth(u, d)
    BY <1>1 DEF IsDepth
  <1> QED BY <1>2 DEF AliasesEnd

\* An alias reaches a slot by Replace, and only past alias_would_cycle.
LEMMA AliasesComeChecked ==
  ASSUME NEW t \in Table, NEW n \in Names, NEW s \in Symbol,
         SlotAfter(t[n], s, Verdict(t, n, s)).kind = "Alias",
         t[n].kind # "Alias"
  PROVE  /\ s.kind = "Alias" /\ ~AliasWouldCycle(t, n, s.to)
         /\ SlotAfter(t[n], s, Verdict(t, n, s)) = s
PROOF
  <1> DEFINE v == Verdict(t, n, s)
             new == SlotAfter(t[n], s, v)
  <1>1. t[n] \in Symbol \cup {Vacant}
    BY DEF Table
  <1>2. v # "CoalesceUndefined"
    <2> SUFFICES ASSUME v = "CoalesceUndefined" PROVE FALSE
      OBVIOUS
    <2>1. t[n] \in UndefinedSymbols
      BY <1>1, MergesAreOfOneKind, KindsTellShapes, Zenon
    <2>2. new = [t[n] EXCEPT !.weak = t[n].weak /\ s.weak]
      BY DEF SlotAfter
    <2> QED BY <2>1, <2>2, Zenon DEF UndefinedSymbols
  <1>3. v # "CoalesceCommon"
    BY MergesAreOfOneKind, Zenon DEF SlotAfter, CoalesceCommon
  <1>4. v \in {"Insert", "Replace", "ReplaceAndPendingArchiveFetch"}
    BY <1>2, <1>3 DEF SlotAfter
  <1>5. s.kind = "Alias"
    <2>1. CASE t[n].kind = "Undefined" /\ s.kind = "DylibImport"
      <3>1. s \in ImportSymbols
        BY <2>1, KindsTellShapes
      <3>2. [s EXCEPT !.weak = s.weak \/ t[n].weak].kind = "DylibImport"
        BY <3>1 DEF ImportSymbols
      <3> QED BY <1>4, <2>1, <3>2 DEF SlotAfter, ReplaceSlot
    <2>2. CASE ~(t[n].kind = "Undefined" /\ s.kind = "DylibImport")
      BY <1>4, <2>2 DEF SlotAfter, ReplaceSlot
    <2> QED BY <2>1, <2>2
  <1>6. v = "Replace" /\ ~AliasWouldCycle(t, n, s.to)
    BY <1>4, <1>5 DEF Verdict, ReplacePairs
  <1> QED BY <1>5, <1>6 DEF SlotAfter, ReplaceSlot

\* However long the chains that inputs build, no alias ever leads back to
\* itself, although alias_would_cycle looks at MaxAliasDepth names only.
THEOREM AliasChainsEnd == TableSpec => []AliasesAcyclic
PROOF
  <1>1. TableInit => AliasesEnd(table)
    <2> SUFFICES ASSUME TableInit PROVE AliasesEnd(table)
      OBVIOUS
    <2>1. IsDepth(table, [c \in Names |-> 0])
      BY Zenon DEF TableInit, IsDepth, Vacant
    <2> QED BY <2>1 DEF AliasesEnd
  <1>2. TableTypeOK /\ AliasesEnd(table) /\ [TableNext]_tvars => AliasesEnd(table)'
    <2> SUFFICES ASSUME TableTypeOK, AliasesEnd(table), [TableNext]_tvars
                 PROVE  AliasesEnd(table')
      BY DEF AliasesEnd, IsDepth
    <2>0. table \in Table
      BY Zenon DEF TableTypeOK, Table
    <2>1. ASSUME NEW n \in Names, NEW s \in Symbol, Insert(n, s)
          PROVE  AliasesEnd(table')
      <3> DEFINE new == SlotAfter(table[n], s, Verdict(table, n, s))
      <3>1. table' = [table EXCEPT ![n] = new]
        BY <2>1 DEF Insert
      <3>2. CASE new.kind = "Alias" /\ table[n].kind # "Alias"
        <4>1. s.kind = "Alias" /\ ~AliasWouldCycle(table, n, s.to) /\ new = s
          BY <2>0, <3>2, AliasesComeChecked
        <4>2. s \in AliasSymbols
          BY <4>1, KindsTellShapes
        <4> QED BY <2>0, <3>1, <4>1, <4>2, NewAliasEnds, Zenon
      <3>3. CASE new.kind # "Alias" \/ table[n].kind = "Alias"
        <4>1. table[n].kind = "Alias" => new = table[n]
          BY <2>0, StrongSlotStays DEF IsStrongDefinition, Table
        <4>2. \A c \in Names : table'[c].kind = "Alias" => table'[c] = table[c]
          BY <2>0, <3>1, <3>3, <4>1 DEF Table
        <4> QED BY <4>2, NoNewAlias
      <3> QED BY <3>2, <3>3
    <2>2. CASE Promote
      <3>1. \A c \in Names : table'[c].kind = "Alias" => table'[c] = table[c]
        BY <2>2 DEF Promote
      <3> QED BY <3>1, NoNewAlias
    <2>3. CASE MaterializeCommon
      <3>1. \A c \in Names : table'[c].kind = "Alias" => table'[c] = table[c]
        BY <2>3 DEF MaterializeCommon
      <3> QED BY <3>1, NoNewAlias
    <2>4. CASE UNCHANGED tvars
      BY <2>4, Zenon DEF tvars
    <2> QED BY <2>1, <2>2, <2>3, <2>4 DEF TableNext
  <1>3. TableTypeOK /\ AliasesEnd(table) => AliasesAcyclic
    <2> SUFFICES ASSUME TableTypeOK, AliasesEnd(table) PROVE AliasesAcyclic
      OBVIOUS
    <2>1. table \in Table /\ Cardinality(Names) \in Nat
      BY ConstantsAssumption, FS_CardinalityType, Zenon DEF TableTypeOK, Table
    <2> QED BY <2>1, DepthsAreAcyclic DEF AliasesAcyclic
  <1> QED BY <1>1, <1>2, <1>3, TableTypeCorrect, PTL DEF TableSpec
-----------------------------------------------------------------------------
(* Where the aliases of a finished link lead. *)

\* A walk through a table whose aliases lead to known names stays among them.
LEMMA AliasesLeadSomewhere ==
  ASSUME NEW t \in Table, NEW n \in Names, t[n].kind # "Vacant",
         \A k \in Names : t[k].kind = "Alias" => t[t[k].to].kind # "Vacant"
  PROVE  ResolveChain(t, n) # "Unknown"
PROOF
  <1> DEFINE h == MaxAliasDepth - 1
             w == AliasWalk(t, n, h)
             Known == {k \in Names : t[k].kind # "Vacant"}
  <1>1. h \in Nat
    BY ConstantsAssumption
  <1>2. w[0] = n /\ \A i \in 1 .. h : w[i] = Hop(t, w[i - 1])
    <2> HIDE DEF h
    <2> QED BY <1>1, AliasWalkHops
  <1>3. \A k \in Known : Hop(t, k) \in Known
    BY HopType, Zenon DEF Hop
  <1>4. n \in Known
    BY Zenon
  <1> HIDE DEF h, w, Known
  <1>5. \A i \in 0 .. h : w[i] \in Known
    BY <1>1, <1>2, <1>3, <1>4, IterationKeeps, Zenon
  <1>6. w[h] \in Names /\ t[w[h]].kind # "Vacant"
    BY <1>1, <1>5 DEF Known
  <1>7. w[h] # "Unknown"
    BY <1>6, ConstantsAssumption
  <1> QED BY <1>6, <1>7 DEF ResolveChain, w, h

\* Every undefined name can be reported with the object that refers to it, and
\* a link that succeeds binds every name its inputs mention if the archives'
\* indexes are honest.
THEOREM FinishedLinksAreBound == Spec => []FinishedLinkIsBound
PROOF
  <1>1. ResolveInv => FinishedLinkIsBound
    <2> SUFFICES ASSUME ResolveInv PROVE FinishedLinkIsBound
      OBVIOUS
    <2> USE DEF ResolveInv
    <2>1. \A n \in UndefinedNames : table[n].origin \in referrers[n]
      BY Zenon DEF UndefinedNames, ReferencesLogged
    <2>2. ASSUME pc = "done", \A a \in Archives : HonestIndex(prog, a), NEW n \in Names
          PROVE  /\ table[n].kind \in {"Vacant", "Defined", "DylibImport", "Alias"}
                 /\ table[n].kind = "Alias" => ResolveChain(table, n) # "Unknown"
      <3>1. table \in Table /\ queue = <<>> /\ errors = {}
        BY <2>2 DEF TypeOK, TableTypeOK, Table, LoopsApart
      <3>2. table[n].kind # "LazyArchive"
        <4> SUFFICES ASSUME table[n].kind = "LazyArchive" PROVE FALSE
          OBVIOUS
        <4> DEFINE m == table[n].member
        <4>1. m \in fetched /\ \E x \in Archives : [name |-> n, member |-> m] \in SetOf(prog.index[x])
          BY <2>2, <3>1, ListEmpty, Zenon DEF LazySlots
        <4>2. Defines(prog, m, n)
          BY <2>2, <4>1 DEF HonestIndex
        <4> HIDE DEF m
        <4>3. table[n].kind \in Provided
          BY <2>2, <3>1, <4>1, <4>2, NothingInWork DEF MembersProvide
        <4> QED BY <4>3 DEF Provided
      <3>3. table[n].kind \notin {"LazyObject", "Undefined", "Common"}
        BY <2>2, Zenon DEF LazySlots, Outcome
      <3>4. table[n].kind \in {"Vacant", "Undefined", "Defined", "Common",
                               "DylibImport", "LazyArchive", "LazyObject", "Alias"}
        BY <3>1, KindsTellShapes DEF Table
      <3>5. \A k \in Names : table[k].kind = "Alias" => table[table[k].to].kind # "Vacant"
        BY <2>2, NothingInWork DEF ReferencesLogged
      <3> QED BY <3>1, <3>2, <3>3, <3>4, <3>5, AliasesLeadSomewhere
    <2> QED BY <2>1, <2>2 DEF FinishedLinkIsBound
  <1> QED BY <1>1, ResolutionInvariant, PTL
-----------------------------------------------------------------------------
(* Resolution implements DemandLoading. *)

\* What the mapping makes of a slot: a step moves names between vacant, needed
\* and settled only by changing their slots or fetching their members.
Need == {n \in Names : Needed(n)}
Settled == {n \in Names : table[n].kind # "Vacant" /\ ~Needed(n)}
Status == IF pc = "failed" THEN "failed"
          ELSE IF pc \in {"resolved", "done"} THEN "done" ELSE "run"

\* Both specifications read a link in the same way.
LEMMA SameInputs ==
  ASSUME NEW p
  PROVE  /\ Loading!Line(p) = Line(p)
         /\ \A i : Loading!IsForced(p, i) <=> IsForced(p, i)
         /\ \A i : Loading!IsDemandArchive(p, i) <=> IsDemandArchive(p, i)
         /\ \A l : Loading!SetOf(l) = SetOf(l)
  BY DEF Loading!Line, Line, Loading!IsForced, IsForced, Loading!IsDemandArchive,
         IsDemandArchive, Loading!SetOf, SetOf

\* A step that changes none of these is no step of DemandLoading.
LEMMA LoadingStutters ==
  ASSUME UNCHANGED <<prog, pos, table, fetched>>, Status' = Status
  PROVE  UNCHANGED Loading!vars
  BY DEF Loading!vars, Needed, Status

\* A queued fetch that is still serviceable is wanted by the current archive.
LEMMA PendingIsWanted ==
  ASSUME ResolveInv, NEW p \in SetOf(queue), Serviceable(p), InLine
  PROVE  Loading!Wanted(p.member)
PROOF
  <1>1. IsDemandArchive(prog, pos) /\ p \in Index
    BY DEF ResolveInv, QueueInStep, Serviceable
  <1>2. SetOf(queue) \subseteq IndexEntry
    BY ListTyped, Zenon DEF ResolveInv, TypeOK
  <1>3. p.name \in Names /\ Needed(p.name)
    BY <1>2 DEF IndexEntry, ResolveInv, QueueInStep, Serviceable, StillLazy, Needed
  <1> QED BY <1>1, <1>3, SameInputs DEF Loading!Wanted, Loading!InLine, Loading!Current, InLine, Index, Current

\* A member that joins the link is loaded, and answers for the names it was
\* indexed for.
LEMMA JoinIsLoad ==
  ASSUME ResolveInv, NEW m \in Files, Loading!Wanted(m), m \notin fetched, m \notin prog.bad,
         pc \in {"force", "drain"}, pc' = "seed", fetched' = fetched \cup {m},
         UNCHANGED <<table, prog, pos>>
  PROVE  Loading!Load(m)
PROOF
  <1> DEFINE given == {n \in Names : table[n].kind = "LazyArchive" /\ table[n].member = m}
  <1>1. \A n \in given : Needed(n) /\ [name |-> n, member |-> m] \in Index
    <2> TAKE n \in given
    <2>1. [name |-> n, member |-> m] \in SetOf(queue)
      BY Zenon DEF ResolveInv, LazySlots
    <2>2. [name |-> n, member |-> m] \in Index
      BY <2>1 DEF ResolveInv, QueueInStep
    <2> QED BY <2>2 DEF Needed
  <1>2. given \in SUBSET {n \in Need : [name |-> n, member |-> m] \in SetOf(prog.index[Current.id])}
    BY <1>1 DEF Need, Index
  <1>3. Need' = Need \ given /\ Settled' = Settled \cup given
    <2>1. \A n \in Names : Needed(n)' <=> Needed(n) /\ n \notin given
      BY DEF Needed
    <2>2. \A n \in given : Needed(n) /\ table[n].kind # "Vacant"
      BY <1>1, Zenon
    <2> HIDE DEF given
    <2>3. given \subseteq Names
      BY DEF given
    <2> QED BY <2>1, <2>2, <2>3 DEF Need, Settled
  <1> HIDE DEF given
  <1>4. Loading!Current = Current /\ \A l : Loading!SetOf(l) = SetOf(l)
    BY SameInputs DEF Loading!Current, Current
  <1>5. Status = "run" /\ Status' = Status
    BY DEF Status
  <1> QED BY <1>2, <1>3, <1>4, <1>5 DEF Loading!Load, Need, Settled, Status

\* A step that changes the slot of one name, not settled yet, binds that name.
LEMMA SlotIsBind ==
  ASSUME ResolveInv, NEW n \in Names, InLine, Status = "run", Status' = Status,
         UNCHANGED <<prog, pos, fetched>>,
         \A k \in Names \ {n} : table'[k] = table[k],
         table'[n].kind = "Vacant" => table[n].kind = "Vacant",
         n \in Settled => n \in Settled'
  PROVE  [Loading!Next]_(Loading!vars)
PROOF
  <1>1. \A k \in Names \ {n} : (k \in Need' <=> k \in Need) /\ (k \in Settled' <=> k \in Settled)
    BY DEF Need, Settled, Needed
  <1>2. Need \subseteq Names /\ Settled \subseteq Names /\ Need' \subseteq Names /\ Settled' \subseteq Names
    BY DEF Need, Settled
  <1>3. Need \cap Settled = {} /\ Need' \cap Settled' = {}
    BY Zenon DEF Need, Settled
  <1>4. \A k \in Names : /\ k \in Need \cup Settled <=> table[k].kind # "Vacant"
                         /\ k \in Need' \cup Settled' <=> table'[k].kind # "Vacant"
    BY DEF Need, Settled, Needed
  <1>5. Loading!InLine
    BY SameInputs DEF Loading!InLine, InLine
  <1>6. CASE n \in Settled \/ table'[n].kind = "Vacant"
    <2>1. Need' = Need /\ Settled' = Settled
      <3>1. n \in Need' <=> n \in Need
        BY <1>3, <1>4, <1>6
      <3>2. n \in Settled' <=> n \in Settled
        BY <1>3, <1>4, <1>6
      <3> QED BY <1>1, <1>2, <3>1, <3>2
    <2> QED BY <2>1 DEF Loading!vars, Need, Settled, Status
  <1>7. CASE n \notin Settled /\ n \in Need'
    <2>1. Need' = Need \cup {n} /\ Settled' = Settled
      BY <1>1, <1>2, <1>3, <1>7, Zenon
    <2>2. Loading!Bind(n)
      BY <1>5, <1>7, <2>1 DEF Loading!Bind, Need, Settled, Status
    <2> QED BY <2>2 DEF Loading!Next
  <1>8. CASE n \notin Settled /\ n \in Settled'
    <2>1. Need' = Need \ {n} /\ Settled' = Settled \cup {n}
      BY <1>1, <1>2, <1>3, <1>8
    <2>2. Loading!Bind(n)
      BY <1>5, <1>8, <2>1 DEF Loading!Bind, Need, Settled, Status
    <2> QED BY <2>2, Zenon DEF Loading!Next
  <1> QED BY <1>4, <1>6, <1>7, <1>8

\* An input is left when it has nothing more to give.
LEMMA LeavingIsAdvance ==
  ASSUME ResolveInv, ScanDone \/ DrainDone
  PROVE  [Loading!Next]_(Loading!vars)
PROOF
  <1> USE DEF ResolveInv
  <1>1. InLine /\ UNCHANGED <<prog, table, fetched>> /\ Status = "run" /\ Status' = "run"
    BY Zenon DEF ScanDone, DrainDone, LoopsApart, tvars, Status
  <1>2. CASE pos' = pos
    BY <1>1, <1>2, LoadingStutters
  <1>3. CASE pos' # pos
    <2>1. pos' = pos + 1 /\ queue = <<>>
      BY <1>3, Zenon DEF ScanDone, DrainDone
    <2>2. IsForced(prog, pos) => Members \subseteq fetched
      <3>1. CASE ScanDone
        BY <1>1, <3>1, CurrentShape DEF ScanDone, ScanLoop
      <3>2. CASE DrainDone
        BY <3>2, ListEmpty DEF DrainDone, LoopsApart, ForcedLoop
      <3> QED BY <3>1, <3>2
    <2>3. IsDemandArchive(prog, pos) => \A e \in Index : e.name \notin Need
      <3> SUFFICES ASSUME IsDemandArchive(prog, pos), NEW e \in Index, e.name \in Need PROVE FALSE
        OBVIOUS
      <3>1. ScanDone /\ work = <<>>
        BY <1>3 DEF ScanDone, DrainDone
      <3>2. table[e.name].kind # "Undefined"
        BY <3>1, ListEmpty DEF ScanDone, ScanLoop
      <3>3. /\ e.name \in Names /\ table[e.name].kind = "LazyArchive"
            /\ table[e.name].member \notin fetched
        BY <3>2, Zenon DEF Need, Needed
      <3> QED BY <2>1, <3>1, <3>3, ListEmpty, Zenon DEF LazySlots, ScanDone
    <2>4. /\ Loading!Current = Current /\ (Loading!InLine <=> InLine)
          /\ \A l : Loading!SetOf(l) = SetOf(l)
          /\ Loading!IsForced(prog, pos) <=> IsForced(prog, pos)
          /\ Loading!IsDemandArchive(prog, pos) <=> IsDemandArchive(prog, pos)
      BY SameInputs DEF Loading!Current, Current, Loading!InLine, InLine
    <2>5. Loading!Exhausted
      BY <2>2, <2>3, <2>4, Zenon DEF Loading!Exhausted, Members, Index, Need
    <2>6. Need' = Need /\ Settled' = Settled
      BY <1>1 DEF Need, Settled, Needed
    <2>7. Loading!Advance
      BY <1>1, <2>1, <2>4, <2>5, <2>6, Zenon DEF Loading!Advance, Need, Settled, Status
    <2> QED BY <2>7 DEF Loading!Next
  <1> QED BY <1>2, <1>3

\* The errors of the ordered pass come after the last input of the line.
LEMMA RejectedAtEnd ==
  ASSUME ResolveInv, ForceLoadNotArchive \/ DuplicateSymbols \/ UndefinedSymbolsError
  PROVE  [Loading!Next]_(Loading!vars)
PROOF
  <1> USE DEF ResolveInv
  <1>0. /\ Len(Line(prog)) \in Nat /\ Len(prog.line) \in Nat /\ Len(prog.line) <= Len(Line(prog))
        /\ pos \in Nat \ {0} /\ DOMAIN prog.line = 1 .. Len(prog.line)
        /\ \A i \in 1 .. Len(prog.line) : Line(prog)[i] = prog.line[i]
    BY LineShape, Zenon DEF TypeOK
  <1>1. pos > Len(prog.line)
    <2>1. CASE ForceLoadNotArchive
      <3> SUFFICES ASSUME pos <= Len(prog.line) PROVE FALSE
        BY <1>0
      <3>1. pos \in DOMAIN prog.line /\ Current = prog.line[pos]
        BY <1>0 DEF Current
      <3>2. Current.type \in {"Archive", "ForceLoadArchive"}
        BY <2>1, Zenon DEF ForceLoadNotArchive, IsForced, Current
      <3> QED BY <2>1, <3>1, <3>2 DEF ForceLoadNotArchive, OnLine
    <2>2. CASE DuplicateSymbols
      BY <1>0, <2>2 DEF DuplicateSymbols, MayProceed, AtCheckpoint
    <2>3. CASE UndefinedSymbolsError
      BY <1>0, <2>3 DEF UndefinedSymbolsError, InLine
    <2> QED BY <2>1, <2>2, <2>3
  <1>2. /\ UNCHANGED <<prog, pos, table, fetched>>
        /\ Status = "run" /\ Status' = "failed"
    BY Zenon DEF ForceLoadNotArchive, DuplicateSymbols, UndefinedSymbolsError, Fail, tvars, Status
  <1>3. Need' = Need /\ Settled' = Settled
    BY <1>2 DEF Need, Settled, Needed
  <1>4. Loading!Reject
    BY <1>1, <1>2, <1>3, Zenon DEF Loading!Reject, Need, Settled, Status
  <1> QED BY <1>4 DEF Loading!Next

\* A member is loaded, fails to load, or is in the link already.
LEMMA FetchingIsLoading ==
  ASSUME ResolveInv, ForceMember \/ FetchPending
  PROVE  [Loading!Next]_(Loading!vars)
PROOF
  <1> USE DEF ResolveInv
  <1> DEFINE m == IF pc = "force" THEN Head(forced) ELSE Top(queue).member
  <1>1. /\ pc \in {"force", "drain"} /\ InLine /\ UNCHANGED <<table, prog, pos>>
        /\ ForceMember => pc = "force" /\ forced # <<>>
        /\ FetchPending => pc = "drain" /\ queue # <<>>
    BY DEF ForceMember, FetchPending, tvars, LoopsApart
  <1>2. m \in Files /\ Loading!Wanted(m)
    <2>1. CASE ForceMember
      <3>1. m \in Files /\ m \in SetOf(forced)
        BY <1>1, <2>1, ListHead DEF TypeOK
      <3>2. IsForced(prog, pos) /\ m \in Members
        BY <1>1, <2>1, <3>1 DEF ForcedLoop
      <3> HIDE DEF m
      <3> QED BY <1>1, <3>1, <3>2, SameInputs DEF Loading!Wanted, Loading!InLine,
            Loading!Current, InLine, Current, Members
    <2>2. CASE FetchPending
      <3>1. /\ Top(queue) \in IndexEntry /\ Top(queue) \in SetOf(queue)
        BY <1>1, <2>2, TopAndRest, Zenon DEF TypeOK
      <3>2. Serviceable(Top(queue)) /\ m = Top(queue).member
        BY <1>1, <2>2 DEF FetchPending
      <3> HIDE DEF m
      <3> QED BY <1>1, <3>1, <3>2, PendingIsWanted DEF IndexEntry
    <2> QED BY <2>1, <2>2
  <1>3. \/ m \in prog.bad /\ pc' = "failed" /\ UNCHANGED fetched
        \/ m \in fetched /\ UNCHANGED <<pc, fetched>>
        \/ m \notin prog.bad /\ m \notin fetched /\ Ingest(m)
    <2>1. CASE ForceMember
      BY <1>1, <2>1 DEF ForceMember, Fail
    <2>2. CASE FetchPending
      BY <1>1, <2>2 DEF FetchPending, Serviceable, Fail
    <2> QED BY <2>1, <2>2
  <1>4. PICK f \in Files : f = m
    BY <1>2
  <1>5. Loading!Wanted(f)
    BY <1>2, <1>4, Zenon
  <1>6. \/ f \in prog.bad /\ pc' = "failed" /\ UNCHANGED fetched
        \/ f \in fetched /\ UNCHANGED <<pc, fetched>>
        \/ f \notin prog.bad /\ f \notin fetched /\ pc' = "seed" /\ fetched' = fetched \cup {f}
    <2> HIDE DEF m
    <2> QED BY <1>3, <1>4 DEF Ingest
  <1>7. CASE f \in prog.bad /\ pc' = "failed" /\ UNCHANGED fetched
    <2>1. f \notin fetched
      BY <1>7, Zenon DEF LinkedOnce
    <2>2. Need' = Need /\ Settled' = Settled /\ Status = "run" /\ Status' = "failed"
      BY <1>1, <1>7 DEF Need, Settled, Needed, Status
    <2>3. Loading!LoadFails
      BY <1>1, <1>5, <1>7, <2>1, <2>2 DEF Loading!LoadFails, Need, Settled, Status
    <2> QED BY <2>3 DEF Loading!Next
  <1>8. CASE f \in fetched /\ UNCHANGED <<pc, fetched>>
    BY <1>1, <1>8, LoadingStutters DEF Status
  <1>9. CASE f \notin prog.bad /\ f \notin fetched /\ pc' = "seed" /\ fetched' = fetched \cup {f}
    <2>1. Loading!Load(f)
      BY <1>1, <1>5, <1>9, JoinIsLoad
    <2> QED BY <2>1 DEF Loading!Next
  <1> QED BY <1>6, <1>7, <1>8, <1>9

\* Seeding and scanning bind the name they work on.
LEMMA SeedingIsBinding ==
  ASSUME ResolveInv, SeedSymbol \/ ScanEntry
  PROVE  [Loading!Next]_(Loading!vars)
PROOF
  <1> USE DEF ResolveInv
  <1>0. table \in Table
    BY Zenon DEF TypeOK, TableTypeOK, Table
  <1>1. CASE SeedSymbol
    <2> DEFINE n == Head(work).name
               s == Head(work).sym
               new == SlotAfter(table[n], s, Verdict(table, n, s))
    <2>1. /\ InLine /\ work \in Seq(Seeds) /\ work # <<>>
          /\ UNCHANGED <<prog, pos, fetched>> /\ Status = "run" /\ Status' = Status
          /\ table' = [table EXCEPT ![n] = new]
      BY <1>1 DEF SeedSymbol, Insert, LoopsApart, Status
    <2>2. n \in Names /\ s \in SeedSymbols
      <3>1. Head(work) \in Seeds
        BY <2>1, ListHead
      <3> QED BY <3>1, Zenon DEF Seeds
    <2> HIDE DEF n, s
    <2>3. /\ new.kind = "LazyArchive" => new = table[n]
          /\ new.kind = "Vacant" => table[n].kind = "Vacant"
          /\ table[n].kind \notin {"Vacant", "Undefined"} => new.kind \notin {"Vacant", "Undefined"}
      <3>1. SlotSeeded(table, n, s)
        BY <1>0, <2>2, SeededSlot, Zenon
      <3> QED BY <3>1 DEF SlotSeeded
    <2> HIDE DEF new
    <2>4. table'[n] = new /\ \A k \in Names \ {n} : table'[k] = table[k]
      BY <1>0, <2>1, <2>2 DEF Table
    <2>5. n \in Settled => n \in Settled'
      BY <2>1, <2>3, <2>4 DEF Settled, Needed
    <2> QED BY <2>1, <2>2, <2>3, <2>4, <2>5, SlotIsBind
  <1>2. CASE ScanEntry
    <2> DEFINE n == Head(work).name
               s == [kind |-> "LazyArchive", member |-> Head(work).member]
    <2>1. /\ InLine /\ work \in Seq(IndexEntry) /\ work # <<>>
          /\ UNCHANGED <<prog, pos, fetched>> /\ Status = "run" /\ Status' = Status
      BY <1>2 DEF ScanEntry, LoopsApart, Status
    <2>2. n \in Names
      <3>1. Head(work) \in IndexEntry
        BY <2>1, ListHead
      <3> QED BY <3>1, Zenon DEF IndexEntry
    <2>3. CASE table[n].kind = "Undefined"
      <3>1. Insert(n, s)
        BY <1>2, <2>3 DEF ScanEntry
      <3> HIDE DEF n
      <3>2. SlotAfter(table[n], s, Verdict(table, n, s)) = s /\ s.kind = "LazyArchive"
        BY <2>3, ScannedSlot
      <3> HIDE DEF s
      <3>3. table'[n] = s /\ \A k \in Names \ {n} : table'[k] = table[k]
        BY <1>0, <2>2, <3>1, <3>2 DEF Table, Insert
      <3>4. n \notin Settled
        BY <2>3 DEF Settled, Needed
      <3> QED BY <2>1, <2>2, <3>2, <3>3, <3>4, SlotIsBind, Zenon
    <2>4. CASE table[n].kind # "Undefined"
      BY <1>2, <2>1, <2>4, LoadingStutters DEF ScanEntry, tvars
    <2> QED BY <2>3, <2>4
  <1> QED BY <1>1, <1>2

\* What is undefined in the end is promoted, and the link is done.
LEMMA ClassifyIsFinish ==
  ASSUME ResolveInv, Classify \/ AllocateCommons
  PROVE  [Loading!Next]_(Loading!vars)
PROOF
  <1>1. UNCHANGED <<prog, pos, fetched>>
    BY DEF Classify, AllocateCommons
  <1>2. CASE Classify
    <2>1. /\ Need' = Need \ UndefinedNames /\ Settled' = Settled \cup UndefinedNames
          /\ UndefinedNames \subseteq Need
      <3>1. \A n \in Names : IF table[n].kind = "Undefined" THEN table'[n].kind = "DylibImport"
                             ELSE table'[n] = table[n]
        BY <1>2 DEF Classify, Promote
      <3>2. \A n \in UndefinedNames : n \in Names /\ Needed(n) /\ ~Needed(n)' /\ table'[n].kind # "Vacant"
        <4> TAKE n \in UndefinedNames
        <4>1. n \in Names /\ table[n].kind = "Undefined" /\ table'[n].kind = "DylibImport"
          BY <3>1 DEF UndefinedNames
        <4> QED BY <4>1, Zenon DEF Needed
      <3>3. \A n \in Names \ UndefinedNames : table'[n] = table[n] /\ (Needed(n)' <=> Needed(n))
        BY <1>1, <3>1, Zenon DEF Needed, UndefinedNames
      <3> QED BY <3>2, <3>3, Zenon DEF Need, Settled
    <2>2. /\ Status = "run" /\ Status' = "done" /\ ~InLine
          /\ UndefinedNames # {} => prog.treatment # "Error"
      BY <1>2 DEF Classify, Status
    <2>3. ~Loading!InLine
      BY <2>2, SameInputs, Zenon DEF Loading!InLine, InLine
    <2>4. Loading!Finish
      BY <1>1, <2>1, <2>2, <2>3 DEF Loading!Finish, Need, Settled, Status
    <2> QED BY <2>4 DEF Loading!Next
  <1>3. CASE AllocateCommons
    <2>1. \A n \in Names : /\ table'[n].kind = "Vacant" <=> table[n].kind = "Vacant"
                           /\ Needed(n)' <=> Needed(n)
      BY <1>1, <1>3 DEF AllocateCommons, MaterializeCommon, Needed
    <2>2. Need' = Need /\ Settled' = Settled
      BY <2>1, Zenon DEF Need, Settled
    <2>3. Status' = Status
      BY <1>3 DEF AllocateCommons, Status
    <2> QED BY <1>1, <2>2, <2>3, Zenon DEF Loading!vars, Need, Settled, Status
  <1> QED BY <1>2, <1>3

\* Whatever the inputs, resolution loads members as DemandLoading prescribes:
\* on demand only, once, and an archive is left when it has no more to give.
THEOREM ResolveLoadsOnDemand == Spec => LoadsOnDemand
PROOF
  <1>1. Init => Loading!Init
    <2> SUFFICES ASSUME Init PROVE Loading!Init
      OBVIOUS
    <2>1. \A n \in Names : table[n].kind = "Vacant"
      BY Zenon DEF Init, TableInit, Vacant
    <2> QED BY <2>1 DEF Init, Loading!Init, Needed
  <1>2. ResolveInv /\ [Next]_vars => [Loading!Next]_(Loading!vars)
    <2> SUFFICES ASSUME ResolveInv, [Next]_vars PROVE [Loading!Next]_(Loading!vars)
      OBVIOUS
    <2>1. CASE UNCHANGED vars
      BY <2>1, LoadingStutters DEF vars, tvars, rvars, Status
    <2>2. CASE Over
      BY <2>1, <2>2 DEF Over
    <2>3. CASE \/ TakeObject \/ TakeDylib \/ TakeArchive \/ TakeForced
               \/ SeedDone \/ ForceDone \/ SkipPending
      <3>1. UNCHANGED <<prog, pos, table, fetched>> /\ Status' = Status
        BY <2>3 DEF TakeObject, TakeDylib, TakeArchive, TakeForced, SeedDone, ForceDone,
             SkipPending, tvars, Status
      <3> QED BY <3>1, LoadingStutters, Zenon
    <2>4. CASE Step
      BY <2>3, <2>4, LeavingIsAdvance, RejectedAtEnd, FetchingIsLoading, SeedingIsBinding,
         ClassifyIsFinish DEF Step
    <2> QED BY <2>1, <2>2, <2>4 DEF Next
  <1> QED BY <1>1, <1>2, ResolutionInvariant, PTL DEF Spec, LoadsOnDemand, Loading!Spec
=============================================================================
