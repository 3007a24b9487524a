------------------------- MODULE SymbolTableProofs -------------------------
(***************************************************************************)
(* What SymbolTable promises for any names, files, dylibs, sizes and cap   *)
(* on alias chains: its slots keep their shape, a strong definition stays, *)
(* what a name is resolved to never loses rank, what an input leaves       *)
(* behind for the names it mentions, and that the slot of a watched name   *)
(* is the winner of everything that was offered for it.                    *)
(***************************************************************************)
EXTENDS SymbolHistory, TLAPS

Table == [Names -> Symbol \cup {Vacant}]

\* The kind of a symbol tells which of the shapes it has.
LEMMA KindsTellShapes ==
  ASSUME NEW s \in Symbol \cup {Vacant}
  PROVE  /\ s.kind = "Vacant" => s = Vacant
         /\ s.kind = "Undefined" => s \in UndefinedSymbols
         /\ s.kind = "Defined" => s \in DefinedSymbols
         /\ s.kind = "Common" => s \in CommonSymbols
         /\ s.kind = "DylibImport" => s \in ImportSymbols
         /\ s.kind = "LazyArchive" => s \in LazyArchiveSymbols
         /\ s.kind = "LazyObject" => s \in LazyObjectSymbols
         /\ s.kind = "Alias" => s \in AliasSymbols
         /\ s.kind \in {"Vacant", "Undefined", "Defined", "Common",
                        "DylibImport", "LazyArchive", "LazyObject", "Alias"}
  BY DEF Symbol, Vacant, UndefinedSymbols, DefinedSymbols, CommonSymbols,
         ImportSymbols, LazyArchiveSymbols, LazyObjectSymbols, AliasSymbols

\* A verdict that merges two symbols is given for two symbols of that kind.
LEMMA MergesAreOfOneKind ==
  ASSUME NEW t, NEW n, NEW s \in Symbol
  PROVE  /\ Verdict(t, n, s) = "CoalesceUndefined" =>
              t[n].kind = "Undefined" /\ s.kind = "Undefined"
         /\ Verdict(t, n, s) = "CoalesceCommon" =>
              t[n].kind = "Common" /\ s.kind = "Common"
  BY Zenon DEF Verdict

\* apply_action puts a symbol in the slot or leaves it as it was.
LEMMA SlotAfterType ==
  ASSUME NEW t \in [Names -> Symbol \cup {Vacant}], NEW n \in Names,
         NEW s \in Symbol
  PROVE  SlotAfter(t[n], s, Verdict(t, n, s)) \in Symbol \cup {Vacant}
PROOF
  <1> DEFINE v == Verdict(t, n, s)
  <1>1. t[n] \in Symbol \cup {Vacant}
    BY Zenon
  <1>2. CASE v = "CoalesceUndefined"
    <2>1. t[n] \in UndefinedSymbols /\ s \in UndefinedSymbols
      BY <1>1, <1>2, MergesAreOfOneKind, KindsTellShapes
    <2>2. [t[n] EXCEPT !.weak = t[n].weak /\ s.weak] \in UndefinedSymbols
      BY <2>1, Zenon DEF UndefinedSymbols
    <2> QED BY <1>2, <2>2, Zenon DEF SlotAfter, Symbol
  <1>3. CASE v = "CoalesceCommon"
    BY <1>1, <1>3, Zenon DEF SlotAfter, CoalesceCommon
  <1>4. CASE v \in {"Insert", "Replace"}
    <2>1. CASE t[n].kind = "Undefined" /\ s.kind = "DylibImport"
      <3>1. t[n] \in UndefinedSymbols /\ s \in ImportSymbols
        BY <1>1, <2>1, KindsTellShapes, Zenon
      <3>2. [s EXCEPT !.weak = s.weak \/ t[n].weak] \in ImportSymbols
        BY <3>1, Zenon DEF ImportSymbols, UndefinedSymbols
      <3> QED BY <1>4, <2>1, <3>2, Zenon DEF SlotAfter, ReplaceSlot, Symbol
    <2>2. CASE ~(t[n].kind = "Undefined" /\ s.kind = "DylibImport")
      BY <1>4, <2>2, Zenon DEF SlotAfter, ReplaceSlot
    <2> QED BY <2>1, <2>2, Zenon
  <1>5. CASE v \notin {"CoalesceUndefined", "CoalesceCommon", "Insert", "Replace"}
    BY <1>1, <1>5, Zenon DEF SlotAfter
  <1> QED BY <1>2, <1>3, <1>4, <1>5, Zenon

\* An error names the definitions that collide, both of object files.
LEMMA ErrorsOfType ==
  ASSUME NEW t \in [Names -> Symbol \cup {Vacant}], NEW n \in Names,
         NEW s \in Symbol
  PROVE  ErrorsOf(t, n, s, Verdict(t, n, s)) \subseteq InsertError
PROOF
  <1> DEFINE v == Verdict(t, n, s)
  <1>1. CASE v = "DuplicateStrong"
    <2>1. /\ t[n].kind \in {"Defined", "Alias"}
          /\ s.kind \in {"Defined", "Alias"}
      BY <1>1, KindsTellShapes, Zenon DEF Verdict, IsStrongDefinition, IsStrongDefined
    <2>2. t[n].origin \in Files /\ s.origin \in Files
      BY <2>1, KindsTellShapes DEF DefinedSymbols, AliasSymbols
    <2> QED BY <1>1, <2>2 DEF ErrorsOf, InsertError
  <1>2. CASE v = "AliasCycle"
    <2>1. s.kind = "Alias"
      BY <1>2, KindsTellShapes, Zenon DEF Verdict
    <2>2. s.origin \in Files
      BY <2>1, KindsTellShapes DEF AliasSymbols
    <2> QED BY <1>2, <2>2 DEF ErrorsOf, InsertError
  <1>3. CASE v \notin {"DuplicateStrong", "AliasCycle"}
    BY <1>3, Zenon DEF ErrorsOf
  <1> QED BY <1>1, <1>2, <1>3, Zenon

\* A step of the table keeps its shape.
LEMMA TableTypeKept == TableTypeOK /\ [TableNext]_tvars => TableTypeOK'
PROOF
  <1> SUFFICES ASSUME TableTypeOK, [TableNext]_tvars PROVE TableTypeOK'
    BY Zenon
  <1>1. ASSUME NEW n \in Names, NEW s \in Symbol, Insert(n, s)
        PROVE  TableTypeOK'
    <2>1. SlotAfter(table[n], s, Verdict(table, n, s)) \in Symbol \cup {Vacant}
      BY SlotAfterType, Zenon DEF TableTypeOK
    <2>2. ErrorsOf(table, n, s, Verdict(table, n, s)) \subseteq InsertError
      BY ErrorsOfType, Zenon DEF TableTypeOK
    <2> QED BY <1>1, <2>1, <2>2, Zenon DEF TableTypeOK, Insert
  <1>2. CASE Promote
    <2>1. \A n \in Names : table[n].kind = "Undefined" =>
            [kind |-> "DylibImport", origin |-> FlatLookup,
             weak |-> table[n].weak] \in Symbol
      BY KindsTellShapes, Zenon DEF TableTypeOK, UndefinedSymbols, ImportSymbols, Symbol
    <2> QED BY <1>2, <2>1, Zenon DEF TableTypeOK, Promote
  <1>3. CASE MaterializeCommon
    <2>1. \A n \in Names : table[n].kind = "Common" =>
            [kind |-> "Defined", origin |-> table[n].origin,
             weak |-> FALSE] \in Symbol
      BY KindsTellShapes, Zenon DEF TableTypeOK, CommonSymbols, DefinedSymbols, Symbol
    <2> QED BY <1>3, <2>1, Zenon DEF TableTypeOK, MaterializeCommon
  <1>4. CASE UNCHANGED tvars
    BY <1>4, Zenon DEF tvars, TableTypeOK
  <1> QED BY <1>1, <1>2, <1>3, <1>4, Zenon DEF TableNext

\* insert, promote_to_flat_lookup and materialize_common keep every slot
\* vacant or well-shaped.
THEOREM TableTypeCorrect == TableSpec => []TableTypeOK
PROOF
  <1>1. TableInit => TableTypeOK
    BY Zenon DEF TableInit, TableTypeOK
  <1> QED BY <1>1, TableTypeKept, PTL DEF TableSpec

\* insert on a slot that holds a strong definition or an alias leaves it be.
LEMMA StrongSlotStays ==
  ASSUME NEW t \in [Names -> Symbol \cup {Vacant}], NEW n \in Names,
         NEW s \in Symbol, IsStrongDefinition(t[n])
  PROVE  SlotAfter(t[n], s, Verdict(t, n, s)) = t[n]
PROOF
  <1>1. t[n].kind \in {"Defined", "Alias"}
    BY Zenon DEF IsStrongDefinition, IsStrongDefined
  <1>2. Verdict(t, n, s) \in {"DuplicateStrong", "Keep"}
    BY <1>1, Zenon DEF Verdict, ReplacePairs, IsStrongDefinition, IsStrongDefined
  <1> QED BY <1>2, Zenon DEF SlotAfter

\* No insert, promotion or materialisation ever replaces a strong definition
\* or an alias.
THEOREM StrongDefinitionsAreFinal == TableSpec => StrongDefinitionsStay
PROOF
  <1> DEFINE Stay == \A n \in Names :
                       IsStrongDefinition(table[n]) => table'[n] = table[n]
  <1>1. TableTypeOK /\ [TableNext]_tvars => [Stay]_table
    <2> SUFFICES ASSUME TableTypeOK, [TableNext]_tvars PROVE [Stay]_table
      BY Zenon
    <2>1. ASSUME NEW n \in Names, NEW s \in Symbol, Insert(n, s)
          PROVE  Stay
      BY <2>1, StrongSlotStays DEF Insert, TableTypeOK
    <2>2. CASE Promote
      BY <2>2, Zenon DEF Promote, IsStrongDefinition, IsStrongDefined, TableTypeOK
    <2>3. CASE MaterializeCommon
      BY <2>3, Zenon DEF MaterializeCommon, IsStrongDefinition, IsStrongDefined, TableTypeOK
    <2>4. CASE UNCHANGED tvars
      BY <2>4, Zenon DEF tvars
    <2> QED BY <2>1, <2>2, <2>3, <2>4, Zenon DEF TableNext
  <1> QED BY <1>1, TableTypeCorrect, PTL DEF TableSpec, StrongDefinitionsStay

\* What the rank of a slot is, by the kind in it.
LEMMA RankOfKinds ==
  ASSUME NEW s \in Symbol \cup {Vacant}
  PROVE  /\ Rank(s) \in 0 .. 5
         /\ s.kind = "Vacant" => Rank(s) = 0
         /\ s.kind = "Undefined" => Rank(s) = 1
         /\ s.kind \in {"LazyArchive", "LazyObject"} => Rank(s) = 2
         /\ s.kind \in {"Common", "DylibImport"} => Rank(s) = 3
         /\ s.kind = "Defined" => Rank(s) = IF s.weak THEN 4 ELSE 5
         /\ s.kind = "Alias" => Rank(s) = 5
  BY KindsTellShapes DEF Rank

\* insert leaves a slot of at least the rank it found.
LEMMA InsertClimbs ==
  ASSUME NEW t \in [Names -> Symbol \cup {Vacant}], NEW n \in Names,
         NEW s \in Symbol
  PROVE  Rank(SlotAfter(t[n], s, Verdict(t, n, s))) >= Rank(t[n])
PROOF
  <1> DEFINE v == Verdict(t, n, s)
             old == t[n]
             new == SlotAfter(old, s, v)
  <1>1. old \in Symbol \cup {Vacant} /\ new \in Symbol \cup {Vacant}
    BY SlotAfterType, Zenon
  <1>2. CASE v = "CoalesceUndefined"
    <2>1. old.kind = "Undefined"
      BY <1>2, MergesAreOfOneKind, Zenon
    <2>2. Rank(old) = 1
      BY <1>1, <2>1, RankOfKinds, Zenon
    <2>3. new = [old EXCEPT !.weak = old.weak /\ s.weak]
      BY <1>2, Zenon DEF SlotAfter
    <2>4. new.kind = "Undefined"
      BY <1>1, <2>1, <2>3, KindsTellShapes, Zenon DEF UndefinedSymbols
    <2> QED BY <1>1, <2>2, <2>4, RankOfKinds
  <1>3. CASE v = "CoalesceCommon"
    <2>1. old.kind = "Common" /\ s.kind = "Common"
      BY <1>3, MergesAreOfOneKind, Zenon
    <2>2. new.kind = "Common"
      BY <1>3, <2>1, Zenon DEF SlotAfter, CoalesceCommon
    <2> QED BY <1>1, <2>1, <2>2, RankOfKinds
  <1>4. CASE v = "ReplaceAndPendingArchiveFetch"
    <2>1. old.kind = "Undefined" /\ s.kind = "LazyArchive"
      BY <1>4, Zenon DEF Verdict
    <2> QED BY <1>1, <1>4, <2>1, RankOfKinds DEF SlotAfter
  <1>5. CASE v = "Insert"
    <2>1. old.kind = "Vacant"
      BY <1>5, Zenon DEF Verdict
    <2> QED BY <1>1, <2>1, RankOfKinds
  <1>6. CASE v = "Replace"
    <2>1. new.kind = s.kind
      <3>1. new = ReplaceSlot(old, s)
        BY <1>6, Zenon DEF SlotAfter
      <3>2. CASE s.kind = "DylibImport"
        <4>1. [s EXCEPT !.weak = s.weak \/ old.weak].kind = "DylibImport"
          BY <3>2, KindsTellShapes, Zenon DEF ImportSymbols
        <4> QED BY <3>1, <3>2, <4>1, Zenon DEF ReplaceSlot
      <3>3. CASE s.kind # "DylibImport"
        BY <3>1, <3>3, Zenon DEF ReplaceSlot
      <3> QED BY <3>2, <3>3, Zenon
    <2>2. CASE s.kind = "Alias"
      BY <1>1, <2>1, <2>2, RankOfKinds
    <2>3. CASE s.kind = "Defined" /\ old.kind = "Defined"
      <3>1. ~s.weak /\ old.weak
        BY <1>6, <2>3, Zenon DEF Verdict, ReplacePairs, IsStrongDefined
      <3>2. new = s
        BY <1>6, <2>3, Zenon DEF SlotAfter, ReplaceSlot
      <3> QED BY <1>1, <2>3, <3>1, <3>2, RankOfKinds
    <2>4. CASE s.kind # "Alias" /\ <<old.kind, s.kind>> # <<"Defined", "Defined">>
      <3>1. <<old.kind, s.kind>> \in ReplacePairs
        BY <1>6, <2>4, Zenon DEF Verdict
      <3>2. Rank(old) <= 3 /\ Rank(s) >= 2
        BY <1>1, <3>1, RankOfKinds DEF ReplacePairs
      <3>3. CASE old.kind \in {"Common", "DylibImport"}
        <4>1. s.kind = "Defined"
          BY <3>1, <3>3, Zenon DEF ReplacePairs
        <4> QED BY <1>1, <2>1, <3>2, <4>1, RankOfKinds
      <3>4. CASE old.kind \in {"Undefined", "LazyArchive", "LazyObject"}
        <4>1. Rank(old) <= 2
          BY <1>1, <3>4, RankOfKinds
        <4>2. s.kind \in {"Defined", "Common", "DylibImport", "LazyObject", "LazyArchive"}
          BY <3>1, Zenon DEF ReplacePairs
        <4>3. Rank(new) >= 2
          BY <1>1, <2>1, <4>2, RankOfKinds
        <4> QED BY <1>1, <4>1, <4>3, RankOfKinds
      <3> QED BY <3>1, <3>3, <3>4, Zenon DEF ReplacePairs
    <2> QED BY <2>2, <2>3, <2>4, Zenon
  <1>7. CASE v \notin {"CoalesceUndefined", "CoalesceCommon", "Insert", "Replace",
                       "ReplaceAndPendingArchiveFetch"}
    BY <1>1, <1>7, RankOfKinds DEF SlotAfter
  <1> QED BY <1>2, <1>3, <1>4, <1>5, <1>6, <1>7, Zenon

\* Whatever order the inputs are seeded in, no step makes a name less concrete.
THEOREM RanksOnlyClimb == TableSpec => RanksNeverDrop
PROOF
  <1> DEFINE Climb == \A n \in Names : Rank(table'[n]) >= Rank(table[n])
  <1>1. TableTypeOK /\ [TableNext]_tvars => [Climb]_table
    <2> SUFFICES ASSUME TableTypeOK, [TableNext]_tvars PROVE [Climb]_table
      BY Zenon
    <2>0. \A n \in Names : table[n] \in Symbol \cup {Vacant} /\ Rank(table[n]) \in 0 .. 5
      BY RankOfKinds, Zenon DEF TableTypeOK
    <2>1. ASSUME NEW n \in Names, NEW s \in Symbol, Insert(n, s)
          PROVE  Climb
      <3>1. Rank(SlotAfter(table[n], s, Verdict(table, n, s))) >= Rank(table[n])
        BY InsertClimbs, Zenon DEF TableTypeOK
      <3> QED BY <2>0, <2>1, <3>1 DEF Insert, TableTypeOK
    <2>2. CASE Promote
      <3> SUFFICES ASSUME NEW n \in Names PROVE Rank(table'[n]) >= Rank(table[n])
        BY Zenon
      <3>1. CASE table[n].kind = "Undefined"
        <4>1. table'[n].kind = "DylibImport"
          BY <2>2, <3>1, Zenon DEF Promote
        <4>2. table'[n] \in Symbol
          BY <2>0, <2>2, <3>1, KindsTellShapes, Zenon DEF Promote, UndefinedSymbols, ImportSymbols, Symbol
        <4> QED BY <2>0, <3>1, <4>1, <4>2, RankOfKinds
      <3>2. CASE table[n].kind # "Undefined"
        BY <2>0, <2>2, <3>2 DEF Promote
      <3> QED BY <3>1, <3>2, Zenon
    <2>3. CASE MaterializeCommon
      <3> SUFFICES ASSUME NEW n \in Names PROVE Rank(table'[n]) >= Rank(table[n])
        BY Zenon
      <3>1. CASE table[n].kind = "Common"
        <4>1. table'[n].kind = "Defined"
          BY <2>3, <3>1, Zenon DEF MaterializeCommon
        <4>2. table'[n] \in Symbol
          BY <2>0, <2>3, <3>1, KindsTellShapes DEF MaterializeCommon, CommonSymbols, DefinedSymbols, Symbol
        <4> QED BY <2>0, <3>1, <4>1, <4>2, RankOfKinds
      <3>2. CASE table[n].kind # "Common"
        BY <2>0, <2>3, <3>2 DEF MaterializeCommon
      <3> QED BY <3>1, <3>2, Zenon
    <2>4. CASE UNCHANGED tvars
      BY <2>4, Zenon DEF tvars
    <2> QED BY <2>1, <2>2, <2>3, <2>4, Zenon DEF TableNext
  <1> QED BY <1>1, TableTypeCorrect, PTL DEF TableSpec, RanksNeverDrop
-----------------------------------------------------------------------------
(* The slot that an input leaves behind. *)

\* What an object or a dylib puts into the table is never lazy.
SeedSymbols == {s \in Symbol : s.kind \notin {"LazyArchive", "LazyObject"}}
Seeds == [name : Names, sym : SeedSymbols]

\* Kinds that provide a name.
Provided == {"Common", "Defined", "DylibImport", "Alias"}

\* What seeding s does to the slot of n: no case of the matrix loses a definition.
SlotSeeded(t, n, s) ==
  LET v == Verdict(t, n, s)
      new == SlotAfter(t[n], s, v)
  IN  /\ new \in Symbol \cup {Vacant}
      /\ new.kind \in {"LazyArchive", "LazyObject"} => new = t[n]
      /\ new.kind = "Vacant" => t[n].kind = "Vacant" /\ s.kind = "Alias"
      /\ new.kind = "Undefined" =>
           \/ t[n].kind = "Undefined" /\ new.origin = t[n].origin
           \/ new = s
      /\ t[n].kind \notin {"Vacant", "Undefined"} =>
           new.kind \notin {"Vacant", "Undefined"}
      /\ t[n].kind \in Provided => new.kind \in Provided
      /\ s.kind \in Provided => new.kind \in Provided \/ v \in InsertErrors
      /\ new.kind = "Alias" => new = t[n] \/ (new = s /\ v \notin InsertErrors)
      /\ t[n].kind = "Alias" => new = t[n]
      /\ v \in FetchVerdicts => t[n].kind = "LazyArchive"
      /\ v \in InsertErrors => ErrorsOf(t, n, s, v) # {}

\* What the resolution matrix makes of a slot and a symbol that is not lazy.
LEMMA SeededSlot ==
  ASSUME NEW t \in Table, NEW n \in Names, NEW s \in SeedSymbols
  PROVE  SlotSeeded(t, n, s)
PROOF
  <1> USE DEF SlotSeeded
  <1> DEFINE v == Verdict(t, n, s)
             old == t[n]
             new == SlotAfter(old, s, v)
  <1>1. /\ old \in Symbol \cup {Vacant} /\ s \in Symbol /\ new \in Symbol \cup {Vacant}
        /\ old.kind \in {"Vacant", "Undefined", "Defined", "Common",
                        "DylibImport", "LazyArchive", "LazyObject", "Alias"}
        /\ s.kind \in {"Undefined", "Defined", "Common", "DylibImport", "Alias"}
    BY SlotAfterType, KindsTellShapes DEF Table, SeedSymbols, Vacant, Symbol,
         UndefinedSymbols, DefinedSymbols, CommonSymbols, ImportSymbols,
         LazyArchiveSymbols, LazyObjectSymbols, AliasSymbols
  <1>2. v \in InsertErrors => new = old /\ ErrorsOf(t, n, s, v) # {}
    BY Zenon DEF SlotAfter, InsertErrors, ErrorsOf
  <1>3. v = "Keep" \/ v = "PendingArchiveFetch" \/ v = "PendingObjectLoad" => new = old
    BY Zenon DEF SlotAfter
  <1>4. v \in {"Insert", "Replace"} => new.kind = s.kind /\ (s.kind # "DylibImport" => new = s)
    <2> SUFFICES ASSUME v \in {"Insert", "Replace"}
                 PROVE  new.kind = s.kind /\ (s.kind # "DylibImport" => new = s)
      BY Zenon
    <2>1. new = ReplaceSlot(old, s)
      BY Zenon DEF SlotAfter
    <2>2. CASE s.kind = "DylibImport"
      <3>1. [s EXCEPT !.weak = s.weak \/ old.weak].kind = "DylibImport"
        BY <1>1, <2>2, KindsTellShapes, Zenon DEF ImportSymbols
      <3> QED BY <2>1, <2>2, <3>1, Zenon DEF ReplaceSlot
    <2>3. CASE s.kind # "DylibImport"
      BY <2>1, <2>3, Zenon DEF ReplaceSlot
    <2> QED BY <2>2, <2>3, Zenon
  <1>5. v = "CoalesceUndefined" =>
          /\ old.kind = "Undefined" /\ s.kind = "Undefined"
          /\ new.kind = "Undefined" /\ new.origin = old.origin
    <2> SUFFICES ASSUME v = "CoalesceUndefined"
                 PROVE  /\ old.kind = "Undefined" /\ s.kind = "Undefined"
                        /\ new.kind = "Undefined" /\ new.origin = old.origin
      BY Zenon
    <2>1. old \in UndefinedSymbols /\ s.kind = "Undefined"
      BY <1>1, MergesAreOfOneKind, KindsTellShapes
    <2>2. new = [old EXCEPT !.weak = old.weak /\ s.weak]
      BY Zenon DEF SlotAfter
    <2> QED BY <2>1, <2>2, Zenon DEF UndefinedSymbols
  <1>6. v = "CoalesceCommon" =>
          old.kind = "Common" /\ s.kind = "Common" /\ new.kind = "Common"
    BY <1>1, MergesAreOfOneKind DEF SlotAfter, CoalesceCommon
  <1> HIDE DEF new
  <1>7. /\ v = "Insert" => old.kind = "Vacant" /\ s.kind # "Alias"
        /\ v = "Replace" =>
             \/ (s.kind = "Alias" /\ old.kind # "Alias")
             \/ <<old.kind, s.kind>> \in ReplacePairs
             \/ old.kind = "Defined" /\ s.kind = "Defined"
        /\ v = "Keep" => old.kind # "Vacant" /\ s.kind # "Alias"
        /\ v = "Keep" /\ s.kind \in Provided => old.kind \in Provided
        /\ v = "PendingArchiveFetch" => old.kind = "LazyArchive" /\ s.kind = "Undefined"
        /\ v = "PendingObjectLoad" => old.kind = "LazyObject" /\ s.kind = "Undefined"
        /\ v = "DuplicateStrong" => old.kind \in {"Defined", "Alias"}
        /\ v = "AliasCycle" => s.kind = "Alias" /\ old.kind # "Alias"
        /\ v # "ReplaceAndPendingArchiveFetch"
        /\ v \in {"Insert", "Replace", "Keep", "PendingArchiveFetch", "PendingObjectLoad",
                  "DuplicateStrong", "AliasCycle", "CoalesceUndefined", "CoalesceCommon"}
    <2>1. CASE s.kind = "Alias"
      <3>1. v = IF IsStrongDefinition(old) THEN "DuplicateStrong"
                ELSE IF AliasWouldCycle(t, n, s.to) THEN "AliasCycle" ELSE "Replace"
        BY <2>1, Zenon DEF Verdict, ReplacePairs
      <3> HIDE DEF v
      <3> QED BY <2>1, <3>1, Zenon DEF IsStrongDefinition, IsStrongDefined
    <2>2. CASE s.kind # "Alias" /\ old.kind \in {"Vacant", "Undefined", "LazyArchive", "LazyObject"}
      <3>1. v = CASE old.kind = "Vacant" -> "Insert"
                  [] <<old.kind, s.kind>> \in ReplacePairs -> "Replace"
                  [] <<old.kind, s.kind>> = <<"Undefined", "Undefined">> -> "CoalesceUndefined"
                  [] <<old.kind, s.kind>> = <<"LazyArchive", "Undefined">> -> "PendingArchiveFetch"
                  [] <<old.kind, s.kind>> = <<"LazyObject", "Undefined">> -> "PendingObjectLoad"
        BY <1>1, <2>2 DEF Verdict, ReplacePairs
      <3> HIDE DEF v
      <3> QED BY <1>1, <2>2, <3>1 DEF ReplacePairs, Provided
    <2>3. CASE s.kind # "Alias" /\ old.kind \in Provided
      <3>1. v = CASE <<old.kind, s.kind>> \in ReplacePairs -> "Replace"
                  [] <<old.kind, s.kind>> = <<"Defined", "Defined">> ->
                       IF ~IsStrongDefined(s) THEN "Keep"
                       ELSE IF IsStrongDefined(old) THEN "DuplicateStrong" ELSE "Replace"
                  [] <<old.kind, s.kind>> = <<"Common", "Common">> -> "CoalesceCommon"
                  [] <<old.kind, s.kind>> = <<"Alias", "Defined">> /\ IsStrongDefined(s) ->
                       "DuplicateStrong"
                  [] OTHER -> "Keep"
        BY <1>1, <2>3 DEF Verdict, Provided
      <3> HIDE DEF v
      <3> QED BY <1>1, <2>3, <3>1 DEF Provided, ReplacePairs
    <2> HIDE DEF v
    <2> QED BY <1>1, <2>1, <2>2, <2>3, Zenon DEF Provided
  <1> HIDE DEF v, old, new
  <1> USE <1>1, <1>2, <1>3, <1>4, <1>5, <1>6, <1>7
  <1>8. new.kind \in {"LazyArchive", "LazyObject"} => new = old
    BY Zenon DEF InsertErrors, ReplacePairs
  <1>9. new.kind = "Vacant" => old.kind = "Vacant" /\ s.kind = "Alias"
    BY Zenon DEF InsertErrors, ReplacePairs
  <1>10. new.kind = "Undefined" =>
           (old.kind = "Undefined" /\ new.origin = old.origin) \/ new = s
    BY Zenon DEF InsertErrors, ReplacePairs
  <1>11. /\ old.kind \notin {"Vacant", "Undefined"} => new.kind \notin {"Vacant", "Undefined"}
         /\ old.kind \in Provided => new.kind \in Provided
    BY DEF InsertErrors, ReplacePairs, Provided
  <1>12. s.kind \in Provided => new.kind \in Provided \/ v \in InsertErrors
    BY Zenon DEF InsertErrors, ReplacePairs, Provided
  <1>13. new.kind = "Alias" => new = old \/ (new = s /\ v \notin InsertErrors)
    BY Zenon DEF InsertErrors, ReplacePairs
  <1>14. old.kind = "Alias" => new = old
    BY Zenon DEF InsertErrors, ReplacePairs
  <1>15. v \in FetchVerdicts => old.kind = "LazyArchive"
    BY Zenon DEF FetchVerdicts
  <1> QED BY <1>8, <1>9, <1>10, <1>11, <1>12, <1>13, <1>14, <1>15, Zenon DEF v, old, new

\* An index entry takes over an Undefined slot.
LEMMA ScannedSlot ==
  ASSUME NEW t, NEW n, t[n].kind = "Undefined", NEW m
  PROVE  LET s == [kind |-> "LazyArchive", member |-> m]
             v == Verdict(t, n, s)
         IN  SlotAfter(t[n], s, v) = s /\ ErrorsOf(t, n, s, v) = {}
PROOF
  <1> DEFINE s == [kind |-> "LazyArchive", member |-> m]
             v == Verdict(t, n, s)
  <1>1. v = "ReplaceAndPendingArchiveFetch"
    BY Zenon DEF Verdict, ReplacePairs
  <1> QED BY <1>1, Zenon DEF SlotAfter, ErrorsOf
-----------------------------------------------------------------------------
(* The history of a name. *)

\* What the matrix makes of a slot and a symbol, by their ranks.
JudgedAs(old, s, new) ==
  /\ Rank(s) > Rank(old) => new = ReplaceSlot(old, s)
  /\ Rank(s) < Rank(old) => new = old
  /\ Rank(s) = Rank(old) =>
       /\ Rank(s) >= 4 \/ s.kind = "DylibImport" \/ old.kind = "DylibImport" => new = old
       /\ s.kind = "Common" /\ old.kind = "Common" => new = CoalesceCommon(old, s)
       /\ Rank(s) = 2 => new = IF s.kind = old.kind THEN old ELSE s
       /\ Rank(s) = 1 => new = [old EXCEPT !.weak = old.weak /\ s.weak]

\* The verdict of insert, case by case of its matrix.
LEMMA JudgedByRank ==
  ASSUME NEW t \in Table, NEW n \in Names, NEW s \in Symbol,
         Verdict(t, n, s) # "AliasCycle"
  PROVE  /\ JudgedAs(t[n], s, SlotAfter(t[n], s, Verdict(t, n, s)))
         /\ Verdict(t, n, s) = "DuplicateStrong" <=>
              IsStrongDefinition(t[n]) /\ IsStrongDefinition(s)
PROOF
  <1> DEFINE v == Verdict(t, n, s)
             old == t[n]
             new == SlotAfter(old, s, v)
  <1>1. /\ old \in Symbol \cup {Vacant} /\ s \in Symbol \cup {Vacant}
        /\ old.kind \in {"Vacant", "Undefined", "Defined", "Common",
                        "DylibImport", "LazyArchive", "LazyObject", "Alias"}
        /\ s.kind \in {"Undefined", "Defined", "Common", "DylibImport",
                       "LazyArchive", "LazyObject", "Alias"}
    BY KindsTellShapes DEF Table, Vacant, Symbol,
         UndefinedSymbols, DefinedSymbols, CommonSymbols, ImportSymbols,
         LazyArchiveSymbols, LazyObjectSymbols, AliasSymbols
  <1>2. /\ old.kind = "Vacant" => Rank(old) = 0
        /\ old.kind = "Undefined" => Rank(old) = 1
        /\ old.kind \in {"LazyArchive", "LazyObject"} => Rank(old) = 2
        /\ old.kind \in {"Common", "DylibImport"} => Rank(old) = 3
        /\ old.kind = "Defined" => Rank(old) = IF old.weak THEN 4 ELSE 5
        /\ old.kind = "Alias" => Rank(old) = 5
    BY <1>1, RankOfKinds, Zenon
  <1>3. /\ s.kind = "Undefined" => Rank(s) = 1
        /\ s.kind \in {"LazyArchive", "LazyObject"} => Rank(s) = 2
        /\ s.kind \in {"Common", "DylibImport"} => Rank(s) = 3
        /\ s.kind = "Defined" => Rank(s) = IF s.weak THEN 4 ELSE 5
        /\ s.kind = "Alias" => Rank(s) = 5
    BY <1>1, RankOfKinds, Zenon
  <1>4. /\ v = "Insert" \/ v = "Replace" => new = ReplaceSlot(old, s)
        /\ v = "ReplaceAndPendingArchiveFetch" => new = s
        /\ v = "CoalesceUndefined" => new = [old EXCEPT !.weak = old.weak /\ s.weak]
        /\ v = "CoalesceCommon" => new = CoalesceCommon(old, s)
        /\ v = "Keep" \/ v = "DuplicateStrong" \/ v = "PendingArchiveFetch"
             \/ v = "PendingObjectLoad" => new = old
    BY Zenon DEF SlotAfter
  <1>5. s.kind # "DylibImport" \/ old.kind # "Undefined" => ReplaceSlot(old, s) = s
    BY Zenon DEF ReplaceSlot
  <1> HIDE DEF new
  <1> SUFFICES JudgedAs(old, s, new) /\ (v = "DuplicateStrong" <=>
                 IsStrongDefinition(old) /\ IsStrongDefinition(s))
    BY DEF new
  <1>6. CASE s.kind = "Alias"
    <2>1. v = IF IsStrongDefinition(old) THEN "DuplicateStrong" ELSE "Replace"
      BY <1>6, Zenon DEF Verdict, ReplacePairs
    <2> HIDE DEF v, old
    <2>2. CASE IsStrongDefinition(old)
      BY <1>1, <1>2, <1>3, <1>4, <1>6, <2>1, <2>2
        DEF JudgedAs, IsStrongDefinition, IsStrongDefined
    <2>3. CASE ~IsStrongDefinition(old)
      <3>1. Rank(old) \in 0 .. 4
        BY <1>1, <1>2, <2>3 DEF IsStrongDefinition, IsStrongDefined
      <3> QED BY <1>3, <1>4, <1>6, <2>1, <2>3, <3>1 DEF JudgedAs
    <2> QED BY <2>2, <2>3, Zenon
  <1>7. CASE s.kind # "Alias" /\ old.kind \in {"Vacant", "Undefined", "LazyArchive", "LazyObject"}
    <2>1. v = CASE old.kind = "Vacant" -> "Insert"
                [] <<old.kind, s.kind>> \in ReplacePairs -> "Replace"
                [] <<old.kind, s.kind>> = <<"Undefined", "Undefined">> -> "CoalesceUndefined"
                [] <<old.kind, s.kind>> = <<"Undefined", "LazyArchive">> ->
                     "ReplaceAndPendingArchiveFetch"
                [] <<old.kind, s.kind>> = <<"LazyArchive", "Undefined">> -> "PendingArchiveFetch"
                [] <<old.kind, s.kind>> = <<"LazyObject", "Undefined">> -> "PendingObjectLoad"
                [] OTHER -> "Keep"
      BY <1>1, <1>7 DEF Verdict, ReplacePairs
    <2> HIDE DEF v, old
    <2>2. ~IsStrongDefinition(old)
      BY <1>7, Zenon DEF IsStrongDefinition, IsStrongDefined
    <2>3. CASE old.kind = "Vacant"
      <3>1. v = "Insert"
        BY <2>1, <2>3, Zenon DEF ReplacePairs
      <3> QED BY <1>1, <1>2, <1>3, <1>4, <2>2, <2>3, <3>1 DEF JudgedAs
    <2>4. CASE old.kind = "Undefined"
      <3>1. v = IF s.kind = "Undefined" THEN "CoalesceUndefined"
                ELSE IF s.kind = "LazyArchive" THEN "ReplaceAndPendingArchiveFetch" ELSE "Replace"
        BY <1>1, <1>7, <2>1, <2>4, Zenon DEF ReplacePairs
      <3> QED BY <1>1, <1>2, <1>3, <1>4, <1>5, <2>2, <2>4, <3>1 DEF JudgedAs
    <2>5. CASE old.kind \in {"LazyArchive", "LazyObject"}
      <3>1. v = IF s.kind = "Undefined"
                  THEN IF old.kind = "LazyArchive" THEN "PendingArchiveFetch" ELSE "PendingObjectLoad"
                  ELSE IF s.kind = old.kind THEN "Keep" ELSE "Replace"
        BY <1>1, <1>7, <2>1, <2>5 DEF ReplacePairs
      <3> QED BY <1>1, <1>2, <1>3, <1>4, <1>5, <2>2, <2>5, <3>1 DEF JudgedAs
    <2> QED BY <1>7, <2>3, <2>4, <2>5, Zenon
  <1>8. CASE s.kind # "Alias" /\ old.kind \in Provided
    <2>1. v = CASE <<old.kind, s.kind>> \in ReplacePairs -> "Replace"
                [] <<old.kind, s.kind>> = <<"Defined", "Defined">> ->
                     IF ~IsStrongDefined(s) THEN "Keep"
                     ELSE IF IsStrongDefined(old) THEN "DuplicateStrong" ELSE "Replace"
                [] <<old.kind, s.kind>> = <<"Common", "Common">> -> "CoalesceCommon"
                [] <<old.kind, s.kind>> = <<"Alias", "Defined">> /\ IsStrongDefined(s) ->
                     "DuplicateStrong"
                [] OTHER -> "Keep"
      BY <1>1, <1>8 DEF Verdict, Provided
    <2> HIDE DEF v, old
    <2>2. CASE old.kind \in {"Common", "DylibImport"}
      <3>1. v = IF s.kind = "Defined" THEN "Replace"
                ELSE IF s.kind = "Common" /\ old.kind = "Common" THEN "CoalesceCommon" ELSE "Keep"
        BY <1>1, <1>8, <2>1, <2>2, Zenon DEF ReplacePairs
      <3> QED BY <1>1, <1>2, <1>3, <1>4, <1>5, <1>8, <2>2, <3>1
            DEF JudgedAs, IsStrongDefinition, IsStrongDefined
    <2>3. CASE old.kind \in {"Defined", "Alias"}
      <3>1. v = IF ~IsStrongDefined(s) THEN "Keep"
                ELSE IF IsStrongDefinition(old) THEN "DuplicateStrong" ELSE "Replace"
        BY <1>1, <1>8, <2>1, <2>3, Zenon DEF ReplacePairs, IsStrongDefinition, IsStrongDefined
      <3>2. /\ IsStrongDefined(s) => Rank(s) = 5 /\ s.kind = "Defined"
            /\ ~IsStrongDefined(s) => Rank(s) < 5
            /\ IsStrongDefinition(old) => Rank(old) = 5
            /\ ~IsStrongDefinition(old) => Rank(old) = 4
            /\ Rank(s) \in 0 .. 5
        BY <1>1, <1>2, <1>3, <1>8, <2>3 DEF IsStrongDefinition, IsStrongDefined
      <3>3. IsStrongDefinition(s) <=> IsStrongDefined(s)
        BY <1>8, Zenon DEF IsStrongDefinition
      <3> QED BY <1>3, <1>4, <1>5, <2>3, <3>1, <3>2, <3>3 DEF JudgedAs
    <2> QED BY <1>8, <2>2, <2>3, Zenon DEF Provided
  <1> QED BY <1>1, <1>6, <1>7, <1>8, Zenon DEF Provided

\* A symbol of rank 5 is a strong definition or an alias, and nothing that is
\* offered has rank 0.
LEMMA RanksOfOffers ==
  ASSUME NEW s \in Symbol
  PROVE  /\ Rank(s) \in 1 .. 5
         /\ Rank(s) = 5 <=> IsStrongDefinition(s)
         /\ Rank(s) = 1 <=> s.kind = "Undefined"
         /\ Rank(s) = 2 <=> s.kind \in {"LazyArchive", "LazyObject"}
         /\ Rank(s) = 3 <=> s.kind \in {"Common", "DylibImport"}
PROOF
  <1>1. s.kind \in {"Undefined", "Defined", "Common", "DylibImport",
                    "LazyArchive", "LazyObject", "Alias"}
    BY Zenon DEF Symbol, UndefinedSymbols, DefinedSymbols, CommonSymbols,
           ImportSymbols, LazyArchiveSymbols, LazyObjectSymbols, AliasSymbols
  <1> QED BY <1>1, RankOfKinds DEF IsStrongDefinition, IsStrongDefined

\* The size of a common symbol is a number.
LEMMA CommonSizes == \A s \in Symbol : s.kind = "Common" => s.size \in Nat
PROOF
  <1>1. ASSUME NEW s \in Symbol, s.kind = "Common" PROVE s.size \in Sizes
    BY <1>1, KindsTellShapes, Zenon DEF CommonSymbols
  <1>2. Sizes \subseteq Nat
    BY ConstantsAssumption, Zenon
  <1> QED BY <1>1, <1>2, Zenon

\* Another weakness leaves the kind and the origin of a symbol.
LEMMA Reweakened ==
  ASSUME NEW r, NEW b
  PROVE  /\ r \in ImportSymbols =>
              /\ [r EXCEPT !.weak = b] =
                   [kind |-> "DylibImport", origin |-> r.origin, weak |-> b]
              /\ r = [kind |-> "DylibImport", origin |-> r.origin, weak |-> r.weak]
         /\ r \in UndefinedSymbols =>
              /\ [r EXCEPT !.weak = b] =
                   [kind |-> "Undefined", origin |-> r.origin, weak |-> b]
              /\ r = [kind |-> "Undefined", origin |-> r.origin, weak |-> r.weak]
  BY DEF ImportSymbols, UndefinedSymbols

\* What is known of a history and of the slot it won.
LeaderOf(h, s, i) ==
  /\ i \in DOMAIN h /\ Leads(h, i)
  /\ \/ Rank(h[i]) >= 4 /\ s = h[i]
     \/ h[i].kind = "Common" /\ \E k \in DOMAIN h : LargestCommon(h, k) /\ s = h[k]
     \/ h[i].kind = "DylibImport" /\ s = [h[i] EXCEPT !.weak = h[i].weak \/ SettlesWeakly(h, i)]
     \/ Rank(h[i]) = 2 /\ \E k \in DOMAIN h : LatestLazy(h, k) /\ s = h[k]
     \/ h[i].kind = "Undefined" /\ s = [h[i] EXCEPT !.weak = \A j \in DOMAIN h : h[j].weak]

\* The winner has the rank of the leader, and its kind unless they are lazy.
LEMMA WinnerRanksAsLeader ==
  ASSUME NEW h \in Seq(Symbol), NEW s \in Symbol \cup {Vacant}, NEW i \in DOMAIN h,
         LeaderOf(h, s, i)
  PROVE  Rank(s) = Rank(h[i]) /\ (Rank(s) # 2 => s.kind = h[i].kind)
PROOF
  <1>1. h[i] \in Symbol /\ \A k \in DOMAIN h : h[k] \in Symbol
    OBVIOUS
  <1>2. CASE Rank(h[i]) >= 4 /\ s = h[i]
    BY <1>2, Zenon
  <1>3. CASE h[i].kind = "Common" /\ \E k \in DOMAIN h : LargestCommon(h, k) /\ s = h[k]
    <2>1. s.kind = "Common"
      BY <1>3 DEF LargestCommon
    <2> QED BY <1>1, <1>3, <2>1, RankOfKinds, Zenon
  <1>4. CASE h[i].kind = "DylibImport" /\ s = [h[i] EXCEPT !.weak = h[i].weak \/ SettlesWeakly(h, i)]
    <2>1. h[i] \in ImportSymbols
      BY <1>1, <1>4, KindsTellShapes
    <2>2. s.kind = "DylibImport"
      <3> DEFINE b == h[i].weak \/ SettlesWeakly(h, i)
      <3>1. b \in BOOLEAN /\ s = [h[i] EXCEPT !.weak = b]
        BY <1>4, Zenon
      <3> HIDE DEF b
      <3>2. [h[i] EXCEPT !.weak = b] = [kind |-> "DylibImport", origin |-> h[i].origin, weak |-> b]
        BY <2>1, Reweakened, Zenon
      <3> QED BY <3>1, <3>2, Zenon
    <2>3. h[i].kind = "DylibImport"
      BY <1>4, Zenon
    <2> QED BY <1>1, <2>2, <2>3, RankOfKinds, Zenon
  <1>5. CASE Rank(h[i]) = 2 /\ \E k \in DOMAIN h : LatestLazy(h, k) /\ s = h[k]
    BY <1>5, Zenon DEF LatestLazy
  <1>6. CASE h[i].kind = "Undefined" /\ s = [h[i] EXCEPT !.weak = \A j \in DOMAIN h : h[j].weak]
    <2>1. h[i] \in UndefinedSymbols
      BY <1>1, <1>6, KindsTellShapes
    <2>2. s.kind = "Undefined"
      <3> DEFINE b == \A j \in DOMAIN h : h[j].weak
      <3>1. b \in BOOLEAN /\ s = [h[i] EXCEPT !.weak = b]
        BY <1>6
      <3> HIDE DEF b
      <3>2. [h[i] EXCEPT !.weak = b] = [kind |-> "Undefined", origin |-> h[i].origin, weak |-> b]
        BY <2>1, Reweakened, Zenon
      <3> QED BY <3>1, <3>2, Zenon
    <2>3. h[i].kind = "Undefined"
      BY <1>6, Zenon
    <2> QED BY <1>1, <2>2, <2>3, RankOfKinds
  <1> QED BY <1>2, <1>3, <1>4, <1>5, <1>6, Zenon DEF LeaderOf

\* The elements of a history with one more.
LEMMA OneMore ==
  ASSUME NEW h \in Seq(Symbol), NEW s \in Symbol
  PROVE  /\ Append(h, s) \in Seq(Symbol)
         /\ Len(h) \in Nat /\ DOMAIN h = 1 .. Len(h)
         /\ DOMAIN Append(h, s) = 1 .. Len(h) + 1
         /\ Append(h, s)[Len(h) + 1] = s
         /\ \A j \in 1 .. Len(h) : Append(h, s)[j] = h[j] /\ h[j] \in Symbol
         /\ \A j \in DOMAIN Append(h, s) : j \in DOMAIN h \/ j = Len(h) + 1
  OBVIOUS

\* The first symbol of a name settles in its slot.
LEMMA FirstSettles ==
  ASSUME NEW s \in Symbol, NEW new, JudgedAs(Vacant, s, new)
  PROVE  Wins(Append(<<>>, s), new)
PROOF
  <1> DEFINE g == Append(<<>>, s)
  <1>1. DOMAIN g = {1} /\ g[1] = s
    OBVIOUS
  <1> HIDE DEF g
  <1>2. Rank(s) \in 1 .. 5 /\ Rank(Vacant) = 0 /\ Vacant.kind = "Vacant"
    BY RanksOfOffers, RankOfKinds DEF Vacant
  <1>3. new = s
    BY <1>2 DEF JudgedAs, ReplaceSlot
  <1>4. Leads(g, 1)
    BY <1>1, <1>2 DEF Leads
  <1>5. CASE Rank(s) >= 4
    BY <1>1, <1>3, <1>4, <1>5, Zenon DEF Wins, g
  <1>6. CASE s.kind = "Common"
    <2>1. s.size \in Nat
      BY <1>6, CommonSizes
    <2>2. LargestCommon(g, 1)
      BY <1>1, <1>6, <2>1 DEF LargestCommon
    <2> QED BY <1>1, <1>3, <1>4, <1>6, <2>2, Zenon DEF Wins, g
  <1>7. CASE s.kind = "DylibImport"
    <2>1. ~SettlesWeakly(g, 1)
      BY DEF SettlesWeakly
    <2>2. s \in ImportSymbols
      BY <1>7, KindsTellShapes, Zenon
    <2>3. s.weak \in BOOLEAN
      BY <2>2, Zenon DEF ImportSymbols
    <2> DEFINE b == s.weak \/ SettlesWeakly(g, 1)
    <2>4. b = s.weak
      BY <2>1, <2>3, Zenon
    <2>5. s = [g[1] EXCEPT !.weak = b]
      BY <1>1, <2>2, <2>4, Reweakened, Zenon
    <2>6. s = [g[1] EXCEPT !.weak = g[1].weak \/ SettlesWeakly(g, 1)]
      BY <1>1, <2>5, Zenon
    <2> QED BY <1>1, <1>3, <1>4, <1>7, <2>6, Zenon DEF Wins, g
  <1>8. CASE Rank(s) = 2
    <2>1. LatestLazy(g, 1)
      BY <1>1, <1>8 DEF LatestLazy
    <2> QED BY <1>1, <1>3, <1>4, <1>8, <2>1, Zenon DEF Wins, g
  <1>9. CASE s.kind = "Undefined"
    <2>2. s \in UndefinedSymbols
      BY <1>9, KindsTellShapes, Zenon
    <2>3. s.weak \in BOOLEAN
      BY <2>2 DEF UndefinedSymbols
    <2> DEFINE b == \A j \in DOMAIN g : g[j].weak
    <2>4. b <=> s.weak
      BY <1>1
    <2>5. s = [g[1] EXCEPT !.weak = b]
      <3>1. b = s.weak
        BY <2>3, <2>4, Zenon
      <3> QED BY <1>1, <2>2, <3>1, Reweakened, Zenon
    <2> QED BY <1>1, <1>3, <1>4, <1>9, <2>5, Zenon DEF Wins, g
  <1> QED BY <1>2, <1>5, <1>6, <1>7, <1>8, <1>9, RanksOfOffers

\* A symbol of a higher rank leads and settles in the slot.
LEMMA HigherSettles ==
  ASSUME NEW h \in Seq(Symbol), NEW old \in Symbol \cup {Vacant}, NEW s \in Symbol, NEW new,
         NEW i \in DOMAIN h, LeaderOf(h, old, i), JudgedAs(old, s, new), Rank(s) > Rank(old)
  PROVE  Wins(Append(h, s), new)
PROOF
  <1> DEFINE g == Append(h, s)
             z == Len(h) + 1
  <1>1. /\ z \in Nat /\ DOMAIN g = 1 .. z /\ DOMAIN h = 1 .. z - 1 /\ g[z] = s
        /\ \A j \in 1 .. z - 1 : g[j] = h[j] /\ h[j] \in Symbol
    BY OneMore
  <1> HIDE DEF g, z
  <1>2. Rank(s) \in 1 .. 5 /\ \A j \in DOMAIN h : Rank(h[j]) \in 1 .. 5
    BY <1>1, RanksOfOffers, Zenon
  <1>3. /\ Rank(old) = Rank(h[i]) /\ Rank(old) \in 1 .. 5
        /\ \A j \in DOMAIN h : Rank(h[j]) <= Rank(old)
    BY <1>2, WinnerRanksAsLeader DEF LeaderOf, Leads
  <1>4. z \in DOMAIN g /\ Leads(g, z)
    BY <1>1, <1>2, <1>3 DEF Leads
  <1>5. new = ReplaceSlot(old, s)
    BY Zenon DEF JudgedAs
  <1>6. CASE Rank(s) >= 4
    <2>1. new = s
      BY <1>5, <1>6, RanksOfOffers DEF ReplaceSlot
    <2> QED BY <1>1, <1>4, <1>6, <2>1, Zenon DEF Wins, g
  <1>7. CASE s.kind = "Common"
    <2>1. new = s
      BY <1>5, <1>7, Zenon DEF ReplaceSlot
    <2>2. Rank(s) = 3 /\ \A j \in DOMAIN h : h[j].kind # "Common"
      BY <1>1, <1>2, <1>3, <1>7, RanksOfOffers
    <2>3. LargestCommon(g, z)
      BY <1>1, <1>7, <2>2, CommonSizes DEF LargestCommon
    <2> QED BY <1>1, <1>4, <1>7, <2>1, <2>3, Zenon DEF Wins, g
  <1>8. CASE s.kind = "DylibImport"
    <2>1. s \in ImportSymbols
      BY <1>8, KindsTellShapes, Zenon
    <2>2. s.weak \in BOOLEAN
      BY <2>1, Zenon DEF ImportSymbols
    <2>3. CASE old.kind = "Undefined"
      <3>1. new = [s EXCEPT !.weak = s.weak \/ old.weak]
        BY <1>5, <1>8, <2>3, Zenon DEF ReplaceSlot
      <3>2. Rank(old) = 1 /\ h[i].kind = "Undefined" /\ h[i] \in UndefinedSymbols
        BY <1>1, <2>3, WinnerRanksAsLeader, RankOfKinds, KindsTellShapes
      <3>3. \A j \in DOMAIN h : h[j].kind = "Undefined"
        BY <1>1, <1>2, <1>3, <3>2, RanksOfOffers
      <3>4. old = [h[i] EXCEPT !.weak = \A j \in DOMAIN h : h[j].weak]
        BY <1>3, <3>2 DEF LeaderOf
      <3>5. old.weak = \A j \in DOMAIN h : h[j].weak
        <4> DEFINE b == \A j \in DOMAIN h : h[j].weak
        <4>1. old = [kind |-> "Undefined", origin |-> h[i].origin, weak |-> b]
          BY <3>2, <3>4, Reweakened, Zenon
        <4> HIDE DEF b
        <4>2. old.weak = b
          BY <4>1, Zenon
        <4> QED BY <4>2, Zenon DEF b
      <3>6. SettlesWeakly(g, z) <=> \A j \in DOMAIN h : h[j].weak
        BY <1>1, <3>3 DEF SettlesWeakly
      <3>7. old.weak = SettlesWeakly(g, z)
        BY <3>5, <3>6, Zenon DEF SettlesWeakly
      <3>8. new = [g[z] EXCEPT !.weak = g[z].weak \/ SettlesWeakly(g, z)]
        BY <1>1, <3>1, <3>7, Zenon
      <3> QED BY <1>1, <1>4, <1>8, <3>8, Zenon DEF Wins, g
    <2>4. CASE old.kind # "Undefined"
      <3>1. new = s
        BY <1>5, <2>4, Zenon DEF ReplaceSlot
      <3>2. Rank(old) # 1
        BY <2>4, RanksOfOffers, RankOfKinds DEF Vacant
      <3>3. h[i].kind # "Undefined"
        BY <1>1, <1>3, <3>2, RanksOfOffers
      <3>4. ~SettlesWeakly(g, z)
        BY <1>1, <3>3 DEF SettlesWeakly
      <3> DEFINE b == g[z].weak \/ SettlesWeakly(g, z)
      <3>5. b = s.weak
        BY <1>1, <2>2, <3>4
      <3> HIDE DEF b
      <3>6. s = [g[z] EXCEPT !.weak = b]
        BY <1>1, <2>1, <3>5, Reweakened, Zenon
      <3>7. new = [g[z] EXCEPT !.weak = g[z].weak \/ SettlesWeakly(g, z)]
        BY <3>1, <3>6, Zenon DEF b
      <3> QED BY <1>1, <1>4, <1>8, <3>7, Zenon DEF Wins, g
    <2> QED BY <2>3, <2>4, Zenon
  <1>9. CASE Rank(s) = 2
    <2>1. new = s
      BY <1>5, <1>9, RanksOfOffers DEF ReplaceSlot
    <2>2. \A j \in DOMAIN h : Rank(h[j]) # 2
      BY <1>2, <1>3, <1>9
    <2>3. LatestLazy(g, z)
      BY <1>1, <1>9, <2>2 DEF LatestLazy
    <2> QED BY <1>1, <1>4, <1>9, <2>1, <2>3 DEF Wins, g
  <1>10. CASE Rank(s) = 1
    BY <1>3, <1>10
  <1> QED BY <1>2, <1>6, <1>7, <1>8, <1>9, <1>10, RanksOfOffers

\* A symbol of the rank of the slot or below leaves the leader in place.
LEMMA OthersFollow ==
  ASSUME NEW h \in Seq(Symbol), NEW old \in Symbol \cup {Vacant}, NEW s \in Symbol, NEW new,
         NEW i \in DOMAIN h, LeaderOf(h, old, i), JudgedAs(old, s, new), Rank(s) <= Rank(old)
  PROVE  Wins(Append(h, s), new)
PROOF
  <1> DEFINE g == Append(h, s)
             z == Len(h) + 1
  <1>1. /\ z \in Nat /\ DOMAIN g = 1 .. z /\ DOMAIN h = 1 .. z - 1 /\ g[z] = s
        /\ \A j \in 1 .. z - 1 : g[j] = h[j] /\ h[j] \in Symbol
    BY OneMore
  <1> HIDE DEF g, z
  <1>2. Rank(s) \in 1 .. 5 /\ \A j \in DOMAIN h : Rank(h[j]) \in 1 .. 5
    BY <1>1, RanksOfOffers, Zenon
  <1>3. /\ Rank(old) = Rank(h[i]) /\ Rank(old) \in 1 .. 5
        /\ Rank(old) # 2 => old.kind = h[i].kind
    BY <1>2, WinnerRanksAsLeader
  <1>4. i \in DOMAIN g /\ Leads(g, i) /\ g[i] = h[i] /\ h[i] \in Symbol
    BY <1>1, <1>2, <1>3 DEF LeaderOf, Leads
  <1>5. CASE Rank(h[i]) >= 4 /\ old = h[i]
    <2>1. new = old
      BY <1>2, <1>3, <1>5 DEF JudgedAs
    <2> QED BY <1>4, <1>5, <2>1 DEF Wins, g
  <1>6. ASSUME h[i].kind = "Common", NEW k \in DOMAIN h, LargestCommon(h, k), old = h[k]
        PROVE  Wins(g, new)
    <2>1. Rank(old) = 3 /\ old.kind = "Common" /\ old.size \in Nat
      BY <1>1, <1>3, <1>4, <1>6, RanksOfOffers, CommonSizes
    <2>2. CASE s.kind = "Common"
      <3>1. Rank(s) = 3 /\ s.size \in Nat
        BY <2>2, RanksOfOffers, CommonSizes, Zenon
      <3>2. new = IF s.size >= old.size THEN s ELSE old
        BY <2>1, <2>2, <3>1 DEF JudgedAs, CoalesceCommon
      <3>3. \A j \in DOMAIN h : h[j].kind = "Common" => h[j].size \in Nat
        BY <1>1, CommonSizes
      <3>4. CASE s.size >= old.size
        <4>1. LargestCommon(g, z)
          BY <1>1, <1>6, <2>1, <2>2, <3>1, <3>3, <3>4 DEF LargestCommon
        <4> QED BY <1>1, <1>4, <1>6, <3>2, <3>4, <4>1 DEF Wins, g
      <3>5. CASE s.size < old.size
        <4>0. /\ k \in DOMAIN g /\ g[k] = old
              /\ \A j \in DOMAIN g : j = z \/ (j \in DOMAIN h /\ g[j] = h[j])
          BY <1>1, <1>6
        <4>2. ASSUME NEW j \in DOMAIN g, g[j].kind = "Common"
              PROVE  g[j].size <= g[k].size /\ (k < j => g[j].size < g[k].size)
          <5>1. CASE j = z
            BY <1>1, <2>1, <3>1, <3>5, <4>0, <5>1
          <5>2. CASE j \in DOMAIN h /\ g[j] = h[j]
            BY <1>6, <4>0, <4>2, <5>2 DEF LargestCommon
          <5> QED BY <4>0, <5>1, <5>2
        <4>1. LargestCommon(g, k) /\ k \in DOMAIN g /\ g[k] = old
          BY <2>1, <4>0, <4>2, Zenon DEF LargestCommon
        <4> QED BY <1>4, <1>6, <2>1, <3>1, <3>2, <3>5, <4>1 DEF Wins, g
      <3> QED BY <2>1, <3>1, <3>4, <3>5
    <2>3. CASE s.kind # "Common"
      <3>1. new = old
        BY <1>2, <1>3, <2>1, <2>3, RanksOfOffers DEF JudgedAs
      <3>2. LargestCommon(g, k) /\ k \in DOMAIN g /\ g[k] = old
        BY <1>1, <1>6, <2>1, <2>3 DEF LargestCommon
      <3> QED BY <1>4, <1>6, <3>1, <3>2 DEF Wins, g
    <2> QED BY <2>2, <2>3, Zenon
  <1>7. CASE h[i].kind = "DylibImport" /\ old = [h[i] EXCEPT !.weak = h[i].weak \/ SettlesWeakly(h, i)]
    <2>1. Rank(old) = 3 /\ old.kind = "DylibImport"
      <3>1. Rank(h[i]) = 3
        BY <1>4, <1>7, RanksOfOffers, Zenon
      <3> QED BY <1>3, <1>7, <3>1
    <2>2. new = old
      BY <1>2, <2>1 DEF JudgedAs
    <2>3. SettlesWeakly(g, i) = SettlesWeakly(h, i)
      <3>1. \A j \in 1 .. i - 1 : g[j] = h[j]
        BY <1>1
      <3> QED BY <3>1 DEF SettlesWeakly
    <2>4. new = [g[i] EXCEPT !.weak = g[i].weak \/ SettlesWeakly(g, i)]
      BY <1>4, <1>7, <2>2, <2>3, Zenon
    <2> QED BY <1>4, <1>7, <2>4, Zenon DEF Wins, g
  <1>8. ASSUME Rank(h[i]) = 2, NEW k \in DOMAIN h, LatestLazy(h, k), old = h[k]
        PROVE  Wins(g, new)
    <2>1. k \in DOMAIN g /\ g[k] = old /\ \A j \in DOMAIN g : j \in DOMAIN h \/ j = z
      BY <1>1, <1>8
    <2>2. CASE Rank(s) = 2 /\ s.kind # old.kind
      <3>1. new = s
        BY <1>3, <1>8, <2>2 DEF JudgedAs
      <3>2. LatestLazy(g, z)
        BY <1>1, <1>8, <2>2 DEF LatestLazy
      <3> QED BY <1>1, <1>4, <1>8, <3>1, <3>2 DEF Wins, g
    <2>3. CASE ~(Rank(s) = 2 /\ s.kind # old.kind)
      <3>1. new = old
        BY <1>2, <1>3, <1>8, <2>3 DEF JudgedAs
      <3>2. LatestLazy(g, k)
        BY <1>1, <1>8, <2>3 DEF LatestLazy
      <3> QED BY <1>4, <1>8, <2>1, <3>1, <3>2, Zenon DEF Wins, g
    <2> QED BY <2>2, <2>3
  <1>9. CASE h[i].kind = "Undefined" /\ old = [h[i] EXCEPT !.weak = \A j \in DOMAIN h : h[j].weak]
    <2> DEFINE b == \A j \in DOMAIN h : h[j].weak
               c == \A j \in DOMAIN g : g[j].weak
    <2>1. h[i] \in UndefinedSymbols /\ Rank(h[i]) = 1
      BY <1>4, <1>9, KindsTellShapes, RanksOfOffers
    <2>2. old = [kind |-> "Undefined", origin |-> h[i].origin, weak |-> b]
      BY <1>9, <2>1, Reweakened, Zenon
    <2>3. Rank(s) = 1 /\ s \in UndefinedSymbols
      BY <1>2, <1>3, <2>1, RanksOfOffers, KindsTellShapes
    <2>4. new = [old EXCEPT !.weak = old.weak /\ s.weak]
      BY <1>3, <2>1, <2>3 DEF JudgedAs
    <2>5. c <=> b /\ s.weak
      BY <1>1
    <2> HIDE DEF b, c
    <2>6. new = [kind |-> "Undefined", origin |-> h[i].origin, weak |-> b /\ s.weak]
      BY <2>2, <2>4, Zenon
    <2>7. c = (b /\ s.weak)
      BY <2>5, Zenon DEF c
    <2>8. new = [g[i] EXCEPT !.weak = c]
      <3>1. [h[i] EXCEPT !.weak = c] = [kind |-> "Undefined", origin |-> h[i].origin, weak |-> c]
        BY <2>1, Reweakened, Zenon
      <3> QED BY <1>4, <2>6, <2>7, <3>1, Zenon
    <2> QED BY <1>4, <1>9, <2>8, Zenon DEF Wins, g, c
  <1> QED BY <1>5, <1>6, <1>7, <1>8, <1>9, Zenon DEF LeaderOf, g

\* An insert makes the winner of the longer history out of the winner.
LEMMA WinnerKept ==
  ASSUME NEW h \in Seq(Symbol), NEW old \in Symbol \cup {Vacant}, NEW s \in Symbol, NEW new,
         Wins(h, old), JudgedAs(old, s, new)
  PROVE  Wins(Append(h, s), new)
PROOF
  <1>1. CASE h = <<>> /\ old = Vacant
    BY <1>1, FirstSettles
  <1>2. ASSUME NEW i \in DOMAIN h, LeaderOf(h, old, i) PROVE Wins(Append(h, s), new)
    <2>1. Rank(s) \in 1 .. 5 /\ Rank(old) \in 0 .. 5
      BY RanksOfOffers, RankOfKinds, Zenon
    <2>2. CASE Rank(s) > Rank(old)
      BY <1>2, <2>2, HigherSettles
    <2>3. CASE Rank(s) <= Rank(old)
      BY <1>2, <2>3, OthersFollow, Zenon
    <2> QED BY <2>1, <2>2, <2>3
  <1>3. (h = <<>> /\ old = Vacant) \/ \E i \in DOMAIN h : LeaderOf(h, old, i)
    BY Zenon DEF Wins, LeaderOf
  <1> QED BY <1>1, <1>2, <1>3, Zenon

\* The slot is strong when something in its history is.
LEMMA StrongWhenOffered ==
  ASSUME NEW h \in Seq(Symbol), NEW s \in Symbol \cup {Vacant}, Wins(h, s)
  PROVE  IsStrongDefinition(s) <=> \E j \in DOMAIN h : IsStrongDefinition(h[j])
PROOF
  <1>1. CASE h = <<>> /\ s = Vacant
    BY <1>1 DEF IsStrongDefinition, IsStrongDefined, Vacant
  <1>2. ASSUME NEW i \in DOMAIN h, LeaderOf(h, s, i)
        PROVE  IsStrongDefinition(s) <=> \E j \in DOMAIN h : IsStrongDefinition(h[j])
    <2>1. \A j \in DOMAIN h : h[j] \in Symbol
      OBVIOUS
    <2>2. \A j \in DOMAIN h :
            Rank(h[j]) \in 1 .. 5 /\ (Rank(h[j]) = 5 <=> IsStrongDefinition(h[j]))
      BY <2>1, RanksOfOffers
    <2>3. Rank(s) = Rank(h[i]) /\ \A j \in DOMAIN h : Rank(h[j]) <= Rank(h[i])
      BY <1>2, WinnerRanksAsLeader DEF LeaderOf, Leads
    <2>4. s \in Symbol
      BY <2>2, <2>3, RankOfKinds DEF Vacant
    <2>5. Rank(s) = 5 <=> IsStrongDefinition(s)
      BY <2>4, RanksOfOffers
    <2> QED BY <2>2, <2>3, <2>5
  <1>3. (h = <<>> /\ s = Vacant) \/ \E i \in DOMAIN h : LeaderOf(h, s, i)
    BY Zenon DEF Wins, LeaderOf
  <1> QED BY <1>1, <1>2, <1>3, Zenon

\* A history comes to clash with the strong symbol that finds a strong slot.
LEMMA ClashComes ==
  ASSUME NEW h \in Seq(Symbol), NEW old \in Symbol \cup {Vacant}, NEW s \in Symbol, Wins(h, old)
  PROVE  Clash(Append(h, s)) <=>
           Clash(h) \/ (IsStrongDefinition(old) /\ IsStrongDefinition(s))
PROOF
  <1> DEFINE g == Append(h, s)
             z == Len(h) + 1
  <1>1. /\ z \in Nat \ {0} /\ DOMAIN g = 1 .. z /\ DOMAIN h = 1 .. z - 1 /\ g[z] = s
        /\ \A j \in 1 .. z - 1 : g[j] = h[j]
    BY OneMore
  <1>2. IsStrongDefinition(old) <=> \E j \in DOMAIN h : IsStrongDefinition(h[j])
    BY StrongWhenOffered
  <1> HIDE DEF g, z
  <1>3. \A j \in DOMAIN g : j = z \/ (j \in DOMAIN h /\ j # z)
    BY <1>1
  <1>4. z \in DOMAIN g /\ \A j \in DOMAIN h : j \in DOMAIN g /\ j # z /\ g[j] = h[j]
    BY <1>1
  <1>5. g[z] = s
    BY <1>1, Zenon
  <1> SUFFICES Clash(g) <=> Clash(h) \/ (IsStrongDefinition(old) /\ IsStrongDefinition(s))
    BY DEF g
  <1>6. Clash(g) => Clash(h) \/ (IsStrongDefinition(old) /\ IsStrongDefinition(s))
    <2> SUFFICES ASSUME NEW i \in DOMAIN g, NEW j \in DOMAIN g, i # j,
                        IsStrongDefinition(g[i]), IsStrongDefinition(g[j])
                 PROVE  Clash(h) \/ (IsStrongDefinition(old) /\ IsStrongDefinition(s))
      BY DEF Clash
    <2>1. CASE i = z \/ j = z
      BY <1>2, <1>3, <1>4, <1>5, <2>1, Zenon
    <2>2. CASE i \in DOMAIN h /\ j \in DOMAIN h
      BY <1>4, <2>2 DEF Clash
    <2> QED BY <1>3, <2>1, <2>2
  <1>7. Clash(h) => Clash(g)
    BY <1>4 DEF Clash
  <1>8. IsStrongDefinition(old) /\ IsStrongDefinition(s) => Clash(g)
    BY <1>2, <1>4, <1>5, Zenon DEF Clash
  <1> QED BY <1>6, <1>7, <1>8

Reported(E, n) == \E e \in E : e.why = "DuplicateStrong" /\ e.name = n

\* The inductive invariant: the shapes of table and log, and the winners.
HistoryInv == TableTypeOK /\ log \in [Watched -> Seq(Symbol)] /\ SlotIsWinner

\* One insert, as the slots and the history see it.
LEMMA RecordKeepsWinners ==
  ASSUME HistoryInv, NEW n \in Names, NEW s \in Symbol, Record(n, s)
  PROVE  HistoryInv'
PROOF
  <1> DEFINE v == Verdict(table, n, s)
             new == SlotAfter(table[n], s, v)
             E == ErrorsOf(table, n, s, v)
  <1>1. /\ table' = [table EXCEPT ![n] = new] /\ errors' = errors \cup E
        /\ log' = IF n \in Watched /\ v # "AliasCycle"
                    THEN [log EXCEPT ![n] = Append(@, s)] ELSE log
    BY DEF Record, Insert
  <1>2. TableTypeOK'
    <2>1. TableNext
      BY Zenon DEF Record, TableNext
    <2> QED BY <2>1, TableTypeKept DEF HistoryInv
  <1>3. log' \in [Watched -> Seq(Symbol)]
    BY <1>1 DEF HistoryInv
  <1>4. /\ table \in Table /\ log \in [Watched -> Seq(Symbol)]
        /\ \A m \in Watched : m \in Names /\ table[m] \in Symbol \cup {Vacant}
    BY WatchedAssumption DEF HistoryInv, TableTypeOK, Table
  <1>5. \A m \in Watched : Wins(log[m], table[m]) /\ (Reported(errors, m) <=> Clash(log[m]))
    BY Zenon DEF HistoryInv, SlotIsWinner, Reported
  <1>6. /\ v = "AliasCycle" => new = table[n]
        /\ v = "DuplicateStrong" =>
             E = {[why |-> v, name |-> n, first |-> table[n].origin, second |-> s.origin]}
        /\ v = "AliasCycle" => E = {[why |-> v, name |-> n, second |-> s.origin]}
        /\ v \notin {"DuplicateStrong", "AliasCycle"} => E = {}
    BY DEF SlotAfter, ErrorsOf
  <1> HIDE DEF v, new, E
  <1>7. \A m : Reported(errors', m) <=>
                 Reported(errors, m) \/ (m = n /\ v = "DuplicateStrong")
    <2>1. \A e \in E : e.name = n /\ e.why = v /\ v \in {"DuplicateStrong", "AliasCycle"}
      BY <1>6
    <2>2. v = "DuplicateStrong" => \E e \in E : e.name = n /\ e.why = v
      <3> DEFINE d == [why |-> v, name |-> n, first |-> table[n].origin, second |-> s.origin]
      <3>1. v = "DuplicateStrong" => d \in E
        BY <1>6
      <3>2. d.name = n /\ d.why = v
        OBVIOUS
      <3> HIDE DEF d
      <3> QED BY <3>1, <3>2, Zenon
    <2>3. errors' = errors \cup E
      BY <1>1, Zenon
    <2> QED BY <2>1, <2>2, <2>3, Zenon DEF Reported
  <1>8. ASSUME NEW m \in Watched
        PROVE  Wins(log'[m], table'[m]) /\ (Reported(errors', m) <=> Clash(log'[m]))
    <2>1. CASE m # n
      <3>1. log'[m] = log[m] /\ table'[m] = table[m]
        BY <1>1, <1>4, <2>1 DEF Table
      <3> QED BY <1>5, <1>7, <2>1, <3>1, Zenon
    <2>2. CASE m = n /\ v = "AliasCycle"
      <3>1. log'[m] = log[m] /\ table'[m] = table[m]
        BY <1>1, <1>4, <1>6, <2>2, Zenon DEF Table
      <3> QED BY <1>5, <1>7, <2>2, <3>1
    <2>3. CASE m = n /\ v # "AliasCycle"
      <3>1. /\ log'[m] = Append(log[m], s) /\ table'[m] = new
            /\ log[m] \in Seq(Symbol) /\ table[m] \in Symbol \cup {Vacant}
        BY <1>1, <1>4, <2>3 DEF Table
      <3>2. /\ JudgedAs(table[m], s, new)
            /\ v = "DuplicateStrong" <=> IsStrongDefinition(table[m]) /\ IsStrongDefinition(s)
        BY <1>4, <2>3, JudgedByRank DEF v, new
      <3>3. Wins(Append(log[m], s), new)
        BY <1>5, <3>1, <3>2, WinnerKept
      <3>4. Clash(Append(log[m], s)) <=>
              Clash(log[m]) \/ (IsStrongDefinition(table[m]) /\ IsStrongDefinition(s))
        BY <1>5, <3>1, ClashComes, Zenon
      <3> QED BY <1>5, <1>7, <2>3, <3>1, <3>2, <3>3, <3>4
    <2> QED BY <2>1, <2>2, <2>3
  <1>9. SlotIsWinner'
    BY <1>8, Zenon DEF SlotIsWinner, Reported
  <1> QED BY <1>2, <1>3, <1>9 DEF HistoryInv

\* However many symbols are offered for a name and in whatever order, its slot
\* is the winner of their history, and DuplicateStrong is reported for exactly
\* the names that were given two strong definitions.
THEOREM SlotsAreWon == HistorySpec => []SlotIsWinner
PROOF
  <1>1. HistoryInit => HistoryInv
    <2> SUFFICES ASSUME HistoryInit PROVE HistoryInv
      BY Zenon
    <2>1. TableTypeOK
      BY Zenon DEF HistoryInit, TableInit, TableTypeOK
    <2>2. \A n \in Watched : log[n] = <<>> /\ table[n] = Vacant /\ errors = {}
      BY WatchedAssumption DEF HistoryInit, TableInit
    <2>3. log \in [Watched -> Seq(Symbol)]
      BY DEF HistoryInit
    <2>4. SlotIsWinner
      BY <2>2 DEF SlotIsWinner, Wins, Clash
    <2> QED BY <2>1, <2>3, <2>4 DEF HistoryInv
  <1>2. HistoryInv /\ [HistoryNext]_hvars => HistoryInv'
    <2> SUFFICES ASSUME HistoryInv, [HistoryNext]_hvars PROVE HistoryInv'
      BY Zenon
    <2>1. CASE HistoryNext
      BY <2>1, RecordKeepsWinners DEF HistoryNext
    <2>2. CASE UNCHANGED hvars
      BY <2>2, Zenon DEF hvars, HistoryInv, SlotIsWinner, TableTypeOK
    <2> QED BY <2>1, <2>2
  <1>3. HistoryInv => SlotIsWinner
    BY Zenon DEF HistoryInv
  <1> QED BY <1>1, <1>2, <1>3, PTL DEF HistorySpec
=============================================================================
