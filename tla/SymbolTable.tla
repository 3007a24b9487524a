---------------------------- MODULE SymbolTable ----------------------------
(***************************************************************************)
(* The symbol table of the Mach-O linker (src/src/resolve.rs): one slot    *)
(* per name, and `insert`, which runs the resolution matrix on the symbol  *)
(* in the slot and the incoming one.  Names are interned, so a name stands *)
(* for its SymbolId; a name that was never inserted has a Vacant slot.     *)
(*                                                                         *)
(* Kept of a symbol: its kind and the attributes the matrix reads or       *)
(* merges (weakness, size and alignment of a tentative definition, the     *)
(* archive member behind a lazy entry, the target of an alias) and where   *)
(* it came from.  Values, private-extern and no-dead-strip flags travel    *)
(* with the symbol and decide nothing here.                                *)
(***************************************************************************)
EXTENDS Naturals, FiniteSets

CONSTANTS Names,          \* interned names
          Files,          \* object files, archive members included
          Dylibs,         \* dylibs
          FlatLookup,     \* DylibId::INVALID, the flat-namespace pseudo dylib
          Sizes,          \* sizes of tentative definitions
          Aligns,         \* their alignments (powers of two)
          MaxAliasDepth   \* MAX_ALIAS_DEPTH (32 in the code)

ASSUME ConstantsAssumption ==
  /\ FlatLookup \notin Dylibs
  /\ Sizes \subseteq Nat /\ Aligns \subseteq Nat
  /\ MaxAliasDepth \in Nat \ {0}
  /\ IsFiniteSet(Names) /\ {"Unknown", "AliasCycle"} \cap Names = {}

VARIABLES table,   \* [Names -> Symbol \cup {Vacant}]
          errors   \* InsertErrors reported so far (`duplicates` in the reports)

tvars == <<table, errors>>
-----------------------------------------------------------------------------
Vacant == [kind |-> "Vacant"]

UndefinedSymbols == [kind : {"Undefined"}, origin : Files, weak : BOOLEAN]
DefinedSymbols == [kind : {"Defined"}, origin : Files, weak : BOOLEAN]
CommonSymbols ==
  [kind : {"Common"}, origin : Files, size : Sizes, align : Aligns]
ImportSymbols ==
  [kind : {"DylibImport"}, origin : Dylibs \cup {FlatLookup}, weak : BOOLEAN]
LazyArchiveSymbols == [kind : {"LazyArchive"}, member : Files]
LazyObjectSymbols == [kind : {"LazyObject"}, origin : Files]
AliasSymbols == [kind : {"Alias"}, origin : Files, to : Names]

\* Absolute and section definitions share one tag (Symbol::kind).
Symbol ==
  UndefinedSymbols \cup DefinedSymbols \cup CommonSymbols \cup ImportSymbols
    \cup LazyArchiveSymbols \cup LazyObjectSymbols \cup AliasSymbols

InsertError ==
  [why : {"DuplicateStrong"}, name : Names, first : Files, second : Files]
    \cup [why : {"AliasCycle"}, name : Names, second : Files]

IsStrongDefined(s) == s.kind = "Defined" /\ ~s.weak

IsStrongDefinition(s) == IsStrongDefined(s) \/ s.kind = "Alias"

-----------------------------------------------------------------------------
(* Alias chains. *)

\* The name reached from n after i hops through aliases of t; a name that is
\* not an alias is its own successor.
AliasWalk(t, n, hops) ==
  LET walk[i \in 0 .. hops] ==
        IF i = 0 THEN n
        ELSE LET c == walk[i - 1]
             IN  IF t[c].kind = "Alias" THEN t[c].to ELSE c
  IN  walk

\* Mutant: only the shortest cycle is looked for.
SelfLoopOnly(t, n, target) == n = target

\* The walk starts at the target, visits MaxAliasDepth names at most, and a
\* chain that is not over by then counts as a cycle.
AliasWouldCycle(t, n, target) ==
  LET walk == AliasWalk(t, target, MaxAliasDepth - 1)
  IN  \/ n = target
      \/ \E i \in 0 .. MaxAliasDepth - 1 : walk[i] = n
      \/ t[walk[MaxAliasDepth - 1]].kind = "Alias"

\* Where a lookup through aliases ends: "Unknown", "AliasCycle" or a name.
ResolveChain(t, n) ==
  LET last == AliasWalk(t, n, MaxAliasDepth - 1)[MaxAliasDepth - 1]
  IN  CASE t[last].kind = "Vacant" -> "Unknown"
        [] t[last].kind = "Alias" -> "AliasCycle"
        [] OTHER -> last
-----------------------------------------------------------------------------
(* The resolution matrix: which pairs <<existing, incoming>> of kinds are   *)
(* decided how.  Pairs in no set keep the slot.                             *)

\* Mutant: a later archive index entry takes over a tentative definition.
CommonYieldsToArchive ==
  ({"Undefined"} \X {"Defined", "Common", "DylibImport", "LazyObject"})
    \cup ({"Common", "DylibImport"} \X {"Defined"})
    \cup ({"LazyArchive"} \X {"Defined", "Common", "DylibImport", "LazyObject"})
    \cup ({"LazyObject", "Common"} \X {"Defined", "Common", "DylibImport", "LazyArchive"})

ReplacePairs ==
  ({"Undefined"} \X {"Defined", "Common", "DylibImport", "LazyObject"})
    \cup ({"Common", "DylibImport"} \X {"Defined"})
    \cup ({"LazyArchive"} \X {"Defined", "Common", "DylibImport", "LazyObject"})
    \cup ({"LazyObject"} \X {"Defined", "Common", "DylibImport", "LazyArchive"})

Verdict(t, n, s) ==
  LET old == t[n]
      pair == <<old.kind, s.kind>>
  IN  CASE s.kind = "Alias" /\ IsStrongDefinition(old) -> "DuplicateStrong"
        [] s.kind = "Alias" /\ ~IsStrongDefinition(old) ->
             IF AliasWouldCycle(t, n, s.to) THEN "AliasCycle" ELSE "Replace"
        [] s.kind # "Alias" /\ old.kind = "Vacant" -> "Insert"
        [] pair \in ReplacePairs -> "Replace"
        [] pair = <<"Undefined", "Undefined">> -> "CoalesceUndefined"
        [] pair = <<"Undefined", "LazyArchive">> -> "ReplaceAndPendingArchiveFetch"
        [] pair = <<"Defined", "Defined">> ->
             IF ~IsStrongDefined(s) THEN "Keep"
             ELSE IF IsStrongDefined(old) THEN "DuplicateStrong" ELSE "Replace"
        [] pair = <<"Common", "Common">> -> "CoalesceCommon"
        [] pair = <<"LazyArchive", "Undefined">> -> "PendingArchiveFetch"
        [] pair = <<"LazyObject", "Undefined">> -> "PendingObjectLoad"
        [] pair = <<"Alias", "Defined">> /\ IsStrongDefined(s) -> "DuplicateStrong"
        [] OTHER -> "Keep"

\* Mutant: the earlier declaration wins a tie.
CoalesceEarlier(old, s) == IF s.size > old.size THEN s ELSE old

\* coalesce_common: the larger declaration as a unit, the later one on a tie.
CoalesceCommon(old, s) == IF s.size >= old.size THEN s ELSE old

\* Action::Replace: an import that takes over a weak reference becomes weak.
ReplaceSlot(old, s) ==
  IF old.kind = "Undefined" /\ s.kind = "DylibImport"
    THEN [s EXCEPT !.weak = s.weak \/ old.weak]
    ELSE s

\* What apply_action leaves in the slot.
SlotAfter(old, s, verdict) ==
  CASE verdict \in {"Insert", "Replace"} -> ReplaceSlot(old, s)
    [] verdict = "ReplaceAndPendingArchiveFetch" -> s
    [] verdict = "CoalesceUndefined" -> [old EXCEPT !.weak = old.weak /\ s.weak]
    [] verdict = "CoalesceCommon" -> CoalesceCommon(old, s)
    [] OTHER -> old

ErrorsOf(t, n, s, verdict) ==
  CASE verdict = "DuplicateStrong" ->
         {[why |-> verdict, name |-> n, first |-> t[n].origin,
           second |-> s.origin]}
    [] verdict = "AliasCycle" ->
         {[why |-> verdict, name |-> n, second |-> s.origin]}
    [] OTHER -> {}

\* SymbolTable::insert; an error leaves the table as it was.
Insert(n, s) ==
  LET verdict == Verdict(table, n, s) IN
  /\ table' = [table EXCEPT ![n] = SlotAfter(table[n], s, verdict)]
  /\ errors' = errors \cup ErrorsOf(table, n, s, verdict)

\* The outcomes that ask the caller to fetch an archive member.
FetchVerdicts == {"PendingArchiveFetch", "ReplaceAndPendingArchiveFetch"}
InsertErrors == {"DuplicateStrong", "AliasCycle"}
-----------------------------------------------------------------------------
(* The steps taken after resolution, when no insert follows. *)

\* promote_to_flat_lookup, on every Undefined slot.
Promote ==
  /\ table' = [n \in Names |->
                 IF table[n].kind = "Undefined"
                   THEN [kind |-> "DylibImport", origin |-> FlatLookup,
                         weak |-> table[n].weak]
                   ELSE table[n]]
  /\ UNCHANGED errors

\* materialize_common, on every Common slot.
MaterializeCommon ==
  /\ table' = [n \in Names |->
                 IF table[n].kind = "Common"
                   THEN [kind |-> "Defined", origin |-> table[n].origin,
                         weak |-> FALSE]
                   ELSE table[n]]
  /\ UNCHANGED errors

TableInit ==
  /\ table = [n \in Names |-> Vacant]
  /\ errors = {}

TableNext ==
  \/ \E n \in Names, s \in Symbol : Insert(n, s)
  \/ Promote
  \/ MaterializeCommon

TableSpec == TableInit /\ [][TableNext]_tvars
-----------------------------------------------------------------------------
\* Type invariant: every slot is vacant or holds a symbol of its kind's shape.
TableTypeOK ==
  /\ table \in [Names -> Symbol \cup {Vacant}]
  /\ errors \subseteq InsertError

\* Precedence of what a slot holds; `insert` may only climb.
Rank(s) ==
  CASE s.kind = "Vacant" -> 0
    [] s.kind = "Undefined" -> 1
    [] s.kind \in {"LazyArchive", "LazyObject"} -> 2
    [] s.kind \in {"Common", "DylibImport"} -> 3
    [] s.kind = "Defined" /\ s.weak -> 4
    [] OTHER -> 5

\* The matrix never trades a slot for a lower-ranked symbol: what a name is
\* resolved to only gets more concrete, whatever order the inputs come in.
RanksNeverDrop == [][\A n \in Names : Rank(table'[n]) >= Rank(table[n])]_table

\* A strong definition or an alias, once in its slot, is there for good: no
\* later object, archive member, dylib or common declaration replaces it.
StrongDefinitionsStay ==
  [][\A n \in Names :
       IsStrongDefinition(table[n]) => table'[n] = table[n]]_table

\* alias_would_cycle keeps the alias graph acyclic although it walks only
\* MaxAliasDepth names: no chain, however long, leads back to its start.
AliasesAcyclic ==
  LET hops == Cardinality(Names) IN
  \A n \in Names :
    table[n].kind = "Alias" =>
      \A i \in 0 .. hops : AliasWalk(table, table[n].to, hops)[i] # n
=============================================================================
