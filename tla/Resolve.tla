------------------------------- MODULE Resolve -------------------------------
(***************************************************************************)
(* Name resolution of the Mach-O linker: resolve_inputs_in_order, the      *)
(* archive fetch queue (drain_fetches_into with its speculative parsing),  *)
(* force loading, and the classification of what is left undefined         *)
(* (src/src/resolve.rs, called from src/src/lib.rs).                       *)
(*                                                                         *)
(* Resolution is one thread; a step is one insert into the symbol table,   *)
(* one entry taken from the queue, or one input begun or finished.  pc     *)
(* names the loop the thread is in.                                        *)
(***************************************************************************)
EXTENDS SymbolTable, LinkInputs

CONSTANTS Archives, Programs

VARIABLES prog,       \* the link, see LinkInputs
          pos,        \* index of the current top-level input
          pc,         \* "next", "seed", "scan", "force", "drain", "resolved",
                      \* "done", "failed"
          work,       \* symbols (or index entries) of the seed loop still to do
          forced,     \* members the force-load loop has still to ingest
          queue,      \* Vec<PendingFetch>, used as a stack
          prepared,   \* members parsed ahead of time by drain_fetches_into
          fetched,    \* ArchiveInput::fetched
          objects,    \* members ingested, in the order they became inputs
          referrers,  \* ReferrerLog
          result      \* the LinkError, once the link has failed

rvars == <<prog, pos, pc, work, forced, queue, prepared, fetched, objects,
           referrers, result>>
vars == <<tvars, rvars>>

RawSymbol ==
  [name : Names, type : {"undef", "common", "def", "indirect"}, weak : BOOLEAN,
   size : Sizes, align : Aligns, to : Names]
IndexEntry == [name : Names, member : Files]

IsProgram(p) ==
  /\ p.line \in Seq([type : {"Object"}, id : Files]
                     \cup [type : {"Archive", "ForceLoadArchive"}, id : Archives]
                     \cup [type : {"Dylib"}, id : Dylibs])
  /\ p.syms \in [Files -> Seq(RawSymbol)]
  /\ p.index \in [Archives -> Seq(IndexEntry)]
  /\ p.members \in [Archives -> Seq(Files)]
  /\ p.exports \in [Dylibs -> Seq([name : Names, weak : BOOLEAN])]
  /\ p.bad \subseteq Files
  /\ p.allLoad \in BOOLEAN
  /\ p.legacy \in Seq(Archives)
  /\ p.treatment \in Treatments

ASSUME ProgramsAssumption == \A p \in Programs : IsProgram(p)

Current == Line(prog)[pos]
InLine == pos \in 1 .. Len(Line(prog))

\* Vec::pop: the entry it returns and what it leaves.
Top(stack) == stack[Len(stack)]
Pop(stack) == [i \in 1 .. Len(stack) - 1 |-> stack[i]]
-----------------------------------------------------------------------------
(* From input symbols to table symbols. *)

\* symbolize_input and the indirect case of seed_object.
Symbolize(r, f) ==
  CASE r.type = "undef" -> [kind |-> "Undefined", origin |-> f, weak |-> r.weak]
    [] r.type = "common" ->
         [kind |-> "Common", origin |-> f, size |-> r.size, align |-> r.align]
    [] r.type = "def" -> [kind |-> "Defined", origin |-> f, weak |-> r.weak]
    [] r.type = "indirect" -> [kind |-> "Alias", origin |-> f, to |-> r.to]

ObjectItems(f) ==
  [i \in DOMAIN prog.syms[f] |->
     [name |-> prog.syms[f][i].name, sym |-> Symbolize(prog.syms[f][i], f)]]

\* seed_dylib: an export is weak if it is a weak definition or the dylib is
\* loaded weakly.
DylibItems(d) ==
  [i \in DOMAIN prog.exports[d] |->
     [name |-> prog.exports[d][i].name,
      sym |-> [kind |-> "DylibImport", origin |-> d,
               weak |-> prog.exports[d][i].weak]]]

\* The reference an accepted alias makes to its target.
TargetItem(s) ==
  [name |-> s.to, sym |-> [kind |-> "Undefined", origin |-> s.origin, weak |-> FALSE]]

Fail(why) == pc' = "failed" /\ result' = why
-----------------------------------------------------------------------------
(* resolve_inputs_in_order: one top-level input after the other. *)

\* The duplicates of the ordered pass end the link before any legacy force
\* load, those of the legacy loads before classification.
AtCheckpoint == pos \in {Len(prog.line) + 1, Len(Line(prog)) + 1}

MayProceed == ~(AtCheckpoint /\ errors # {})

TakeObject ==
  /\ pc = "next" /\ InLine /\ Current.type = "Object"
  /\ pc' = "seed" /\ work' = ObjectItems(Current.id)
  /\ UNCHANGED <<tvars, prog, pos, forced, queue, prepared, fetched, objects,
                 referrers, result>>

TakeDylib ==
  /\ pc = "next" /\ InLine /\ Current.type = "Dylib"
  /\ pc' = "seed" /\ work' = DylibItems(Current.id)
  /\ UNCHANGED <<tvars, prog, pos, forced, queue, prepared, fetched, objects,
                 referrers, result>>

TakeArchive ==
  /\ pc = "next" /\ InLine /\ IsDemandArchive(prog, pos)
  /\ pc' = "scan" /\ work' = prog.index[Current.id]
  /\ UNCHANGED <<tvars, prog, pos, forced, queue, prepared, fetched, objects,
                 referrers, result>>

TakeForced ==
  /\ pc = "next" /\ InLine /\ IsForced(prog, pos) /\ MayProceed
  /\ OnLine(prog, Current.id)
  /\ pc' = "force" /\ forced' = prog.members[Current.id]
  /\ UNCHANGED <<tvars, prog, pos, work, queue, prepared, fetched, objects,
                 referrers, result>>

\* find_archive_by_path finds no input for a legacy -force_load.
ForceLoadNotArchive ==
  /\ pc = "next" /\ InLine /\ IsForced(prog, pos) /\ MayProceed
  /\ ~OnLine(prog, Current.id)
  /\ Fail("ForceLoadNotArchive")
  /\ UNCHANGED <<tvars, prog, pos, work, forced, queue, prepared, fetched,
                 objects, referrers>>

DuplicateSymbols ==
  /\ pc = "next" /\ ~MayProceed
  /\ Fail("DuplicateSymbols")
  /\ UNCHANGED <<tvars, prog, pos, work, forced, queue, prepared, fetched,
                 objects, referrers>>
-----------------------------------------------------------------------------
(* Seeding. *)

\* seed_object and seed_dylib: insert the next symbol.  An accepted alias is
\* followed at once by a reference to its target.
SeedSymbol ==
  /\ pc = "seed" /\ work # <<>>
  /\ LET n == Head(work).name
         s == Head(work).sym
         verdict == Verdict(table, n, s)
     IN  /\ Insert(n, s)
         /\ work' = IF s.kind = "Alias" /\ verdict \notin InsertErrors
                      THEN <<TargetItem(s)>> \o Tail(work) ELSE Tail(work)
         /\ queue' = IF verdict \in FetchVerdicts
                       THEN Append(queue, [name |-> n, member |-> table[n].member])
                       ELSE queue
         /\ referrers' = IF s.kind = "DylibImport" THEN referrers
                         ELSE [referrers EXCEPT ![n] = @ \cup {s.origin}]
  /\ UNCHANGED <<prog, pos, pc, forced, prepared, fetched, objects, result>>

SeedDone ==
  /\ pc = "seed" /\ work = <<>>
  /\ pc' = IF forced # <<>> THEN "force" ELSE "drain"
  /\ UNCHANGED <<tvars, prog, pos, work, forced, queue, prepared, fetched,
                 objects, referrers, result>>

\* Mutant: every index entry is written into its slot, needed or not.
ScanOverwrites ==
  /\ pc = "scan" /\ work # <<>>
  /\ LET n == Head(work).name
         m == Head(work).member
     IN  /\ table' = [table EXCEPT ![n] = [kind |-> "LazyArchive", member |-> m]]
         /\ queue' = Append(queue, [name |-> n, member |-> m])
  /\ work' = Tail(work)
  /\ UNCHANGED <<errors, prog, pos, pc, forced, prepared, fetched, objects,
                 referrers, result>>

\* seed_archive_for_unresolved: an index entry matters only if its name is
\* Undefined when the scan reaches it.
ScanEntry ==
  /\ pc = "scan" /\ work # <<>>
  /\ LET n == Head(work).name
         m == Head(work).member
     IN  IF table[n].kind = "Undefined"
           THEN /\ Insert(n, [kind |-> "LazyArchive", member |-> m])
                /\ queue' = Append(queue, [name |-> n, member |-> m])
           ELSE UNCHANGED <<tvars, queue>>
  /\ work' = Tail(work)
  /\ UNCHANGED <<prog, pos, pc, forced, prepared, fetched, objects, referrers,
                 result>>

\* Mutant: the archive is scanned again although the scan asked for nothing.
ScanForever ==
  /\ pc = "scan" /\ work = <<>>
  /\ pc' = "drain"
  /\ UNCHANGED <<tvars, prog, pos, work, forced, queue, prepared, fetched,
                 objects, referrers, result>>

\* Nothing pending after a scan: the archive is done.
ScanDone ==
  /\ pc = "scan" /\ work = <<>>
  /\ IF queue = <<>> THEN pc' = "next" /\ pos' = pos + 1
                     ELSE pc' = "drain" /\ UNCHANGED pos
  /\ UNCHANGED <<tvars, prog, work, forced, queue, prepared, fetched, objects,
                 referrers, result>>
-----------------------------------------------------------------------------
(* Fetching members. *)

\* ingest_loaded_member of a member that is not fetched yet.
Ingest(m) ==
  /\ fetched' = fetched \cup {m}
  /\ objects' = Append(objects, m)
  /\ work' = ObjectItems(m)
  /\ pc' = "seed"

\* force_load_archive: the next loaded member, in member order.  The load
\* result is looked at before the member is known to be fetched already.
ForceMember ==
  /\ pc = "force" /\ forced # <<>>
  /\ forced' = Tail(forced)
  /\ LET m == Head(forced) IN
     IF m \in prog.bad
       THEN Fail("Fetch") /\ UNCHANGED <<work, fetched, objects>>
     ELSE IF m \in fetched
       THEN UNCHANGED <<pc, work, fetched, objects, result>>
     ELSE Ingest(m) /\ UNCHANGED result
  /\ UNCHANGED <<tvars, prog, pos, queue, prepared, referrers>>

ForceDone ==
  /\ pc = "force" /\ forced = <<>>
  /\ pc' = "drain"
  /\ UNCHANGED <<tvars, prog, pos, work, forced, queue, prepared, fetched,
                 objects, referrers, result>>

StillLazy(p) == table[p.name].kind = "LazyArchive"

Serviceable(p) == StillLazy(p) /\ p.member \notin fetched

\* drain_fetches_into and fetch_and_ingest_one: the entry is overtaken, its
\* slot settled or its member fetched for another name.
SkipPending ==
  /\ pc = "drain" /\ queue # <<>> /\ ~Serviceable(Top(queue))
  /\ queue' = Pop(queue)
  /\ prepared' = prepared \ {Top(queue).member}
  /\ UNCHANGED <<tvars, prog, pos, pc, work, forced, fetched, objects,
                 referrers, result>>

\* preparse_pending_fetches: the current entry and every serviceable one below
\* it.  The forced path loads one member at a time.
Preparsed ==
  IF IsForced(prog, pos) THEN {Top(queue).member}
  ELSE prepared \cup {p.member : p \in {q \in SetOf(queue) : Serviceable(q)}}

\* Mutant: the fetched set is not maintained.
ForgetFetched ==
  /\ pc = "drain" /\ queue # <<>> /\ StillLazy(Top(queue))
  /\ queue' = Pop(queue)
  /\ objects' = Append(objects, Top(queue).member)
  /\ work' = ObjectItems(Top(queue).member)
  /\ pc' = "seed"
  /\ UNCHANGED <<tvars, prog, pos, forced, referrers, prepared, fetched, result>>

\* The top entry is consumed: parse ahead if its result is not at hand, look at
\* its own result only, ingest it.
FetchPending ==
  /\ pc = "drain" /\ queue # <<>> /\ Serviceable(Top(queue))
  /\ LET m == Top(queue).member
         ready == IF m \in prepared THEN prepared ELSE Preparsed
     IN  /\ prepared' = ready \ {m}
         /\ queue' = Pop(queue)
         /\ IF m \in prog.bad
              THEN Fail("Fetch") /\ UNCHANGED <<work, fetched, objects>>
              ELSE Ingest(m) /\ UNCHANGED result
  /\ UNCHANGED <<tvars, prog, pos, forced, referrers>>

\* Mutant: a demand archive is scanned once only.
DrainDoneOnce ==
  /\ pc = "drain" /\ queue = <<>>
  /\ prepared' = {}
  /\ pc' = "next" /\ pos' = pos + 1 /\ UNCHANGED work
  /\ UNCHANGED <<tvars, prog, forced, queue, fetched, objects, referrers, result>>

\* The queue is empty.  A demand archive is scanned again for references its
\* own members have made; any other input is finished.
DrainDone ==
  /\ pc = "drain" /\ queue = <<>>
  /\ prepared' = {}
  /\ IF IsDemandArchive(prog, pos)
       THEN pc' = "scan" /\ work' = prog.index[Current.id] /\ UNCHANGED pos
       ELSE pc' = "next" /\ pos' = pos + 1 /\ UNCHANGED work
  /\ UNCHANGED <<tvars, prog, forced, queue, fetched, objects, referrers, result>>
-----------------------------------------------------------------------------
(* After the last input. *)

UndefinedNames == {n \in Names : table[n].kind = "Undefined"}

\* classify_unresolved under -undefined error.
UndefinedSymbolsError ==
  /\ pc = "next" /\ ~InLine /\ MayProceed
  /\ prog.treatment = "Error" /\ UndefinedNames # {}
  /\ Fail("UndefinedSymbols")
  /\ UNCHANGED <<tvars, prog, pos, work, forced, queue, prepared, fetched,
                 objects, referrers>>

\* classify_unresolved otherwise: what is left becomes a flat-lookup import.
Classify ==
  /\ pc = "next" /\ ~InLine /\ MayProceed
  /\ prog.treatment = "Error" => UndefinedNames = {}
  /\ Promote
  /\ pc' = "resolved"
  /\ UNCHANGED <<prog, pos, work, forced, queue, prepared, fetched, objects,
                 referrers, result>>

\* Mutant: tentative definitions get no storage.
AllocateNothing ==
  /\ pc = "resolved" /\ pc' = "done"
  /\ UNCHANGED <<tvars, prog, pos, work, forced, queue, prepared, fetched,
                 objects, referrers, result>>

\* materialize_common_symbols gives every tentative definition storage.
AllocateCommons ==
  /\ pc = "resolved"
  /\ MaterializeCommon
  /\ pc' = "done"
  /\ UNCHANGED <<prog, pos, work, forced, queue, prepared, fetched, objects,
                 referrers, result>>

\* The link is over, in an image or in an error.
Over == pc \in {"done", "failed"} /\ UNCHANGED vars
-----------------------------------------------------------------------------
Init ==
  /\ TableInit
  /\ prog \in Programs
  /\ pos = 1 /\ pc = "next"
  /\ work = <<>> /\ forced = <<>> /\ queue = <<>>
  /\ prepared = {} /\ fetched = {} /\ objects = <<>>
  /\ referrers = [n \in Names |-> {}]
  /\ result = "none"

Step ==
  \/ TakeObject \/ TakeDylib \/ TakeArchive \/ TakeForced
  \/ ForceLoadNotArchive \/ DuplicateSymbols
  \/ SeedSymbol \/ SeedDone \/ ScanEntry \/ ScanDone
  \/ ForceMember \/ ForceDone \/ SkipPending \/ FetchPending \/ DrainDone
  \/ UndefinedSymbolsError \/ Classify \/ AllocateCommons

Next == Step \/ Over

\* The linker thread is never suspended for good.
Spec == Init /\ [][Next]_vars /\ WF_vars(Step)
-----------------------------------------------------------------------------
SeedItem == [name : Names, sym : Symbol]

\* Type invariant.
TypeOK ==
  /\ TableTypeOK
  /\ IsProgram(prog)
  /\ pos \in Nat \ {0}
  /\ pc \in {"next", "seed", "scan", "force", "drain", "resolved", "done", "failed"}
  /\ work \in Seq(SeedItem) \cup Seq(IndexEntry)
  /\ forced \in Seq(Files)
  /\ queue \in Seq(IndexEntry)
  /\ prepared \subseteq Files /\ fetched \subseteq Files
  /\ objects \in Seq(Files)
  /\ referrers \in [Names -> SUBSET Files]
  /\ result \in {"none", "Fetch", "DuplicateSymbols", "UndefinedSymbols",
                 "ForceLoadNotArchive"}

\* A member becomes an input at most once, however often it is demanded,
\* forced, or both, and `fetched` records exactly the members that did.
\* Neither speculation nor a queued fetch is ever stale.  As long as the slot a
\* fetch was queued for is lazy it is the very member the fetch asks for, and it
\* can never have fallen back to Undefined, though the queue may outlive many
\* inserts; results parsed ahead are only of members not yet in the link, so
\* none can be ingested twice; and nothing leaks from one input to the next.
MembersIngestedOnce ==
  /\ TypeOK
  /\ \A i, j \in DOMAIN objects : objects[i] = objects[j] => i = j
  /\ fetched = SetOf(objects)
  /\ \A p \in SetOf(queue) :
       /\ table[p.name].kind \notin {"Vacant", "Undefined"}
       /\ table[p.name].kind = "LazyArchive" => table[p.name].member = p.member
  /\ prepared \cap fetched = {}
  /\ pc = "next" => queue = <<>> /\ prepared = {} /\ forced = <<>> /\ work = <<>>

\* No reference escapes.  Every undefined name has an object to cite when it is
\* reported, and if the indexes are honest a finished link binds every name: no
\* reference is left lazy, undefined or tentative, and every alias leads to a
\* definition or an import (unless its chain is too long to follow).
FinishedLinkIsBound ==
  /\ \A n \in UndefinedNames : table[n].origin \in referrers[n]
  /\ pc = "done" /\ (\A a \in Archives : HonestIndex(prog, a)) =>
       \A n \in Names :
         /\ table[n].kind \in {"Vacant", "Defined", "DylibImport", "Alias"}
         /\ table[n].kind = "Alias" => ResolveChain(table, n) # "Unknown"

\* Resolution ends: no cycle of archive members or rescans runs for ever.
Terminates == <>(pc \in {"done", "failed"})

\* A name counts as needed while its slot is Undefined or waits for a member
\* that is not in the link yet.
Needed(n) ==
  \/ table[n].kind = "Undefined"
  \/ table[n].kind = "LazyArchive" /\ table[n].member \notin fetched

Loading == INSTANCE DemandLoading WITH
  need <- {n \in Names : Needed(n)},
  settled <- {n \in Names : table[n].kind # "Vacant" /\ ~Needed(n)},
  loaded <- fetched,
  status <- IF pc = "failed" THEN "failed"
            ELSE IF pc \in {"resolved", "done"} THEN "done" ELSE "run"

\* Resolution keeps every promise of DemandLoading: members are loaded on
\* demand only, once, and an archive is left when it has no more to give.
LoadsOnDemand == Loading!Spec
=============================================================================
