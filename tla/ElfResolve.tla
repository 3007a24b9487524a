----------------------------- MODULE ElfResolve -----------------------------
(***************************************************************************)
(* Input selection of the ELF linker: process_static_range and             *)
(* process_dynamic_range of src/src/elf.rs, with archive scans, groups and *)
(* as-needed shared libraries.  A static link is a link without shared     *)
(* libraries; its range walk is the same.                                  *)
(*                                                                         *)
(* A program is [items, entry, dynamic, gc]; an item is an object, an      *)
(* archive [kind, opens, index, members] whose members map to objects (a   *)
(* member absent, unreadable or malformed has none), a shared library, or  *)
(* a group marker.  The recursion over groups is the variable stack.       *)
(***************************************************************************)
EXTENDS ElfInputs

CONSTANTS Programs

VARIABLES prog,
          objects,  \* loaded objects in load order: <<item, member>>
          defined,  \* the names objects and selected libraries define
          pulled,   \* for every item, ArchiveInput::pulled
          taken,    \* items whose object or library has been taken
          shared,   \* selected libraries (items) in selection order
          dep,      \* dependency_exports
          stack,    \* the active calls, innermost last: [from, to, i, changed]
          scan,     \* the archive scan under way: [additional, required,
                    \*   names, changed, any]
          pc,       \* "range", "scan", then the phases of ElfLink
          outcome   \* the error the link ends with, or "" or "linked"

evars == <<prog, objects, defined, pulled, taken, shared, dep, stack, scan, pc,
           outcome>>

Items == prog.items
NoScan == [additional |-> <<>>, required |-> <<>>, names |-> <<>>,
           changed |-> FALSE, any |-> FALSE]

\* The content of a loaded object.
Content(id) ==
  IF Items[id[1]].kind = "Object" THEN Items[id[1]].object
  ELSE Items[id[1]].members[id[2]]
Loaded == [i \in DOMAIN objects |-> Content(objects[i])]
Selected == [i \in DOMAIN shared |-> Items[shared[i]]]

Init ==
  /\ prog \in Programs
  /\ objects = <<>> /\ shared = <<>>
  /\ defined = {} /\ taken = {}
  /\ pulled = [i \in DOMAIN Items |-> {}]
  /\ dep = [so \in {} |-> {}]
  /\ stack = <<[from |-> 1, to |-> Len(Items), i |-> 1, changed |-> FALSE]>>
  /\ scan = NoScan
  /\ pc = "range" /\ outcome = ""

Top == stack[Len(stack)]
AtItem(kind) ==
  pc = "range" /\ Top.i <= Top.to /\ Items[Top.i].kind = kind
Fail(why) == pc' = "failed" /\ outcome' = why

\* Step past the current item, or-ing the range's changed flag.
Advance(changed) ==
  stack' = [stack EXCEPT ![Len(stack)].i = @ + 1,
                         ![Len(stack)].changed = @ \/ changed]
-----------------------------------------------------------------------------
(* Groups. *)

\* find_static_group_end, find_dynamic_group_end: the GroupEnd that closes a
\* group opened before position i, or 0.
GroupEnd(i, to) ==
  LET depth(j) == Cardinality({k \in i .. j : Items[k].kind = "GroupStart"})
                  - Cardinality({k \in i .. j : Items[k].kind = "GroupEnd"})
      closing == {j \in i .. to : depth(j) = -1}
  IN  IF closing = {} THEN 0 ELSE Min(closing)

EnterGroup ==
  /\ AtItem("GroupStart")
  /\ LET last == GroupEnd(Top.i + 1, Top.to) IN
     IF last = 0 THEN Fail("UnmatchedStart") /\ UNCHANGED stack
     ELSE /\ stack' = Append(stack, [from |-> Top.i + 1, to |-> last - 1,
                                     i |-> Top.i + 1, changed |-> FALSE])
          /\ UNCHANGED <<pc, outcome>>
  /\ UNCHANGED <<prog, objects, defined, pulled, taken, shared, dep, scan>>

StrayGroupEnd ==
  /\ AtItem("GroupEnd")
  /\ Fail("UnmatchedEnd")
  /\ UNCHANGED <<prog, objects, defined, pulled, taken, shared, dep, stack, scan>>

RangeDone == pc = "range" /\ Top.i > Top.to

\* Mutant: the flag of the last pass stays set.
RepeatGroupSticky ==
  /\ RangeDone /\ Len(stack) > 1 /\ Top.changed
  /\ stack' = [stack EXCEPT ![Len(stack)].i = Top.from,
                            ![Len(stack) - 1].changed = TRUE]
  /\ UNCHANGED <<prog, objects, defined, pulled, taken, shared, dep, scan, pc,
                 outcome>>

\* Another pass over the group after one that changed something.
RepeatGroup ==
  /\ RangeDone /\ Len(stack) > 1 /\ Top.changed
  /\ stack' = [stack EXCEPT ![Len(stack)].i = Top.from,
                            ![Len(stack)].changed = FALSE,
                            ![Len(stack) - 1].changed = TRUE]
  /\ UNCHANGED <<prog, objects, defined, pulled, taken, shared, dep, scan, pc,
                 outcome>>

\* Mutant: a group is left after its second pass.
LeaveGroupEarly ==
  /\ RangeDone /\ Len(stack) > 1
  /\ stack' = [SubSeq(stack, 1, Len(stack) - 1)
                 EXCEPT ![Len(stack) - 1].i = Top.to + 2]
  /\ UNCHANGED <<prog, objects, defined, pulled, taken, shared, dep, scan, pc,
                 outcome>>

LeaveGroup ==
  /\ RangeDone /\ Len(stack) > 1 /\ ~Top.changed
  /\ stack' = [SubSeq(stack, 1, Len(stack) - 1)
                 EXCEPT ![Len(stack) - 1].i = Top.to + 2]
  /\ UNCHANGED <<prog, objects, defined, pulled, taken, shared, dep, scan, pc,
                 outcome>>

\* The outermost range is done: garbage collection, if asked for, is next.
FinishRange ==
  /\ RangeDone /\ Len(stack) = 1
  /\ pc' = IF prog.gc THEN "gc" ELSE "shared"
  /\ UNCHANGED <<prog, objects, defined, pulled, taken, shared, dep, stack, scan,
                 outcome>>
-----------------------------------------------------------------------------
(* Objects and archives. *)

TakeObject ==
  /\ AtItem("Object")
  /\ LET fresh == Top.i \notin taken IN
     /\ objects' = IF fresh THEN Append(objects, <<Top.i, NoMember>>) ELSE objects
     /\ defined' = IF fresh THEN defined \cup DefinedNames(Items[Top.i].object)
                   ELSE defined
     /\ Advance(fresh)
  /\ taken' = taken \cup {Top.i}
  /\ UNCHANGED <<prog, pulled, shared, dep, scan, pc, outcome>>

\* The names one pass of scan_archive looks for, in order.
PassNames(objs, def, additional, required) ==
  LET demand == UndefinedDemand(objs, additional, def)
  IN  demand \o SelectSeq(required, LAMBDA n : n \notin ToSet(demand))

\* The entry symbol, as long as no object defines it.
RequiredEntry ==
  IF prog.entry \in DefinedByAny(Loaded) THEN <<>> ELSE <<prog.entry>>

TakeArchive ==
  /\ AtItem("Archive")
  /\ IF Items[Top.i].opens
       THEN LET additional == UncoveredSharedDemand(Selected, defined, dep) IN
            /\ scan' = [additional |-> additional, required |-> RequiredEntry,
                        names |-> PassNames(Loaded, defined, additional, RequiredEntry),
                        changed |-> FALSE, any |-> FALSE]
            /\ pc' = "scan" /\ UNCHANGED outcome
       ELSE Fail("BadArchive") /\ UNCHANGED scan
  /\ UNCHANGED <<prog, objects, defined, pulled, taken, shared, dep, stack>>

NamedMember == ArmapMember(Items[Top.i].index, Head(scan.names))

\* The next name of the pass needs nothing new from this archive.
PassName ==
  /\ pc = "scan" /\ scan.names # <<>>
  /\ NamedMember \in {NoMember} \cup pulled[Top.i]
  /\ scan' = [scan EXCEPT !.names = Tail(@)]
  /\ UNCHANGED <<prog, objects, defined, pulled, taken, shared, dep, stack, pc,
                 outcome>>

\* The member that the index names is loaded and becomes an object.
PullMember ==
  /\ pc = "scan" /\ scan.names # <<>>
  /\ NamedMember \notin {NoMember} \cup pulled[Top.i]
  /\ NamedMember \in DOMAIN Items[Top.i].members
  /\ objects' = Append(objects, <<Top.i, NamedMember>>)
  /\ defined' = defined \cup DefinedNames(Items[Top.i].members[NamedMember])
  /\ pulled' = [pulled EXCEPT ![Top.i] = @ \cup {NamedMember}]
  /\ scan' = [scan EXCEPT !.names = Tail(@), !.changed = TRUE, !.any = TRUE]
  /\ UNCHANGED <<prog, taken, shared, dep, stack, pc, outcome>>

PullFails ==
  /\ pc = "scan" /\ scan.names # <<>>
  /\ NamedMember \notin {NoMember} \cup pulled[Top.i]
  /\ NamedMember \notin DOMAIN Items[Top.i].members
  /\ Fail("BadMember")
  /\ UNCHANGED <<prog, objects, defined, pulled, taken, shared, dep, stack, scan>>

RepeatScan ==
  /\ pc = "scan" /\ scan.names = <<>> /\ scan.changed
  /\ scan' = [scan EXCEPT !.changed = FALSE,
                !.names = PassNames(Loaded, defined, scan.additional, scan.required)]
  /\ UNCHANGED <<prog, objects, defined, pulled, taken, shared, dep, stack, pc,
                 outcome>>

LeaveArchive ==
  /\ pc = "scan" /\ scan.names = <<>> /\ ~scan.changed
  /\ Advance(scan.any)
  /\ scan' = NoScan
  /\ pc' = "range"
  /\ UNCHANGED <<prog, objects, defined, pulled, taken, shared, dep, outcome>>
-----------------------------------------------------------------------------
(* Shared libraries. *)

\* Does a selected library reference, strongly and outside its own
\* dependencies, something only the candidate defines?
SharedSelect(lib) ==
  \E l \in ToSet(Selected) :
    /\ l.complete /\ lib.soname \notin l.needed
    /\ (ToSet(l.strong) \ defined) \cap lib.exports # {}

SonamesSelected == {l.soname : l \in ToSet(Selected)}

SkipShared ==
  /\ AtItem("Shared")
  /\ Top.i \in taken \/ Items[Top.i].soname \in SonamesSelected
  /\ taken' = taken \cup {Top.i}
  /\ Advance(FALSE)
  /\ UNCHANGED <<prog, objects, defined, pulled, shared, dep, scan, pc, outcome>>

TakeShared ==
  /\ AtItem("Shared")
  /\ Top.i \notin taken /\ Items[Top.i].soname \notin SonamesSelected
  /\ LET lib == Items[Top.i]
         select == \/ ~lib.asNeeded
                   \/ SatisfiesObjects(Loaded, defined, lib)
                   \/ SharedSelect(lib)
     IN  /\ taken' = IF select THEN taken \cup {Top.i} ELSE taken
         /\ defined' = IF select THEN defined \cup lib.exports ELSE defined
         /\ shared' = IF select THEN Append(shared, Top.i) ELSE shared
         /\ dep' = IF lib.soname \in DOMAIN dep THEN dep
                   ELSE dep @@ (lib.soname :> lib.exports)
         /\ Advance(select)
  /\ UNCHANGED <<prog, objects, pulled, scan, pc, outcome>>

SelectNext ==
  \/ EnterGroup \/ StrayGroupEnd \/ RepeatGroup \/ LeaveGroup \/ FinishRange
  \/ TakeObject \/ TakeArchive \/ PassName \/ PullMember \/ PullFails
  \/ RepeatScan \/ LeaveArchive \/ SkipShared \/ TakeShared
=============================================================================
