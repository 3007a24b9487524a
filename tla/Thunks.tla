------------------------------- MODULE Thunks -------------------------------
(***************************************************************************)
(* Branch thunks (plan_thunks of src/src/reloc/arm64.rs).  A call of an    *)
(* atom is [at, to, plus]: the branch at offset at goes to atom to, or to  *)
(* the stubs if to is 0, and plus is its addend.  A plan is [redirects,    *)
(* islands, entries]: redirects are [atom, at, thunk], islands [seg,       *)
(* after], entries [island, slot, to, plus].                               *)
(***************************************************************************)
EXTENDS Layout

CONSTANTS ThunkSize,   \* THUNK_SIZE
          Reach        \* a branch spans -Reach .. Reach - 1

ASSUME ThunkAssumption == ThunkSize \in Nat \ {0} /\ Reach \in Nat \ {0}

NoPlan == [redirects |-> {}, islands |-> <<>>, entries |-> <<>>]

\* THUNK_ISLAND_CALLER_SPAN
CallerSpan == (Reach - 1) \div 2

InRange(place, target) == -Reach <= target - place /\ target - place < Reach

TargetAddr(layout, c) ==
  IF c.to = 0 THEN layout.secs[Find(layout, "__TEXT", "__stubs")].addr + c.plus
  ELSE AtomAddr(layout, c.to) + c.plus

\* layout_fits_branch26_span
FitsSpan(layout) ==
  LET used == {s \in ToSet(layout.secs) : s.size # 0}
  IN  used = {} \/ Max({s.addr + s.size : s \in used}) - Min({s.addr : s \in used}) <= Reach - 1

CallSites(link) == UNION {{<<a, c>> : c \in ToSet(link.atoms[a].calls)} : a \in DOMAIN link.atoms}

CallPlace(layout, a, c) == AtomAddr(layout, a) + c.at

Requests(link, layout) ==
  LET needs(x) == \/ link.thunks = "all"
                  \/ ~InRange(CallPlace(layout, x[1], x[2]), TargetAddr(layout, x[2]))
      request(x) ==
        [atom |-> x[1], at |-> x[2].at, to |-> x[2].to, plus |-> x[2].plus,
         place |-> CallPlace(layout, x[1], x[2]),
         end |-> AtomAddr(layout, x[1]) + link.atoms[x[1]].size,
         seg |-> link.atoms[x[1]].seg]
      \* the order of the segments only numbers the islands
      key(r) == <<Position(r.seg, SegmentOrder), r.place, r.atom, r.at>>
  IN  Sorted({request(x) : x \in {y \in CallSites(link) : needs(y)}}, key)

\* Joining an island: the loop over the sorted requests.  acc.first is where
\* the first caller of each island is, the active island of a segment its last.
Joins(acc, k, r) ==
  k # 0 /\ (acc.islands[k].after = r.atom \/ r.end - acc.first[k] <= CallerSpan)

\* Mutant: thunks are shared by target whatever the addend.
ServesAnyAddend(entry, k, r) == entry.island = k /\ entry.to = r.to

\* ThunkBucketKey: the calls of one island to one target share a thunk.
Serves(entry, k, r) == entry.island = k /\ entry.to = r.to /\ entry.plus = r.plus

Serve(acc, r) ==
  LET mine == {i \in DOMAIN acc.islands : acc.islands[i].seg = r.seg}
      active == IF mine = {} THEN 0 ELSE Max(mine)
      joins == Joins(acc, active, r)
      k == IF joins THEN active ELSE Len(acc.islands) + 1
      same == {e \in DOMAIN acc.entries : Serves(acc.entries[e], k, r)}
      slot == Cardinality({e \in DOMAIN acc.entries : acc.entries[e].island = k})
      e == IF same # {} THEN Min(same) ELSE Len(acc.entries) + 1
  IN  [islands |-> IF joins THEN [acc.islands EXCEPT ![k].after = r.atom]
                   ELSE Append(acc.islands, [seg |-> r.seg, after |-> r.atom]),
       first |-> IF joins THEN acc.first ELSE Append(acc.first, r.place),
       entries |-> IF same # {} THEN acc.entries
                   ELSE Append(acc.entries, [island |-> k, slot |-> slot,
                                             to |-> r.to, plus |-> r.plus]),
       redirects |-> acc.redirects \cup {[atom |-> r.atom, at |-> r.at, thunk |-> e]}]

PlanThunks(link, layout) ==
  LET addends == \E x \in CallSites(link) : x[2].plus # 0
      start == [islands |-> <<>>, first |-> <<>>, entries |-> <<>>, redirects |-> {}]
      served == FoldLeft(Serve, start, Requests(link, layout))
  IN  IF \/ link.thunks = "none"
         \/ link.thunks = "safe" /\ ~addends /\ FitsSpan(layout)
        THEN NoPlan
        ELSE [redirects |-> served.redirects, islands |-> served.islands,
              entries |-> served.entries]

\* ThunkPlan::output_sections
ThunkSections(plan) ==
  [k \in DOMAIN plan.islands |->
     [seg |-> plan.islands[k].seg, after |-> plan.islands[k].after,
      data |-> ThunkSize * Cardinality({e \in DOMAIN plan.entries : plan.entries[e].island = k})]]

\* find_thunk_section_index
IslandSection(layout, island) ==
  Min({i \in 2 .. Len(layout.secs) :
         /\ layout.secs[i].name = "__thunks" /\ layout.secs[i].seg = island.seg
         /\ layout.secs[i - 1].seg = island.seg
         /\ LastAtom(layout.secs[i - 1]) = island.after})

ThunkAddr(layout, plan, e) ==
  LET entry == plan.entries[e]
  IN  layout.secs[IslandSection(layout, plan.islands[entry.island])].addr
        + ThunkSize * entry.slot
=============================================================================
