-------------------------------- MODULE Image --------------------------------
(***************************************************************************)
(* From layout to image: the driver's two loops (src/src/lib.rs) that plan *)
(* thunks and lay out again until the plan stays, and that size the header,*)
(* build linkedit and synthesize the unwind table until its length stays,  *)
(* and the application of branches.                                        *)
(***************************************************************************)
EXTENDS Thunks

CONSTANTS Links,         \* the links to build
          MaxPlans,      \* THUNK_PLAN_MAX_ITERATIONS
          MaxPasses,     \* passes of the finalization loop
          HeaderBase, HeaderPerSegment, HeaderPerSection,
          UnwindHead, UnwindPage, UnwindDelta   \* MAX_COMPRESSED_FUNCTION_DELTA

ASSUME ImageAssumption ==
  /\ {MaxPlans, MaxPasses} \subseteq Nat \ {0}
  /\ {HeaderBase, HeaderPerSegment, HeaderPerSection, UnwindHead, UnwindPage, UnwindDelta} \subseteq Nat

VARIABLES link, phase, layout, plan, rounds, passes,
          linkedit,   \* what linkedit was built from
          unwind      \* contents of __unwind_info

vars == <<link, phase, layout, plan, rounds, passes, linkedit, unwind>>

Ends == {"Linked", "OutOfRange", "DidNotConverge"}

Init ==
  /\ link \in Links
  /\ phase = "plan"
  /\ layout = BuildLayout(link, <<>>)
  /\ plan = NoPlan
  /\ rounds = 0 /\ passes = 0
  /\ linkedit = <<>> /\ unwind = <<>>

Replan ==
  LET next == PlanThunks(link, layout) IN
  /\ phase = "plan" /\ rounds < MaxPlans
  /\ rounds' = rounds + 1
  /\ IF next = plan
       THEN phase' = "finalize" /\ UNCHANGED <<layout, plan>>
       ELSE /\ layout' = BuildLayout(link, ThunkSections(next))
            /\ plan' = next /\ UNCHANGED phase
  /\ UNCHANGED <<link, passes, linkedit, unwind>>

GiveUp ==
  /\ phase = "plan" /\ rounds = MaxPlans
  /\ phase' = "DidNotConverge"
  /\ UNCHANGED <<link, layout, plan, rounds, passes, linkedit, unwind>>
-----------------------------------------------------------------------------
\* What the symbol table, the fixups and the function starts are made of.
Described(secs) ==
  [i \in DOMAIN secs |-> [seg |-> secs[i].seg, name |-> secs[i].name,
                          addr |-> secs[i].addr, atoms |-> secs[i].atoms]]

\* The Mach-O header and its load commands.
HeaderSize(lay) ==
  HeaderBase + HeaderPerSegment * Len(lay.segs) + HeaderPerSection * Len(lay.secs)

Finalize ==
  /\ phase = "finalize"
  /\ layout' = AssignAddresses(layout.secs, HeaderSize(layout))
  /\ linkedit' = Described(layout'.secs)
  /\ phase' = "unwind"
  /\ UNCHANGED <<link, plan, rounds, passes, unwind>>

\* collect_records: from the atoms of the input, not from the sections.
UnwindRecords(lay) ==
  LET ids == {a \in DOMAIN link.atoms : link.atoms[a].name = "__compact_unwind"}
      offset(a) == IF a = 0 THEN 0 ELSE AtomAddr(lay, a) - TextBase
      key(a) == <<offset(link.atoms[a].fn), a>>
      ordered == Sorted(ids, key)
  IN  [i \in DOMAIN ordered |-> <<offset(link.atoms[ordered[i]].fn),
                                  offset(link.atoms[ordered[i]].lsda)>>]

\* build_pages: a page ends where the distance to its first function overflows.
Pages(records) ==
  LET step(acc, r) == IF acc.n # 0 /\ r[1] - acc.first <= UnwindDelta THEN acc
                      ELSE [n |-> acc.n + 1, first |-> r[1]]
  IN  FoldLeft(step, [n |-> 0, first |-> 0], records).n

UnwindSize(records) == UnwindHead + UnwindPage * Pages(records) + Len(records)

Upsert(secs, size) ==
  LET at == {i \in DOMAIN secs : secs[i].name = "__unwind_info"}
      eh == {i \in DOMAIN secs : secs[i].name = "__eh_frame"}
      text == {i \in DOMAIN secs : secs[i].seg = "__TEXT"}
      where == IF eh # {} THEN Min(eh) ELSE IF text # {} THEN Max(text) + 1 ELSE Len(secs) + 1
      fresh == [Blank("__TEXT", "__unwind_info", 1, size, 0) EXCEPT !.size = size]
  IN  IF at # {} THEN [secs EXCEPT ![Min(at)].data = size, ![Min(at)].size = size]
      ELSE InsertAt(secs, where, fresh)

\* prune_empty_segments
Pruned(secs) ==
  SelectSeq(layout.segs, LAMBDA g :
    g.name \notin ToSet(CustomSegments) \/ \E s \in ToSet(secs) : s.seg = g.name)

SectionLengths(secs) == [i \in DOMAIN secs |-> <<secs[i].name, secs[i].data>>]

\* Mutant: a table that only got another length does not count as a change.
ChangedCount(secs) == Len(secs) # Len(layout.secs)

\* A section came, went or got another length.
Changed(secs) == SectionLengths(secs) # SectionLengths(layout.secs)

\* synthesize, and the end of the finalization loop.
Synthesize ==
  LET kept == SelectSeq(layout.secs, LAMBDA s : s.name # "__compact_unwind")
      records == UnwindRecords(layout)
      bare == SelectSeq(kept, LAMBDA s : s.name # "__unwind_info")
      secs == IF records = <<>> THEN bare ELSE Upsert(kept, UnwindSize(records))
  IN
  /\ phase = "unwind"
  /\ layout' = [secs |-> secs,
                segs |-> IF Changed(secs) THEN Pruned(secs) ELSE layout.segs]
  /\ unwind' = records
  /\ passes' = passes + 1
  /\ phase' = IF Changed(secs) /\ passes + 1 < MaxPasses THEN "finalize" ELSE "apply"
  /\ UNCHANGED <<link, plan, rounds, linkedit>>

Destination(a, c) ==
  LET r == {x \in plan.redirects : x.atom = a /\ x.at = c.at}
  IN  IF r = {} THEN TargetAddr(layout, c)
      ELSE ThunkAddr(layout, plan, (CHOOSE x \in r : TRUE).thunk)

Reaches(x) == InRange(CallPlace(layout, x[1], x[2]), Destination(x[1], x[2]))

\* apply_layout, of the branches
Apply ==
  /\ phase = "apply"
  /\ phase' = IF \A x \in CallSites(link) : Reaches(x) THEN "Linked" ELSE "OutOfRange"
  /\ UNCHANGED <<link, layout, plan, rounds, passes, linkedit, unwind>>

Over == phase \in Ends /\ UNCHANGED vars

Next == Replan \/ GiveUp \/ Finalize \/ Synthesize \/ Apply \/ Over

Spec == Init /\ [][Next]_vars
-----------------------------------------------------------------------------
(* Properties                                                              *)

\* After synthesize changed a length and before the next relayout.
Moving == phase = "finalize" /\ passes # 0

Apart(a, m, b, n) == m = 0 \/ n = 0 \/ a + m <= b \/ b + n <= a

SegmentOf(s) == CHOOSE g \in ToSet(layout.segs) : g.name = s.seg

\* Whatever was split, inserted, merged or removed, the image overlaps nowhere:
\* no two sections share an address or a byte of the file, each lies within its
\* segment, the segments follow one another in both, and once the header has
\* been sized the load commands of the final sections fit before the first.
SectionsApart ==
  ~Moving =>
    /\ \A i, j \in DOMAIN layout.secs :
         LET s == layout.secs[i]
             t == layout.secs[j]
         IN  i < j => /\ Apart(s.addr, s.size, t.addr, t.size)
                      /\ IsZerofill(s) \/ IsZerofill(t) \/ Apart(s.off, s.size, t.off, t.size)
    /\ \A s \in ToSet(layout.secs) :
         LET g == SegmentOf(s)
         IN  /\ g.vm <= s.addr /\ s.addr + s.size <= g.vm + g.vmSize
             /\ IsZerofill(s) \/ (g.off <= s.off /\ s.off + s.size <= g.off + g.fileSize)
    /\ \A i \in 2 .. Len(layout.segs) :
         LET g == layout.segs[i - 1]
             h == layout.segs[i]
         IN  g.vm + g.vmSize <= h.vm /\ g.off + g.fileSize <= h.off
    /\ passes # 0 => \A s \in ToSet(layout.secs) : s.addr >= TextBase + HeaderSize(layout)

\* A segment is mapped from the file in one piece, so a section must be as far
\* into the file's part of it as into its addresses.  assign_addresses runs
\* two cursors that are aligned one by one; they agree for every alignment a
\* page can hold.
FileMirrorsMemory ==
  ~Moving => \A s \in ToSet(layout.secs) :
    \/ IsZerofill(s) \/ s.align > PageSize
    \/ s.addr - SegmentOf(s).vm = s.off - SegmentOf(s).off

\* Splitting sections around islands, merging the linker's words into __data
\* and dropping the compact unwind sections lose no atom and place none twice,
\* and every atom keeps its alignment through every relayout.
AtomsPlaced ==
  \A a \in DOMAIN link.atoms :
    LET at == {x \in UNION {{<<i, k>> : k \in DOMAIN layout.secs[i].atoms} :
                              i \in DOMAIN layout.secs} :
                 layout.secs[x[1]].atoms[x[2]].atom = a}
    IN  IF link.atoms[a].name = "__compact_unwind" /\ passes # 0 THEN at = {}
        ELSE /\ Cardinality(at) = 1
             /\ ~Moving => AtomAddr(layout, a) % link.atoms[a].align = 0

\* The image is laid out soundly after every relayout: nothing overlaps, the file
\* is where its mapping needs it, and every atom is placed, once and aligned.
LayoutSound == SectionsApart /\ FileMirrorsMemory /\ AtomsPlaced

\* What is written agrees with itself.  The unwind table changes the layout it
\* describes, and linkedit is built before it: when the loop ends, linkedit and
\* the table's contents are of the final addresses and the table has the length
\* its section was given.
ImageCoherent ==
  phase \in {"apply", "Linked", "OutOfRange"} =>
    /\ linkedit = Described(layout.secs)
    /\ unwind = UnwindRecords(layout)
    /\ unwind # <<>> =>
         layout.secs[Find(layout, "__TEXT", "__unwind_info")].data = UnwindSize(unwind)

\* Caller atoms and islands of at most half the reach.
Roomy ==
  /\ \A x \in CallSites(link) : link.atoms[x[1]].size <= CallerSpan
  /\ ThunkSize * Cardinality(CallSites(link)) <= CallerSpan

\* A branch that goes through a thunk still arrives where it was meant to: its
\* thunk was made for its target and its addend, has a slot of its own within
\* its island's section, and is in reach once the plan has stayed, as is every
\* target that got no thunk.
ThunksLeadHome ==
  LET island(e) == layout.secs[IslandSection(layout, plan.islands[plan.entries[e].island])]
      at(e) == ThunkAddr(layout, plan, e)
  IN
  /\ \A r \in plan.redirects : \E x \in CallSites(link) :
       /\ x[1] = r.atom /\ x[2].at = r.at
       /\ x[2].to = plan.entries[r.thunk].to /\ x[2].plus = plan.entries[r.thunk].plus
  /\ ~Moving => \A e \in DOMAIN plan.entries :
       /\ island(e).addr <= at(e) /\ at(e) + ThunkSize <= island(e).addr + island(e).size
       /\ \A d \in DOMAIN plan.entries : d # e => Apart(at(d), ThunkSize, at(e), ThunkSize)
  /\ phase = "finalize" /\ passes = 0 /\ link.thunks # "none" /\ Roomy =>
       \A x \in CallSites(link) :
         InRange(CallPlace(layout, x[1], x[2]), Destination(x[1], x[2]))

\* "Layout fixed-point converges rapidly" (sprint 26): planning thunks and laying
\* out again ends in a plan that stays.
Converges == phase # "DidNotConverge"
=============================================================================
