------------------------------- MODULE Layout -------------------------------
(***************************************************************************)
(* Sections, segments and addresses of a Mach-O image (src/src/layout.rs). *)
(* Sizes, offsets and alignments are counted in instructions (4 bytes).    *)
(*                                                                         *)
(* A link is [atoms, synth, thunks]: atoms is the table of kept atoms, each *)
(* [seg, name, align, size, input, off, calls, fn, lsda], where seg and    *)
(* name say which output section it goes to and input, off where it comes  *)
(* from; synth the synthetic sections, each [seg, name, align, data].      *)
(* A section of the image is [seg, name, align, atoms, data, made, size,   *)
(* addr, off]: atoms are [atom, off], data is the length of its synthetic  *)
(* part, made its place in the order of creation.                          *)
(***************************************************************************)
EXTENDS Integers, Sequences, FiniteSets, SequencesExt

CONSTANTS PageSize,        \* PAGE_SIZE
          TextBase,        \* EXECUTABLE_TEXT_BASE
          PrivateAlign,    \* alignment of the linker's part of __data
          CustomSegments,  \* segments that are not standard, by name
          OtherSections    \* sections section_rank does not know, by name

ASSUME LayoutAssumption ==
  /\ {PageSize, PrivateAlign} \subseteq Nat \ {0}
  /\ TextBase \in Nat /\ TextBase % PageSize = 0

AlignUp(v, a) == ((v + a - 1) \div a) * a

Position(x, s) == IF x \in ToSet(s) THEN CHOOSE i \in DOMAIN s : s[i] = x ELSE Len(s) + 1

SegmentOrder ==
  <<"__TEXT", "__DATA_CONST", "__DATA">> \o CustomSegments \o <<"__LINKEDIT">>

SectionOrder(seg) ==
  CASE seg = "__TEXT" -> <<"__text", "__thunks", "__stubs", "__const",
                           "__unwind_info", "__eh_frame">>
    [] seg = "__DATA" -> <<"__data", "__common", "__bss">>
    [] OTHER -> <<"__got">>

IsZerofill(s) == s.name \in {"__common", "__bss"}

LexLess(a, b) == \E i \in DOMAIN a : a[i] < b[i] /\ \A j \in 1 .. i - 1 : a[j] = b[j]

\* The set in the order of its keys, which are distinct.
Sorted(S, Key(_)) ==
  [k \in 1 .. Cardinality(S) |->
     CHOOSE x \in S : Cardinality({y \in S : LexLess(Key(y), Key(x))}) = k - 1]

\* compare_output_sections; the sort is stable.
SectionKey(s) ==
  <<Position(s.seg, SegmentOrder), IF IsZerofill(s) THEN 1 ELSE 0,
    Position(s.name, SectionOrder(s.seg)), Position(s.name, OtherSections), s.made>>

Blank(seg, name, align, data, made) ==
  [seg |-> seg, name |-> name, align |-> align, atoms |-> <<>>, data |-> data,
   made |-> made, size |-> 0, addr |-> 0, off |-> 0]

\* The atoms of a section in the order of the command line.
AtomOrder(link, ids) ==
  LET key(a) == <<link.atoms[a].input, link.atoms[a].off, a>>
      ordered == Sorted(ids, key)
  IN  [i \in DOMAIN ordered |-> [atom |-> ordered[i], off |-> 0]]

AtomSections(link) ==
  LET keys == {<<a.seg, a.name>> : a \in ToSet(link.atoms)}
      ids(k) == {a \in DOMAIN link.atoms : <<link.atoms[a].seg, link.atoms[a].name>> = k}
      align(k) == Max({link.atoms[a].align : a \in ids(k)})
  IN  {[Blank(k[1], k[2], align(k), 0, Min(ids(k)))
          EXCEPT !.atoms = AtomOrder(link, ids(k))] : k \in keys}

\* The linker's own words join an existing __data, other synthetic sections
\* stand alone.
WithSynthetics(link, secs) ==
  LET joins(s, y) == s.seg = y.seg /\ s.name = y.name /\ y.name = "__data"
      part(s) == {y \in ToSet(link.synth) : joins(s, y)}
      joined(s) == IF part(s) = {} THEN s
                   ELSE LET y == CHOOSE y \in part(s) : TRUE
                        IN  [s EXCEPT !.align = Max({s.align, y.align}), !.data = y.data]
      alone == {i \in DOMAIN link.synth : \A s \in secs : ~joins(s, link.synth[i])}
  IN  {joined(s) : s \in secs}
        \cup {Blank(link.synth[i].seg, link.synth[i].name, link.synth[i].align,
                    link.synth[i].data, Len(link.atoms) + i) : i \in alone}

\* The last atom of each piece of a section that is cut after some of its atoms.
PieceEnds(s, cuts) == SetToSortSeq(cuts \cup {Len(s.atoms)}, <)

\* split_sections_after_atoms
Pieces(s, after) ==
  LET cuts == {i \in 1 .. Len(s.atoms) - 1 : s.atoms[i].atom \in after}
      ends == PieceEnds(s, cuts)
      from(k) == IF k = 1 THEN 1 ELSE ends[k - 1] + 1
  IN  IF s.data # 0 \/ cuts = {} THEN <<s>>
      ELSE [k \in DOMAIN ends |->
              [s EXCEPT !.atoms = SubSeq(s.atoms, from(k), ends[k])]]

LastAtom(s) == IF s.atoms = <<>> THEN 0 ELSE s.atoms[Len(s.atoms)].atom

\* insert_extra_sections: each island follows the section its atom ends.
InsertIslands(secs, islands) ==
  LET step(acc, island) ==
        LET at == Max({i \in DOMAIN acc : LastAtom(acc[i]) = island.after})
        IN  InsertAt(acc, at + 1, Blank(island.seg, "__thunks", 1, island.data, 0))
  IN  FoldLeft(step, secs, islands)

DataAlign(s) == IF s.seg = "__DATA" /\ s.name = "__data" THEN PrivateAlign ELSE s.align

\* Offsets of the atoms in their section, and its size.
Packed(link, s) ==
  LET step(acc, p) ==
        LET at == AlignUp(acc.size, link.atoms[p.atom].align)
        IN  [atoms |-> Append(acc.atoms, [p EXCEPT !.off = at]),
             size |-> at + link.atoms[p.atom].size]
      packed == FoldLeft(step, [atoms |-> <<>>, size |-> 0], s.atoms)
      start == IF s.atoms = <<>> THEN 0 ELSE AlignUp(packed.size, DataAlign(s))
  IN  [s EXCEPT !.atoms = packed.atoms,
                !.size = IF s.data = 0 THEN packed.size ELSE start + s.data]
-----------------------------------------------------------------------------
(* assign_addresses                                                        *)

SectionsIn(secs, seg) == SelectSeq([i \in DOMAIN secs |-> i], LAMBDA i : secs[i].seg = seg)

\* Mutant: the file offset is not aligned with the address.
PlaceSectionPacked(acc, i) ==
  LET s == acc.secs[i]
      addr == AlignUp(acc.vm, s.align)
  IN  IF IsZerofill(s)
        THEN [acc EXCEPT !.secs[i].addr = addr, !.secs[i].off = 0, !.vm = addr + s.size]
        ELSE [acc EXCEPT !.secs[i].addr = addr, !.secs[i].off = acc.off,
                         !.vm = addr + s.size, !.off = acc.off + s.size]

\* One section after another; vm and off are the two cursors.
PlaceSection(acc, i) ==
  LET s == acc.secs[i]
      addr == AlignUp(acc.vm, s.align)
      off == AlignUp(acc.off, s.align)
  IN  IF IsZerofill(s)
        THEN [acc EXCEPT !.secs[i].addr = addr, !.secs[i].off = 0, !.vm = addr + s.size]
        ELSE [acc EXCEPT !.secs[i].addr = addr, !.secs[i].off = off,
                         !.vm = addr + s.size, !.off = off + s.size]

PlaceSegment(acc, seg, header) ==
  LET text == seg = "__TEXT"
      linkedit == seg = "__LINKEDIT"
      vm == IF text THEN TextBase ELSE AlignUp(acc.vm, PageSize)
      off == IF text THEN 0 ELSE AlignUp(acc.off, PageSize)
      skip == IF text THEN header ELSE 0
      placed == FoldLeft(PlaceSection, [secs |-> acc.secs, vm |-> vm + skip, off |-> off + skip],
                         SectionsIn(acc.secs, seg))
      segment == [name |-> seg, vm |-> vm, vmSize |-> AlignUp(placed.vm - vm, PageSize),
                  off |-> off, fileSize |-> AlignUp(placed.off - off, PageSize)]
  IN  [secs |-> placed.secs,
       segs |-> Append(acc.segs, segment),
       vm |-> IF linkedit THEN vm ELSE placed.vm,
       off |-> IF linkedit THEN off ELSE placed.off]

AssignAddresses(secs, header) ==
  LET present == SelectSeq(SegmentOrder, LAMBDA seg :
                   seg \in {"__TEXT", "__LINKEDIT"} \/ SectionsIn(secs, seg) # <<>>)
      start == [secs |-> secs, segs |-> <<>>, vm |-> TextBase, off |-> 0]
      done == FoldLeft(LAMBDA acc, seg : PlaceSegment(acc, seg, header), start, present)
  IN  [secs |-> done.secs, segs |-> done.segs]

\* build_with_synthetics_and_extra_filtered
BuildLayout(link, islands) ==
  LET all == WithSynthetics(link, AtomSections(link))
      sorted == Sorted(all, SectionKey)
      after == {island.after : island \in ToSet(islands)}
      split == FlattenSeq([i \in DOMAIN sorted |-> Pieces(sorted[i], after)])
      whole == InsertIslands(split, islands)
  IN  AssignAddresses([i \in DOMAIN whole |-> Packed(link, whole[i])], 0)

\* atom_addr, for an atom that is placed.
HolderOf(layout, a) ==
  CHOOSE i \in DOMAIN layout.secs :
    \E p \in ToSet(layout.secs[i].atoms) : p.atom = a

AtomAddr(layout, a) ==
  LET s == layout.secs[HolderOf(layout, a)]
      p == CHOOSE p \in ToSet(s.atoms) : p.atom = a
  IN  s.addr + p.off

\* The section a segment and a name lead to; 0 if there is none.
Find(layout, seg, name) ==
  LET at == {i \in DOMAIN layout.secs : layout.secs[i].seg = seg /\ layout.secs[i].name = name}
  IN  IF at = {} THEN 0 ELSE Min(at)
=============================================================================
