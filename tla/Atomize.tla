------------------------------- MODULE Atomize -------------------------------
(***************************************************************************)
(* Atomization (src/atom.rs): every section of every object is split into  *)
(* atoms, unwind records are tied to the function atoms they describe, the *)
(* symbols resolution defined are bound to their atoms (the back-patch),   *)
(* and the surviving tentative definitions get storage of their own.       *)
(*                                                                         *)
(* A symbol handle (SymbolId) is an index of syms. Until the back-patch an *)
(* atom's owner and alternate entries hold indices of the object's own     *)
(* symbol table in their place, as the code does.                          *)
(***************************************************************************)
EXTENDS RelocStream, FiniteSets, FiniteSetsExt

CONSTANTS
  AtomLinks,    \* the links to atomize: [objs, syms]
  RecordSize,   \* 32: the size of a compact unwind record
  FieldOffset,  \* 8: where an FDE holds the function it describes
  SizeLimit     \* u32::MAX: the largest size of an atom

ASSUME AtomizeAssumption ==
  /\ RecordSize \in Nat \ {0}
  /\ FieldOffset \in Nat /\ SizeLimit \in Nat

VARIABLES
  objs,     \* the objects, in input order
  syms,     \* the symbol table resolution left
  atoms,    \* AtomTable: the atoms by handle
  out,      \* ObjectAtomization of the object at hand
  obj,      \* the object at hand
  part,     \* its section to split next
  stage     \* "split", "bind", "done" or "failed"
avars == <<objs, syms, atoms, out, obj, part, stage>>

Empty == [atoms |-> <<>>, owners |-> <<>>, alts |-> <<>>]

AtomizeStart(link) ==
  /\ objs = link.objs /\ syms = link.syms
  /\ atoms = <<>> /\ out = Empty
  /\ obj = 1 /\ part = 1 /\ stage = "split"

AtomizeInit == \E link \in AtomLinks : AtomizeStart(link)

(***************************************************************************)
(* The symbols of a section that split it or bind to its atoms.            *)
(***************************************************************************)
Zerofill(s) == s.kind = "zerofill"
Literal(s) == s.kind \in {"cstring", "literal"}

UsesSymbolBoundaries(o, s) ==
  o.subsections /\ ~Zerofill(s) /\ ~Literal(s) /\ s.kind \notin {"unwind", "ehframe"}

Offset(o, i) ==
  LET s == o.sects[o.syms[i].sect]
  IN  IF o.syms[i].value >= s.addr THEN o.syms[i].value - s.addr ELSE 0

\* Indices of the object's symbol table, by offset and then by index.
SectionSymbols(o, k) ==
  LET chosen == {i \in DOMAIN o.syms :
                   /\ o.syms[i].sect = k
                   /\ \/ o.syms[i].ext
                      \/ UsesSymbolBoundaries(o, o.sects[k]) /\ ~o.syms[i].alt}
  IN  SetToSortSeq(chosen, LAMBDA i, j : \/ Offset(o, i) < Offset(o, j)
                                         \/ Offset(o, i) = Offset(o, j) /\ i < j)

Ordinary(o, is, off) == {j \in DOMAIN is : ~o.syms[is[j]].alt /\ Offset(o, is[j]) = off}

(***************************************************************************)
(* Atoms.                                                                  *)
(***************************************************************************)
\* The largest power that divides the offset, up to the section's alignment.
AtomAlignment(align, off) ==
  Max({p \in 0 .. align : off % 2 ^ p = 0})

SymbolKeeps(s, sym) == s.keep \/ (sym.keep /\ ~s.live)

Atom(o, k, off, size, keep, alts) ==
  [origin |-> o, sect |-> k, off |-> off, size |-> size,
   align |-> AtomAlignment(IF objs[o].sects[k].kind = "ehframe" THEN Min({2, objs[o].sects[k].align})
                           ELSE objs[o].sects[k].align, off),
   owner |-> 0, alts |-> alts, keep |-> keep, parent |-> 0]
WholeSection(o, k) ==
  [Atom(o, k, 0, objs[o].sects[k].size, objs[o].sects[k].keep, <<>>)
     EXCEPT !.align = objs[o].sects[k].align]

\* What splitting a section adds: atoms, numbered from the next handle on, the
\* symbols that own one and the symbols inside one, both by symbol index.
Piece(atom, owners, alts) == [atom |-> atom, owners |-> owners, alts |-> alts]

\* Section with content-defined records: the first symbol exactly at the start of
\* a record owns it, and in a literal section lends it its flags.
Record(o, k, off, end) ==
  LET s == objs[o].sects[k]
      is == SectionSymbols(objs[o], k)
      first == {j \in DOMAIN is : Offset(objs[o], is[j]) = off}
      keep == \/ s.keep
              \/ Literal(s) /\ first # {} /\ SymbolKeeps(s, objs[o].syms[is[Min(first)]])
  IN  Piece(Atom(o, k, off, end - off, keep, <<>>),
            IF first = {} \/ s.kind = "ehframe" THEN <<>> ELSE <<is[Min(first)]>>, <<>>)

\* Where the record at an offset ends; 0 when its length cannot be read.
RecordEnd(s, off) ==
  CASE s.kind = "cstring" ->
         LET nuls == {n \in s.nuls : n >= off}
         IN  IF nuls = {} THEN s.size ELSE Min(nuls) + 1
    [] s.kind = "literal" -> Min({off + s.width, s.size})
    [] s.kind = "unwind" -> Min({off + RecordSize, s.size})
    [] s.kind = "ehframe" -> IF s.recs[off].size > 0 THEN off + s.recs[off].size ELSE 0

RECURSIVE Records(_, _, _)
Records(o, k, off) ==
  LET s == objs[o].sects[k]
      end == RecordEnd(s, off)
  IN  CASE off >= s.size -> <<>>
        [] off < s.size /\ end = 0 -> <<Piece(WholeSection(o, k), <<>>, <<>>)>>
        [] OTHER -> <<Record(o, k, off, end)>> \o Records(o, k, end)

\* One atom per symbol, from its offset to the next symbol's.
ZerofillPieces(o, k, is) ==
  [j \in DOMAIN is |->
     LET start == Offset(objs[o], is[j])
         end == IF j < Len(is) THEN Offset(objs[o], is[j + 1]) ELSE objs[o].sects[k].size
     IN  Piece([Atom(o, k, start, Max({0, end - start}),
                     SymbolKeeps(objs[o].sects[k], objs[o].syms[is[j]]), <<>>)
                  EXCEPT !.owner = is[j]],
               <<is[j]>>, <<>>)]

(***************************************************************************)
(* A section split at its ordinary definitions. One atom runs from each    *)
(* boundary to the next; the last ordinary definition at a boundary is its *)
(* canonical owner, and the earlier ones and the alternate entries of the  *)
(* range become entries of the atom.                                       *)
(***************************************************************************)
InOrder(S) == SetToSortSeq(S, <)

\* The ordinary definitions at a boundary that do not own the atom.
Aliases(o, is, off) == Ordinary(o, is, off) \ {Max(Ordinary(o, is, off))}

Slice(o, k, is, off, end) ==
  LET ob == objs[o]
      owners == Ordinary(ob, is, off)
      inside == {j \in DOMAIN is : LET at == Offset(ob, is[j]) IN at = off \/ (at > off /\ at < end)}
      alts == {j \in inside : ob.syms[is[j]].ext /\ (ob.syms[is[j]].alt \/ j \in Aliases(ob, is, off))}
      entries == [n \in DOMAIN InOrder(alts) |->
                    LET i == is[InOrder(alts)[n]]
                    IN  [sym |-> i, off |-> Offset(ob, i) - off, explicit |-> ob.syms[i].alt]]
      named == SelectSeq(InOrder(owners), LAMBDA j : ob.syms[is[j]].ext)
      keep == ob.sects[k].keep \/ \E j \in owners : SymbolKeeps(ob.sects[k], ob.syms[is[j]])
  IN  Piece(Atom(o, k, off, end - off, keep, entries),
            [n \in DOMAIN named |-> is[named[n]]],
            [n \in DOMAIN entries |-> [sym |-> entries[n].sym, off |-> entries[n].off]])

\* The unowned atom before the first ordinary definition, with the entries of it.
HeadSlice(o, k, is, end) ==
  LET ob == objs[o]
      named == SelectSeq(is, LAMBDA i : ob.syms[i].ext)
      entries == [n \in DOMAIN named |->
                    [sym |-> named[n], off |-> Offset(ob, named[n]), explicit |-> ob.syms[named[n]].alt]]
  IN  Piece(Atom(o, k, 0, end, ob.sects[k].keep, entries), <<>>,
            [n \in DOMAIN entries |-> [sym |-> entries[n].sym, off |-> entries[n].off]])

SlicePieces(o, k, is) ==
  LET ob == objs[o]
      size == ob.sects[k].size
      cuts == InOrder({Offset(ob, is[j]) : j \in {j \in DOMAIN is : ~ob.syms[is[j]].alt}})
      End(n) == IF n < Len(cuts) THEN cuts[n + 1] ELSE Max({size, cuts[n]})
  IN  CASE is = <<>> -> <<Piece(WholeSection(o, k), <<>>, <<>>)>>
        [] is # <<>> /\ cuts = <<>> -> <<HeadSlice(o, k, is, size)>>
        [] OTHER -> (IF cuts[1] > 0
                      THEN <<HeadSlice(o, k, SelectSeq(is, LAMBDA i : Offset(ob, i) < cuts[1]), cuts[1])>>
                      ELSE <<>>)
                      \o [n \in DOMAIN cuts |-> Slice(o, k, is, cuts[n], End(n))]

\* atomize_regular_section.
SectionPieces(o, k) ==
  LET ob == objs[o]
      s == ob.sects[k]
      is == SectionSymbols(ob, k)
  IN  CASE ~ob.subsections ->
             <<Piece(WholeSection(o, k), <<>>,
                     [n \in DOMAIN is |-> [sym |-> is[n], off |-> Offset(ob, is[n])]])>>
        [] ob.subsections /\ Zerofill(s) ->
             IF is = <<>> THEN <<Piece(WholeSection(o, k), <<>>, <<>>)>>
             ELSE ZerofillPieces(o, k, is)
        [] ob.subsections /\ (Literal(s) \/ s.kind \in {"unwind", "ehframe"}) -> Records(o, k, 0)
        [] OTHER -> SlicePieces(o, k, is)

SplitSection ==
  LET Handle(n) == Len(atoms) + n
  IN  /\ stage = "split" /\ obj <= Len(objs) /\ part <= Len(objs[obj].sects)
      /\ \E pieces \in {SectionPieces(obj, part)} :
           /\ atoms' = atoms \o [n \in DOMAIN pieces |-> pieces[n].atom]
           /\ out' = [atoms |-> out.atoms \o [n \in DOMAIN pieces |-> Handle(n)],
                      owners |-> out.owners \o FlattenSeq([n \in DOMAIN pieces |->
                         [m \in DOMAIN pieces[n].owners |->
                            [sym |-> pieces[n].owners[m], atom |-> Handle(n)]]]),
                      alts |-> out.alts \o FlattenSeq([n \in DOMAIN pieces |->
                         [m \in DOMAIN pieces[n].alts |->
                            [sym |-> pieces[n].alts[m].sym, atom |-> Handle(n),
                             off |-> pieces[n].alts[m].off]]])]
      /\ part' = part + 1
      /\ UNCHANGED <<objs, syms, obj, stage>>
(***************************************************************************)
(* Metadata atoms follow the function atoms they describe.                 *)
(***************************************************************************)
\* The ranges, in order of start, that a binary search for the offset leaves behind.
RangesUpTo(ranges, off) == {n \in DOMAIN ranges : ranges[n].off <= off}

\* The handle of the atom of this object that holds the offset; 0 for none.
AtomAt(k, off) ==
  LET End(a) == atoms[a].off + atoms[a].size
      mine == {a \in {out.atoms[n] : n \in DOMAIN out.atoms} : atoms[a].sect = k}
      order == SetToSortSeq(mine, LAMBDA a, b :
                 \/ atoms[a].off < atoms[b].off
                 \/ atoms[a].off = atoms[b].off /\ End(a) < End(b)
                 \/ atoms[a].off = atoms[b].off /\ End(a) = End(b) /\ a < b)
      ranges == [n \in DOMAIN order |-> [off |-> atoms[order[n]].off, end |-> End(order[n])]]
      apart == \A n \in 1 .. Len(order) - 1 : ranges[n].end <= ranges[n + 1].off
      holding == {n \in DOMAIN ranges : ranges[n].off <= off /\ off < ranges[n].end}
      behind == RangesUpTo(ranges, off)
  IN  CASE ~apart -> IF holding = {} THEN 0 ELSE order[Min(holding)]
        [] apart /\ behind = {} -> 0
        [] OTHER -> IF Max(behind) \in holding THEN order[Max(behind)] ELSE 0

\* resolve_input_function_target: <<>> when the relocation names nothing in this
\* object, otherwise the section and the offset it points to.
ReferentAddress(o, ref) ==
  IF ref.ext
  THEN IF ref.num \in DOMAIN o.syms /\ o.syms[ref.num].sect # 0
       THEN <<o.syms[ref.num].value, o.syms[ref.num].sect>> ELSE <<>>
  ELSE IF ref.num \in DOMAIN o.sects THEN <<o.sects[ref.num].addr, ref.num>> ELSE <<>>

FunctionTarget(o, k, r, pcrel) ==
  LET s == o.sects[k]
      minuend == ReferentAddress(o, r.ref)
      subtrahend == IF r.sub = <<>> THEN <<0>> ELSE ReferentAddress(o, r.sub[1])
      implicit == IF r.off \in DOMAIN s.implicit THEN s.implicit[r.off] ELSE 0
      place == IF pcrel THEN s.addr + r.off ELSE 0
      target == minuend[1] + r.addend + implicit - subtrahend[1] + place
  IN  IF minuend = <<>> \/ subtrahend = <<>> THEN <<>>
      ELSE IF target < o.sects[minuend[2]].addr THEN <<>>
      ELSE <<minuend[2], target - o.sects[minuend[2]].addr>>

\* The parent of each atom of the first section of a kind: what the first
\* relocation of its function field points to. FDEs have theirs behind the header.
ParentsFrom(kind, Describes(_), shift, pcrel) ==
  LET o == objs[obj]
      ks == {k \in DOMAIN o.sects : o.sects[k].kind = kind}
      fused == ParseRelocs(o.sects[Min(ks)].raws)
      First(a) == {n \in DOMAIN fused.relocs : fused.relocs[n].off = atoms[a].off + shift}
      Parent(a) == LET t == FunctionTarget(o, Min(ks), fused.relocs[Min(First(a))], pcrel)
                   IN  IF t = <<>> THEN 0 ELSE AtomAt(t[1], t[2])
      mine == IF ks = {} \/ fused.err # None THEN {}
              ELSE {a \in {out.atoms[n] : n \in DOMAIN out.atoms} :
                      atoms[a].sect = Min(ks) /\ Describes(a) /\ First(a) # {}}
  IN  [a \in {a \in mine : Parent(a) # 0} |-> Parent(a)]

UnwindParents == ParentsFrom("unwind", LAMBDA a : TRUE, 0, FALSE)
EhFrameParents ==
  LET Fde(a) == /\ atoms[a].off \in DOMAIN objs[obj].sects[atoms[a].sect].recs
                /\ objs[obj].sects[atoms[a].sect].recs[atoms[a].off].fde
  IN  ParentsFrom("ehframe", Fde, FieldOffset, TRUE)

LinkParents ==
  /\ stage = "split" /\ obj <= Len(objs) /\ part > Len(objs[obj].sects)
  /\ \E parents \in {UnwindParents @@ EhFrameParents} :
       atoms' = [a \in DOMAIN atoms |->
                   IF a \in DOMAIN parents THEN [atoms[a] EXCEPT !.parent = parents[a]] ELSE atoms[a]]
  /\ stage' = "bind"
  /\ UNCHANGED <<objs, syms, out, obj, part>>

(***************************************************************************)
(* The back-patch: the symbols this object still defines learn their atom. *)
(***************************************************************************)
BindAtom(table, sid, atom, value) ==
  [table EXCEPT ![sid] = IF @.kind = "defined" THEN [@ EXCEPT !.atom = atom, !.value = value] ELSE @]

\* A mutant: the back-patch does not ask where a definition comes from.
AnySlot(table, i) ==
  {sid \in DOMAIN table : table[sid].name = objs[obj].syms[i].name /\ table[sid].kind = "defined"}

\* The slot of a name, if this object is where its definition comes from.
OwnSlot(table, i) ==
  {sid \in DOMAIN table : /\ table[sid].name = objs[obj].syms[i].name
                          /\ table[sid].kind = "defined" /\ table[sid].origin = obj}

BindOwner(st, e) ==
  LET sids == OwnSlot(st.syms, e.sym)
      sid == Min(sids)
  IN  IF sids = {} THEN st
      ELSE [syms |-> BindAtom(st.syms, sid, e.atom, 0),
            atoms |-> [st.atoms EXCEPT ![e.atom].owner = sid]]

\* Entries of the atom that still hold this symbol's index at this offset take
\* the handle, and so does one whose own handle happens to equal that index.
BindAlt(st, e) ==
  LET sids == OwnSlot(st.syms, e.sym)
      sid == Min(sids)
      Patched(alts) == [n \in DOMAIN alts |->
                          IF alts[n].sym = e.sym /\ alts[n].off = e.off
                          THEN [alts[n] EXCEPT !.sym = sid] ELSE alts[n]]
  IN  IF sids = {} THEN st
      ELSE [syms |-> BindAtom(st.syms, sid, e.atom, e.off),
            atoms |-> [st.atoms EXCEPT ![e.atom].alts = Patched(@)]]

Backpatch ==
  LET owned == FoldLeft(BindOwner, [syms |-> syms, atoms |-> atoms], out.owners)
      bound == FoldLeft(BindAlt, owned, out.alts)
  IN  /\ stage = "bind"
      /\ syms' = bound.syms /\ atoms' = bound.atoms
      /\ obj' = obj + 1 /\ part' = 1 /\ out' = Empty
      /\ stage' = "split"
      /\ UNCHANGED objs

(***************************************************************************)
(* Tentative definitions.                                                  *)
(***************************************************************************)
Commons == {sid \in DOMAIN syms : syms[sid].kind = "common"}

\* validate_common_sections and the size check refuse the link.
CommonsRefused ==
  /\ Commons # {}
  /\ \/ \E o \in DOMAIN objs : \E k \in DOMAIN objs[o].sects :
          objs[o].sects[k].common /\ ~Zerofill(objs[o].sects[k])
     \/ \E sid \in Commons : syms[sid].size > SizeLimit

MaterializeCommons ==
  LET order == InOrder(Commons)
      Handle(sid) == Len(atoms) + CHOOSE n \in DOMAIN order : order[n] = sid
  IN  /\ stage = "split" /\ obj > Len(objs) /\ ~CommonsRefused
      /\ atoms' = atoms \o [n \in DOMAIN order |->
                    [origin |-> syms[order[n]].origin, sect |-> 0, off |-> 0,
                     size |-> syms[order[n]].size, align |-> syms[order[n]].align,
                     owner |-> order[n], alts |-> <<>>, keep |-> FALSE, parent |-> 0]]
      /\ syms' = [sid \in DOMAIN syms |->
                    IF sid \in Commons
                    THEN [syms[sid] EXCEPT !.kind = "defined", !.atom = Handle(sid), !.value = 0]
                    ELSE syms[sid]]
      /\ stage' = "done"
      /\ UNCHANGED <<objs, out, obj, part>>

RefuseCommons ==
  /\ stage = "split" /\ obj > Len(objs) /\ CommonsRefused
  /\ stage' = "failed"
  /\ UNCHANGED <<objs, syms, atoms, out, obj, part>>

Atomized == stage \in {"done", "failed"} /\ UNCHANGED avars

AtomizeNext == SplitSection \/ LinkParents \/ Backpatch \/ MaterializeCommons \/ RefuseCommons \/ Atomized
AtomizeSpec == AtomizeInit /\ [][AtomizeNext]_avars

(***************************************************************************)
(* Properties. Settled are the objects whose symbols know their atoms.     *)
(***************************************************************************)
Settled == {o \in DOMAIN objs : o < obj}
AtomsOf(o, k) == {a \in DOMAIN atoms : atoms[a].origin = o /\ atoms[a].sect = k}
Readable(s) == s.kind # "ehframe" \/ \A off \in DOMAIN s.recs : s.recs[off].size > 0

\* The atoms of a section partition its bytes (atomize_regular_section and its
\* specialisations): every byte is in one atom, every ordinary definition starts an
\* atom where symbols split the section, and an atom placed at a multiple of its
\* alignment keeps every alignment its bytes had in the section.
AtomsTile ==
  \A o \in Settled : \A k \in DOMAIN objs[o].sects :
    LET s == objs[o].sects[k]
        promised == IF s.kind = "ehframe" THEN Min({2, s.align}) ELSE s.align
    IN  Readable(s) =>
        /\ \A byte \in 0 .. s.size - 1 :
             Cardinality({a \in AtomsOf(o, k) :
                            atoms[a].off <= byte /\ byte < atoms[a].off + atoms[a].size}) = 1
        /\ \A a \in AtomsOf(o, k) :
             /\ atoms[a].off + atoms[a].size <= s.size
             /\ \A p \in 1 .. promised : (atoms[a].off % 2 ^ p = 0) <=> (atoms[a].align >= p)
        /\ UsesSymbolBoundaries(objs[o], s) =>
             \A i \in DOMAIN objs[o].syms :
               (objs[o].syms[i].sect = k /\ ~objs[o].syms[i].alt) =>
                 \E a \in AtomsOf(o, k) : atoms[a].off = Offset(objs[o], i)

\* What the code says of owner_by_sym, "Multiple symbols at one address map to the
\* same atom": ordinary global definitions at one address that resolution kept are
\* bound to one atom.
AliasesShareAnAtom ==
  \A o \in Settled : \A i, j \in DOMAIN objs[o].syms :
    LET si == objs[o].syms[i]
        sj == objs[o].syms[j]
    IN  (/\ si.ext /\ sj.ext /\ ~si.alt /\ ~sj.alt
         /\ si.sect # 0 /\ si.sect = sj.sect /\ Offset(objs[o], i) = Offset(objs[o], j))
        => \A a, b \in DOMAIN syms :
             (/\ syms[a].name = si.name /\ syms[a].kind = "defined" /\ syms[a].origin = o
              /\ syms[b].name = sj.name /\ syms[b].kind = "defined" /\ syms[b].origin = o)
             => syms[a].atom = syms[b].atom

\* The symbol table the back-patch leaves: a definition of an object is bound to an
\* atom of that object and section which holds the address it had (or ends there),
\* a materialised common to storage of its own, of its size, and names that shared
\* an address still do.
SymbolsPlaced ==
  /\ AliasesShareAnAtom
  /\ \A sid \in DOMAIN syms :
       LET slot == syms[sid]
           here == {i \in DOMAIN objs[slot.origin].syms :
                      /\ objs[slot.origin].syms[i].name = slot.name
                      /\ objs[slot.origin].syms[i].sect # 0 /\ objs[slot.origin].syms[i].ext}
       IN  (slot.kind = "defined" /\ slot.origin \in Settled) =>
             /\ slot.atom \in DOMAIN atoms
             /\ atoms[slot.atom].origin = slot.origin
             /\ slot.value <= atoms[slot.atom].size
             /\ \A i \in here :
                  /\ atoms[slot.atom].sect = objs[slot.origin].syms[i].sect
                  /\ atoms[slot.atom].off + slot.value = Offset(objs[slot.origin], i)
             /\ here = {} =>
                  /\ atoms[slot.atom].size = slot.size
                  /\ \A other \in DOMAIN syms \ {sid} : syms[other].atom # slot.atom

\* An unwind record lives and dies with the atom that holds the function it
\* describes (link_unwind_parents, link_eh_frame_parents), however its relocations
\* spell the function: by symbol, by section, by an implicit addend or as a
\* difference.
ParentsHoldFunctions ==
  \A o \in Settled : \A k \in DOMAIN objs[o].sects : \A a \in AtomsOf(o, k) :
    atoms[a].off \in DOMAIN objs[o].sects[k].describes =>
      LET t == objs[o].sects[k].describes[atoms[a].off]
          p == atoms[a].parent
      IN  /\ p \in DOMAIN atoms
          /\ atoms[p].origin = o /\ atoms[p].sect = t.sect
          /\ atoms[p].off <= t.off /\ t.off < atoms[p].off + atoms[p].size

\* The atoms stand for the object: they hold its bytes, its symbols are where they
\* were, and unwind records follow their functions.
AtomizationSound == AtomsTile /\ SymbolsPlaced /\ ParentsHoldFunctions

\* Fusing a relocation stream loses nothing (parse_relocs, write_relocs): an
\* accepted stream, lowered again, has as many entries as it had, zero addends
\* aside, and fuses to the same relocations. The encoder clears the pc-relative
\* flag of a pair, so a pair that carries it is left out.
RelocsRoundTrip ==
  \A o \in DOMAIN objs : \A k \in DOMAIN objs[o].sects :
    LET raws == objs[o].sects[k].raws
        parsed == ParseRelocs(raws)
        plain == \A n \in DOMAIN parsed.relocs :
                   parsed.relocs[n].kind = "SUBTRACTOR" => ~parsed.relocs[n].pcrel
        telling == SelectSeq(raws, LAMBDA raw : raw.type # "ADDEND" \/ raw.num # 0)
    IN  (parsed.err = None /\ plain) =>
          /\ ParseRelocs(WriteRelocs(parsed.relocs)) = parsed
          /\ Len(WriteRelocs(parsed.relocs)) = Len(telling)

\* After the back-patch "we know the real handle": the owner and the entries of an
\* atom are handles of symbols bound to that atom at that offset.
HandlesDenote ==
  \A a \in DOMAIN atoms : atoms[a].origin \in Settled =>
    /\ atoms[a].owner # 0 =>
         atoms[a].owner \in DOMAIN syms /\ syms[atoms[a].owner].atom = a
    /\ \A n \in DOMAIN atoms[a].alts :
         LET alt == atoms[a].alts[n]
         IN  /\ alt.sym \in DOMAIN syms
             /\ syms[alt.sym].atom = a /\ syms[alt.sym].value = alt.off
=============================================================================
