----------------------------- MODULE Synthetic ------------------------------
(***************************************************************************)
(* What the linker adds to a Mach-O image so that dyld can finish it: GOT  *)
(* slots, stubs with their lazy pointers, pointers that dyld binds in      *)
(* place (src/src/synth/mod.rs, got.rs, stubs.rs).                         *)
(*                                                                         *)
(* A link l has                                                            *)
(*   atoms    in the order of the atom table: obj, sect, off and size in   *)
(*            the input; the output section follows from sect              *)
(*   live     the atoms dead stripping left                                *)
(*   relocs   obj, sect, off, kind, ref, sub, addend, implicit (the addend *)
(*            in the bytes), len, pcrel                                    *)
(*   syms     per object its symbols: name, ext, kind, sect, off (a value) *)
(*   table    the resolved symbol table: by name, kind, atom, value, weak, *)
(*            priv, ordinal, target (of an alias)                          *)
(*   libSystem  the ordinal of libSystem, 0 if it is not linked            *)
(*   hidden, strip, kind  the visibility policy, -x, and what is linked    *)
(* Names are numbers in the order of the names.  A referent is a symbol of *)
(* the object, [sym |-> index, sect |-> 0], or a section, with sym = 0.    *)
(***************************************************************************)
EXTENDS Integers, Sequences, SequencesExt, FiniteSets, TLC

CONSTANTS BinderName,     \* dyld_stub_binder
          BootstrapName   \* __tlv_bootstrap

NoName == 0
NoRef == [sym |-> 0, sect |-> 0]

Text == 1
Data == 2
ThreadVars == 3
ThreadData == 4
CompactUnwind == 5   \* read for __unwind_info, not placed itself

StubSize == 12
HelperHeader == 24
HelperEntry == 12
DescriptorSize == 24
Personality == 16    \* COMPACT_UNWIND_PERSONALITY_FIELD_OFFSET

Width(len) == CASE len = "Word" -> 4 [] len = "Quad" -> 8

\* relocs_for_atom: a relocation belongs to the atom it lies in as a whole.
RelocsForAtom(l, a) ==
  LET atom == l.atoms[a] IN
  SelectSeq(l.relocs, LAMBDA r : /\ r.obj = atom.obj /\ r.sect = atom.sect
                                 /\ r.off >= atom.off
                                 /\ r.off + Width(r.len) <= atom.off + atom.size)

\* SymbolTable::resolve_chain; aliases are acyclic (SymbolTable.tla).
AliasTarget(table, name) ==
  IF table[name].kind = "Alias" THEN table[name].target ELSE name

Lookup(table, name) ==
  IF name \in DOMAIN table THEN AliasTarget(table, name) ELSE NoName

\* symbol_referent_id of reloc/arm64.rs and of macho/writer.rs: a symbol that does
\* not take part in global resolution means the object's own.
SymbolReferentId(l, table, obj, ref) ==
  IF ref.sym = 0 \/ ~l.syms[obj][ref.sym].ext THEN NoName
  ELSE Lookup(table, l.syms[obj][ref.sym].name)

\* build_input_symbol_index with symbol_referent_id of synth/mod.rs: by name alone.
PlanReferentId(l, table, obj, ref) ==
  IF ref.sym = 0 THEN NoName ELSE Lookup(table, l.syms[obj][ref.sym].name)

IsKind(table, name, kinds) == name # NoName /\ table[name].kind \in kinds

\* dylib_import_referent
ImportReferent(l, table, obj, ref) ==
  LET name == PlanReferentId(l, table, obj, ref) IN
  IF IsKind(table, name, {"DylibImport"}) THEN name ELSE NoName

\* direct_import_bind_supported
DirectBindSupported(r) == r.len = "Quad" /\ ~r.pcrel /\ r.sub = NoRef

\* GotSection, StubsSection, LazyPointerSection::intern: one slot per symbol.
Intern(slots, name) == IF name \in Range(slots) THEN slots ELSE Append(slots, name)

EmptyPlan ==
  [got |-> <<>>, stubs |-> <<>>, lazy |-> <<>>, direct |-> <<>>,
   binder |-> FALSE, bootstrap |-> FALSE]

\* needs_slot with got_page_symbol_needs_slot
NeedsSlot(table, r, name) ==
  IF r.kind = "PointerToGot" THEN name # NoName /\ ~IsKind(table, name, {"LazyArchive"})
                             ELSE IsKind(table, name, {"DylibImport", "Absolute"})

\* The body of the loop over the relocations of an atom.
PlanReloc(l, table, a, p, r) ==
  LET atom == l.atoms[a]
      import == ImportReferent(l, table, atom.obj, r.ref)
      any == PlanReferentId(l, table, atom.obj, r.ref)
  IN  CASE atom.sect = CompactUnwind /\ r.kind = "Unsigned" /\ r.off = atom.off + Personality ->
             IF import = NoName THEN p ELSE [p EXCEPT !.got = Intern(@, import)]
        [] r.kind = "Unsigned" /\ import # NoName
              /\ atom.sect # ThreadVars /\ DirectBindSupported(r) ->
             [p EXCEPT !.direct = Append(@, [atom |-> a, off |-> r.off - atom.off,
                                             name |-> import, addend |-> r.addend + r.implicit])]
        [] r.kind \in {"GotLoadPage21", "GotLoadPageOff12", "PointerToGot"}
              /\ NeedsSlot(table, r, any) -> [p EXCEPT !.got = Intern(@, any)]
        [] r.kind = "Branch26" /\ import # NoName ->
             [p EXCEPT !.stubs = Intern(@, import), !.lazy = Intern(@, import)]
        [] r.kind \in {"TlvpLoadPage21", "TlvpLoadPageOff12"} /\ import # NoName ->
             [p EXCEPT !.got = Intern(@, import)]
        [] OTHER -> p

RECURSIVE Ascending(_)
Ascending(S) ==
  IF S = {} THEN <<>>
  ELSE LET m == CHOOSE x \in S : \A y \in S : x <= y IN <<m>> \o Ascending(S \ {m})

\* build_sorted_reloc_index: stably, by offset.
ByOffset(relocs) ==
  LET offs == Ascending({relocs[i].off : i \in DOMAIN relocs}) IN
  FlattenSeq([k \in DOMAIN offs |-> SelectSeq(relocs, LAMBDA r : r.off = offs[k])])

PlanAtomRelocs(l, table, a, p) ==
  FoldLeft(LAMBDA q, r : PlanReloc(l, table, a, q, r), p, ByOffset(RelocsForAtom(l, a)))

\* sort_symbol_indexed_entries
SortSlots(slots) == Ascending(Range(slots))

\* inputs_have_tlv_descriptors: of all sections, stripped or not.
HasDescriptors(l) == \E i \in DOMAIN l.atoms : l.atoms[i].sect = ThreadVars

\* What ensure_stub_helper_support and ensure_tlv_support require of a name they
\* import from libSystem.
CanImport(table, name) == name \notin DOMAIN table \/ table[name].kind = "DylibImport"

ImportFrom(table, name, ordinal) ==
  IF name \in DOMAIN table THEN table
  ELSE table @@ (name :> [kind |-> "DylibImport", atom |-> 0, value |-> 0, weak |-> FALSE,
                          priv |-> FALSE, ordinal |-> ordinal, target |-> NoName])

\* The end of build_filtered_with_relocs: the tables sorted by name, then the slot
\* of the binder behind them.
CompletePlan(l, p) ==
  LET s == [p EXCEPT !.got = SortSlots(@), !.stubs = SortSlots(@), !.lazy = SortSlots(@)]
  IN  [s EXCEPT !.got = IF s.stubs = <<>> THEN @ ELSE Intern(@, BinderName),
                !.binder = s.stubs # <<>>,
                !.bootstrap = HasDescriptors(l) /\ l.libSystem # 0]

\* ensure_stub_helper_support and ensure_tlv_support fail.
PlanFails(l, table, p) ==
  \/ p.stubs # <<>> /\ (l.libSystem = 0 \/ ~CanImport(table, BinderName))
  \/ HasDescriptors(l) /\ l.libSystem # 0 /\ ~CanImport(table, BootstrapName)

CompleteTable(l, table, p) ==
  LET bound == IF p.binder THEN ImportFrom(table, BinderName, l.libSystem) ELSE table
  IN  IF p.bootstrap THEN ImportFrom(bound, BootstrapName, l.libSystem) ELSE bound
-----------------------------------------------------------------------------
(* Where everything lies.  Layout.tla models how sections and atoms are    *)
(* placed; here each section simply follows the one before it.             *)

TextBase == 1024
ConstBase == 2048
DataBase == 3072

TextSegment == 1
ConstSegment == 2
DataSegment == 3

SegmentBase(seg) == seg * 1024

Placed(l, sect) ==
  Ascending({a \in l.live : l.atoms[a].sect = sect})

SizeOf(l, placed) == FoldLeft(LAMBDA n, a : n + l.atoms[a].size, 0, placed)

StubsBase(l) == TextBase + SizeOf(l, Placed(l, Text))
HelperBase(l, p) == StubsBase(l) + StubSize * Len(p.stubs)

\* __dyld_private is the synthetic part of __data, behind its atoms.
PrivateAddr(l) == DataBase + SizeOf(l, Placed(l, Data))
LazyBase(l, p) == PrivateAddr(l) + IF p.binder THEN 8 ELSE 0
ThreadVarsBase(l, p) == LazyBase(l, p) + 8 * Len(p.lazy)
ThreadDataBase(l, p) == ThreadVarsBase(l, p) + SizeOf(l, Placed(l, ThreadVars))

SectionBase(l, p, sect) ==
  CASE sect = Text -> TextBase
    [] sect = Data -> DataBase
    [] sect = ThreadVars -> ThreadVarsBase(l, p)
    [] sect = ThreadData -> ThreadDataBase(l, p)

\* atom_address_map
AtomAddr(l, p, a) ==
  LET s == l.atoms[a].sect IN
  SectionBase(l, p, s) + SizeOf(l, SelectSeq(Placed(l, s), LAMBDA b : b < a))

\* input_section_address_map: where the section would start if it lay as in the
\* input around its first atom that is left; 0 if none is.
InputSectionAddr(l, p, obj, sect) ==
  LET left == SelectSeq(Placed(l, sect), LAMBDA a : l.atoms[a].obj = obj) IN
  IF left = <<>> THEN 0 ELSE AtomAddr(l, p, left[1]) - l.atoms[left[1]].off

IndexIn(slots, name) == CHOOSE i \in DOMAIN slots : slots[i] = name

\* synthetic_address_maps
StubAddr(l, p, name) == StubsBase(l) + StubSize * (IndexIn(p.stubs, name) - 1)
GotAddr(p, name) == ConstBase + 8 * (IndexIn(p.got, name) - 1)
LazyAddr(l, p, name) == LazyBase(l, p) + 8 * (IndexIn(p.lazy, name) - 1)
HelperAddr(l, p, name) ==
  HelperBase(l, p) + HelperHeader + HelperEntry * (IndexIn(p.lazy, name) - 1)
=============================================================================
