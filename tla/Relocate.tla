------------------------------ MODULE Relocate ------------------------------
(***************************************************************************)
(* Applying relocations (src/src/reloc/arm64.rs): where a referent ended   *)
(* up and what is written at the place.  A pointer is the number in its    *)
(* eight bytes, a branch the distance it goes, an adrp the distance in     *)
(* pages, and the instruction behind an adrp [insn, imm], "ldr" loading    *)
(* from the address that "add" would form.                                 *)
(***************************************************************************)
EXTENDS Synthetic

CONSTANTS PageSize,   \* 4096 on arm64
          WordRange   \* the numbers four bytes hold, signed or not; the image lies above

Ok(v) == [ok |-> TRUE, v |-> v]
Fail == [ok |-> FALSE, v |-> 0]

Page(addr) == addr - (addr % PageSize)

\* input_atom_at_offset: the atom around the offset, else one that ends there.
InputAtomAt(l, obj, sect, off) ==
  LET S == {a \in DOMAIN l.atoms : l.atoms[a].obj = obj /\ l.atoms[a].sect = sect}
      end(a) == l.atoms[a].off + l.atoms[a].size
      around == {a \in S : l.atoms[a].off <= off /\ off < end(a)}
      ending == {a \in S : end(a) = off}
  IN  Ascending(IF around # {} THEN around ELSE ending)

\* resolve_input_section_offset
InputOffsetAddr(l, p, obj, sect, off) ==
  LET at(found, base) ==
        CASE found # <<>> /\ found[1] \in l.live ->
               Ok(AtomAddr(l, p, found[1]) + off - l.atoms[found[1]].off)
          [] found = <<>> /\ base # 0 -> Ok(base + off)
          [] OTHER -> Fail
  IN  at(InputAtomAt(l, obj, sect, off), InputSectionAddr(l, p, obj, sect))

\* resolve_input_symbol_at_origin
InputSymbolAddr(l, p, obj, sym) ==
  CASE sym.kind = "abs" -> Ok(sym.off)
    [] sym.kind = "sect" -> InputOffsetAddr(l, p, obj, sym.sect, sym.off)
    [] OTHER -> Fail

\* resolve_global_symbol
GlobalAddr(l, p, table, name) ==
  LET s == table[name] IN
  CASE s.kind = "Defined" /\ s.atom \in l.live -> Ok(AtomAddr(l, p, s.atom) + s.value)
    [] s.kind = "Absolute" -> Ok(s.value)
    [] OTHER -> Fail

\* resolve_referent and resolve_symbol_referent
ReferentAddr(l, p, table, obj, ref) ==
  LET section(base) == IF base = 0 THEN Fail ELSE Ok(base)
      name == SymbolReferentId(l, table, obj, ref)
  IN  CASE ref.sym = 0 -> section(InputSectionAddr(l, p, obj, ref.sect))
        [] ref.sym # 0 /\ name # NoName -> GlobalAddr(l, p, table, name)
        [] OTHER -> InputSymbolAddr(l, p, obj, l.syms[obj][ref.sym])

\* dylib_import_symbol_id
ImportId(l, table, obj, ref) ==
  LET name == SymbolReferentId(l, table, obj, ref) IN
  IF IsKind(table, name, {"DylibImport"}) THEN name ELSE NoName

\* resolve_branch_target with its keys: a stub for what is imported, otherwise where
\* the definition is.  A section stands for its first byte; a local absolute
\* symbol cannot be called.
BranchTarget(l, p, table, obj, ref) ==
  LET import == ImportId(l, table, obj, ref)
      name == SymbolReferentId(l, table, obj, ref)
      sym == l.syms[obj][ref.sym]
  IN  CASE import # NoName ->
             IF import \in Range(p.stubs) THEN Ok(StubAddr(l, p, import)) ELSE Fail
        [] import = NoName /\ ref.sym = 0 -> InputOffsetAddr(l, p, obj, ref.sect, 0)
        [] import = NoName /\ name # NoName -> GlobalAddr(l, p, table, name)
        [] OTHER -> IF sym.kind = "sect" THEN InputSymbolAddr(l, p, obj, sym) ELSE Fail

\* resolve_got_target
GotTarget(l, p, table, obj, ref) ==
  LET name == SymbolReferentId(l, table, obj, ref) IN
  IF name \in Range(p.got) THEN Ok(GotAddr(p, name)) ELSE Fail

\* got_reloc_relaxes_locally
RelaxesLocally(l, table, obj, ref) ==
  ~IsKind(table, SymbolReferentId(l, table, obj, ref), {"DylibImport", "Absolute"})

\* What a page or page offset relocation is about: the slot of what is imported, of
\* absolute symbols too when the code asked for the GOT, else the referent itself.
PageTarget(l, p, table, obj, r) ==
  CASE r.kind \in {"GotLoadPage21", "GotLoadPageOff12"}
          /\ ~RelaxesLocally(l, table, obj, r.ref) -> GotTarget(l, p, table, obj, r.ref)
    [] r.kind \in {"TlvpLoadPage21", "TlvpLoadPageOff12"}
          /\ ImportId(l, table, obj, r.ref) # NoName -> GotTarget(l, p, table, obj, r.ref)
    [] OTHER -> ReferentAddr(l, p, table, obj, r.ref)

\* patch_pageoff12: a load of eight bytes scales its offset.
PageOff(insn, target) ==
  IF insn = "ldr" /\ target % 8 # 0 THEN Fail
  ELSE Ok([insn |-> insn, imm |-> target % PageSize])

\* patch_got_pageoff12_relaxed and patch_tlvp_pageoff12: the load becomes an add.
PageOffRelaxed(target) == Ok([insn |-> "add", imm |-> target % PageSize])

Then(t, f(_)) == IF t.ok THEN f(t.v) ELSE Fail

\* patch_unsigned: "now" is the addend in the bytes.
PatchUnsigned(r, now, target) ==
  IF r.len = "Quad" \/ target + r.addend + now \in WordRange
    THEN Ok(target + r.addend + now)
    ELSE Fail

\* patch_subtractor
PatchSubtractor(l, p, table, obj, r, now) ==
  LET difference(m, s) == IF s.ok /\ m.ok THEN Ok(m.v - s.v + r.addend + now) ELSE Fail
  IN  difference(ReferentAddr(l, p, table, obj, r.ref), ReferentAddr(l, p, table, obj, r.sub))

\* What a page or page offset relocation writes for a target: an access that does not
\* go through a slot after all is relaxed.
PatchPage(r, place, relaxed, now, target) ==
  CASE r.kind \in {"Page21", "GotLoadPage21", "TlvpLoadPage21"} ->
         Ok((Page(target + r.addend) - Page(place)) \div PageSize)
    [] r.kind \in {"GotLoadPageOff12", "TlvpLoadPageOff12"} /\ relaxed ->
         PageOffRelaxed(target + r.addend)
    [] OTHER -> PageOff(now, target + r.addend)

PatchBranch(r, place, target) ==
  IF (target + r.addend - place) % 4 = 0 THEN Ok(target + r.addend - place) ELSE Fail

PatchPointerToGot(r, place, now, slot) ==
  CASE ~r.pcrel -> PatchUnsigned(r, now, slot)
    [] r.pcrel /\ r.len = "Word" -> Ok(slot + r.addend - place)
    [] OTHER -> Fail

\* apply_one: what the place holds after the relocation, or that it fails.
ApplyOne(l, p, table, obj, r, place, now) ==
  LET import == ImportId(l, table, obj, r.ref)
      relaxed == IF r.kind = "GotLoadPageOff12" THEN RelaxesLocally(l, table, obj, r.ref)
                                                ELSE import = NoName
  IN  CASE r.kind = "Unsigned" /\ import # NoName ->
             IF DirectBindSupported(r) THEN Ok(0) ELSE Fail
        [] r.kind = "Unsigned" /\ import = NoName ->
             Then(ReferentAddr(l, p, table, obj, r.ref), LAMBDA t : PatchUnsigned(r, now, t))
        [] r.kind = "Subtractor" -> PatchSubtractor(l, p, table, obj, r, now)
        [] r.kind = "Branch26" ->
             Then(BranchTarget(l, p, table, obj, r.ref), LAMBDA t : PatchBranch(r, place, t))
        [] r.kind = "PointerToGot" ->
             Then(GotTarget(l, p, table, obj, r.ref),
                  LAMBDA t : PatchPointerToGot(r, place, now, t))
        [] OTHER ->
             Then(PageTarget(l, p, table, obj, r),
                  LAMBDA t : PatchPage(r, place, relaxed, now, t))

\* apply_regular_atom_chunk, for one atom: its relocations in file order, up to one
\* that fails.  The result is the bytes as they are left and what failed.
ApplyAtom(l, p, table, a, mem) ==
  LET patch(s, r, place, v) ==
        IF v.ok THEN [s EXCEPT !.mem = [@ EXCEPT ![place] = v.v]]
                ELSE [s EXCEPT !.failed = <<a, r.off>>]
      apply(s, r, place) ==
        patch(s, r, place, ApplyOne(l, p, table, l.atoms[a].obj, r, place, s.mem[place]))
      step(s, r) == IF s.failed # <<>> THEN s
                    ELSE apply(s, r, AtomAddr(l, p, a) + r.off - l.atoms[a].off)
  IN  FoldLeft(step, [mem |-> mem, failed |-> <<>>], RelocsForAtom(l, a))
-----------------------------------------------------------------------------
(* synthesize_thread_variable_section                                      *)

\* descriptor_owner_symbols, of the descriptor that is d bytes into the atom, by index.
OwnerSymbols(l, a, d) ==
  LET syms == l.syms[l.atoms[a].obj] IN
  SelectSeq([i \in DOMAIN syms |-> i],
            LAMBDA i : /\ syms[i].kind = "sect" /\ syms[i].sect = l.atoms[a].sect
                       /\ syms[i].off = l.atoms[a].off + d)

\* matching_tlv_init_symbol: the owner's name is looked up in the string table of the
\* object that is searched, whichever object the owner is from.  Names are equally
\* long here and stored in symbol order, so the i-th symbol's is the i-th name.
InitSymbols(l, o, owner) ==
  IF owner \notin DOMAIN l.syms[o] \/ l.syms[o][owner].name \notin DOMAIN l.initOf THEN <<>>
  ELSE SelectSeq(l.syms[o], LAMBDA s : s.name = l.initOf[l.syms[o][owner].name])

\* resolve_named_tlv_init: the inputs are walked in the order of a hash map, which
\* differs from run to run, and the first with a matching symbol decides.
NamedInitAddr(l, p, owner) ==
  {InputSymbolAddr(l, p, o, InitSymbols(l, o, owner)[1]) :
     o \in {o \in DOMAIN l.syms : InitSymbols(l, o, owner) # <<>>}}

\* resolve_tlv_descriptor_referent
DescriptorReferent(l, p, obj, ref) ==
  LET base == InputSectionAddr(l, p, obj, ref.sect) IN
  CASE ref.sym # 0 -> InputSymbolAddr(l, p, obj, l.syms[obj][ref.sym])
    [] ref.sym = 0 /\ base # 0 -> Ok(base)
    [] OTHER -> Fail

\* resolve_tlv_init_address: "now" is what the descriptor's last word holds.
TlvInitAddr(l, p, a, d, now) ==
  LET named == SelectSeq(OwnerSymbols(l, a, d), LAMBDA i : NamedInitAddr(l, p, i) # {})
      field == SelectSeq(RelocsForAtom(l, a), LAMBDA r : r.off = l.atoms[a].off + d + 16)
  IN  CASE named # <<>> -> NamedInitAddr(l, p, named[1])
        [] named = <<>> /\ field # <<>> ->
             {Then(DescriptorReferent(l, p, l.atoms[a].obj, field[1].ref),
                   LAMBDA v : Ok(v + field[1].addend))}
        [] OTHER -> {Ok(now)}
=============================================================================
