------------------------------- MODULE Fixups -------------------------------
(***************************************************************************)
(* The end of a Mach-O link, from the resolved symbols to the running      *)
(* program: the synthetic sections are planned, __LINKEDIT is built,       *)
(* threads apply the relocations of each section in chunks, the synthetic  *)
(* sections are filled in, and dyld rebases and binds the image and binds  *)
(* stubs when they are first called.                                       *)
(***************************************************************************)
EXTENDS OutputSymbols, DyldInfo

CONSTANTS Links,   \* the links to look at (see Synthetic)
          Jobs,    \* parallel_jobs
          Slide    \* how far dyld moves the image, a multiple of PageSize

ASSUME FixupsAssumption == Slide > 0 /\ Slide % PageSize = 0 /\ Jobs > 0

VARIABLES link, symtab, plan, phase,
          scan,     \* the atoms SyntheticPlan::build has looked at
          image,    \* what __LINKEDIT holds
          mem,      \* what the places that are fixed up hold
          sect,     \* the section whose relocations are applied
          chunks,   \* per thread the atoms it has left, and what failed
          err,      \* the relocation that is reported
          calls     \* calls made: from where, and where they got

vars == <<link, symtab, plan, phase, scan, image, mem, sect, chunks, err, calls>>

NoImage == [rebase |-> <<>>, bind |-> <<>>, lazy |-> <<>>, lazyOffset |-> <<>>,
            symbols |-> <<>>, indirect |-> <<>>, blocks |-> <<>>]

Start(l) ==
  /\ link = l
  /\ symtab = l.table
  /\ plan = EmptyPlan
  /\ phase = "plan"
  /\ scan = 0
  /\ image = NoImage
  /\ mem = <<>>
  /\ sect = Text
  /\ chunks = <<>>
  /\ err = <<>>
  /\ calls = {}

Init == \E l \in Links : Start(l)

\* SyntheticPlan::build_filtered_with_relocs, one atom of the table.
PlanAtom ==
  /\ phase = "plan" /\ scan < Len(link.atoms)
  /\ scan' = scan + 1
  /\ plan' = IF scan + 1 \in link.live THEN PlanAtomRelocs(link, symtab, scan + 1, plan) ELSE plan
  /\ UNCHANGED <<link, symtab, phase, image, mem, sect, chunks, err, calls>>

\* Its end: the slots sorted, the binder and the bootstrap function imported.
FinishPlan ==
  /\ phase = "plan" /\ scan = Len(link.atoms)
  /\ IF PlanFails(link, symtab, plan)
       THEN phase' = "failed" /\ UNCHANGED <<symtab, plan>>
       ELSE /\ plan' = CompletePlan(link, plan)
            /\ symtab' = CompleteTable(link, symtab, plan')
            /\ phase' = "linkedit"
  /\ UNCHANGED <<link, scan, image, mem, sect, chunks, err, calls>>
-----------------------------------------------------------------------------
(* build_linkedit_plan_profiled                                            *)

PlaceOf(a, r) == AtomAddr(link, plan, a) + r.off - link.atoms[a].off

PlacedAtoms == {a \in link.live : link.atoms[a].sect # CompactUnwind}

\* collect_local_got_rebase_sites
LocalGotSites ==
  {ConstBase + 8 * (i - 1) : i \in {i \in DOMAIN plan.got : symtab[plan.got[i]].kind = "Defined"}}

\* collect_lazy_pointer_rebase_sites
LazySites == {LazyBase(link, plan) + 8 * (i - 1) : i \in DOMAIN plan.lazy}

\* reloc_needs_rebase
NeedsRebase(a, r) ==
  LET obj == link.atoms[a].obj
      name == SymbolReferentId(link, symtab, obj, r.ref)
  IN  /\ r.kind = "Unsigned" /\ r.len = "Quad" /\ ~r.pcrel /\ r.sub = NoRef
      /\ \/ r.ref.sym = 0
         \/ IsKind(symtab, name, {"Defined", "Common"})
         \/ r.ref.sym # 0 /\ name = NoName /\ link.syms[obj][r.ref.sym].kind = "sect"

\* collect_rebase_sites: descriptors of thread variables are filled in otherwise.
RebaseSites ==
  LazySites \cup LocalGotSites
  \cup UNION {{PlaceOf(a, r) : r \in {r \in Range(RelocsForAtom(link, a)) : NeedsRebase(a, r)}} :
                a \in {a \in PlacedAtoms : link.atoms[a].sect # ThreadVars}}

SegmentOf(addr) == addr \div 1024

SiteAt(addr) == [seg |-> SegmentOf(addr), off |-> addr - SegmentBase(SegmentOf(addr))]

BindAt(addr, name, addend) ==
  [seg |-> SegmentOf(addr), off |-> addr - SegmentBase(SegmentOf(addr)),
   ordinal |-> symtab[name].ordinal, name |-> name, weak |-> symtab[name].weak, addend |-> addend]

\* build_bind_streams: the descriptors of thread variables, the slots of the GOT,
\* and the pointers bound in place, in the order they were planned in.
BindSpecs ==
  LET vars3 == Placed(link, ThreadVars)
      starts(a) == [d \in 1 .. link.atoms[a].size \div DescriptorSize |->
                      AtomAddr(link, plan, a) + DescriptorSize * (d - 1)]
      descriptors == FlattenSeq([i \in DOMAIN vars3 |-> starts(vars3[i])])
      imported == SelectSeq(plan.got, LAMBDA n : symtab[n].kind = "DylibImport")
  IN  (IF plan.bootstrap
         THEN [i \in DOMAIN descriptors |-> BindAt(descriptors[i], BootstrapName, 0)]
         ELSE <<>>)
      \o [i \in DOMAIN imported |-> BindAt(GotAddr(plan, imported[i]), imported[i], 0)]
      \o [i \in DOMAIN plan.direct |->
            BindAt(AtomAddr(link, plan, plan.direct[i].atom) + plan.direct[i].off,
                   plan.direct[i].name, plan.direct[i].addend)]

\* Its end: a record for each lazy pointer, found again by its offset.
LazyRecords ==
  [i \in DOMAIN plan.lazy |->
     EmitLazyBindRecord(BindAt(LazyBase(link, plan) + 8 * (i - 1), plan.lazy[i], 0))]

\* Mutant: a lazy pointer is given the offset behind its record.
OffsetsBehind(records) ==
  [i \in DOMAIN records |->
     FoldLeft(LAMBDA n, k : n + Len(records[k]), 0, [k \in 1 .. i |-> k])]

LazyOffsets(records) ==
  [i \in DOMAIN records |->
     FoldLeft(LAMBDA n, k : n + Len(records[k]), 0, [k \in 1 .. i - 1 |-> k])]

\* The sizes of the blocks; exports, LOHs, function starts and data in code stand
\* for tables of their own.
BlockSizes(rebase, bind, lazy, symbols, indirect) ==
  <<[name |-> "rebase", size |-> Padded(rebase)], [name |-> "bind", size |-> Padded(bind)],
    [name |-> "lazy", size |-> Padded(lazy)],
    [name |-> "export", size |-> AlignUp(Len(symbols.exports), 8)],
    [name |-> "loh", size |-> 0], [name |-> "starts", size |-> 8],
    [name |-> "incode", size |-> 0],
    [name |-> "symtab", size |-> NlistSize * Len(symbols.symbols)],
    [name |-> "indirect", size |-> 4 * Len(indirect.table)],
    [name |-> "strtab", size |-> 8 * Len(symbols.symbols) + 8]>>

\* What an address holds when the file is written, before any relocation.
FileContents ==
  LET sites == {<<a, r>> \in PlacedAtoms \X Range(link.relocs) :
                  r \in Range(RelocsForAtom(link, a))}
      slots == {ConstBase + 8 * (i - 1) : i \in DOMAIN plan.got} \cup LazySites
      descriptors == {AtomAddr(link, plan, a) + 8 * k :
                        a \in Range(Placed(link, ThreadVars)), k \in {0, 2}}
  IN  [addr \in {PlaceOf(s[1], s[2]) : s \in sites} \cup slots \cup descriptors |->
         IF \E s \in sites : PlaceOf(s[1], s[2]) = addr
           THEN (CHOOSE s \in sites : PlaceOf(s[1], s[2]) = addr)[2].implicit
           ELSE 0]

\* Chunks of one section: chunks_mut(atom_count.div_ceil(job_count)).
ChunksOf(s) ==
  LET atoms == Placed(link, s)
      n == Len(atoms)
      jobs == IF n < Jobs THEN n ELSE Jobs
      size == (n + jobs - 1) \div jobs
  IN  IF n = 0 THEN <<>>
      ELSE [c \in 1 .. (n + size - 1) \div size |->
              [left |-> SubSeq(atoms, (c - 1) * size + 1, IF c * size < n THEN c * size ELSE n),
               failed |-> <<>>]]

\* DirectBindAtomMissing: an atom that is not laid out holds a pointer to an import.
BindsMissingAtom == \E i \in DOMAIN plan.direct : link.atoms[plan.direct[i].atom].sect = CompactUnwind

FailLinkedit ==
  /\ phase = "linkedit" /\ BindsMissingAtom
  /\ phase' = "failed"
  /\ UNCHANGED <<link, symtab, plan, scan, image, mem, sect, chunks, err, calls>>

\* build_linkedit_plan_profiled; apply_layout starts with the first section.
BuildLinkedit ==
  /\ phase = "linkedit" /\ ~BindsMissingAtom
  /\ LET sites(addrs) == [i \in DOMAIN addrs |-> SiteAt(addrs[i])]
         linkedit(rebase, bind, records, symbols, indirect) ==
           [rebase |-> rebase, bind |-> bind, lazy |-> FlattenSeq(records),
            lazyOffset |-> LazyOffsets(records), symbols |-> symbols, indirect |-> indirect,
            blocks |-> PlaceBlocks(BlockSizes(rebase, bind, FlattenSeq(records),
                                              symbols, indirect))]
     IN  \E symbols \in {BuildOutputSymbols(link, plan, symtab)} :
           image' = linkedit(BuildRebaseStream(sites(Ascending(RebaseSites))),
                             EmitBindRecords(BindSpecs), LazyRecords, symbols,
                             IndirectSymbols(symtab, plan, symbols))
  /\ mem' = FileContents
  /\ phase' = "apply"
  /\ sect' = Text
  /\ chunks' = ChunksOf(Text)
  /\ UNCHANGED <<link, symtab, plan, scan, err, calls>>
-----------------------------------------------------------------------------
(* apply_regular_relocs                                                    *)

\* One thread applies the relocations of the next atom of its chunk; after one that
\* fails it is done with the chunk.
ApplyChunk(c) ==
  /\ phase = "apply" /\ c \in DOMAIN chunks
  /\ chunks[c].left # <<>>
  /\ \E r \in {ApplyAtom(link, plan, symtab, Head(chunks[c].left), mem)} :
       /\ mem' = r.mem
       /\ chunks' = [chunks EXCEPT ![c] =
                       [left |-> IF r.failed = <<>> THEN Tail(@.left) ELSE <<>>,
                        failed |-> r.failed]]
  /\ UNCHANGED <<link, symtab, plan, phase, scan, image, sect, err, calls>>

\* Mutant: what is reported is the failure of the last thread in the join order.
LastFailure(cs) ==
  LET S == {c \in DOMAIN cs : cs[c].failed # <<>>} IN
  IF S = {} THEN <<>> ELSE cs[CHOOSE c \in S : \A d \in S : d <= c].failed

\* The handles are joined in the order of the chunks: the first failure counts.
FirstFailure(cs) ==
  LET S == {c \in DOMAIN cs : cs[c].failed # <<>>} IN
  IF S = {} THEN <<>> ELSE cs[CHOOSE c \in S : \A d \in S : c <= d].failed

\* thread::scope returns when all threads are done; then the next section.
JoinSection ==
  /\ phase = "apply" /\ \A c \in DOMAIN chunks : chunks[c].left = <<>>
  /\ err' = FirstFailure(chunks)
  /\ IF err' # <<>> THEN phase' = "failed" /\ UNCHANGED <<sect, chunks>>
     ELSE IF sect = ThreadData THEN phase' = "threadvars" /\ UNCHANGED <<sect, chunks>>
     ELSE sect' = sect + 1 /\ chunks' = ChunksOf(sect + 1) /\ UNCHANGED phase
  /\ UNCHANGED <<link, symtab, plan, scan, image, mem, calls>>

Descriptors == {a \in PlacedAtoms : link.atoms[a].sect = ThreadVars}

TemplateOffset(init, base) == init - base

\* synthesize_thread_variable_section: the first word of a descriptor is cleared, the
\* last becomes an offset into the template.  Each atom has one descriptor here.
SynthesizeThreadVars ==
  /\ phase = "threadvars"
  /\ IF ~plan.bootstrap \/ Placed(link, ThreadData) = <<>>
     THEN phase' = "synthesize" /\ UNCHANGED mem
     ELSE \E may \in {[a \in Descriptors |->
                         TlvInitAddr(link, plan, a, 0, mem[AtomAddr(link, plan, a) + 16])]} :
          \E init \in [Descriptors -> UNION Range(may)] :
            LET base == ThreadDataBase(link, plan)
                good == \A a \in Descriptors : init[a].ok /\ init[a].v >= base
                word(a, k) == AtomAddr(link, plan, a) + 8 * k
            IN  /\ \A a \in Descriptors : init[a] \in may[a]
                /\ phase' = IF good THEN "synthesize" ELSE "failed"
                /\ mem' = IF good
                            THEN [addr \in DOMAIN mem |->
                                    IF \E a \in Descriptors : addr = word(a, 0) THEN 0
                                    ELSE IF \E a \in Descriptors : addr = word(a, 2)
                                    THEN TemplateOffset(init[CHOOSE a \in Descriptors : addr = word(a, 2)].v, base)
                                    ELSE mem[addr]]
                            ELSE mem
  /\ UNCHANGED <<link, symtab, plan, scan, image, sect, chunks, err, calls>>

\* synthesize_got_section
GotValue(name) ==
  IF symtab[name].kind = "DylibImport" THEN Ok(0) ELSE GlobalAddr(link, plan, symtab, name)

\* encode_stub: adrp and ldr of the lazy pointer.
StubCode(name) ==
  [adrp |-> (Page(LazyAddr(link, plan, name)) - Page(StubAddr(link, plan, name))) \div PageSize,
   imm |-> LazyAddr(link, plan, name) % PageSize]

\* encode_stub_helper_header: the adrp of the binder's slot is the fourth instruction.
HelperCode ==
  LET slot == GotAddr(plan, BinderName) IN
  [adrp |-> (Page(slot) - Page(HelperBase(link, plan) + 12)) \div PageSize, imm |-> slot % PageSize]

\* encode_stub_helper_entry: the branch is its second instruction.
EntryCode(i) ==
  [branch |-> HelperBase(link, plan) - (HelperAddr(link, plan, plan.lazy[i]) + 4),
   literal |-> image.lazyOffset[i]]

\* The rest of apply_layout: the GOT, the stubs, the lazy pointers, the stub helper.
SynthesizeSections ==
  /\ phase = "synthesize"
  /\ LET got == [i \in DOMAIN plan.got |-> GotValue(plan.got[i])]
         filled == [addr \in {ConstBase + 8 * (i - 1) : i \in DOMAIN plan.got} |->
                      got[(addr - ConstBase) \div 8 + 1].v]
         lazy == [addr \in LazySites |->
                    HelperAddr(link, plan, plan.lazy[(addr - LazyBase(link, plan)) \div 8 + 1])]
         stubs == [addr \in {StubAddr(link, plan, n) : n \in Range(plan.stubs)} |->
                     StubCode(plan.stubs[(addr - StubsBase(link)) \div StubSize + 1])]
         entries == [addr \in {HelperAddr(link, plan, n) : n \in Range(plan.lazy)} |->
                       EntryCode((addr - HelperBase(link, plan) - HelperHeader) \div HelperEntry + 1)]
         header == IF plan.binder THEN HelperBase(link, plan) :> HelperCode ELSE <<>>
     IN  IF \A i \in DOMAIN got : got[i].ok
           THEN /\ mem' = filled @@ lazy @@ stubs @@ entries @@ header @@ mem
                /\ phase' = "written"
           ELSE UNCHANGED mem /\ phase' = "failed"
  /\ UNCHANGED <<link, symtab, plan, scan, image, sect, chunks, err, calls>>
-----------------------------------------------------------------------------
(* dyld and the program: external to the repository.                       *)

AddrOf(site) == SegmentBase(site.seg) + site.off

\* Which library provides a name, and where the name is in the process.
Provider(name) == IF name \in DOMAIN link.table THEN link.table[name].ordinal ELSE link.libSystem
Provided(name) == 100000 + 100 * name
Dlsym(ordinal, name) == IF ordinal = Provider(name) THEN Provided(name) ELSE 0

DyldRebase ==
  /\ phase = "written"
  /\ LET sites == {AddrOf(s) : s \in Range(DyldRun(image.rebase, 0))} IN
     mem' = [addr \in DOMAIN mem |-> IF addr \in sites THEN mem[addr] + Slide ELSE mem[addr]]
  /\ phase' = "rebased"
  /\ UNCHANGED <<link, symtab, plan, scan, image, sect, chunks, err, calls>>

BindMemory(m, b) == [m EXCEPT ![AddrOf(b)] = Dlsym(b.ordinal, b.name) + b.addend]

DyldBind ==
  /\ phase = "rebased"
  /\ mem' = FoldLeft(BindMemory, mem, DyldRun(image.bind, 0))
  /\ phase' = "running"
  /\ UNCHANGED <<link, symtab, plan, scan, image, sect, chunks, err, calls>>

\* The program calls from a place that branches to a stub.  The stub jumps where its
\* lazy pointer leads: at first to the helper, which has dyld run the record at the
\* offset in the helper's entry, unless the binder was not bound.
Call(a, r) ==
  /\ phase = "running" /\ r.kind = "Branch26"
  /\ \E place \in {PlaceOf(a, r)} :
     LET stub == place + mem[place]
         code == mem[stub]
         lazy == Page(stub) + code.adrp * PageSize + code.imm
         entry == mem[lazy] - Slide
         helper == entry + 4 + mem[entry].branch
         binder == mem[Page(helper + 12) + mem[helper].adrp * PageSize + mem[helper].imm]
         bound == DyldRun(image.lazy, mem[entry].literal)
         target == Dlsym(bound[1].ordinal, bound[1].name)
     IN  /\ stub \in {StubAddr(link, plan, n) : n \in Range(plan.stubs)}
         /\ IF entry \notin DOMAIN mem
              THEN calls' = calls \cup {<<place, mem[lazy]>>} /\ UNCHANGED mem
              ELSE IF binder # Provided(BinderName) \/ bound = <<>>
              THEN calls' = calls \cup {<<place, 0>>} /\ UNCHANGED mem
              ELSE /\ calls' = calls \cup {<<place, target>>}
                   /\ mem' = [mem EXCEPT ![AddrOf(bound[1])] = target]
  /\ UNCHANGED <<link, symtab, plan, phase, scan, image, sect, chunks, err>>

\* Nothing happens after a failure; a running program may stop calling.
Ended == phase \in {"failed", "running"} /\ UNCHANGED vars

Next ==
  \/ PlanAtom \/ FinishPlan \/ BuildLinkedit \/ FailLinkedit
  \/ \E c \in DOMAIN chunks : ApplyChunk(c)
  \/ JoinSection \/ SynthesizeThreadVars \/ SynthesizeSections
  \/ DyldRebase \/ DyldBind
  \/ \E a \in PlacedAtoms : \E i \in DOMAIN RelocsForAtom(link, a) : Call(a, RelocsForAtom(link, a)[i])
  \/ Ended

Spec == Init /\ [][Next]_vars
-----------------------------------------------------------------------------
(* What a relocation means in the running program, from the input alone.   *)

Located(a, off) == AtomAddr(link, plan, a) + off + Slide

MeaningOfName(name) ==
  LET final == AliasTarget(link.table, name)
      s == link.table[final]
  IN  CASE s.kind = "DylibImport" -> Provided(final)
        [] s.kind = "Absolute" -> s.value
        [] s.kind = "Defined" -> Located(s.atom, s.value)

Meaning(obj, i) ==
  LET s == link.syms[obj][i]
      a == InputAtomAt(link, obj, s.sect, s.off)[1]
  IN  CASE s.ext /\ s.name \in DOMAIN link.table -> MeaningOfName(s.name)
        [] s.ext /\ s.name \notin DOMAIN link.table -> Provided(s.name)
        [] ~s.ext /\ s.kind = "abs" -> s.off
        [] OTHER -> Located(a, s.off - link.atoms[a].off)

Sites == {<<a, r>> \in PlacedAtoms \X Range(link.relocs) : r \in Range(RelocsForAtom(link, a))}

\* The address an adrp and the instruction behind it form.
Formed(a, r, lo) ==
  Page(PlaceOf(a, r)) + mem[PlaceOf(a, r)] * PageSize + mem[PlaceOf(a, lo)].imm

SiteIsRight(a, r) ==
  LET obj == link.atoms[a].obj
      now == mem[PlaceOf(a, r)]
      want == Meaning(obj, r.ref.sym)
      lo == CHOOSE s \in Range(RelocsForAtom(link, a)) : s.off = r.off + 4
  IN  CASE r.kind = "Unsigned" -> now = want + r.addend + r.implicit
        [] r.kind = "Subtractor" -> now = want - Meaning(obj, r.sub.sym) + r.addend + r.implicit
        [] r.kind = "PointerToGot" ->
             LET slot == IF r.pcrel THEN PlaceOf(a, r) + now ELSE now - Slide IN
             slot \in DOMAIN mem /\ mem[slot] = want
        [] r.kind = "Branch26" ->
             PlaceOf(a, r) + now + Slide = want
             \/ PlaceOf(a, r) + now \in {StubAddr(link, plan, n) : n \in Range(plan.stubs)}
        [] r.kind \in {"Page21", "GotLoadPage21", "TlvpLoadPage21"} ->
             LET addr == Formed(a, r, lo) IN
             IF r.kind = "Page21" \/ mem[PlaceOf(a, lo)].insn = "add"
               THEN addr + Slide = want
               ELSE addr \in DOMAIN mem /\ mem[addr] = want
        [] OTHER -> TRUE

Bound == phase = "running"

\* Once dyld has rebased and bound the image, every pointer, difference, GOT slot and
\* instruction pair means what its relocation says, whether it was resolved by the
\* linker, through a slot, or left to dyld (apply_layout, build_bind_streams,
\* collect_rebase_sites).
PointersReachTargets ==
  Bound => \A s \in Sites : link.atoms[s[1]].sect # ThreadVars => SiteIsRight(s[1], s[2])

\* A descriptor of a thread variable calls the bootstrap function and names the bytes of
\* the template its own object gave the variable
\* (synthesize_thread_variable_section, resolve_tlv_init_address).
DescriptorsNameTheirTemplate ==
  Bound /\ plan.bootstrap =>
    \A a \in Descriptors : \A r \in Range(RelocsForAtom(link, a)) :
      LET word == mem[PlaceOf(a, r)] IN
      IF r.off = link.atoms[a].off THEN word = Provided(BootstrapName)
      ELSE ThreadDataBase(link, plan) + word + Slide = Meaning(link.atoms[a].obj, r.ref.sym)

\* Every call through a stub, the first and the later ones, in any order, arrives at the
\* imported function: stub, lazy pointer, helper and lazy bind record agree about which
\* slot is whose (synthesize_stub_section, encode_stub_helper_entry, lazy_offsets).
CallsReachSymbols ==
  \A c \in calls : \E s \in Sites : s[2].kind = "Branch26" /\ PlaceOf(s[1], s[2]) = c[1]
                     /\ c[2] = Meaning(link.atoms[s[1]].obj, s[2].ref.sym)

\* dyld touches a word of the image once: what is rebased is not bound, nothing is bound
\* twice, everything lies in a writable segment, and the lazy pointers, and only they,
\* are rebased and have a record of their own (build_rebase_stream, emit_bind_records).
FixupsDisjoint ==
  phase = "written" =>
    LET rebased == DyldRun(image.rebase, 0)
        bound == DyldRun(image.bind, 0)
        lazy == [i \in DOMAIN plan.lazy |-> DyldRun(image.lazy, image.lazyOffset[i])[1]]
        addrs(sites) == {AddrOf(sites[i]) : i \in DOMAIN sites}
    IN  /\ Cardinality(addrs(rebased)) = Len(rebased)
        /\ Cardinality(addrs(bound)) = Len(bound)
        /\ addrs(rebased) \cap addrs(bound) = {}
        /\ \A i \in DOMAIN lazy : AddrOf(lazy[i]) = LazyAddr(link, plan, plan.lazy[i])
                                  /\ lazy[i].name = plan.lazy[i]
        /\ addrs(lazy) \subseteq addrs(rebased)
        /\ \A addr \in addrs(rebased) \cup addrs(bound) :
             addr \in DOMAIN mem /\ SegmentOf(addr) \in {ConstSegment, DataSegment}

\* The fixups hold: each word of the image is touched by dyld at most once and in the
\* end every pointer, pair and descriptor leads where its relocation says.
FixupsHold == FixupsDisjoint /\ PointersReachTargets /\ DescriptorsNameTheirTemplate

\* The symbol table says what the image does: locals, definitions and imports lie in
\* their ranges, an indirect entry names the import of its slot, what is exported is
\* where the program finds it and nothing hidden is, and the blocks of __LINKEDIT are
\* aligned and apart (build_output_symbols_profiled, push_indirect_section, place_*).
SymbolTableConsistent ==
  phase = "written" =>
    LET t == image.symbols
        ind == image.indirect
        names(slots, start) ==
          \A i \in DOMAIN slots :
            LET k == ind.table[start + i] IN
            IF symtab[slots[i]].kind = "DylibImport"
              THEN k >= t.nlocal + t.nextdef /\ t.symbols[k + 1].name = slots[i]
              ELSE k = IndirectLocal
        shown == {n \in DOMAIN link.table : n \notin link.hidden /\ ~link.table[n].priv
                     /\ link.table[n].kind # "DylibImport"
                     /\ ~(link.table[AliasTarget(link.table, n)].kind = "Defined"
                          /\ link.table[AliasTarget(link.table, n)].atom \notin link.live)}
        header == IF link.kind = "exe" /\ HeaderName \notin link.hidden THEN {HeaderName} ELSE {}
    IN  /\ \A i \in DOMAIN t.symbols :
             CASE i <= t.nlocal -> t.symbols[i].type \in {"local", "pext"}
               [] i > t.nlocal /\ i <= t.nlocal + t.nextdef -> t.symbols[i].type \in {"ext", "abs", "indr"}
               [] OTHER -> t.symbols[i].type = "undf" /\ i <= t.nlocal + t.nextdef + t.nundef
        /\ names(plan.stubs, ind.stubs) /\ names(plan.got, ind.got) /\ names(plan.lazy, ind.lazy)
        /\ {e.name : e \in Range(t.exports)} = shown \cup header
        /\ \A e \in Range(t.exports) : e.name \in shown =>
             IF e.type = "indr" THEN Provided(e.target) = MeaningOfName(e.name)
             ELSE e.value + (IF e.type = "abs" THEN 0 ELSE Slide) = MeaningOfName(e.name)
        /\ \A i \in DOMAIN image.blocks :
             /\ image.blocks[i].off % 8 = 0
             /\ i < Len(image.blocks) => image.blocks[i].off + image.blocks[i].size <= image.blocks[i + 1].off

\* What fails when each atom is looked at alone, in the order of the file.
Failures ==
  LET order == FlattenSeq([s \in 1 .. 4 |-> Placed(link, s)]) IN
  SelectSeq([i \in DOMAIN order |->
               ApplyAtom(link, plan, symtab, order[i], FileContents).failed],
            LAMBDA failed : failed # <<>>)

\* Whatever the threads' order, the relocation that is reported is the first, by section,
\* atom and place in the file, that cannot be applied, and when none is reported all
\* are applied (apply_regular_relocs joins its threads in the order of the chunks).
FailuresDeterministic ==
  (phase = "failed" /\ err # <<>>) \/ phase \in {"threadvars", "synthesize", "written"} =>
    LET first(failures) == IF failures = <<>> THEN <<>> ELSE failures[1]
    IN  err = first(Failures)
=============================================================================
