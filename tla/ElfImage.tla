------------------------------ MODULE ElfImage ------------------------------
(***************************************************************************)
(* The writing of an ELF executable: link_static_exec_with_policy and      *)
(* link_dynamic_exec_with_policy of src/src/elf.rs, from the objects that  *)
(* selection and collection left to the bytes of the file.                 *)
(*                                                                         *)
(* A job is [objs, libs, dynamic, entry, hdr, stack, now]: hdr asks for    *)
(* .eh_frame_hdr, stack is the -z execstack policy (<<>> for none), now    *)
(* asks for eager binding.  The contents of the file that matter are the   *)
(* fields relocations write, the slots, the stubs and the tables; words    *)
(* maps their places to what they hold.                                    *)
(***************************************************************************)
EXTENDS ElfTables

CONSTANTS Jobs,        \* the links to look at
          LinkerRole,  \* what each symbol of the linker stands for
          NameSize,    \* bytes a string takes in .dynstr
          InterpSize,  \* bytes of .interp
          Reach        \* what a signed field holds: -Reach .. Reach - 1

ASSUME ImageAssumption ==
  /\ DOMAIN LinkerRole = LinkerSyms
  /\ NameSize \in Nat \ {0} /\ InterpSize \in Nat \ {0} /\ Reach \in Nat \ {0}

VARIABLES job, stage,
          outs,    \* the output sections, then those of the linker
          place,   \* [secs, commons]: <<output section, offset>> of inputs
          tls,     \* the TLS block
          tables,  \* [globals, imports, exports, got, ifuncs]
          lay,     \* addresses: [order, rw] or [own, ro, rx, rw] (see below)
          next,    \* relocations applied so far
          words,   \* what relocations wrote, by <<output section, offset>>
          image,   \* the finished file
          verdict  \* the error the link ended with, or ""

vars == <<job, stage, outs, place, tls, tables, lay, next, words, image, verdict>>

Base == IF job.dynamic THEN 2097152 ELSE 4194304
Page == 4096
EhSize == 64
PhSize == 56

Objs == job.objs
Globals == tables.globals
Fail(why) == stage' = "failed" /\ verdict' = why

Init ==
  /\ job \in Jobs
  /\ stage = "merge" /\ outs = <<>> /\ place = [secs |-> <<>>, commons |-> <<>>]
  /\ tls = <<>> /\ tables = <<>> /\ lay = <<>> /\ next = 0 /\ words = <<>>
  /\ image = <<>> /\ verdict = ""

Merge ==
  /\ stage = "merge"
  /\ LET b == MergeSections(Objs)
         why == IF BadRelocation(Objs) THEN "Relocation" ELSE b.err
     IN  IF why # "" THEN Fail(why) /\ UNCHANGED <<outs, place>>
         ELSE /\ outs' = b.outs /\ place' = [place EXCEPT !.secs = b.place]
              /\ stage' = "resolve" /\ UNCHANGED verdict
  /\ UNCHANGED <<job, tls, tables, lay, next, words, image>>

\* Global symbols, tentative storage, arrays, the TLS block.
Resolve ==
  /\ stage = "resolve"
  /\ LET g == ResolveGlobals(Objs)
         b == PlaceCommons(Objs, g.table, [outs |-> outs, place |-> place.secs, err |-> ""])
         a == MergeArrays(Objs, b)
         t == TlsBlock(Objs)
         why == CASE g.duplicate -> "Duplicate"
                  [] ~g.duplicate /\ job.dynamic /\ HiddenUndefined(Objs, g.table) -> "Hidden"
                  [] OTHER -> b.err
     IN  IF why # "" THEN Fail(why) /\ UNCHANGED <<outs, place, tls, tables>>
         ELSE /\ outs' = IF HasTls(t) THEN Append(a.outs, TlsOut(t)) ELSE a.outs
              /\ place' = [secs |-> a.place, commons |-> b.commons]
              /\ tls' = t /\ tables' = [globals |-> g.table]
              /\ stage' = "bind" /\ UNCHANGED verdict
  /\ UNCHANGED <<job, lay, next, words, image>>
-----------------------------------------------------------------------------
(* Unwind records.                                                         *)

\* The records parse_eh_frame_fdes reads: up to a terminator, or to the zeros
\* that pad one section to the alignment of the next.
Reached(out) ==
  {i \in DOMAIN out.recs : \A j \in 1 .. i :
     /\ out.recs[j].kind # "END"
     /\ out.recs[j].off = IF j = 1 THEN 0 ELSE out.recs[j - 1].off + out.recs[j - 1].len}

\* A record runs past the section, an FDE names no CIE read before it, or one
\* whose pointers are not pcrel|sdata4.
BadRecords(out) ==
  \E i \in Reached(out) :
    \/ out.recs[i].kind = "BAD"
    \/ /\ out.recs[i].kind = "FDE"
       /\ ~(\E j \in 1 .. i : /\ out.recs[j].kind = "CIE" /\ out.recs[j].enc = "pcrel"
                              /\ out.recs[j].off = out.recs[i].cie)

FdesOf(out) ==
  LET idx == SetToSortSeq({i \in Reached(out) : out.recs[i].kind = "FDE"}, <)
  IN  [n \in DOMAIN idx |-> out.recs[idx[n]]]

\* The output section .eh_frame_hdr describes, 0 for none.
EhFrame(os) ==
  LET found == {i \in DOMAIN os : os[i].name = ".eh_frame" /\ os[i].size > 0}
  IN  IF job.hdr /\ found # {} THEN Min(found) ELSE 0

HdrSize(os) == IF EhFrame(os) = 0 THEN 0 ELSE 12 + 8 * Len(FdesOf(os[EhFrame(os)]))
BadEhFrame(os) == EhFrame(os) # 0 /\ BadRecords(os[EhFrame(os)])
-----------------------------------------------------------------------------
(* Binding: slots, stubs, imports and exports.                             *)

UnboundSlot(got) == \E i \in DOMAIN got : got[i].target.kind = "unknown"

\* The sections of a static image that the linker makes.
StaticOwn(got, ifuncs) ==
  (IF got = <<>> THEN <<>> ELSE <<OwnOut(".got", {"W"}, 8, 8 * Len(got))>>)
  \o IF ifuncs = <<>> THEN <<>>
     ELSE <<OwnOut(".iplt", {"X"}, 16, 16 * Len(ifuncs)),
            OwnOut(".got.plt", {"W"}, 8, 8 * Len(ifuncs)),
            OwnOut(".rela.plt", {}, 8, 24 * Len(ifuncs))>>

BindStatic ==
  /\ stage = "bind" /\ ~job.dynamic
  /\ LET got == GotSlots(Objs, Globals, NoImports, FALSE)
         ifuncs == IfuncStubs(Objs, Globals, <<>>)
         all == outs \o StaticOwn(got, ifuncs)
         hdr == IF EhFrame(all) = 0 THEN <<>>
                ELSE <<OwnOut(".eh_frame_hdr", {}, 4, HdrSize(all))>>
         why == CASE UnboundSlot(got) -> "Undefined"
                  [] ~UnboundSlot(got) /\ BadEhFrame(all) -> "EhFrame"
                  [] OTHER -> ""
     IN  IF why # "" THEN Fail(why) /\ UNCHANGED <<outs, tables>>
         ELSE /\ outs' = all \o hdr
              /\ tables' = [globals |-> Globals, imports |-> NoImports, exports |-> <<>>,
                            got |-> got, ifuncs |-> ifuncs]
              /\ stage' = "layout" /\ UNCHANGED verdict
  /\ UNCHANGED <<job, place, tls, lay, next, words, image>>

BindDynamic ==
  /\ stage = "bind" /\ job.dynamic
  /\ LET imports == Imports(Objs, Globals, job.libs)
         got == GotSlots(Objs, Globals, imports, TRUE)
         exports == Exports(Globals, job.libs)
         why == CASE imports.err # "" -> imports.err
                  [] imports.err = "" /\ UnboundSlot(got) -> "Undefined"
                  [] imports.err = "" /\ ~UnboundSlot(got) /\ BadEhFrame(outs) -> "EhFrame"
                  [] OTHER -> ""
     IN  IF why # "" THEN Fail(why) /\ UNCHANGED tables
         ELSE /\ tables' = [globals |-> Globals, imports |-> imports, exports |-> exports,
                            got |-> got, ifuncs |-> IfuncStubs(Objs, Globals, exports)]
              /\ stage' = "layout" /\ UNCHANGED verdict
  /\ UNCHANGED <<job, outs, place, tls, lay, next, words, image>>

\* The imports that have a stub, in slot order.
FuncImports ==
  SelectSeq([i \in DOMAIN tables.imports.list |-> i],
            LAMBDA i : tables.imports.list[i].func)
NFunc == Len(FuncImports)
NPlt == NFunc + Len(tables.ifuncs)
Versioned == Requirements(tables.imports) # <<>>
NGlobDat == Cardinality({i \in DOMAIN tables.got : tables.got[i].target.kind = "import"})

\* Sonames, in DT_NEEDED order.
Needed == Distinct([l \in DOMAIN job.libs |-> job.libs[l].soname])
-----------------------------------------------------------------------------
(* Layout of a static image: headers, code and constants in one segment,    *)
(* data in the next.  lay is [order, rw], rw the position in order of the   *)
(* first section of the writable segment.                                  *)

\* output_rank
Rank(o) ==
  CASE "X" \in o.flags -> 0
    [] "X" \notin o.flags /\ "W" \notin o.flags -> 1
    [] "X" \notin o.flags /\ "W" \in o.flags /\ ~o.nobits -> 2
    [] OTHER -> 3

StaticOrder(os) ==
  SetToSortSeq(DOMAIN os, LAMBDA i, j :
    Rank(os[i]) < Rank(os[j]) \/ (Rank(os[i]) = Rank(os[j]) /\ i < j))

PhNum ==
  (IF job.dynamic THEN 6 ELSE 3) + (IF HasTls(tls) THEN 1 ELSE 0)
    + (IF EhFrame(outs) # 0 THEN 1 ELSE 0)
HeadersEnd == EhSize + PhSize * PhNum

\* Mutant: the writable segment goes on where the code ends.
SamePage(x) == x

\* Where a new segment starts.
FreshPage(x) == NextMultiple(x, Page)

StaticPlacement ==
  LET order == StaticOrder(outs)
      step(acc, i) ==
        LET o == acc.outs[i]
            opens == acc.rw = 0 /\ ("W" \in o.flags \/ o.nobits)
            fo == NextMultiple(IF opens THEN FreshPage(acc.fo) ELSE acc.fo, o.align)
            v == NextMultiple(IF opens THEN FreshPage(acc.v) ELSE acc.v, o.align)
        IN  [outs |-> [acc.outs EXCEPT ![i].fo = fo, ![i].v = v],
             fo |-> IF o.nobits THEN fo ELSE fo + o.size, v |-> v + Extent(o),
             n |-> acc.n + 1, rw |-> IF opens THEN acc.n ELSE acc.rw]
      done == FoldLeft(step, [outs |-> outs, fo |-> HeadersEnd, v |-> Base + HeadersEnd,
                              n |-> 1, rw |-> 0], order)
  IN  [outs |-> done.outs,
       lay |-> [order |-> order, rw |-> IF done.rw = 0 THEN Len(order) + 1 ELSE done.rw]]

LayOutStatic ==
  /\ stage = "layout" /\ ~job.dynamic
  /\ \E p \in {StaticPlacement} : outs' = p.outs /\ lay' = p.lay
  /\ stage' = "relocate"
  /\ UNCHANGED <<job, place, tls, tables, next, words, image, verdict>>
-----------------------------------------------------------------------------
(* Layout of a dynamic executable: metadata and constants, code, data.  lay *)
(* is [own, ro, rx, rw, dataEnd, memEnd]: the linker's own sections by name *)
(* and, for each segment, [v, fo, size, filesz].                           *)

ArraysPresent == {b \in ToSet(ArrayBases) : \E i \in DOMAIN outs : outs[i].name = b}

\* Mutant: the eager-binding flag is not counted.
DynamicCountLazy ==
  Len(Needed) + 5 + (IF NPlt > 0 THEN 4 ELSE 0) + (IF Versioned THEN 3 ELSE 0)
    + (IF NGlobDat > 0 THEN 3 ELSE 0) + 2 * Cardinality(ArraysPresent) + 1

DynamicCount ==
  Len(Needed) + 5 + (IF job.now THEN 1 ELSE 0) + (IF NPlt > 0 THEN 4 ELSE 0)
    + (IF Versioned THEN 3 ELSE 0) + (IF NGlobDat > 0 THEN 3 ELSE 0)
    + 2 * Cardinality(ArraysPresent) + 1

NDynsym == 1 + Len(tables.imports.list) + Len(tables.exports)

\* The metadata: <<name, size, alignment>>, in file order.
Metadata ==
  LET strings == Len(Needed) + NDynsym - 1 + Len(Requirements(tables.imports))
      needs == VersionNeeds(tables.imports)
      records == Len(needs) + Len(Requirements(tables.imports))
  IN  <<<<".interp", InterpSize, 1>>,
        <<".dynsym", 24 * NDynsym, 8>>,
        <<".hash", 4 * (2 + 2 * NDynsym), 8>>,
        <<".dynstr", 1 + NameSize * strings, 1>>,
        <<".gnu.version", IF Versioned THEN 2 * NDynsym ELSE 0, 2>>,
        <<".gnu.version_r", 16 * records, 4>>,
        <<".rela.dyn", 24 * NGlobDat, 8>>,
        <<".rela.plt", 24 * NPlt, 8>>>>
      \o IF EhFrame(outs) = 0 THEN <<>> ELSE <<<<".eh_frame_hdr", HdrSize(outs), 4>>>>

OwnSection(v, fo, size) == [v |-> v, fo |-> fo, size |-> size]

IndicesOf(os, P(_)) == SetToSortSeq({i \in DOMAIN os : P(os[i])}, <)

\* (The base address is a multiple of every alignment, so that memory and file
\* advance together in the first segment too.  A NOBITS section that is not
\* writable is placed twice, without room at first, like in the code.)
\* The sections P selects, one after the other from v in a segment that starts
\* at v0 in memory and at fo0 in the file.
PlaceAll(os, P(_), Room(_), v, v0, fo0) ==
  LET step(acc, i) ==
        LET at == NextMultiple(acc.v, acc.outs[i].align)
        IN  [outs |-> [acc.outs EXCEPT ![i].v = at, ![i].fo = fo0 + (at - v0)],
             v |-> at + Room(acc.outs[i])]
  IN  FoldLeft(step, [outs |-> os, v |-> v], IndicesOf(os, P))

Bytes(o) == o.size
Zeros(o) == o.bss
IsConstant(o) == "X" \notin o.flags /\ "W" \notin o.flags
IsCode(o) == "X" \in o.flags /\ "W" \notin o.flags
IsData(o) == "W" \in o.flags /\ ~o.nobits
IsBss(o) == o.nobits

PlaceMetadata ==
  LET meta(acc, m) ==
        LET v == NextMultiple(acc.v, m[3])
            fo == NextMultiple(acc.fo, m[3])
        IN  [v |-> v + m[2], fo |-> fo + m[2],
             own |-> (m[1] :> OwnSection(v, fo, m[2])) @@ acc.own]
  IN  FoldLeft(meta, [v |-> Base + HeadersEnd, fo |-> HeadersEnd, own |-> <<>>], Metadata)

PlaceConstants(metas) == PlaceAll(outs, IsConstant, Bytes, metas.v, Base, 0)

\* Code starts on a fresh page; .plt follows it.
PlaceCode(ro) ==
  LET part(v0, fo0, placed, at) ==
        [v |-> v0, fo |-> fo0, outs |-> placed.outs,
         plt |-> OwnSection(at, fo0 + (at - v0), IF NPlt > 0 THEN 16 * (NPlt + 1) ELSE 0)]
      from(v0, fo0) ==
        LET placed == PlaceAll(ro.outs, IsCode, Bytes, v0, v0, fo0)
        IN  part(v0, fo0, placed, NextMultiple(placed.v, 16))
  IN  from(FreshPage(ro.v), FreshPage(ro.v - Base))

\* Data starts on a fresh page; .got, .got.plt and .dynamic follow, then .bss.
PlaceData(rx) ==
  LET from(v0, fo0) ==
        LET at(v, size) == OwnSection(v, fo0 + (v - v0), size)
            after(s, size) == at(NextMultiple(s.v + s.size, 8), size)
            placed == PlaceAll(rx.outs, IsData, Bytes, v0, v0, fo0)
            got == at(NextMultiple(placed.v, 8), 8 * Len(tables.got))
            gotplt == after(got, IF NPlt > 0 THEN 8 * (NPlt + 3) ELSE 0)
            dynamic == after(gotplt, 16 * DynamicCount)
            fileEnd == dynamic.v + dynamic.size
            bss == PlaceAll(placed.outs, IsBss, Zeros, fileEnd, v0, fo0)
        IN  [v |-> v0, fo |-> fo0, end |-> fileEnd, outs |-> bss.outs, memEnd |-> bss.v,
             own |-> (".got" :> got) @@ (".got.plt" :> gotplt) @@ (".dynamic" :> dynamic)]
  IN  from(FreshPage(rx.plt.v + rx.plt.size), FreshPage(rx.plt.fo + rx.plt.size))

DynamicPlacement ==
  LET parts(metas, ro, rx, rw) ==
        [outs |-> rw.outs,
         lay |-> [own |-> (".plt" :> rx.plt) @@ rw.own @@ metas.own,
                  ro |-> [v |-> Base, fo |-> 0, size |-> ro.v - Base, filesz |-> ro.v - Base],
                  rx |-> [v |-> rx.v, fo |-> rx.fo, size |-> rx.plt.v + rx.plt.size - rx.v,
                          filesz |-> rx.plt.fo + rx.plt.size - rx.fo],
                  rw |-> [v |-> rw.v, fo |-> rw.fo, size |-> rw.memEnd - rw.v,
                          filesz |-> rw.end - rw.v],
                  dataEnd |-> rw.end, memEnd |-> rw.memEnd]]
      placed(metas, ro) ==
        LET rx == PlaceCode(ro) IN parts(metas, ro, rx, PlaceData(rx))
      first == PlaceMetadata
  IN  placed(first, PlaceConstants(first))

LayOutDynamic ==
  /\ stage = "layout" /\ job.dynamic
  /\ \E p \in {DynamicPlacement} : outs' = p.outs /\ lay' = p.lay
  /\ stage' = "relocate"
  /\ UNCHANGED <<job, place, tls, tables, next, words, image, verdict>>
-----------------------------------------------------------------------------
(* Addresses.  A result is [ok, v].                                        *)

Good(v) == [ok |-> TRUE, v |-> v]
Bad == [ok |-> FALSE, v |-> 0]

\* The linker's own section of that name (one of outs in a static image).
Own(name) ==
  IF job.dynamic THEN lay.own[name]
  ELSE outs[Min({i \in DOMAIN outs : outs[i].name = name})]

ImageEnd ==
  IF job.dynamic THEN lay.memEnd
  ELSE Max({Base} \cup {outs[i].v + Extent(outs[i]) : i \in DOMAIN outs})

\* <<start, end>> of the first section of that name, empty if there is none.
Bounds(name) ==
  LET found == {i \in DOMAIN outs : outs[i].name = name} IN
  IF found = {} THEN <<ImageEnd, ImageEnd>>
  ELSE <<outs[Min(found)].v, outs[Min(found)].v + Extent(outs[Min(found)])>>

\* The IRELATIVE entries, at the end of .rela.plt in a dynamic executable.
IpltBounds ==
  CASE ~job.dynamic -> Bounds(".rela.plt")
    [] job.dynamic /\ tables.ifuncs # <<>> ->
         <<Own(".rela.plt").v + 24 * NFunc, Own(".rela.plt").v + 24 * NPlt>>
    [] OTHER -> <<ImageEnd, ImageEnd>>

GotBase ==
  CASE job.dynamic -> IF NPlt > 0 THEN Own(".got.plt").v ELSE Own(".got").v
    [] OTHER -> Bounds(".got")[1]

BssStart ==
  LET order == IF job.dynamic THEN [i \in DOMAIN outs |-> i] ELSE lay.order
      zero == SelectSeq(order, LAMBDA i : outs[i].nobits)
  IN  IF zero = <<>> THEN ImageEnd ELSE outs[zero[1]].v

DataEnd ==
  LET ends == {outs[i].v + outs[i].size : i \in {j \in DOMAIN outs : IsData(outs[j])}} IN
  CASE job.dynamic -> lay.dataEnd
    [] ~job.dynamic /\ ends # {} -> Max(ends)
    [] OTHER -> ImageEnd

\* linker_addr
LinkerAddr(n) ==
  LET role == LinkerRole[n] IN
  CASE role = "preinit_start" -> Bounds(".preinit_array")[1]
    [] role = "preinit_end" -> Bounds(".preinit_array")[2]
    [] role = "init_start" -> Bounds(".init_array")[1]
    [] role = "init_end" -> Bounds(".init_array")[2]
    [] role = "fini_start" -> Bounds(".fini_array")[1]
    [] role = "fini_end" -> Bounds(".fini_array")[2]
    [] role = "iplt_start" -> IpltBounds[1]
    [] role = "iplt_end" -> IpltBounds[2]
    [] role = "ehdr" -> Base
    [] role = "got" -> GotBase
    [] role = "bss_start" -> BssStart
    [] role = "edata" -> DataEnd
    [] role = "end" -> ImageEnd

\* raw_addr: a definition's address, without the stub of an IFUNC.
RawAddr(d) ==
  LET s == SymbolAt(Objs, d)
      at(p) == outs[p[1]].v + p[2]
  IN  CASE s.shndx = "ABS" -> Good(s.value)
        [] s.shndx = "COMMON" -> Good(at(place.commons[d]))
        [] s.shndx \notin {"ABS", "COMMON"} /\ <<d[1], s.sec>> \in DOMAIN place.secs ->
             Good(at(place.secs[<<d[1], s.sec>>]) + s.value)
        [] OTHER -> Bad

PltStub(k) == Own(".plt").v + 16 * (k + 1)
GotPltSlot(k) == Own(".got.plt").v + 8 * (IF job.dynamic THEN k + 3 ELSE k)

\* The place of t among the IFUNCs that have stubs, from 0; -1 for none.
IfuncIndex(t) ==
  LET at == {k \in DOMAIN tables.ifuncs : tables.ifuncs[k] = t} IN
  IF at = {} THEN -1 ELSE Min(at) - 1

FuncSlot(i) ==
  Cardinality({j \in 1 .. i - 1 : tables.imports.list[j].func})

\* The address of the stub of the k-th IFUNC.
IfuncStub(k) == IF job.dynamic THEN PltStub(NFunc + k) ELSE Own(".iplt").v + 16 * k

\* sym_vaddr, once the target is known.  A reference to imported data would need
\* a copy relocation.
AddressOf(t) ==
  CASE t.kind = "linker" -> Good(LinkerAddr(t.name))
    [] t.kind = "nothing" -> Good(0)
    [] t.kind = "import" -> IF tables.imports.list[t.import].func
                              THEN Good(PltStub(FuncSlot(t.import))) ELSE Bad
    [] t.kind = "def" ->
         CASE IsIfunc(Objs, t) /\ IfuncIndex(t) >= 0 -> Good(IfuncStub(IfuncIndex(t)))
           [] IsIfunc(Objs, t) /\ IfuncIndex(t) < 0 /\ job.dynamic -> Bad
           [] OTHER -> RawAddr(t.def)
    [] OTHER -> Bad

TargetOf(o, si) ==
  IF job.dynamic THEN DirectTarget(Objs, Globals, tables.imports, o, si)
  ELSE StaticTarget(Objs, Globals, o, si)

\* tls_offset, once the target is known.
TlsOffset(t) ==
  LET s == SymbolAt(Objs, t.def) IN
  CASE t.kind = "nothing" -> Good(0)
    [] t.kind = "def" /\ <<t.def[1], s.sec>> \in DOMAIN tls.place ->
         Good(tls.place[<<t.def[1], s.sec>>] + s.value - tls.negBase)
    [] OTHER -> Bad

TlsTargetOf(o, si) ==
  IF job.dynamic THEN TlsTarget(Objs, Globals, o, si)
  ELSE StaticTarget(Objs, Globals, o, si)
-----------------------------------------------------------------------------
(* Relocations.                                                            *)

Fits(v) == -Reach <= v /\ v < Reach
FitsUnsigned(v) == 0 <= v /\ v < 2 * Reach

TlsOutIndex == Min({i \in DOMAIN outs : "T" \in outs[i].flags})

\* The output section and offset of an input section.  Relocations of a .tbss
\* have been refused, so every other section with relocations has a place.
WhereIs(p) ==
  IF p \in DOMAIN place.secs THEN place.secs[p] ELSE <<TlsOutIndex, tls.place[p]>>

SlotAddr(kind, t) ==
  Own(".got").v + 8 * ((CHOOSE k \in DOMAIN tables.got :
                          tables.got[k] = [kind |-> kind, target |-> t]) - 1)

GotTargetOf(o, si) ==
  IF job.dynamic THEN GotTarget(Objs, Globals, tables.imports, o, si)
  ELSE StaticTarget(Objs, Globals, o, si)

\* The call of a general or local dynamic access is rewritten with it; its own
\* relocation is skipped.
Suppressed(q) ==
  \E r \in ToSet(SectionAt(Objs, q).relas) :
    \/ r.type = "TLSGD" /\ RelaAt(Objs, q).off = r.off + 8
    \/ r.type = "TLSLD" /\ RelaAt(Objs, q).off = r.off + 5

Field(ok, at, v) == [ok |-> ok, at |-> at, v |-> v]

\* Mutant: displacements count from the end of the field.
PlaceAfter(q) == outs[WhereIs(<<q[1], q[2]>>)[1]].v + WhereIs(<<q[1], q[2]>>)[2]
                   + RelaAt(Objs, q).off + 4

\* The address of the field of a relocation.
PlaceOf(q) == outs[WhereIs(<<q[1], q[2]>>)[1]].v + WhereIs(<<q[1], q[2]>>)[2]
                + RelaAt(Objs, q).off

\* relax_tlsgd_to_le, relax_tlsld_to_le: is the sequence there to rewrite?
Rewritable(r, spot, size, before, after) ==
  r.pro /\ spot >= before /\ spot + after <= size

\* What a relocation writes, and where in its output section; at is -1 when it
\* only rewrites instructions.
FieldOf(q) ==
  LET r == RelaAt(Objs, q)
      w == WhereIs(<<q[1], q[2]>>)
      spot == w[2] + r.off
      p == PlaceOf(q)
      s == AddressOf(TargetOf(q[1], r.sym))
      t == TlsOffset(TlsTargetOf(q[1], r.sym))
      signed(ok, v) == Field(ok /\ Fits(v), spot, v)
      size == outs[w[1]].size
  IN  CASE r.type = "64" -> Field(s.ok, spot, s.v + r.add)
        [] r.type = "32" -> Field(s.ok /\ FitsUnsigned(s.v + r.add), spot, s.v + r.add)
        [] r.type = "32S" -> signed(s.ok, s.v + r.add)
        [] r.type \in {"PC32", "PLT32"} -> signed(s.ok, s.v + r.add - p)
        [] r.type = "GOTPCREL" ->
             signed(TRUE, SlotAddr("addr", GotTargetOf(q[1], r.sym)) + r.add - p)
        [] r.type = "GOTTPOFF" ->
             signed(TRUE, SlotAddr("tpoff", TlsTargetOf(q[1], r.sym)) + r.add - p)
        [] r.type \in {"TPOFF32", "DTPOFF32"} -> signed(t.ok, t.v + r.add)
        [] r.type = "DTPOFF64" -> Field(t.ok, spot, t.v + r.add)
        [] r.type = "TLSGD" ->
             Field(t.ok /\ Fits(t.v + r.add) /\ Rewritable(r, spot, size, 4, 12),
                   spot + 8, t.v + r.add)
        [] r.type = "TLSLD" -> Field(Rewritable(r, spot, size, 3, 9), -1, 0)
        [] OTHER -> Field(FALSE, spot, 0)

Relas == RelaPositions(Objs)

Relocate ==
  /\ stage = "relocate" /\ next < Len(Relas)
  /\ LET q == Relas[next + 1]
         f == FieldOf(q)
     IN  IF Suppressed(q) THEN next' = next + 1 /\ UNCHANGED <<words, stage, verdict>>
         ELSE IF ~f.ok THEN Fail("Relocation") /\ UNCHANGED <<words, next>>
         ELSE /\ words' = IF f.at < 0 THEN words
                          ELSE (<<WhereIs(<<q[1], q[2]>>)[1], f.at>> :> f.v) @@ words
              /\ next' = next + 1 /\ UNCHANGED <<stage, verdict>>
  /\ UNCHANGED <<job, outs, place, tls, tables, lay, image>>
-----------------------------------------------------------------------------
(* The contents of the linker's own sections.                              *)

SlotValue(slot) ==
  CASE slot.kind = "tpoff" -> TlsOffset(slot.target)
    [] slot.kind = "addr" /\ slot.target.kind \in {"import", "nothing"} -> Good(0)
    [] OTHER -> AddressOf(slot.target)

EntryAddr ==
  LET d == Globals[job.entry] IN
  CASE d = NoDef -> Bad
    [] d # NoDef /\ job.dynamic -> RawAddr(d)
    [] OTHER -> AddressOf(ToDef(d))

\* Mutant: the table keeps the order of the records.
RecordOrder(a, b) == a.fde < b.fde

\* The order of the search table.
ByPc(a, b) == a.pc < b.pc

\* build_eh_frame_hdr: [pc, fde] sorted by pc, both relative to the header.
UnwindTable ==
  LET e == EhFrame(outs)
      fdes == FdesOf(outs[e])
      hdr == Own(".eh_frame_hdr").v
      word(off) == IF <<e, off>> \in DOMAIN words THEN words[<<e, off>>] ELSE 0
      entry(f) == [pc |-> outs[e].v + f.off + 8 + word(f.off + 8) - hdr,
                   fde |-> outs[e].v + f.off - hdr]
      entries == [i \in DOMAIN fdes |-> entry(fdes[i])]
      rank(i) == Cardinality({j \in DOMAIN fdes :
                   \/ ByPc(entries[j], entries[i])
                   \/ ~ByPc(entries[i], entries[j]) /\ j <= i})
  IN  IF e = 0 THEN <<>>
      ELSE [n \in DOMAIN fdes |-> entries[CHOOSE i \in DOMAIN fdes : rank(i) = n]]

\* The stubs, by file offset: jmp *slot(%rip), and the index that is pushed.
Stubs ==
  LET code == IF job.dynamic THEN Own(".plt") ELSE Own(".iplt")
      at(k) == IF job.dynamic THEN 16 * (k + 1) ELSE 16 * k
  IN  [f \in {code.fo + at(k) : k \in 0 .. NPlt - 1} |->
         LET k == CHOOSE j \in 0 .. NPlt - 1 : code.fo + at(j) = f
         IN  [disp |-> GotPltSlot(k) - (code.v + at(k) + 6), push |-> k]]

\* .rela.plt and .rela.dyn, by file offset: [slot, type, arg], arg a symbol index
\* or a resolver.
PltRelas ==
  LET entry(k) ==
        IF k < NFunc THEN [slot |-> GotPltSlot(k), type |-> "JUMP_SLOT",
                           arg |-> FuncImports[k + 1]]
        ELSE [slot |-> GotPltSlot(k), type |-> "IRELATIVE",
              arg |-> RawAddr(tables.ifuncs[k - NFunc + 1].def).v]
      at(k) == Own(".rela.plt").fo + 24 * k
  IN  [f \in {at(k) : k \in 0 .. NPlt - 1} |->
         entry(CHOOSE k \in 0 .. NPlt - 1 : at(k) = f)]

DynRelas ==
  LET slots == SelectSeq([k \in DOMAIN tables.got |-> k],
                         LAMBDA k : tables.got[k].target.kind = "import")
      at(n) == Own(".rela.dyn").fo + 24 * (n - 1)
  IN  [f \in {at(n) : n \in DOMAIN slots} |->
         LET k == slots[CHOOSE n \in DOMAIN slots : at(n) = f]
         IN  [slot |-> Own(".got").v + 8 * (k - 1), type |-> "GLOB_DAT",
              arg |-> tables.got[k].target.import]]

\* .got and .got.plt, by file offset.
SlotWords ==
  LET got == [f \in {Own(".got").fo + 8 * (k - 1) : k \in DOMAIN tables.got} |->
                SlotValue(tables.got[1 + (f - Own(".got").fo) \div 8]).v]
      seed(k) == IF job.dynamic THEN PltStub(k) + 6
                 ELSE RawAddr(tables.ifuncs[k + 1].def).v
      at(k) == Own(".got.plt").fo + (GotPltSlot(k) - Own(".got.plt").v)
      plt == [f \in {at(k) : k \in 0 .. NPlt - 1} |->
                seed(CHOOSE k \in 0 .. NPlt - 1 : at(k) = f)]
      head == IF job.dynamic /\ NPlt > 0 THEN Own(".got.plt").fo :> Own(".dynamic").v
              ELSE <<>>
  IN  (IF tables.got = <<>> THEN <<>> ELSE got)
        @@ (IF NPlt = 0 THEN <<>> ELSE plt) @@ head

\* The dynamic symbols with their values: exports, and canonical stubs for the
\* imports whose address is taken.
PatchedSymbols ==
  LET syms == DynamicSymbols(Objs, tables.imports, tables.exports)
      n == Len(tables.imports.list)
  IN  [i \in DOMAIN syms |->
         CASE i > n -> [syms[i] EXCEPT !.value = AddressOf(tables.exports[i - n].target).v]
           [] i <= n /\ AddressTaken(Objs, tables.imports, i) ->
                [syms[i] EXCEPT !.value = PltStub(FuncSlot(i))]
           [] OTHER -> syms[i]]
-----------------------------------------------------------------------------
(* Headers.                                                                *)

Phdr(type, flags, off, v, filesz, memsz, align) ==
  [type |-> type, flags |-> flags, off |-> off, v |-> v, filesz |-> filesz,
   memsz |-> memsz, align |-> align]

\* gnu_stack_flags
StackFlags ==
  LET wanted == IF job.stack # <<>> THEN job.stack[1]
                ELSE \E o \in DOMAIN Objs : Objs[o].xstack
  IN  {"R", "W"} \cup IF wanted THEN {"X"} ELSE {}

PageStart(x) == x - (x % Page)

StaticLoads ==
  LET idx(a, b) == {lay.order[k] : k \in a .. b}
      rx == idx(1, lay.rw - 1)
      rw == idx(lay.rw, Len(lay.order))
      rxEnd == IF rx = {} THEN HeadersEnd ELSE Max({outs[i].fo + outs[i].size : i \in rx})
      first == outs[lay.order[lay.rw]]
      foEnd == Max({outs[i].fo + outs[i].size : i \in rw})
      vEnd == Max({outs[i].v + Extent(outs[i]) : i \in rw})
      exec == IF \E i \in rw : "X" \in outs[i].flags THEN {"X"} ELSE {}
  IN  <<Phdr("LOAD", {"R", "X"}, 0, Base, rxEnd, rxEnd, Page),
        IF rw = {} THEN Phdr("LOAD", {"R", "W"}, rxEnd, Base + rxEnd, 0, 0, Page)
        ELSE Phdr("LOAD", {"R", "W"} \cup exec, PageStart(first.fo), PageStart(first.v),
                  foEnd - PageStart(first.fo), vEnd - PageStart(first.v), Page)>>

DynamicLoads ==
  LET load(flags, s) == Phdr("LOAD", flags, s.fo, s.v, s.filesz, s.size, Page)
      exec == IF \E i \in DOMAIN outs : {"W", "X"} \subseteq outs[i].flags THEN {"X"} ELSE {}
      own(type, flags, name, align) ==
        Phdr(type, flags, Own(name).fo, Own(name).v, Own(name).size, Own(name).size, align)
  IN  <<own("INTERP", {"R"}, ".interp", 1),
        load({"R"}, lay.ro), load({"R", "X"}, lay.rx), load({"R", "W"} \cup exec, lay.rw),
        own("DYNAMIC", {"R", "W"}, ".dynamic", 8)>>

ProgramHeaders ==
  LET block == outs[TlsOutIndex]
      hdr == Own(".eh_frame_hdr")
  IN  (IF job.dynamic THEN DynamicLoads ELSE StaticLoads)
      \o (IF HasTls(tls) THEN <<Phdr("TLS", {"R"}, block.fo, block.v, block.size,
                                     tls.memsz, block.align)>> ELSE <<>>)
      \o (IF EhFrame(outs) # 0
            THEN <<Phdr("EH_FRAME", {"R"}, hdr.fo, hdr.v, hdr.size, hdr.size, 4)>> ELSE <<>>)
      \o <<Phdr("STACK", StackFlags, 0, 0, 0, 0, 0)>>

\* .dynamic: <<tag, value>>; a DT_NEEDED names a library.
DynamicEntries ==
  LET array(base, tag, size) ==
        IF base \notin ArraysPresent THEN <<>>
        ELSE <<<<tag, Bounds(base)[1]>>, <<size, Bounds(base)[2] - Bounds(base)[1]>>>>
      own(name) == Own(name).v
  IN  [i \in DOMAIN Needed |-> <<"NEEDED", i>>]
      \o <<<<"HASH", own(".hash")>>, <<"STRTAB", own(".dynstr")>>,
           <<"SYMTAB", own(".dynsym")>>, <<"STRSZ", Own(".dynstr").size>>,
           <<"SYMENT", 24>>>>
      \o (IF NPlt = 0 THEN <<>>
          ELSE <<<<"PLTGOT", own(".got.plt")>>, <<"PLTRELSZ", 24 * NPlt>>,
                 <<"PLTREL", 7>>, <<"JMPREL", own(".rela.plt")>>>>)
      \o (IF job.now THEN <<<<"FLAGS", 8>>>> ELSE <<>>)
      \o (IF NGlobDat = 0 THEN <<>>
          ELSE <<<<"RELA", own(".rela.dyn")>>, <<"RELASZ", 24 * NGlobDat>>,
                 <<"RELAENT", 24>>>>)
      \o (IF ~Versioned THEN <<>>
          ELSE <<<<"VERSYM", own(".gnu.version")>>, <<"VERNEED", own(".gnu.version_r")>>,
                 <<"VERNEEDNUM", Len(VersionNeeds(tables.imports))>>>>)
      \o array(".preinit_array", "PREINIT_ARRAY", "PREINIT_ARRAYSZ")
      \o array(".init_array", "INIT_ARRAY", "INIT_ARRAYSZ")
      \o array(".fini_array", "FINI_ARRAY", "FINI_ARRAYSZ")
      \o <<<<"NULL", 0>>>>

Shdr(name, v, fo, size) == [name |-> name, v |-> v, fo |-> fo, size |-> size, link |-> 0,
                            info |-> 0]

\* The section headers; the first, of index 0, is null.  Links and infos are the
\* indices mk returned; .dynsym and .rela.plt are patched once theirs are known.
StaticHeaders ==
  LET head(i) == Shdr(outs[i].name, outs[i].v, outs[i].fo, Extent(outs[i]))
  IN  <<Shdr("", 0, 0, 0)>> \o [k \in DOMAIN lay.order |-> head(lay.order[k])]
        \o <<Shdr(".shstrtab", 0, 0, 0)>>

DynsymIndex == 2
DynstrIndex == 4

\* Headers of the linker's own sections that are there.
OwnHeader(c, name, link) ==
  IF c THEN <<[Shdr(name, Own(name).v, Own(name).fo, Own(name).size) EXCEPT !.link = link]>>
  ELSE <<>>

\* Headers of the output sections P selects.
HeadersOf(P(_), Room(_)) ==
  LET idx == IndicesOf(outs, P) IN
  [k \in DOMAIN idx |->
     Shdr(outs[idx[k]].name, outs[idx[k]].v, outs[idx[k]].fo, Room(outs[idx[k]]))]

FrontHeaders ==
  <<Shdr("", 0, 0, 0)>> \o OwnHeader(TRUE, ".interp", 0)
  \o OwnHeader(TRUE, ".dynsym", DynstrIndex) \o OwnHeader(TRUE, ".hash", DynsymIndex)
  \o OwnHeader(TRUE, ".dynstr", 0)
  \o OwnHeader(Versioned, ".gnu.version", DynsymIndex)
  \o OwnHeader(Versioned, ".gnu.version_r", DynstrIndex)
  \o OwnHeader(NGlobDat > 0, ".rela.dyn", DynsymIndex)

MiddleHeaders ==
  OwnHeader(NPlt > 0, ".rela.plt", DynsymIndex)
  \o OwnHeader(EhFrame(outs) # 0, ".eh_frame_hdr", 0)
  \o HeadersOf(IsConstant, Bytes) \o HeadersOf(IsCode, Bytes)

DataHeaders ==
  OwnHeader(NPlt > 0, ".plt", 0) \o HeadersOf(IsData, Bytes)
  \o OwnHeader(tables.got # <<>>, ".got", 0)

DynamicHeaders ==
  LET before == FrontHeaders \o MiddleHeaders \o DataHeaders
      all == before \o OwnHeader(NPlt > 0, ".got.plt", 0)
             \o OwnHeader(TRUE, ".dynamic", DynstrIndex) \o HeadersOf(IsBss, Zeros)
             \o <<Shdr(".shstrtab", 0, 0, 0)>>
  IN  [headers |-> IF NPlt = 0 THEN all
                   ELSE [all EXCEPT ![Len(FrontHeaders) + 1].info = Len(before)],
       plt |-> Len(FrontHeaders \o MiddleHeaders)]
-----------------------------------------------------------------------------
(* The file: headers and tables, and words, stubs and relas by file offset. *)

FileWords ==
  LET at(k) == outs[k[1]].fo + k[2]
  IN  [f \in {at(k) : k \in DOMAIN words} |->
         words[CHOOSE k \in DOMAIN words : at(k) = f]]

NoAddress ==
  \/ \E k \in DOMAIN tables.got : ~SlotValue(tables.got[k]).ok
  \/ \E k \in DOMAIN tables.ifuncs : ~RawAddr(tables.ifuncs[k].def).ok
  \/ \E k \in DOMAIN tables.exports : ~AddressOf(tables.exports[k].target).ok
  \/ ~EntryAddr.ok
  \/ \E e \in ToSet(UnwindTable) : ~Fits(e.pc) \/ ~Fits(e.fde)

\* (A static link fills its slots before it relocates; whether the link fails is
\* the same.)
Finish ==
  /\ stage = "relocate" /\ next = Len(Relas)
  /\ IF NoAddress THEN Fail("Address") /\ UNCHANGED image
     ELSE /\ image' =
               [phdrs |-> ProgramHeaders, entry |-> EntryAddr.v,
                words |-> SlotWords @@ FileWords, stubs |-> Stubs,
                relas |-> PltRelas @@ DynRelas, unwind |-> UnwindTable,
                syms |-> IF job.dynamic THEN PatchedSymbols ELSE <<>>,
                hash |-> IF job.dynamic THEN HashTable(PatchedSymbols) ELSE <<>>,
                needs |-> VersionNeeds(tables.imports),
                dynamic |-> IF job.dynamic THEN DynamicEntries ELSE <<>>,
                headers |-> IF job.dynamic THEN DynamicHeaders
                            ELSE [headers |-> StaticHeaders, plt |-> 0]]
          /\ stage' = "done" /\ UNCHANGED verdict
  /\ UNCHANGED <<job, outs, place, tls, tables, lay, next, words>>

Over == stage \in {"done", "failed"} /\ UNCHANGED vars

Next ==
  \/ Merge \/ Resolve \/ BindStatic \/ BindDynamic \/ LayOutStatic \/ LayOutDynamic
  \/ Relocate \/ Finish \/ Over

Spec == Init /\ [][Next]_vars
-----------------------------------------------------------------------------
(* The program loader, the dynamic linker and static startup code, as far   *)
(* as they read the file.  An entity is what an address or a slot stands    *)
(* for at run time: an address, a symbol of a library, or what a resolver   *)
(* returns.                                                                *)

Loads == {ph \in ToSet(image.phdrs) : ph.type = "LOAD"}
Backing(a) ==
  {ph.off + (a - ph.v) : ph \in {l \in Loads : l.v <= a /\ a < l.v + l.filesz}}
MemWord(a) ==
  LET at == Backing(a) \cap DOMAIN image.words IN
  IF at = {} THEN 0 ELSE image.words[CHOOSE f \in at : TRUE]

Addr(a) == [kind |-> "addr", a |-> a, sym |-> <<0, NoName>>]
InLib(l, n) == [kind |-> "lib", a |-> 0, sym |-> <<l, n>>]
Resolved(a) == [kind |-> "resolved", a |-> a, sym |-> <<0, NoName>>]

TagValue(tag) ==
  LET at == {i \in DOMAIN image.dynamic : image.dynamic[i][1] = tag} IN
  IF at = {} THEN 0 ELSE image.dynamic[Min(at)][2]

\* The relocation entries in so many bytes at an address, in order.
EntriesAt(a, size) ==
  [k \in 1 .. size \div 24 |->
     image.relas[CHOOSE f \in Backing(a + 24 * (k - 1)) : TRUE]]

Processed ==
  IF job.dynamic
    THEN EntriesAt(TagValue("JMPREL"), TagValue("PLTRELSZ"))
           \o EntriesAt(TagValue("RELA"), TagValue("RELASZ"))
    ELSE EntriesAt(IpltBounds[1], IpltBounds[2] - IpltBounds[1])

\* The entries of the hash chain of a name, in order.
ChainOf(n) ==
  LET nbucket == Cardinality(DOMAIN image.hash.buckets)
      walk[k \in 0 .. nbucket] ==
        IF k = 0 THEN image.hash.buckets[ElfHash[n] % nbucket]
        ELSE image.hash.chain[walk[k - 1]]
  IN  SelectSeq([k \in 1 .. nbucket + 1 |-> walk[k - 1]],
                LAMBDA i : i # 0 /\ image.syms[i].name = n)

\* The version an index stands for.
VersionNamed(index) ==
  LET found == {a \in UNION {ToSet(image.needs[k].aux) : k \in DOMAIN image.needs} :
                  a.index = index}
  IN  IF found = {} THEN "" ELSE (CHOOSE a \in found : TRUE).ver

\* The lookup of a name and version, from the executable on.  An undefined entry
\* with a value answers all but calls.
Lookup(n, ver, call) ==
  LET answers(i) == LET s == image.syms[i] IN
        /\ s.shndx # "UND" \/ (~call /\ s.value # 0)
        /\ ver = "" \/ VersionNamed(s.ver) \in {"", ver}
      own == SelectSeq(ChainOf(n), answers)
      libs == {l \in DOMAIN job.libs : \E x \in DOMAIN job.libs[l].exports :
                 /\ x = n \/ (x \in DOMAIN BaseOf /\ BaseOf[x] = n)
                 /\ ver \in {"", job.libs[l].exports[x].ver}}
  IN  CASE own # <<>> -> Addr(image.syms[own[1]].value)
        [] own = <<>> /\ libs # {} -> InLib(Min(libs), n)
        [] OTHER -> Addr(0)

\* What a slot holds when it is used.
Slot(a) ==
  LET es == SelectSeq(Processed, LAMBDA e : e.slot = a)
      e == es[1]
      sym == image.syms[e.arg]
  IN  CASE es = <<>> -> Addr(MemWord(a))
        [] es # <<>> /\ e.type = "IRELATIVE" -> Resolved(e.arg)
        [] OTHER -> Lookup(sym.name, VersionNamed(sym.ver), e.type = "JUMP_SLOT")

\* Where a jump to an entity ends up.
Jump(x) ==
  LET at == Backing(x.a) \cap DOMAIN image.stubs IN
  IF x.kind # "addr" \/ at = {} THEN x
  ELSE Slot(x.a + 6 + image.stubs[CHOOSE f \in at : TRUE].disp)
-----------------------------------------------------------------------------
(* What a finished image promises.                                         *)

\* Ranges of the image with contents: the headers, the output sections, the
\* sections of a dynamic executable that the linker makes.
Chunks ==
  LET chunk(id, v, fo, size, need) ==
        [id |-> id, v |-> v, fo |-> fo, size |-> size, need |-> need]
      need(name) == CASE name = ".plt" -> {"X"}
                      [] name \in {".got", ".got.plt", ".dynamic"} -> {"W"}
                      [] OTHER -> {}
      own == IF job.dynamic THEN DOMAIN lay.own ELSE {}
      all == {chunk(<<0, "">>, Base, 0, HeadersEnd, {})}
             \cup {chunk(<<i, "">>, outs[i].v, outs[i].fo, outs[i].size,
                         outs[i].flags \cap {"W", "X"}) :
                     i \in {j \in DOMAIN outs : ~outs[j].nobits}}
             \cup {chunk(<<0, n>>, Own(n).v, Own(n).fo, Own(n).size, need(n)) : n \in own}
  IN  {c \in all : c.size > 0}

Zeroed ==
  {[id |-> <<i, "">>, v |-> outs[i].v, size |-> outs[i].bss] :
     i \in {j \in DOMAIN outs : outs[j].nobits /\ outs[j].bss > 0}}

PagesEnd(l) == PageStart(l.v + l.memsz - 1) + Page

Apart(a, n, b, m) == a + n <= b \/ b + m <= a

\* The storage of input sections and tentative definitions: [id, out, off, size,
\* align]; out is 0 in the TLS block.
Storage ==
  LET piece(id, out, off, size, align) ==
        [id |-> id, out |-> out, off |-> off, size |-> size, align |-> align]
      secs == {piece(p \o <<0>>, place.secs[p][1], place.secs[p][2], SectionAt(Objs, p).size,
                     SectionAt(Objs, p).align) : p \in DOMAIN place.secs}
      commons == {piece(d \o <<1>>, place.commons[d][1], place.commons[d][2],
                        SymbolAt(Objs, d).size, CommonAlign(SymbolAt(Objs, d))) :
                    d \in DOMAIN place.commons}
      threads == {piece(p \o <<0>>, 0, tls.place[p], SectionAt(Objs, p).size,
                        IF SectionAt(Objs, p).nobits THEN 1 ELSE SectionAt(Objs, p).align) :
                    p \in DOMAIN tls.place}
  IN  secs \cup commons \cup threads

\* The loader maps every section of the file at its address with the access it
\* asks for, zeroes what has no contents, and nothing overlaps: chunks of the
\* file, sections and pages of segments in memory, the storage of two inputs.
\* Inputs are aligned (but for .tbss: see the hazards).
SectionsLoad ==
  stage = "done" =>
    /\ \A c \in Chunks : \E l \in Loads :
         /\ l.v <= c.v /\ c.v + c.size <= l.v + l.filesz
         /\ c.fo - l.off = c.v - l.v /\ c.need \subseteq l.flags
    /\ \A z \in Zeroed : \E l \in Loads :
         l.v + l.filesz <= z.v /\ z.v + z.size <= l.v + l.memsz /\ "W" \in l.flags
    /\ \A c, d \in Chunks : c = d \/ Apart(c.fo, c.size, d.fo, d.size)
    /\ \A c, d \in {[id |-> x.id, v |-> x.v, size |-> x.size] : x \in Chunks} \cup Zeroed :
         c = d \/ Apart(c.v, c.size, d.v, d.size)
    /\ \A l, m \in {x \in Loads : x.memsz > 0} :
         /\ l.off % Page = l.v % Page
         /\ l = m \/ PagesEnd(l) <= PageStart(m.v) \/ PagesEnd(m) <= PageStart(l.v)
    /\ \A a, b \in Storage :
         \/ a.id = b.id \/ a.out # b.out \/ a.size = 0 \/ b.size = 0
         \/ Apart(a.off, a.size, b.off, b.size)
    /\ \A a \in Storage :
         /\ a.off + a.size <= IF a.out = 0 THEN tls.memsz ELSE Extent(outs[a.out])
         /\ (a.off + IF a.out = 0 THEN 0 ELSE outs[a.out].v) % (IF a.align > 1 THEN a.align ELSE 1) = 0

FieldAddr(q) ==
  LET w == WhereIs(<<q[1], q[2]>>)
      r == RelaAt(Objs, q)
  IN  outs[w[1]].v + w[2] + r.off + IF r.type = "TLSGD" THEN 8 ELSE 0

\* What a reference means: what is chosen for its name, else the linker's symbol,
\* else the first library's (for a weak reference, if some other is not weak).
Meaning(o, si) ==
  LET s == Objs[o].syms[si]
      own == StaticTarget(Objs, Globals, o, si)
      libs == {l \in DOMAIN job.libs : s.name \in DOMAIN job.libs[l].exports}
      strong == \E x \in ToSet(AllSymbols(Objs)) : IsStrongReference(x) /\ x.name = s.name
      base == IF s.name \in DOMAIN BaseOf THEN BaseOf[s.name] ELSE s.name
  IN  IF own.kind \in {"def", "linker"} \/ ~job.dynamic \/ libs = {} \/ ~strong THEN own
      ELSE ToImport(Min(libs), base)

Denotes(x, t) ==
  CASE t.kind = "def" /\ IsIfunc(Objs, t) -> Jump(x) = Resolved(RawAddr(t.def).v)
    [] t.kind = "def" /\ ~IsIfunc(Objs, t) -> x = Addr(RawAddr(t.def).v)
    [] t.kind = "linker" -> x = Addr(LinkerAddr(t.name))
    [] t.kind = "import" -> Jump(x) = InLib(t.import, t.name)
    [] OTHER -> x = Addr(0)

\* The distance of a thread-local from the thread pointer, by PT_TLS.
FromThreadPointer(t) ==
  LET ph == CHOOSE h \in ToSet(image.phdrs) : h.type = "TLS"
      s == SymbolAt(Objs, t.def)
  IN  IF t.kind # "def" THEN 0
      ELSE tls.place[<<t.def[1], s.sec>>] + s.value - NextMultiple(ph.memsz, ph.align)

\* What the code at a relocation gets.
Obtained(q) ==
  LET r == RelaAt(Objs, q)
      a == FieldAddr(q)
  IN  CASE r.type \in {"64", "32", "32S"} -> Addr(MemWord(a) - r.add)
        [] r.type \in {"PC32", "PLT32"} -> Addr(a + MemWord(a) - r.add)
        [] r.type \in {"GOTPCREL", "GOTTPOFF"} -> Slot(a + MemWord(a) - r.add)

Kept(types) ==
  {q \in ToSet(Relas) : RelaAt(Objs, q).type \in types /\ ~Suppressed(q)}
Addressing == {"64", "32", "32S", "PC32", "PLT32", "GOTPCREL"}

\* In the image at run time, every reference reaches what its symbol means:
\* through a stub and its slot for IFUNCs and library functions, through a GOT
\* slot, or directly; thread-locals by their distance from the thread pointer.
\* A stub that is not bound yet asks for the relocation of its own slot.
ReferencesReach ==
  stage = "done" =>
    /\ \A q \in Kept(Addressing) : Denotes(Obtained(q), Meaning(q[1], RelaAt(Objs, q).sym))
    /\ \A q \in Kept({"GOTTPOFF"}) :
         Obtained(q) = Addr(FromThreadPointer(Meaning(q[1], RelaAt(Objs, q).sym)))
    /\ \A q \in Kept({"TPOFF32", "DTPOFF32", "DTPOFF64"}) :
         MemWord(FieldAddr(q)) - RelaAt(Objs, q).add
           = FromThreadPointer(Meaning(q[1], RelaAt(Objs, q).sym))
    /\ job.dynamic => \A k \in 0 .. NPlt - 1 :
         LET stub == image.stubs[CHOOSE f \in Backing(PltStub(k)) : TRUE]
             slot == PltStub(k) + 6 + stub.disp
         IN  /\ MemWord(slot) = PltStub(k) + 6
             /\ EntriesAt(TagValue("JMPREL"), TagValue("PLTRELSZ"))[stub.push + 1].slot = slot
    /\ Denotes(Addr(image.entry), ToDef(Globals[job.entry]))

\* A general dynamic access, rewritten to local exec, addresses its variable; the
\* addend of -4 only makes up for the place of the field.
GeneralDynamicReaches ==
  stage = "done" =>
    \A q \in Kept({"TLSGD"}) :
      MemWord(FieldAddr(q)) - (RelaAt(Objs, q).add + 4)
        = FromThreadPointer(Meaning(q[1], RelaAt(Objs, q).sym))

\* The address a name has: everywhere the program takes it, and in every library
\* that looks it up, unless the library's own definition is hidden from it by
\* the program's.
AddressesOf(n) ==
  {Obtained(q) : q \in
     {p \in Kept(Addressing \ {"PLT32"}) :
        LET s == Objs[p[1]].syms[RelaAt(Objs, p).sym]
        IN  s.name = n /\ s.bind # "LOCAL"}}
  \cup
  {Lookup(n, job.libs[l].exports[n].ver, FALSE) : l \in
     {k \in DOMAIN job.libs : n \in DOMAIN job.libs[k].exports /\ Globals[n] = NoDef
                                /\ n \in {tables.imports.list[i].name :
                                            i \in {j \in DOMAIN tables.imports.list :
                                                     tables.imports.list[j].lib = k}}}}
  \cup
  {Lookup(n, "", FALSE) : l \in {k \in DOMAIN job.libs : n \in ToSet(job.libs[k].undefs)}}

\* A function or variable has one address, whoever takes it: objects of the
\* program by pointer, by displacement or through the GOT, and libraries.
OneIdentity ==
  stage = "done" => \A n \in Names : Cardinality(AddressesOf(n)) <= 1

ArraySections(base) ==
  {p \in ToSet(SectionPositions(Objs)) : SectionAt(Objs, p).name = base}
ArrayTags == (".preinit_array" :> <<"PREINIT_ARRAY", "PREINIT_ARRAYSZ">>)
               @@ (".init_array" :> <<"INIT_ARRAY", "INIT_ARRAYSZ">>)
               @@ (".fini_array" :> <<"FINI_ARRAY", "FINI_ARRAYSZ">>)

\* The linker's bracket symbols, and the dynamic tags, enclose the array entries of
\* all objects and nothing else, in order of priority and, among equals, of input.
ConstructorsInOrder ==
  stage = "done" => \A base \in ToSet(ArrayBases) :
    LET secs == {p \in ArraySections(base) : SectionAt(Objs, p).size > 0}
        at(p) == outs[place.secs[p][1]].v + place.secs[p][2]
        ends(p) == at(p) + SectionAt(Objs, p).size
        first(p, q) == LET a == Priority(SectionAt(Objs, p))
                           b == Priority(SectionAt(Objs, q))
                       IN  a < b \/ (a = b /\ Before(p, q))
        span == Bounds(base)
    IN  /\ \A p \in secs : span[1] <= at(p) /\ ends(p) <= span[2]
        /\ \A p, q \in secs : first(p, q) => ends(p) <= at(q)
        /\ \A p \in secs : at(p) = span[1] \/ \E q \in secs : ends(q) = at(p)
        /\ secs # {} => \E p \in secs : ends(p) = span[2]
        /\ (job.dynamic /\ secs # {}) =>
             /\ TagValue(ArrayTags[base][1]) = span[1]
             /\ TagValue(ArrayTags[base][2]) = span[2] - span[1]

\* The binary search table has an entry, sorted by function, for every unwind
\* record of every object, and fills the range of the image that PT_GNU_EH_FRAME
\* names.
UnwindIndexComplete ==
  (stage = "done" /\ job.hdr) =>
    LET hdr == {ph \in ToSet(image.phdrs) : ph.type = "EH_FRAME"}
        entry(p, rec) ==
          LET sec == SectionAt(Objs, p)
              w == place.secs[p]
              r == CHOOSE x \in ToSet(sec.relas) : x.off = rec.off + 8
          IN  [pc |-> RawAddr(StaticTarget(Objs, Globals, p[1], r.sym).def).v + r.add,
               fde |-> outs[w[1]].v + w[2] + rec.off]
        wanted == UNION {{entry(p, rec) : rec \in
                            {x \in ToSet(SectionAt(Objs, p).recs) : x.kind = "FDE"}} :
                           p \in ToSet(SectionPositions(Objs))}
    IN  /\ wanted # {} => hdr # {}
        /\ \A ph \in hdr :
             /\ {[pc |-> e.pc + ph.v, fde |-> e.fde + ph.v] : e \in ToSet(image.unwind)}
                  = wanted
             /\ ph.filesz = 12 + 8 * Len(image.unwind)
             /\ \A i \in 1 .. Len(image.unwind) - 1 :
                  image.unwind[i].pc < image.unwind[i + 1].pc

\* The section header a name has, by index from 0.
HeaderIndex(name) ==
  (CHOOSE i \in DOMAIN image.headers.headers : image.headers.headers[i].name = name) - 1

Links == {<<".dynsym", ".dynstr">>, <<".hash", ".dynsym">>, <<".gnu.version", ".dynsym">>,
          <<".gnu.version_r", ".dynstr">>, <<".rela.dyn", ".dynsym">>,
          <<".rela.plt", ".dynsym">>, <<".dynamic", ".dynstr">>}

\* The tables of a dynamic executable agree: .dynamic fills the room laid out for
\* it; a search through .hash finds every symbol; the version index of an import
\* is its version of its library; the IRELATIVE bracket holds every IFUNC and
\* nothing else; header links and indices name the sections they mean.
TablesAgree ==
  (stage = "done" /\ job.dynamic) =>
    LET heads == image.headers.headers
        iplt == EntriesAt(IpltBounds[1], IpltBounds[2] - IpltBounds[1])
    IN  /\ 16 * Len(image.dynamic) = Own(".dynamic").size
        /\ \A i \in DOMAIN image.syms : i \in ToSet(ChainOf(image.syms[i].name))
        /\ \A i \in DOMAIN tables.imports.list :
             LET import == tables.imports.list[i]
                 needs == {k \in DOMAIN image.needs : \E a \in ToSet(image.needs[k].aux) :
                             a.index = image.syms[i].ver}
             IN  /\ VersionNamed(image.syms[i].ver) = import.ver
                 /\ import.ver # "" => {image.needs[k].lib : k \in needs} = {import.lib}
        /\ {e.arg : e \in ToSet(iplt)}
             = {RawAddr(tables.ifuncs[k].def).v : k \in DOMAIN tables.ifuncs}
        /\ \A e \in ToSet(iplt) : e.type = "IRELATIVE"
        /\ \A l \in Links : (\E h \in ToSet(heads) : h.name = l[1]) =>
             heads[HeaderIndex(l[1]) + 1].link = HeaderIndex(l[2])
        /\ NPlt > 0 => /\ heads[HeaderIndex(".rela.plt") + 1].info = HeaderIndex(".got.plt")
                       /\ image.headers.plt = HeaderIndex(".plt")
=============================================================================
