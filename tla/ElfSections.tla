---------------------------- MODULE ElfSections ----------------------------
(***************************************************************************)
(* What link_static_exec_with_policy and link_dynamic_exec_with_policy     *)
(* (src/src/elf.rs) build before they lay the image out: output sections,  *)
(* tentative storage, constructor arrays, the TLS block.                   *)
(*                                                                         *)
(* To the symbols of ElfInputs an image adds typ, and value for the offset *)
(* in the section (the number itself for SHN_ABS).  A section is           *)
(*   [name, suffix, flags, ent, nobits, align, size, relas, recs]          *)
(* with flags a subset of {"W", "X", "T", "M"} (write, execute, TLS,       *)
(* merge), suffix what follows a dot after the name of an array (<<>>, or  *)
(* <<number>>, -1 for what is no number), relas a sequence of              *)
(*   [off, type, sym, add, pro]                                            *)
(* (pro: the instructions before a TLS access are the ones expected),      *)
(* and recs the unwind records of an .eh_frame: [kind, off, len, cie, enc].*)
(* The relocation type GOTPCREL stands for the three that is_gotpcrel      *)
(* accepts.                                                                *)
(***************************************************************************)
EXTENDS ElfInputs

NextMultiple(v, a) ==
  LET m == IF a > 1 THEN a ELSE 1 IN ((v + m - 1) \div m) * m

ArrayBases == <<".preinit_array", ".init_array", ".fini_array">>
LastPriority == 1000000

IsArray(sec) == sec.name \in ToSet(ArrayBases)

\* array_kind: an array without a number runs last.
Priority(sec) ==
  IF sec.suffix = <<>> \/ sec.suffix = <<-1>> THEN LastPriority ELSE sec.suffix[1]

IsTls(sec) == "T" \in sec.flags

SectionPositions(objs) ==
  FlattenSeq([o \in DOMAIN objs |-> [s \in DOMAIN objs[o].secs |-> <<o, s>>]])
SectionAt(objs, p) == objs[p[1]].secs[p[2]]

RelaPositions(objs) ==
  LET at(p) == [r \in DOMAIN SectionAt(objs, p).relas |-> <<p[1], p[2], r>>]
      ps == SectionPositions(objs)
  IN  FlattenSeq([i \in DOMAIN ps |-> at(ps[i])])
RelaAt(objs, q) == SectionAt(objs, q).relas[q[3]]

\* Widths of the fields relocations write; an unknown type needs one byte.
Width(type) ==
  CASE type \in {"64", "DTPOFF64"} -> 8
    [] type \in {"PC32", "PLT32", "GOTPCREL", "32", "32S", "TLSGD", "TLSLD",
                 "DTPOFF32", "GOTTPOFF", "TPOFF32"} -> 4
    [] OTHER -> 1

\* validate_object_relocations
BadRelocation(objs) ==
  \/ \E o \in DOMAIN objs : \E s \in ToSet(objs[o].syms) : s.sec > Len(objs[o].secs)
  \/ \E q \in ToSet(RelaPositions(objs)) :
       LET r == RelaAt(objs, q)
           sec == SectionAt(objs, q)
       IN  \/ r.sym > Len(objs[q[1]].syms)
           \/ r.off + Width(r.type) > (IF sec.nobits THEN 0 ELSE sec.size)
-----------------------------------------------------------------------------
(* Output sections.  A builder b is [outs, place, err]: OutSec records, the *)
(* output section and offset of every input section, the error met.        *)

NewOut(name, flags, ent, align, nobits) ==
  [name |-> name, flags |-> flags, ent |-> ent, align |-> align, nobits |-> nobits,
   size |-> 0, bss |-> 0, recs |-> <<>>, v |-> 0, fo |-> 0]

\* A section of the linker's own, with contents of the given size.
OwnOut(name, flags, align, size) ==
  [NewOut(name, flags, 0, align, FALSE) EXCEPT !.size = size]

Extent(out) == IF out.nobits THEN out.bss ELSE out.size

\* Where a contribution of this alignment starts in an output section.
AlignedEnd(out, align) == NextMultiple(Extent(out), align)

Extended(out, at, n) ==
  IF out.nobits THEN [out EXCEPT !.bss = at + n] ELSE [out EXCEPT !.size = at + n]

\* The section's bytes, and its unwind records, appended to an output section.
Contribute(out, sec, at) ==
  LET moved == [i \in DOMAIN sec.recs |->
                  [sec.recs[i] EXCEPT !.off = @ + at, !.cie = @ + at]]
  IN  [Extended(out, at, sec.size) EXCEPT !.recs = @ \o moved]

\* validate_output_section_metadata
BadMetadata(outs, sec) ==
  \/ "M" \in sec.flags /\ sec.ent = 0
  \/ /\ sec.name = ".eh_frame"
     /\ LET same == {i \in DOMAIN outs : outs[i].name = ".eh_frame"}
        IN  same # {} /\ outs[Min(same)].flags # sec.flags

MergeOne(objs, b, p) ==
  LET sec == SectionAt(objs, p)
      same == {i \in DOMAIN b.outs : /\ b.outs[i].name = sec.name
                                     /\ b.outs[i].flags = sec.flags
                                     /\ b.outs[i].ent = sec.ent}
      outs == IF same # {} THEN b.outs
              ELSE Append(b.outs, NewOut(sec.name, sec.flags, sec.ent, 1, sec.nobits))
      i == IF same # {} THEN Min(same) ELSE Len(outs)
      at == AlignedEnd(outs[i], sec.align)
      aligned == [outs[i] EXCEPT !.align = Max({@, sec.align})]
  IN  CASE b.err # "" \/ IsTls(sec) \/ IsArray(sec) -> b
        [] b.err = "" /\ ~IsTls(sec) /\ ~IsArray(sec) /\ BadMetadata(b.outs, sec) ->
             [b EXCEPT !.err = "Metadata"]
        [] OTHER ->
             IF outs[i].nobits # sec.nobits THEN [b EXCEPT !.err = "Nobits"]
             ELSE [b EXCEPT !.outs = [outs EXCEPT ![i] = Contribute(aligned, sec, at)],
                            !.place = (p :> <<i, at>>) @@ @]

MergeSections(objs) ==
  FoldLeft(LAMBDA b, p : MergeOne(objs, b, p),
           [outs |-> <<>>, place |-> <<>>, err |-> ""], SectionPositions(objs))

\* ensure_common_bss and place_common_symbols: each chosen tentative definition
\* gets zeroed storage in the plain .bss.
PlaceCommon(objs, b, d) ==
  LET s == SymbolAt(objs, d)
      plain == {i \in DOMAIN b.outs : /\ b.outs[i].name = ".bss" /\ b.outs[i].flags = {"W"}
                                      /\ b.outs[i].ent = 0}
      outs == IF plain # {} THEN b.outs ELSE Append(b.outs, NewOut(".bss", {"W"}, 0, 1, TRUE))
      i == IF plain # {} THEN Min(plain) ELSE Len(outs)
      at == AlignedEnd(outs[i], CommonAlign(s))
  IN  CASE b.err # "" -> b
        [] b.err = "" /\ ~outs[i].nobits -> [b EXCEPT !.err = "CommonBss"]
        [] OTHER ->
             [b EXCEPT !.outs = [outs EXCEPT ![i] =
                                   [Extended(@, at, s.size) EXCEPT
                                      !.align = Max({@, CommonAlign(s)})]],
                       !.commons = (d :> <<i, at>>) @@ @]

PlaceCommons(objs, globals, b) ==
  LET chosen == SelectSeq(Positions(objs), LAMBDA d :
                  /\ SymbolAt(objs, d).shndx = "COMMON"
                  /\ DefinedIdentity(objs, globals, d) = d)
      start == [outs |-> b.outs, place |-> b.place, err |-> b.err, commons |-> <<>>]
  IN  FoldLeft(LAMBDA acc, d : PlaceCommon(objs, acc, d), start, chosen)

\* Mutant: arrays run in the order they were given.
RunsAsGiven(objs, p, q) == FALSE

\* Does array contribution p run before the later contribution q whatever their order?
RunsBefore(objs, p, q) == Priority(SectionAt(objs, p)) < Priority(SectionAt(objs, q))

\* sort_by_key over (priority, position in the input).
ArrayParts(objs, base) ==
  LET parts == SelectSeq(SectionPositions(objs), LAMBDA p : SectionAt(objs, p).name = base)
      rank(k) == Cardinality({j \in DOMAIN parts :
                   \/ RunsBefore(objs, parts[j], parts[k])
                   \/ ~RunsBefore(objs, parts[k], parts[j]) /\ j <= k})
  IN  [n \in DOMAIN parts |-> parts[CHOOSE k \in DOMAIN parts : rank(k) = n]]

\* One output section per kind of array, in priority order.
MergeArrays(objs, b0) ==
  LET one(b, base) ==
        LET parts == ArrayParts(objs, base)
            align == Max({8} \cup {SectionAt(objs, p).align : p \in ToSet(parts)})
            step(acc, p) ==
              LET sec == SectionAt(objs, p)
                  at == AlignedEnd(acc.out, sec.align)
              IN  [out |-> Contribute(acc.out, sec, at),
                   place |-> (p :> <<Len(b.outs) + 1, at>>) @@ acc.place]
            done == FoldLeft(step, [out |-> NewOut(base, {"W"}, 8, align, FALSE),
                                    place |-> b.place], parts)
        IN  IF parts = <<>> THEN b
            ELSE [b EXCEPT !.outs = Append(@, done.out), !.place = done.place]
  IN  FoldLeft(one, b0, ArrayBases)
-----------------------------------------------------------------------------
(* The TLS block: every .tdata, then every .tbss.                          *)

TlsParts(objs, nobits) ==
  SelectSeq(SectionPositions(objs), LAMBDA p :
    IsTls(SectionAt(objs, p)) /\ SectionAt(objs, p).nobits = nobits)

\* [place, size] of the parts put one after the other, shifted by base.
TlsStretch(objs, parts, base) ==
  LET step(acc, p) ==
        LET sec == SectionAt(objs, p)
            at == NextMultiple(acc.size, sec.align)
        IN  [place |-> (p :> base + at) @@ acc.place, size |-> at + sec.size]
  IN  FoldLeft(step, [place |-> <<>>, size |-> 0], parts)

TlsBlock(objs) ==
  LET data == TlsStretch(objs, TlsParts(objs, FALSE), 0)
      zero == TlsStretch(objs, TlsParts(objs, TRUE), data.size)
      all == ToSet(TlsParts(objs, FALSE)) \cup ToSet(TlsParts(objs, TRUE))
      align == Max({1} \cup {SectionAt(objs, p).align : p \in all})
      memsz == data.size + zero.size
  IN  [place |-> data.place @@ zero.place, filesz |-> data.size, memsz |-> memsz,
       align |-> align, negBase |-> NextMultiple(memsz, align)]

HasTls(tls) == tls.memsz > 0

\* The synthetic section that anchors PT_TLS.
TlsOut(tls) ==
  OwnOut(IF tls.filesz = 0 THEN ".tbss" ELSE ".tdata", {"W", "T"}, tls.align, tls.filesz)
=============================================================================
