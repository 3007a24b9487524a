---------------------------- MODULE RelocStream ----------------------------
(***************************************************************************)
(* The relocation stream of a Mach-O section (src/reloc/mod.rs): the       *)
(* fusion of raw relocation_info entries into linker relocations, where an *)
(* ADDEND prefix and a SUBTRACTOR wait for the entry they belong to, and   *)
(* the encoder that lowers relocations to raw entries again.               *)
(***************************************************************************)
EXTENDS Integers, Sequences, SequencesExt

CONSTANTS
  AddendSpan,    \* 2^24: the values of the field that carries an addend
  SectionLimit   \* u8::MAX: the largest section index a relocation can name

ASSUME RelocStreamAssumption ==
  /\ AddendSpan \in Nat /\ AddendSpan % 2 = 0 /\ AddendSpan > 0
  /\ SectionLimit \in Nat

\* No error. A pending entry, an addend or a subtrahend is a sequence of at most one.
None == "none"

PrimaryTypes ==
  {"UNSIGNED", "BRANCH26", "PAGE21", "PAGEOFF12", "GOT_LOAD_PAGE21", "GOT_LOAD_PAGEOFF12",
   "POINTER_TO_GOT", "TLVP_LOAD_PAGE21", "TLVP_LOAD_PAGEOFF12"}

SignExtend(v) == IF v >= AddendSpan \div 2 THEN v - AddendSpan ELSE v

\* A raw entry names a symbol, or a section by an index that has to be one.
ReferentFrom(raw) == [ext |-> raw.ext, num |-> raw.num]
ReferentValid(raw) == raw.ext \/ raw.num \in 1 .. SectionLimit

\* What a primary entry reports first, with the SUBTRACTOR waiting for it.
PrimaryError(raw, sub) ==
  CASE raw.type \notin PrimaryTypes -> "unknown type"
    [] ~ReferentValid(raw) -> "bad section"
    [] sub = <<>> -> None
    [] raw.type # "UNSIGNED" -> "subtractor not followed by unsigned"
    [] sub[1].addr # raw.addr -> "pair at two addresses"
    [] sub[1].len # raw.len -> "pair of two lengths"
    [] ~ReferentValid(sub[1]) -> "bad section"
    [] OTHER -> None

\* A mutant: the pair forgets the addend that stood between its halves.
ForgetsPairAddend(raw, addend, sub) ==
  [off |-> raw.addr, len |-> raw.len, pcrel |-> raw.pcrel, ref |-> ReferentFrom(raw),
   kind |-> IF sub = <<>> THEN raw.type ELSE "SUBTRACTOR",
   addend |-> IF addend = <<>> \/ sub # <<>> THEN 0 ELSE addend[1],
   sub |-> [i \in DOMAIN sub |-> ReferentFrom(sub[i])]]

Fuse(raw, addend, sub) ==
  [off |-> raw.addr, len |-> raw.len, pcrel |-> raw.pcrel, ref |-> ReferentFrom(raw),
   kind |-> IF sub = <<>> THEN raw.type ELSE "SUBTRACTOR",
   addend |-> IF addend = <<>> THEN 0 ELSE addend[1],
   sub |-> [i \in DOMAIN sub |-> ReferentFrom(sub[i])]]

\* One raw entry, in the state the entries before it left; an error ends the loop.
ParseEntry(st, raw) ==
  CASE st.err # None -> st
    [] raw.type = "ADDEND" ->
         IF st.addend # <<>> THEN [st EXCEPT !.err = "two addends"]
         ELSE IF raw.ext THEN [st EXCEPT !.err = "extern addend"]
         ELSE [st EXCEPT !.addend = <<SignExtend(raw.num)>>]
    [] raw.type = "SUBTRACTOR" ->
         IF st.sub # <<>> THEN [st EXCEPT !.err = "two subtractors"]
         ELSE [st EXCEPT !.sub = <<raw>>]
    [] OTHER ->
         LET err == PrimaryError(raw, st.sub)
         IN  IF err # None THEN [st EXCEPT !.err = err]
             ELSE [out |-> Append(st.out, Fuse(raw, st.addend, st.sub)),
                   addend |-> <<>>, sub |-> <<>>, err |-> None]

\* parse_relocs: nothing may be left waiting when the stream ends.
ParseRelocs(raws) ==
  LET ended(st) ==
        CASE st.err # None -> [relocs |-> <<>>, err |-> st.err]
          [] st.addend # <<>> -> [relocs |-> <<>>, err |-> "trailing addend"]
          [] st.sub # <<>> -> [relocs |-> <<>>, err |-> "trailing subtractor"]
          [] OTHER -> [relocs |-> st.out, err |-> None]
  IN  ended(FoldLeft(ParseEntry, [out |-> <<>>, addend |-> <<>>, sub |-> <<>>, err |-> None], raws))

\* The three raw entries a relocation can lower to.
AddendPrefix(r) ==
  [addr |-> r.off, num |-> r.addend % AddendSpan, pcrel |-> FALSE, len |-> r.len, ext |-> FALSE,
   type |-> "ADDEND"]
RawEntry(r, ref, type, pcrel) ==
  [addr |-> r.off, num |-> ref.num, pcrel |-> pcrel, len |-> r.len, ext |-> ref.ext, type |-> type]

WriteReloc(r) ==
  LET addend == IF r.addend # 0 THEN <<AddendPrefix(r)>> ELSE <<>>
  IN  IF r.kind = "SUBTRACTOR"
      THEN <<RawEntry(r, r.sub[1], "SUBTRACTOR", FALSE)>> \o addend
             \o <<RawEntry(r, r.ref, "UNSIGNED", FALSE)>>
      ELSE addend \o <<RawEntry(r, r.ref, r.kind, r.pcrel)>>

\* write_relocs, for relocations whose addends fit (those a stream was parsed into do).
WriteRelocs(relocs) == FlattenSeq([i \in DOMAIN relocs |-> WriteReloc(relocs[i])])
=============================================================================
