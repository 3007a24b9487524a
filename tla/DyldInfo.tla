------------------------------ MODULE DyldInfo ------------------------------
(***************************************************************************)
(* The classic dyld info streams (src/src/synth/dyld_info.rs and           *)
(* build_rebase_stream of src/src/macho/writer.rs): run-length encoded     *)
(* programs for a small machine, and that machine, which is dyld's.  An    *)
(* opcode is a record of its name and its operands; offsets into a stream  *)
(* count opcodes instead of bytes.                                         *)
(*                                                                         *)
(* A bind is [seg, off, ordinal, name, weak, addend], a rebase site        *)
(* [seg, off].  Ordinals are 16 bits wide.                                 *)
(***************************************************************************)
EXTENDS Integers, Sequences, SequencesExt

Op(name, a, b) == [op |-> name, a |-> a, b |-> b]

\* BIND_IMMEDIATE_MASK and REBASE_IMMEDIATE_MASK
ImmediateMask == 15
Pointer == 8

Signed16(n) == IF n >= 2^15 THEN n - 2^16 ELSE n

\* Mutant: an ordinal that does not fit the immediate loses its upper bits.
OrdinalInImmediate(ordinal) ==
  IF Signed16(ordinal) \in -8 .. -1
    THEN Op("SPECIAL_IMM", ordinal % 16, 0)
    ELSE Op("ORDINAL_IMM", ordinal % 16, 0)

\* emit_bind_ordinal
EmitBindOrdinal(ordinal) ==
  CASE Signed16(ordinal) \in -8 .. -1 -> Op("SPECIAL_IMM", ordinal % 16, 0)
    [] Signed16(ordinal) \notin -8 .. -1 /\ ordinal <= ImmediateMask ->
         Op("ORDINAL_IMM", ordinal, 0)
    [] OTHER -> Op("ORDINAL_ULEB", ordinal, 0)

EmitSymbol(spec) == Op("SYMBOL", spec.name, spec.weak)
-----------------------------------------------------------------------------
(* Rebases.                                                                *)

RebaseRun(sites, i) ==
  CHOOSE n \in 1 .. Len(sites) + 1 - i :
    /\ \A k \in 0 .. n - 1 :
         sites[i + k] = [seg |-> sites[i].seg, off |-> sites[i].off + k * Pointer]
    /\ \/ i + n > Len(sites)
       \/ sites[i + n] # [seg |-> sites[i].seg, off |-> sites[i].off + n * Pointer]

\* emit_rebase_run
EmitRebaseRun(count) ==
  IF count <= ImmediateMask THEN Op("REBASE_IMM_TIMES", count, 0)
                            ELSE Op("REBASE_ULEB_TIMES", count, 0)

RECURSIVE RebaseOps(_, _, _, _)

\* The loop of build_rebase_stream: "at" is the segment the stream is in and
\* the cursor, the offset behind the last run.
RebaseOps(sites, i, seg, cursor) ==
  IF i > Len(sites) THEN <<Op("DONE", 0, 0)>>
  ELSE LET s == sites[i]
           n == RebaseRun(sites, i)
           move == CASE s.seg # seg -> <<Op("SEGMENT", s.seg, s.off)>>
                     [] s.seg = seg /\ s.off > cursor -> <<Op("ADD_ADDR", s.off - cursor, 0)>>
                     [] OTHER -> <<>>
       IN  move \o <<EmitRebaseRun(n)>>
           \o RebaseOps(sites, i + n, s.seg, s.off + n * Pointer)

\* build_rebase_stream, of sites already sorted and without duplicates.
BuildRebaseStream(sites) ==
  IF sites = <<>> THEN <<>>
  ELSE <<Op("TYPE", 0, 0)>> \o RebaseOps(sites, 1, -1, 0)
-----------------------------------------------------------------------------
(* Binds.                                                                  *)

SameTarget(s, t) ==
  [s EXCEPT !.off = 0] = [t EXCEPT !.off = 0]

\* bind_run_len
BindRunLen(specs, i) ==
  LET stride == specs[i + 1].off - specs[i].off
      joins(k) == SameTarget(specs[i], specs[i + k]) /\ specs[i + k].off = specs[i].off + k * stride
  IN  IF i = Len(specs) THEN 1
      ELSE IF ~SameTarget(specs[i], specs[i + 1]) \/ stride < Pointer THEN 1
      ELSE CHOOSE n \in 2 .. Len(specs) + 1 - i :
             /\ \A k \in 1 .. n - 1 : joins(k)
             /\ i + n > Len(specs) \/ ~joins(n)

\* BindState::default
NoBindState ==
  [ordinal |-> -1, name |-> 0, weak |-> FALSE, named |-> FALSE, addend |-> 0,
   seg |-> -1, off |-> 0, typed |-> FALSE]

When(cond, op) == IF cond THEN <<op>> ELSE <<>>

\* How emit_bind_records gets to a slot from where the last one left the machine.
BindAddress(st, s) ==
  CASE st.seg = s.seg /\ st.off = s.off -> <<>>
    [] st.seg = s.seg /\ st.off < s.off -> <<Op("ADD_ADDR", s.off - st.off, 0)>>
    [] OTHER -> <<Op("SEGMENT", s.seg, s.off)>>

\* What one round of the loop emits before it binds.
BindPrefix(st, s) ==
  When(st.ordinal # s.ordinal, EmitBindOrdinal(s.ordinal))
  \o When(~st.named \/ st.name # s.name \/ st.weak # s.weak, EmitSymbol(s))
  \o When(st.addend # s.addend, Op("ADDEND", s.addend, 0))
  \o When(~st.typed, Op("TYPE", 0, 0))
  \o BindAddress(st, s)

\* Mutant: the addend set for one slot is forgotten to be in force for the next.
ForgetAddend(st, s, off) ==
  [ordinal |-> s.ordinal, name |-> s.name, weak |-> s.weak, named |-> TRUE,
   addend |-> 0, seg |-> s.seg, off |-> off, typed |-> TRUE]

\* The BindState after a round that leaves the machine at "off".
BindStateAfter(st, s, off) ==
  [ordinal |-> s.ordinal, name |-> s.name, weak |-> s.weak, named |-> TRUE,
   addend |-> s.addend, seg |-> s.seg, off |-> off, typed |-> TRUE]

RECURSIVE BindOps(_, _, _)

\* The loop of emit_bind_records.
BindOps(specs, i, st) ==
  IF i > Len(specs) THEN <<Op("DONE", 0, 0)>>
  ELSE LET s == specs[i]
           n == BindRunLen(specs, i)
           stride == IF n = 1 THEN Pointer ELSE specs[i + 1].off - s.off
           single == n = 1 \/ (n = 2 /\ stride = Pointer)
       IN  BindPrefix(st, s)
           \o <<IF single THEN Op("BIND", 0, 0) ELSE Op("BIND_TIMES_SKIPPING", n, stride - Pointer)>>
           \o BindOps(specs, IF single THEN i + 1 ELSE i + n,
                      BindStateAfter(st, s, IF single THEN s.off + Pointer
                                                      ELSE s.off + n * stride))

\* emit_bind_records; the writer sets "terminate" on the last record.
EmitBindRecords(specs) == IF specs = <<>> THEN <<>> ELSE BindOps(specs, 1, NoBindState)

\* emit_lazy_bind_record
EmitLazyBindRecord(s) ==
  <<Op("SEGMENT", s.seg, s.off), EmitBindOrdinal(s.ordinal), EmitSymbol(s),
    Op("BIND", 0, 0), Op("DONE", 0, 0)>>
-----------------------------------------------------------------------------
(* dyld, as documented for these opcodes: external to the repository.      *)

DyldStart ==
  [seg |-> 0, off |-> 0, ordinal |-> 0, name |-> 0, weak |-> FALSE, addend |-> 0,
   done |-> FALSE, out |-> <<>>]

Slots(m, count, step) ==
  [k \in 1 .. count |->
     [seg |-> m.seg, off |-> m.off + (k - 1) * step, ordinal |-> m.ordinal,
      name |-> m.name, weak |-> m.weak, addend |-> m.addend]]

Touch(m, count, step) ==
  [m EXCEPT !.out = @ \o Slots(m, count, step), !.off = @ + count * step]

DyldOp(m, o) ==
  IF m.done THEN m
  ELSE CASE o.op = "DONE" -> [m EXCEPT !.done = TRUE]
         [] o.op = "TYPE" -> m
         [] o.op = "SEGMENT" -> [m EXCEPT !.seg = o.a, !.off = o.b]
         [] o.op = "ADD_ADDR" -> [m EXCEPT !.off = @ + o.a]
         [] o.op \in {"REBASE_IMM_TIMES", "REBASE_ULEB_TIMES"} -> Touch(m, o.a, Pointer)
         [] o.op = "ORDINAL_IMM" -> [m EXCEPT !.ordinal = o.a]
         [] o.op = "ORDINAL_ULEB" -> [m EXCEPT !.ordinal = o.a]
         [] o.op = "SPECIAL_IMM" -> [m EXCEPT !.ordinal = o.a + 2^16 - 16]
         [] o.op = "SYMBOL" -> [m EXCEPT !.name = o.a, !.weak = o.b]
         [] o.op = "ADDEND" -> [m EXCEPT !.addend = o.a]
         [] o.op = "BIND" -> Touch(m, 1, Pointer)
         [] o.op = "BIND_TIMES_SKIPPING" -> Touch(m, o.a, Pointer + o.b)

\* The slots a stream touches when it is run from an offset.
DyldRun(ops, from) ==
  FoldLeft(DyldOp, DyldStart, SubSeq(ops, from + 1, Len(ops))).out
=============================================================================
