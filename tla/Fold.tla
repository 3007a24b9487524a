-------------------------------- MODULE Fold --------------------------------
(***************************************************************************)
(* -icf=safe (src/src/icf.rs, fold_safe), run on what -dead_strip leaves:  *)
(* atoms with the same contents and the same relocations are merged, round *)
(* after round, because two callers may become equal once their callees    *)
(* have been merged.  Atoms whose address the program can observe are left *)
(* alone.                                                                  *)
(*                                                                         *)
(* A link has, besides the fields DeadStrip reads,                         *)
(*   strip, icf  the options                                               *)
(*   at          per atom: input, order (the place of its input on the     *)
(*               command line and in its archive), sec, off, size, kind,   *)
(*               out (the output section) and body, which stands for the   *)
(*               bytes, the alignment and the flags                        *)
(*   code        the relocations in file order: from, slot, kind, ref,     *)
(*               minus, addend and implicit, the addend in the bytes       *)
(*   private     symbols that are private extern                           *)
(*   value       the values of absolute symbols                            *)
(* A referent is "global" (sym), "local" (id, sec, off), "abs" (off),      *)
(* "section" (sec), "unknown" if it has no meaning, or "none".             *)
(***************************************************************************)
EXTENDS DeadStrip, Integers

\* AtomOffsetIndex::find
FindAtom(l, input, sec, off) ==
  LET S == {a \in Atoms : l.at[a].input = input /\ l.at[a].sec = sec}
      around == {a \in S : l.at[a].off <= off /\ off < l.at[a].off + l.at[a].size}
      ending == {a \in S : l.at[a].off + l.at[a].size = off}
      first(T) == {a \in T : \A b \in T : a <= b}
  IN  IF around # {} THEN first(around) ELSE first(ending)

\* referent_atoms: what a relocation is to -dead_strip.  The addend of a local
\* symbol is not looked at, a section referent stands for the whole section.
Edge(l, r, ref) ==
  LET input == l.at[r.from].input IN
  [from |-> r.from,
   sym |-> IF ref.kind = "global" THEN ref.sym ELSE NoSymbol,
   atoms |-> CASE ref.kind = "local" -> FindAtom(l, input, ref.sec, ref.off)
               [] ref.kind = "section" ->
                    {a \in Atoms : l.at[a].input = input /\ l.at[a].sec = ref.sec}
               [] OTHER -> {}]

Edges(l) ==
  UNION {{Edge(l, l.code[i], l.code[i].ref), Edge(l, l.code[i], l.code[i].minus)} :
           i \in DOMAIN l.code}

\* A reference to a section is to its start.
IsReferent(ref) ==
  /\ ref.kind \in {"global", "local", "abs", "section", "unknown", "none"}
  /\ ref.kind = "global" => ref.sym \in Symbols
  /\ ref.kind = "local" => ref.off \in Int
  /\ ref.kind = "section" => ref.off = 0

\* A local symbol is one place of its input.
LocalsAgree(l, r, q) ==
  \A x \in {r.ref, r.minus}, y \in {q.ref, q.minus} :
    /\ l.at[r.from].input = l.at[q.from].input
    /\ x.kind = "local" /\ y.kind = "local" /\ x.id = y.id
    => x.sec = y.sec /\ x.off = y.off

IsFoldLink(l) ==
  /\ l.relocs = Edges(l)
  /\ \A a \in Atoms :
       /\ l.at[a].order[1] \in Nat /\ l.at[a].order[2] \in Nat
       /\ l.at[a].off \in Nat /\ l.at[a].size \in Nat
  /\ Len(l.code) \in Nat /\ DOMAIN l.code = 1 .. Len(l.code)
  /\ \A i \in DOMAIN l.code :
       /\ l.code[i].from \in Atoms
       /\ l.code[i].kind \in {"branch", "pointer", "page", "difference"}
       /\ l.code[i].addend \in Int /\ l.code[i].implicit \in Int
       /\ IsReferent(l.code[i].ref) /\ IsReferent(l.code[i].minus)
  /\ \A i, j \in DOMAIN l.code : LocalsAgree(l, l.code[i], l.code[j])

ASSUME FoldAssumption ==
  \A l \in Links : {l.strip, l.icf} \subseteq BOOLEAN /\ (l.icf => IsFoldLink(l))

VARIABLES kept,      \* kept_atoms
          redirect,  \* redirects: the winner a folded atom stands for
          bound,     \* the atom of each defined symbol
          buckets,   \* the buckets of this round that are still to be folded
          changed,
          stage

fvars == <<kept, redirect, bound, buckets, changed, stage>>

FoldKinds == {"Text", "ConstData", "CString", "Literal16"}

ReadsImplicit == {"pointer"}

\* Mutant: forming an address with adrp and add is taken for a call.
TakesPointers == {"pointer", "difference"}

\* marks_address_taken: every kind but a branch.
TakesAddress == {"pointer", "page", "difference"}
-----------------------------------------------------------------------------
(* Which atom an offset of an input section belongs to: IcfAtomIndex.      *)

EndOf(l, a) == l.at[a].off + l.at[a].size

SectionAtoms(l, input, sec) ==
  {a \in Atoms : l.at[a].input = input /\ l.at[a].sec = sec}

Encloses(l, a, off) ==
  \/ l.at[a].off <= off /\ off < EndOf(l, a)
  \/ l.at[a].off = off /\ EndOf(l, a) = off

\* The order of the index: start, end, then the order of the atom table.
IndexBefore(l, a, b) ==
  \/ l.at[a].off < l.at[b].off
  \/ l.at[a].off = l.at[b].off /\ EndOf(l, a) < EndOf(l, b)
  \/ l.at[a].off = l.at[b].off /\ EndOf(l, a) = EndOf(l, b) /\ a < b

NonOverlapping(l, S) ==
  \A a, b \in S : a # b => EndOf(l, a) <= l.at[b].off \/ EndOf(l, b) <= l.at[a].off

\* target_or_all: the atom around the offset, else one that ends there, else
\* the whole section.
TargetOrAll(l, input, sec, off) ==
  LET S == SectionAtoms(l, input, sec)
      started == {a \in S : l.at[a].off <= off}
      last == {a \in started : \A b \in started : b = a \/ IndexBefore(l, b, a)}
      ends == {a \in S : EndOf(l, a) = off}
      around == {a \in IF NonOverlapping(l, S) THEN last ELSE S : Encloses(l, a, off)}
      ending == IF NonOverlapping(l, S)
                  THEN {a \in ends : \A b \in ends : b = a \/ IndexBefore(l, a, b)}
                  ELSE ends
  IN  CASE around # {} -> around
        [] around = {} /\ ending # {} -> ending
        [] OTHER -> S

\* relocation_target_offset
TargetOffset(r, base) ==
  base + r.addend + (IF r.kind \in ReadsImplicit THEN r.implicit ELSE 0)

\* target_atoms_for_reloc; an offset below the section stands for all of it.
TakenBy(l, r, ref) ==
  LET input == l.at[r.from].input
      found(off) == IF off < 0 THEN SectionAtoms(l, input, ref.sec)
                    ELSE TargetOrAll(l, input, ref.sec, off)
  IN  CASE ref.kind = "local" /\ r.kind = "difference" -> found(ref.off)
        [] ref.kind = "local" /\ r.kind # "difference" -> found(TargetOffset(r, ref.off))
        [] ref.kind = "section" /\ r.kind = "difference" -> SectionAtoms(l, input, ref.sec)
        [] ref.kind = "section" /\ r.kind # "difference" -> found(TargetOffset(r, 0))
        [] ref.kind = "global" ->
             {l.sym[s].atom : s \in {s \in {l.sym[ref.sym].final} : HasAtom(l, s)}}
        [] OTHER -> {}

\* mark_address_taken: all relocations count, those of dead atoms too.
AddressTaken(l) ==
  UNION {TakenBy(l, r, r.ref) \cup TakenBy(l, r, r.minus) :
           r \in {l.code[i] : i \in {i \in DOMAIN l.code : l.code[i].kind \in TakesAddress}}}
-----------------------------------------------------------------------------
(* What makes two atoms the same.                                          *)

\* canonical_atom
CanonicalAtom(red, a) ==
  LET walk[n \in 0 .. Cardinality(Atoms)] ==
        IF n = 0 THEN a
        ELSE LET b == walk[n - 1] IN IF red[b] = NoAtom THEN b ELSE red[b]
  IN  walk[Cardinality(Atoms)]

\* FoldReferent::LocalSymbol and FoldReferent::Section
LocalReferent(input, ref) ==
  IF ref.kind = "local" THEN <<"local", input, ref.id>> ELSE <<"section", input, ref.sec>>

\* normalize_referent
NormalizeReferent(l, input, ref) ==
  CASE ref.kind = "global" ->
         LET s == l.sym[ref.sym].final IN
         CASE l.sym[s].kind = "Defined" /\ bound[s] # NoAtom ->
                <<"atom", CanonicalAtom(redirect, bound[s])>>
           [] l.sym[s].kind = "Absolute" -> <<"abs", l.value[s]>>
           [] OTHER -> <<"symbol", s>>
    [] ref.kind = "abs" -> <<"abs", ref.off>>
    [] ref.kind \in {"local", "section"} -> LocalReferent(input, ref)
    [] OTHER -> <<"none">>

\* relocs_for_atom
RelocsFor(l, a) ==
  LET own == InOrder({i \in DOMAIN l.code : l.code[i].from = a})
  IN  [k \in DOMAIN own |-> l.code[own[k]]]

\* reloc_signature_for_atom
RelocSignature(l, a) ==
  LET own == RelocsFor(l, a)
      input == l.at[a].input
  IN  [k \in DOMAIN own |->
         [slot |-> own[k].slot, kind |-> own[k].kind, addend |-> own[k].addend,
          ref |-> NormalizeReferent(l, input, own[k].ref),
          minus |-> NormalizeReferent(l, input, own[k].minus)]]

\* FoldKey::from_atom; implicit addends are bytes of the atom.
FoldKey(l, a) ==
  LET own == RelocsFor(l, a) IN
  [kind |-> l.at[a].kind, out |-> l.at[a].out, body |-> l.at[a].body,
   implicit |-> [k \in DOMAIN own |-> own[k].implicit],
   relocs |-> RelocSignature(l, a)]

\* is_foldable_atom, and a signature that can be computed.
Foldable(l, a) ==
  /\ l.at[a].kind \in FoldKinds
  /\ a \notin l.noStrip \cup AddressTaken(l)
  /\ \A s \in Symbols : HasAtom(l, s) /\ l.sym[s].atom = a => s \in l.private
  /\ \A i \in DOMAIN l.code :
       l.code[i].from = a => "unknown" \notin {l.code[i].ref.kind, l.code[i].minus.kind}

\* Mutant: the order of the atom table decides.
OrderById(l, a, b) == a < b

\* fold_order_key
FoldOrder(l, a, b) ==
  LET key(x) == <<l.at[x].order[1], l.at[x].order[2], l.at[x].off, x>> IN
  \E i \in 1 .. 4 : /\ key(a)[i] < key(b)[i]
                    /\ \A j \in 1 .. i - 1 : key(a)[j] = key(b)[j]

FirstOf(l, B) == CHOOSE a \in B : \A b \in B : b = a \/ FoldOrder(l, a, b)
-----------------------------------------------------------------------------
FoldInit ==
  /\ kept = {} /\ redirect = [a \in Atoms |-> NoAtom]
  /\ bound = [s \in Symbols |-> link.sym[s].atom]
  /\ buckets = {} /\ changed = FALSE /\ stage = "idle"

\* What -dead_strip left, or every atom.
StartFold ==
  /\ stage = "idle" /\ link.icf /\ (link.strip => pc = "done")
  /\ kept' = IF link.strip THEN live ELSE Atoms
  /\ stage' = "group"
  /\ UNCHANGED <<redirect, bound, buckets, changed>>

\* The buckets of a round; one atom alone is no bucket.
Group ==
  /\ stage = "group"
  /\ LET candidates == {a \in kept : Foldable(link, a)}
         key == [a \in candidates |-> FoldKey(link, a)]
         same(a) == {b \in candidates : key[b] = key[a]}
     IN  buckets' = {B \in {same(a) : a \in candidates} : Cardinality(B) > 1}
  /\ changed' = FALSE /\ stage' = "fold"
  /\ UNCHANGED <<kept, redirect, bound>>

\* One bucket, in the order of a hash map.
FoldBucket ==
  /\ stage = "fold"
  /\ \E B \in buckets :
       LET winner == FirstOf(link, B)
           losers == B \ {winner}
       IN  /\ buckets' = buckets \ {B}
           /\ redirect' = [a \in Atoms |-> IF a \in losers THEN winner ELSE redirect[a]]
           /\ kept' = kept \ losers
           /\ bound' = [s \in Symbols |-> IF HasAtom(link, s) /\ link.sym[s].atom \in losers
                                            THEN winner ELSE bound[s]]
  /\ changed' = TRUE /\ UNCHANGED stage

EndRound ==
  /\ stage = "fold" /\ buckets = {}
  /\ stage' = IF changed THEN "group" ELSE "rebind"
  /\ UNCHANGED <<kept, redirect, bound, buckets, changed>>

\* rebind_symbols_to_canonical_winners
Rebind ==
  /\ stage = "rebind" /\ stage' = "folded"
  /\ bound' = [s \in Symbols |-> IF link.sym[s].kind = "Defined" /\ bound[s] # NoAtom
                                   THEN CanonicalAtom(redirect, bound[s]) ELSE bound[s]]
  /\ UNCHANGED <<kept, redirect, buckets, changed>>

FoldNext == StartFold \/ Group \/ FoldBucket \/ EndRound \/ Rebind

\* -dead_strip, then -icf=safe, each if asked for.
StripStep == link.strip /\ Next /\ UNCHANGED fvars
FoldStep == FoldNext /\ UNCHANGED vars

ImageOver ==
  /\ IF link.icf THEN stage = "folded" ELSE pc = "done" \/ ~link.strip
  /\ UNCHANGED <<vars, fvars>>

AtomsInit == Init /\ FoldInit
AtomsNext == StripStep \/ FoldStep \/ ImageOver
AtomsSpec == AtomsInit /\ [][AtomsNext]_<<vars, fvars>>
-----------------------------------------------------------------------------
Base == IF link.strip THEN live ELSE Atoms

Canonical(a) == CanonicalAtom(redirect, a)

\* Where a referent leads in the unfolded program: an atom and a distance from
\* it, or what else it stands for.
Leads(l, r, ref) ==
  LET s == l.sym[ref.sym].final
      input == l.at[r.from].input
      base == IF r.kind = "difference" THEN ref.off ELSE TargetOffset(r, ref.off)
      inside == {a \in SectionAtoms(l, input, ref.sec) :
                   l.at[a].off <= base /\ base < EndOf(l, a)}
  IN  CASE ref.kind = "global" /\ HasAtom(l, s) -> [atom |-> l.sym[s].atom, rest |-> <<0>>]
        [] ref.kind = "global" /\ l.sym[s].kind = "Absolute" ->
             [atom |-> NoAtom, rest |-> <<l.value[s]>>]
        [] ref.kind = "global" /\ ~HasAtom(l, s) /\ l.sym[s].kind # "Absolute" ->
             [atom |-> NoAtom, rest |-> <<"symbol", s>>]
        [] ref.kind = "abs" -> [atom |-> NoAtom, rest |-> <<ref.off>>]
        [] ref.kind \in {"local", "section"} /\ inside # {} ->
             LET a == CHOOSE a \in inside : TRUE
             IN  [atom |-> a, rest |-> <<base - l.at[a].off>>]
        [] ref.kind = "none" -> [atom |-> NoAtom, rest |-> <<>>]
        [] OTHER -> [atom |-> NoAtom, rest |-> <<"none", input, ref.sec, base>>]

SameRef(l, R, r, q, x, y) ==
  LET u == Leads(l, r, x)
      v == Leads(l, q, y)
  IN  IF NoAtom \in {u.atom, v.atom} THEN u = v
      ELSE u.rest = v.rest /\ <<u.atom, v.atom>> \in R

SameCode(l, R, a, b) ==
  LET p == RelocsFor(l, a)
      q == RelocsFor(l, b)
  IN  /\ <<l.at[a].kind, l.at[a].out, l.at[a].body>> = <<l.at[b].kind, l.at[b].out, l.at[b].body>>
      /\ Len(p) = Len(q)
      /\ \A k \in DOMAIN p :
           /\ p[k].slot = q[k].slot /\ p[k].kind = q[k].kind
           /\ p[k].addend = q[k].addend /\ p[k].implicit = q[k].implicit
           /\ SameRef(l, R, p[k], q[k], p[k].ref, q[k].ref)
           /\ SameRef(l, R, p[k], q[k], p[k].minus, q[k].minus)

\* The coarsest relation under which related atoms have the same contents and
\* refer to related atoms.
Equivalent(l) ==
  LET refine[n \in 0 .. Cardinality(Atoms)] ==
        IF n = 0 THEN Atoms \X Atoms
        ELSE LET R == refine[n - 1]
             IN  {e \in R : e[1] = e[2] \/ SameCode(l, R, e[1], e[2])}
  IN  refine[Cardinality(Atoms)]

\* Folding does not change the program: an atom and the one that stands for it
\* have the same contents and lead to the same or to equivalent places.
FoldsAreEquivalent ==
  stage = "folded" => LET E == Equivalent(link) IN
  \A a \in Atoms : redirect[a] # NoAtom => <<a, Canonical(a)>> \in E

\* The program can tell the address of a from others: it is stored, formed or
\* subtracted somewhere, or has a name other images may see.
Observable(l, a) ==
  \/ \E i \in DOMAIN l.code :
       /\ l.code[i].kind # "branch"
       /\ a \in {Leads(l, l.code[i], l.code[i].ref).atom,
                 Leads(l, l.code[i], l.code[i].minus).atom}
  \/ \E s \in Symbols : Stands(l, s, a) /\ s \notin l.private

\* No atom whose address can be observed is merged with another one: pointer
\* comparisons come out as without -icf=safe.
IdentityKept ==
  \A a \in Atoms : (\E b \in Atoms : redirect[b] = a \/ redirect[a] = b) => ~Observable(link, a)

\* When folding is over every atom of the image is there or has a stand-in
\* that is, and each symbol is bound to what stands for its atom.
NothingDangles ==
  stage = "folded" =>
    /\ kept \subseteq Base /\ \A a \in Base : Canonical(a) \in kept
    /\ \A s \in Symbols : HasAtom(link, s) => bound[s] = Canonical(link.sym[s].atom)

\* Folding is invisible to the program: what stands for an atom is equivalent to
\* it, no observable address is merged, and nothing is left without a stand-in.
FoldingSound == FoldsAreEquivalent /\ IdentityKept /\ NothingDangles

\* The atoms of an input are in the order of the file, inputs in the order of
\* the command line and of their archive.
Earlier(l, a, b) ==
  LET p == l.at[a].order
      q == l.at[b].order
  IN  \/ p[1] < q[1] \/ (p[1] = q[1] /\ p[2] < q[2])
      \/ p = q /\ l.at[a].off < l.at[b].off

OnlyNames(r) == {r.ref.kind, r.minus.kind} \subseteq {"global", "none"}

Mergeable(l, a) ==
  /\ l.at[a].kind \in FoldKinds /\ a \notin l.noStrip /\ ~Observable(l, a)
  /\ \A i \in DOMAIN l.code :
       l.code[i].from = a \/ l.code[i].kind # "branch" => OnlyNames(l.code[i])

\* When folding is over, nothing earlier on the command line was folded away in
\* favour of something later, and no two atoms are left that differ at most in
\* which of two merged atoms they name (references that are not by name keep
\* more atoms apart than need be).
FoldingIsComplete ==
  stage = "folded" =>
    /\ \A a \in Atoms : ~Earlier(link, a, Canonical(a))
    /\ LET R == {e \in Atoms \X Atoms : Canonical(e[1]) = Canonical(e[2])} IN
       \A a, b \in kept : a # b /\ Mergeable(link, a) /\ Mergeable(link, b)
                            => ~SameCode(link, R, a, b)
-----------------------------------------------------------------------------
(* The addresses the relocation writer puts into pointers: atoms follow    *)
(* each other in the order of the command line.                            *)

SumOfSizes(l, S) ==
  LET sum[T \in SUBSET S] ==
        IF T = {} THEN 0
        ELSE LET a == CHOOSE a \in T : TRUE IN l.at[a].size + sum[T \ {a}]
  IN  sum[S]

\* atom_addrs
AddressOf(l, a) == SumOfSizes(l, {b \in kept : FoldOrder(l, b, a)})

\* input_section_address_map: the first atom placed says where its input
\* section would start.
SectionAddress(l, input, sec) ==
  LET first == FirstOf(l, SectionAtoms(l, input, sec) \cap kept)
  IN  AddressOf(l, first) - l.at[first].off

\* resolve_referent and patch_unsigned, for a section referent.
Written(l, r) ==
  TargetOffset(r, SectionAddress(l, l.at[r.from].input, r.ref.sec))

\* A pointer to a place of an input section still leads there when atoms have
\* been folded away.
SectionPointersHold ==
  stage = "folded" =>
    \A i \in DOMAIN link.code :
      LET r == link.code[i]
          to == Leads(link, r, r.ref)
      IN  r.kind = "pointer" /\ r.ref.kind = "section" /\ r.from \in kept /\ to.atom # NoAtom
            => Written(link, r) = AddressOf(link, Canonical(to.atom)) + to.rest[1]
=============================================================================
