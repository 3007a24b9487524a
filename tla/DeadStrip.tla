------------------------------ MODULE DeadStrip ------------------------------
(***************************************************************************)
(* -dead_strip: which atoms stay in the image (src/src/why_live.rs,        *)
(* DeadStripAnalysis::build).  Roots are collected from the entry symbol,  *)
(* the no-dead-strip marks and the exports of a dylib; a worklist follows  *)
(* relocations, unwind records of live functions, and live-support atoms   *)
(* that refer to something live.  Each atom's first reason to live is kept *)
(* for -why_live.                                                          *)
(*                                                                         *)
(* A link is a record of what the analysis reads:                          *)
(*   kind      "exe" or "dylib"                                            *)
(*   entry     the entry symbol or NoSymbol                                *)
(*   sym       the symbol table: kind, atom (NoAtom if none), noStrip,     *)
(*             hidden (private extern or not exported) and final, the end  *)
(*             of an alias chain                                           *)
(*   noStrip   atoms of sections marked no-dead-strip                      *)
(*   support   atoms of live-support sections                              *)
(*   relocs    relocations: the atom they are in, the symbol they name (or *)
(*             NoSymbol) and the atoms a section referent stands for       *)
(*   cie       pairs of an FDE atom and the atom of its CIE                *)
(*   parent    the function an unwind record is about, or NoAtom           *)
(***************************************************************************)
EXTENDS Lists

CONSTANTS Atoms,    \* atom ids
          Symbols,  \* symbol ids
          NoSymbol,
          Links     \* the links to consider

NoAtom == 0

SymbolEntry == [kind : {"Defined", "Absolute", "Alias", "Other"},
                atom : Atoms \cup {NoAtom}, noStrip : BOOLEAN,
                hidden : BOOLEAN, final : Symbols]

Reloc == [from : Atoms, sym : Symbols \cup {NoSymbol}, atoms : SUBSET Atoms]

IsLink(l) ==
  /\ l.kind \in {"exe", "dylib"}
  /\ l.entry \in Symbols \cup {NoSymbol}
  /\ l.sym \in [Symbols -> SymbolEntry]
  /\ l.noStrip \subseteq Atoms /\ l.support \subseteq Atoms
  /\ l.relocs \subseteq Reloc
  /\ l.cie \subseteq Atoms \X Atoms
  /\ l.parent \in [Atoms -> Atoms \cup {NoAtom}]

ASSUME DeadStripAssumption ==
  /\ Atoms \subseteq Nat \ {0} /\ IsFiniteSet(Atoms)
  /\ NoSymbol \notin Symbols
  /\ \A l \in Links : IsLink(l)

VARIABLES link,     \* the link at hand
          live,     \* live_atoms
          cause,    \* causes: why an atom was inserted first
          worklist,
          pc        \* "seed", "mark" or "done"

vars == <<link, live, cause, worklist, pc>>
-----------------------------------------------------------------------------
\* Symbols that stand for an atom of the image.
HasAtom(l, s) == l.sym[s].kind = "Defined" /\ l.sym[s].atom # NoAtom

\* is_exported_dylib_symbol
IsExported(l, s) ==
  /\ l.kind = "dylib" /\ ~l.sym[s].hidden
  /\ l.sym[s].kind \in {"Defined", "Absolute", "Alias"}

EntryAtoms(l) ==
  {l.sym[s].atom : s \in {s \in Symbols : s = l.entry /\ HasAtom(l, s)}}

\* symbol_no_dead_strip_is_root: a mark on a live-support atom does not count.
NoDeadStripAtoms(l) ==
  l.noStrip \cup
  {l.sym[s].atom : s \in {s \in Symbols : /\ HasAtom(l, s) /\ l.sym[s].noStrip
                                          /\ l.sym[s].atom \notin l.support}}

\* Mutant: an exported alias does not root what it stands for.
DefinedExportsOnly(l) ==
  {l.sym[s].atom : s \in {s \in Symbols : HasAtom(l, s) /\ IsExported(l, s)}}

ExportedAtoms(l) ==
  LET defined == {s \in Symbols : HasAtom(l, s) /\ IsExported(l, s)}
      aliases == {s \in Symbols : l.sym[s].kind = "Alias" /\ IsExported(l, s)
                                    /\ HasAtom(l, l.sym[s].final)}
  IN  {l.sym[s].atom : s \in defined}
        \cup {l.sym[l.sym[s].final].atom : s \in aliases}

\* root_atoms
Roots(l) == EntryAtoms(l) \cup NoDeadStripAtoms(l) \cup ExportedAtoms(l)

\* target_atoms_for_reloc: a named symbol through resolved_symbol_map, or the
\* atoms of a section referent.
TargetsOf(l, r) ==
  r.atoms \cup {l.sym[l.sym[s].final].atom :
                  s \in {s \in Symbols : s = r.sym /\ HasAtom(l, l.sym[s].final)}}

\* build_forward_edges
Forward(l, a) ==
  ((UNION {TargetsOf(l, r) : r \in {r \in l.relocs : r.from = a}})
     \cup {e[2] : e \in {e \in l.cie : e[1] = a}}) \ {a}

\* parent_edges
Records(l, a) == {b \in Atoms : l.parent[b] = a}

\* Mutant: support atoms keep each other alive.
SupportersAll(l, a) == {b \in l.support : a \in Forward(l, b)}

\* live_support_edges: only from what is not itself live-support.
Supporters(l, a) ==
  IF a \in l.support THEN {} ELSE {b \in l.support : a \in Forward(l, b)}

\* All that becomes live with a.
Successors(l, a) == Forward(l, a) \cup Records(l, a) \cup Supporters(l, a)

Rooted == [kind |-> "root", atom |-> NoAtom]
Unset == [kind |-> "none", atom |-> NoAtom]

Occurs(a, s) == \E i \in DOMAIN s : s[i] = a

\* The sequences that list a set once each: a hash map yields its keys in an
\* order that differs from run to run.
Listings(S) ==
  {s \in [1 .. Cardinality(S) -> S] : \A i, j \in DOMAIN s : i # j => s[i] # s[j]}
-----------------------------------------------------------------------------
Init ==
  /\ link \in Links
  /\ live = {} /\ cause = [a \in Atoms |-> Unset]
  /\ worklist = <<>> /\ pc = "seed"

\* The roots, in the order their hash map yields them.
Seed ==
  /\ pc = "seed" /\ pc' = "mark"
  /\ \E s \in Listings(Roots(link)) : worklist' = s
  /\ live' = Roots(link)
  /\ cause' = [a \in Atoms |-> IF a \in Roots(link) THEN Rooted ELSE Unset]
  /\ UNCHANGED link

\* Mutant: every reason overwrites the one before.
MarkOverwriting ==
  /\ pc = "mark" /\ worklist # <<>>
  /\ LET a == Head(worklist)
         new == Successors(link, a) \ live
     IN  /\ live' = live \cup new
         /\ worklist' = Tail(worklist) \o InOrder(new)
         /\ cause' = [b \in Atoms |->
              IF b \in Successors(link, a)
                THEN [kind |-> "referenced", atom |-> a] ELSE cause[b]]
  /\ UNCHANGED <<link, pc>>

\* One round of the worklist: unwind records, then referents, then supporters.
Mark ==
  /\ pc = "mark" /\ worklist # <<>>
  /\ LET a == Head(worklist)
         records == Records(link, a) \ live
         targets == Forward(link, a) \ (live \cup records)
         supporters == Supporters(link, a) \ (live \cup records \cup targets)
     IN  /\ live' = live \cup records \cup targets \cup supporters
         /\ worklist' = Tail(worklist) \o InOrder(records) \o InOrder(targets)
                                       \o InOrder(supporters)
         /\ cause' = [b \in Atoms |->
              CASE b \in records    -> [kind |-> "record", atom |-> a]
                [] b \in targets    -> [kind |-> "referenced", atom |-> a]
                [] b \in supporters -> [kind |-> "supports", atom |-> a]
                [] OTHER            -> cause[b]]
  /\ UNCHANGED <<link, pc>>

MarkDone ==
  /\ pc = "mark" /\ worklist = <<>>
  /\ pc' = "done" /\ UNCHANGED <<link, live, cause, worklist>>

Over == pc = "done" /\ UNCHANGED vars

Next == Seed \/ Mark \/ MarkDone \/ Over

Spec == Init /\ [][Next]_vars
-----------------------------------------------------------------------------
Causes == [kind : {"none", "root", "record", "referenced", "supports"},
           atom : Atoms \cup {NoAtom}]

\* Type invariant.
TypeOK ==
  /\ IsLink(link)
  /\ live \subseteq Atoms
  /\ cause \in [Atoms -> Causes]
  /\ worklist \in Seq(Atoms)
  /\ pc \in {"seed", "mark", "done"}

\* What the rules of -dead_strip ask of an image S, one rule per conjunct,
\* stated over the link and not over the edges the analysis builds.
Stands(l, s, a) == a # NoAtom /\ l.sym[s].kind = "Defined" /\ l.sym[s].atom = a

RefersTo(l, a, b) ==
  /\ a # b
  /\ \/ \E r \in l.relocs : r.from = a /\ b \in r.atoms
     \/ \E r \in l.relocs, s \in Symbols :
          r.from = a /\ r.sym = s /\ Stands(l, l.sym[s].final, b)
     \/ <<a, b>> \in l.cie

MustStart(l, a) ==
  \/ a \in l.noStrip
  \/ \E s \in Symbols : s = l.entry /\ Stands(l, s, a)
  \/ a \notin l.support /\ \E s \in Symbols : l.sym[s].noStrip /\ Stands(l, s, a)
  \/ l.kind = "dylib" /\ \E s \in Symbols :
       /\ ~l.sym[s].hidden
       /\ \/ Stands(l, s, a)
          \/ l.sym[s].kind = "Alias" /\ Stands(l, l.sym[s].final, a)

Closed(l, S) ==
  /\ \A a \in Atoms : MustStart(l, a) => a \in S
  /\ \A a \in S, b \in Atoms : RefersTo(l, a, b) => b \in S
  /\ \A a \in S, b \in Atoms : l.parent[b] = a => b \in S
  /\ \A a \in S, b \in Atoms :
       b \in l.support /\ a \notin l.support /\ RefersTo(l, b, a) => b \in S

\* At any time only what every possible image must have is marked: nothing is
\* retained without need.
OnlyNeededLive == \A S \in SUBSET Atoms : Closed(link, S) => live \subseteq S

\* When marking is done, no atom of the image refers to a stripped one, no live
\* function has lost its unwind records and no root is missing.
ImageIsClosed == pc = "done" => Closed(link, live)

\* Where -why_live has got to after each step up from a.
Explanation(a) ==
  LET cursor[n \in 0 .. Cardinality(Atoms)] ==
        IF n = 0 THEN a
        ELSE LET c == cursor[n - 1]
             IN  IF cause[c].atom = NoAtom THEN c ELSE cause[c].atom
  IN  cursor

\* The walk of -why_live from any live atom ends at a root: the causes have no
\* cycle and do not lead to a stripped atom.
ExplanationsEndAtRoots ==
  \A a \in live : cause[Explanation(a)[Cardinality(Atoms)]] = Rooted
=============================================================================
