----------------------------- MODULE ElfInputs -----------------------------
(***************************************************************************)
(* The inputs of the ELF linker and the name rules its passes share        *)
(* (src/src/elf.rs).  An object is                                         *)
(*   [syms |-> Seq(symbol), secs |-> Seq(section)]                         *)
(* a symbol [name, bind, vis, shndx, sec, size, align], where sec is the   *)
(* index of its section or 0, a section [root, exec, relas, recs], where   *)
(* relas are the indices of the symbols its relocations name and recs the  *)
(* records of an .eh_frame (<<>> for other sections), each [cie, target,   *)
(* relas]: cie is 0 for a CIE, target the symbol of an FDE's start, or 0   *)
(* if its relocation is missing, doubled or of another type.               *)
(*                                                                         *)
(* A name foo@V or foo@@V is a name of its own; BaseOf maps it to foo.     *)
(***************************************************************************)
EXTENDS Integers, Sequences, FiniteSets, SequencesExt

CONSTANTS Names,
          NoName,          \* the empty name
          BaseOf,          \* versioned name -> its base
          DefaultVersions, \* the names foo@@V
          LinkerSyms,      \* LINKER_SYMS
          RuntimeSyms,     \* DYNAMIC_LINKER_SYMS
          NoMember

ASSUME NamesAssumption ==
  /\ NoName \notin Names
  /\ DOMAIN BaseOf \subseteq Names
  /\ \A n \in DOMAIN BaseOf : BaseOf[n] \in Names \ DOMAIN BaseOf
  /\ DefaultVersions \subseteq DOMAIN BaseOf
  /\ RuntimeSyms \subseteq LinkerSyms
  /\ LinkerSyms \subseteq Names

\* The sequence without its repetitions, in order of first occurrence.
Distinct(s) ==
  LET firsts == {i \in DOMAIN s : \A j \in 1 .. i - 1 : s[j] # s[i]}
  IN  [k \in 1 .. Cardinality(firsts) |->
         s[CHOOSE i \in firsts : Cardinality({j \in firsts : j <= i}) = k]]

IsDefinition(s) == s.name # NoName /\ s.bind # "LOCAL" /\ s.shndx # "UNDEF"

IsStrongReference(s) ==
  s.name # NoName /\ s.bind = "GLOBAL" /\ s.shndx = "UNDEF"

DefinedNames(o) ==
  LET own == {s.name : s \in {t \in ToSet(o.syms) : IsDefinition(t)}}
  IN  own \cup {BaseOf[n] : n \in own \cap DOMAIN BaseOf}

DefinedByAny(objs) == UNION {DefinedNames(o) : o \in ToSet(objs)}

AllSymbols(objs) == FlattenSeq([i \in DOMAIN objs |-> objs[i].syms])

\* A reference that is not default-visible is satisfied by this output's own
\* objects only.
AlreadyDefined(s, objs, defined) ==
  IF s.vis = "DEFAULT" THEN s.name \in defined
  ELSE s.name \in DefinedByAny(objs)

UndefinedDemand(objs, additional, defined) ==
  LET wanted == SelectSeq(AllSymbols(objs), LAMBDA s :
                  /\ IsStrongReference(s) /\ s.name \notin LinkerSyms
                  /\ ~AlreadyDefined(s, objs, defined))
      more == SelectSeq(additional, LAMBDA n : n \notin defined \cup LinkerSyms)
  IN  Distinct([i \in DOMAIN wanted |-> wanted[i].name] \o more)

\* The member an archive's symbol index gives for a name: an exact entry, else
\* a default version, else any version; the first of each sort.
ArmapMember(index, n) ==
  LET exact == {i \in DOMAIN index : index[i].name = n}
      versions == {i \in DOMAIN index : /\ index[i].name \in DOMAIN BaseOf
                                        /\ BaseOf[index[i].name] = n}
      defaults == {i \in versions : index[i].name \in DefaultVersions}
      first(S) == index[Min(S)].member
  IN  CASE exact # {} -> first(exact)
        [] exact = {} /\ defaults # {} -> first(defaults)
        [] exact = {} /\ defaults = {} /\ versions # {} -> first(versions)
        [] OTHER -> NoMember
-----------------------------------------------------------------------------
(* Shared libraries: [soname, exports, undefs, strong, needed, complete,   *)
(* asNeeded]; undefs and strong are sequences of names.                    *)

\* shared_satisfies_default_visible_demand
SatisfiesObjects(objs, defined, lib) ==
  \E s \in ToSet(AllSymbols(objs)) :
    /\ IsStrongReference(s) /\ s.vis = "DEFAULT"
    /\ s.name \in lib.exports \ (defined \cup LinkerSyms)

DependencyCovers(lib, n, dep) ==
  \E so \in lib.needed \cap DOMAIN dep : n \in dep[so]

UncoveredSharedDemand(libs, defined, dep) ==
  LET uncovered(l) == IF ~l.complete THEN <<>>
                      ELSE SelectSeq(l.strong, LAMBDA n :
                             n \notin defined /\ ~DependencyCovers(l, n, dep))
  IN  Distinct(FlattenSeq([i \in DOMAIN libs |-> uncovered(libs[i])]))
-----------------------------------------------------------------------------
(* resolve_globals: one definition, <<object, symbol>>, per name.          *)

NoDef == <<0, 0>>

CommonAlign(s) == IF s.align > 1 THEN s.align ELSE 1

PreferCommonSymbol(new, old) ==
  \/ new.size > old.size
  \/ new.size = old.size /\ CommonAlign(new) > CommonAlign(old)

\* Mutant: a strong definition does not displace a tentative one.
DisplacesLate(new, old) ==
  CASE old.shndx = "COMMON" /\ new.shndx = "COMMON" -> PreferCommonSymbol(new, old)
    [] old.shndx = "COMMON" /\ new.shndx # "COMMON" -> FALSE
    [] old.shndx # "COMMON" /\ new.shndx = "COMMON" -> old.bind = "WEAK"
    [] OTHER -> old.bind = "WEAK" /\ new.bind = "GLOBAL"

\* Does a later definition take over the name from an earlier one?
Displaces(new, old) ==
  CASE old.shndx = "COMMON" /\ new.shndx = "COMMON" -> PreferCommonSymbol(new, old)
    [] old.shndx = "COMMON" /\ new.shndx # "COMMON" -> new.bind = "GLOBAL"
    [] old.shndx # "COMMON" /\ new.shndx = "COMMON" -> old.bind = "WEAK"
    [] OTHER -> old.bind = "WEAK" /\ new.bind = "GLOBAL"

Collide(new, old) ==
  /\ new.bind = "GLOBAL" /\ old.bind = "GLOBAL"
  /\ new.shndx # "COMMON" /\ old.shndx # "COMMON"

Positions(objs) ==
  FlattenSeq([i \in DOMAIN objs |->
                [j \in DOMAIN objs[i].syms |-> <<i, j>>]])

SymbolAt(objs, d) == objs[d[1]].syms[d[2]]

\* The first loop: the table, and whether two strong definitions collided.
Coalesce(objs) ==
  LET at == SelectSeq(Positions(objs), LAMBDA d : IsDefinition(SymbolAt(objs, d)))
      step(acc, d) ==
        LET new == SymbolAt(objs, d)
            old == SymbolAt(objs, acc.table[new.name])
        IN  CASE acc.duplicate -> acc
              [] ~acc.duplicate /\ acc.table[new.name] = NoDef ->
                   [acc EXCEPT !.table[new.name] = d]
              [] OTHER ->
                   [table |-> IF Displaces(new, old)
                                THEN [acc.table EXCEPT ![new.name] = d]
                                ELSE acc.table,
                    duplicate |-> Collide(new, old)]
  IN  FoldLeft(step, [table |-> [n \in Names |-> NoDef], duplicate |-> FALSE], at)

Before(d, e) == d[1] < e[1] \/ (d[1] = e[1] /\ d[2] < e[2])

\* Version aliasing: a base name nothing defines is answered by the earliest
\* default version, else by the earliest other version.
WithVersionAliases(table) ==
  LET versions(n) == {v \in DOMAIN BaseOf : BaseOf[v] = n /\ table[v] # NoDef}
      defaults(n) == versions(n) \cap DefaultVersions
      first(S) == CHOOSE d \in {table[v] : v \in S} :
                    \A v \in S : d = table[v] \/ Before(d, table[v])
  IN  [n \in Names |->
        CASE table[n] # NoDef -> table[n]
          [] table[n] = NoDef /\ defaults(n) # {} -> first(defaults(n))
          [] table[n] = NoDef /\ defaults(n) = {} /\ versions(n) # {} ->
               first(versions(n))
          [] OTHER -> NoDef]

ResolveGlobals(objs) ==
  LET c == Coalesce(objs)
  IN  [table |-> WithVersionAliases(c.table), duplicate |-> c.duplicate]

\* resolve_defined_identity: a tentative definition stands for the one chosen.
DefinedIdentity(objs, globals, d) ==
  LET s == SymbolAt(objs, d) IN
  IF s.shndx = "COMMON" /\ s.bind # "LOCAL" /\ s.name # NoName THEN globals[s.name]
  ELSE d
=============================================================================
