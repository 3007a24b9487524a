------------------------------- MODULE ElfLink -------------------------------
(***************************************************************************)
(* The ELF link after input selection: --gc-sections with its unwind       *)
(* records (analyze_gc_sections, apply_gc_sections), the retention of      *)
(* as-needed libraries (gc_dynamic_sections), the check of the libraries'  *)
(* own references, and the symbol checks that open the writing of the      *)
(* image.  Sections are <<object, section>> pairs over the loaded objects, *)
(* records <<object, section, record>>.                                    *)
(***************************************************************************)
EXTENDS ElfResolve

VARIABLES globals,    \* resolve_globals of the loaded objects
          live,       \* GcAnalysis::live_sections
          pending,    \* sections to scan, a stack
          referenced, \* GcAnalysis::referenced_symbols, as <<object, symbol>>
          wanted,     \* GcAnalysis::live_undefined
          kept,       \* EhFrameGc::keep
          forced,     \* GcAnalysis::forced_eh_sections
          retained    \* indices of the libraries in `shared` that stay

gvars == <<globals, live, pending, referenced, wanted, kept, forced, retained>>
vars == <<evars, gvars>>

Sections == UNION {{o} \X DOMAIN Loaded[o].secs : o \in DOMAIN Loaded}
Section(s) == Loaded[s[1]].secs[s[2]]
IsEh(s) == Section(s).recs # <<>>
Record(r) == Section(<<r[1], r[2]>>).recs[r[3]]

\* gc_symbol_section: the section a symbol's definition lies in, {} if none.
SymbolSection(d) ==
  LET s == SymbolAt(Loaded, d)
      def == CASE s.shndx = "UNDEF" /\ s.name = NoName -> NoDef
               [] s.shndx = "UNDEF" /\ s.name # NoName -> globals[s.name]
               [] OTHER -> DefinedIdentity(Loaded, globals, d)
  IN  IF def = NoDef \/ SymbolAt(Loaded, def).sec = 0 THEN {}
      ELSE {<<def[1], SymbolAt(Loaded, def).sec>>}

\* The sections of a sequence of definitions, in order.
SectionsOf(defs) ==
  FlattenSeq([i \in DOMAIN defs |-> SetToSeq(SymbolSection(defs[i]))])
-----------------------------------------------------------------------------
(* analyze_gc_sections *)

\* The names whose definitions a link keeps for its own sake: the entry and
\* what the libraries that stay reference.
RootNames ==
  <<prog.entry>> \o
    FlattenSeq([i \in DOMAIN shared |->
                  IF i \in retained THEN Items[shared[i]].undefs ELSE <<>>])

StartGc ==
  /\ pc = "gc"
  /\ IF ResolveGlobals(Loaded).duplicate
       THEN Fail("Duplicate") /\ UNCHANGED <<globals, retained>>
       ELSE /\ globals' = ResolveGlobals(Loaded).table
            /\ retained' = {i \in DOMAIN shared : ~Items[shared[i]].asNeeded}
            /\ pc' = "analyze" /\ UNCHANGED outcome
  /\ UNCHANGED <<prog, objects, defined, pulled, taken, shared, dep, stack, scan,
                 live, pending, referenced, wanted, kept, forced>>

Analyze ==
  /\ pc = "analyze"
  /\ LET kinds == SelectSeq(FlattenSeq([o \in DOMAIN Loaded |->
                    [i \in DOMAIN Loaded[o].secs |-> <<o, i>>]]),
                    LAMBDA s : Section(s).root)
         named == SelectSeq(RootNames, LAMBDA n : n \in Names /\ globals[n] # NoDef)
         roots == kinds \o SectionsOf([i \in DOMAIN named |-> globals[named[i]]])
     IN  /\ live' = ToSet(roots)
         /\ pending' = Distinct(roots)
         /\ forced' = {s \in ToSet(roots) : IsEh(s)}
  /\ referenced' = {} /\ wanted' = {} /\ kept' = {}
  /\ pc' = "drain"
  /\ UNCHANGED <<prog, objects, defined, pulled, taken, shared, dep, stack, scan,
                 outcome, globals, retained>>

\* follow_gc_relocation for the relocations that name the given symbols:
\* sections outside `alive` become live and are put on the stack.
Follow(defs, alive, stacked) ==
  LET targets == SectionsOf(defs)
      refs == {SymbolAt(Loaded, d) : d \in ToSet(defs)}
  IN  /\ referenced' = referenced \cup ToSet(defs)
      /\ wanted' = wanted \cup
           {s.name : s \in {t \in refs : /\ IsStrongReference(t)
                                         /\ t.name \notin LinkerSyms
                                         /\ globals[t.name] = NoDef}}
      /\ forced' = forced \cup {s \in ToSet(targets) : IsEh(s)}
      /\ live' = alive \cup ToSet(targets)
      /\ pending' = stacked \o Distinct(SelectSeq(targets, LAMBDA s : s \notin alive))

\* The symbols that the relocations of a section or of a record name.
RelasOf(o, relas) == [i \in DOMAIN relas |-> <<o, relas[i]>>]

\* Take a section off the stack and follow its relocations; those of an
\* .eh_frame are followed record by record, in EhPass.
PopSection ==
  /\ pc = "drain" /\ pending # <<>>
  /\ LET s == Last(pending) IN
     Follow(RelasOf(s[1], IF IsEh(s) THEN <<>> ELSE Section(s).relas), live,
            Front(pending))
  /\ UNCHANGED <<evars, globals, kept, retained>>

IsFde(r) == Record(r).cie # 0

\* Where an FDE's function lies; {} if its relocation is not usable.
FdeTarget(r) ==
  IF Record(r).target = 0 THEN {}
  ELSE SymbolSection(<<r[1], Record(r).target>>)

BadFde(r) == IsFde(r) /\ ~(\E s \in FdeTarget(r) : Section(s).exec)

KeepRecord(r) ==
  \/ <<r[1], r[2]>> \in forced
  \/ IsFde(r) /\ FdeTarget(r) \cap live # {}

AllRecords ==
  FlattenSeq([o \in DOMAIN Loaded |-> FlattenSeq([i \in DOMAIN Loaded[o].secs |->
    [k \in DOMAIN Loaded[o].secs[i].recs |-> <<o, i, k>>]])])

\* One look at every unwind record: the FDEs of live functions are kept, with
\* their CIEs, and what the new records refer to is followed.
EhPass ==
  /\ pc = "drain" /\ pending = <<>>
  /\ LET candidates == ToSet(AllRecords) \ kept
         direct == {r \in candidates : KeepRecord(r)}
         cies == {<<r[1], r[2], Record(r).cie>> : r \in {q \in direct : IsFde(q)}}
         new == direct \cup (cies \ kept)
         withCie(r) == IF r \notin direct THEN <<>>
                       ELSE IF IsFde(r) THEN <<r, <<r[1], r[2], Record(r).cie>>>>
                       ELSE <<r>>
         inOrder == SelectSeq(Distinct(FlattenSeq([i \in DOMAIN AllRecords |->
                                withCie(AllRecords[i])])), LAMBDA r : r \in new)
     IN  CASE \E r \in candidates : BadFde(r) ->
                Fail("BadUnwind") /\ UNCHANGED <<live, pending, referenced, wanted,
                                                 kept, forced>>
           [] (\A r \in candidates : ~BadFde(r)) /\ new = {} ->
                /\ pc' = "retain"
                /\ UNCHANGED <<outcome, live, pending, referenced, wanted, kept,
                               forced>>
           [] OTHER ->
                /\ kept' = kept \cup new
                /\ Follow(FlattenSeq([i \in DOMAIN inOrder |->
                            RelasOf(inOrder[i][1], Record(inOrder[i]).relas)]),
                          live \cup {<<r[1], r[2]>> : r \in new}, <<>>)
                /\ UNCHANGED <<pc, outcome>>
  /\ UNCHANGED <<prog, objects, defined, pulled, taken, shared, dep, stack, scan,
                 globals, retained>>
-----------------------------------------------------------------------------
(* gc_dynamic_sections *)

\* Mutant: only the objects' references keep a library.
NeededByObjects(lib, keep, provided) == (wanted \ provided) \cap lib.exports # {}

\* Is the library needed for something no library before it provides, by live
\* code or by a library that stays?
StillNeeded(lib, keep, provided) ==
  \/ (wanted \ provided) \cap lib.exports # {}
  \/ \E j \in keep :
       LET l == Items[shared[j]] IN
       /\ l.complete /\ lib.soname \notin l.needed
       /\ \E n \in (ToSet(l.strong) \ provided) \cap lib.exports :
            globals[n] = NoDef

\* One round over the libraries, in order.
RetainRound ==
  LET step(acc, i) ==
        LET lib == Items[shared[i]] IN
        IF i \in acc.keep \/ StillNeeded(lib, acc.keep, acc.provided)
          THEN [keep |-> acc.keep \cup {i}, provided |-> acc.provided \cup lib.exports]
          ELSE acc
  IN  FoldLeft(step, [keep |-> retained, provided |-> {}],
               [i \in DOMAIN shared |-> i]).keep

Libraries(kp) ==
  LET idx == SelectSeq([i \in DOMAIN shared |-> i], LAMBDA i : i \in kp)
  IN  [k \in DOMAIN idx |-> Items[shared[idx[k]]]]

ExportsOf(libs) == UNION {l.exports : l \in ToSet(libs)}

\* The objects after apply_gc_sections: a reference nothing live makes loses
\* its name, a symbol of a dropped section its section.
Pruned ==
  [o \in DOMAIN Loaded |->
    [Loaded[o] EXCEPT !.syms = [j \in DOMAIN @ |->
      [@[j] EXCEPT
        !.name = IF Loaded[o].syms[j].shndx = "UNDEF" /\ <<o, j>> \notin referenced
                   THEN NoName ELSE @,
        !.sec = IF <<o, @>> \in live THEN @ ELSE 0]]]]

\* A new library brings new roots and the analysis starts again; otherwise
\* sections, records and libraries that are not needed are dropped.
Retain ==
  /\ pc = "retain"
  /\ retained' = RetainRound
  /\ pc' = IF RetainRound # retained THEN "analyze" ELSE "shared"
  /\ defined' = IF RetainRound # retained THEN defined
                ELSE DefinedByAny(Pruned) \cup ExportsOf(Libraries(retained))
  /\ UNCHANGED <<prog, objects, pulled, taken, shared, dep, stack, scan, outcome,
                 globals, live, pending, referenced, wanted, kept, forced>>
-----------------------------------------------------------------------------
(* The checks before the image is laid out. *)

FinalLibraries == IF prog.gc THEN Libraries(retained) ELSE Selected
FinalObjects == IF prog.gc THEN Pruned ELSE Loaded

\* A strong reference of a library that nothing in the link, nor the libraries
\* it depends on itself, will satisfy.
SharedUndefined(libs, def) ==
  \E l \in ToSet(libs) :
    /\ l.complete
    /\ \E n \in ToSet(l.strong) \ (def \cup RuntimeSyms) :
         ~DependencyCovers(l, n, dep)

CheckShared ==
  /\ pc = "shared"
  /\ IF prog.dynamic /\ SharedUndefined(FinalLibraries, defined)
       THEN Fail("UndefinedInShared")
       ELSE pc' = "bind" /\ UNCHANGED outcome
  /\ UNCHANGED <<prog, objects, defined, pulled, taken, shared, dep, stack, scan,
                 gvars>>

\* The symbols named by the relocations of the given sections and records.
Relocated(secs, recs) ==
  UNION {{<<s[1], k>> : k \in ToSet(Section(s).relas)} : s \in {t \in secs : ~IsEh(t)}}
    \cup UNION {{<<r[1], k>> : k \in ToSet(Record(r).relas)} : r \in recs}

\* A strong reference that no object and not the linker itself defines.
Open(table, s) ==
  IsStrongReference(s) /\ s.name \notin LinkerSyms /\ table[s.name] = NoDef

\* resolve_def of a static link: only what a relocation names is looked up.
UndefinedStatic(objs, table, secs, recs) ==
  \E d \in Relocated(secs, recs) : Open(table, SymbolAt(objs, d))

\* A dynamic link looks at every reference: one that is not default-visible
\* must be defined in the image (validate_nondefault_undefineds), the others
\* must be exported by a library (the import table).
UndefinedDynamic(objs, table, libs) ==
  \E s \in ToSet(AllSymbols(objs)) :
    Open(table, s) /\ (s.vis # "DEFAULT" \/ s.name \notin ExportsOf(libs))

\* The names the executable exports because a library refers to them.
ExportNames(table, libs) ==
  {n \in UNION {ToSet(l.undefs) : l \in ToSet(libs)} : table[n] # NoDef}

\* raw_addr: a definition has an address if it is absolute, tentative, or lies
\* in a section that is still there.
Placed(objs, d) ==
  LET s == SymbolAt(objs, d) IN s.shndx \in {"COMMON", "ABS"} \/ s.sec # 0

\* The definition whose address a relocation takes, sym_vaddr.
DefinitionOf(objs, table, d) ==
  LET s == SymbolAt(objs, d) IN
  CASE s.shndx # "UNDEF" -> DefinedIdentity(objs, table, d)
    [] s.shndx = "UNDEF" /\ s.name # NoName
         /\ ~(prog.dynamic /\ s.name \in LinkerSyms) -> table[s.name]
    [] OTHER -> NoDef

\* What link_static_exec_with_policy and link_dynamic_exec_with_policy say of
\* the symbols of the objects and libraries they are given.
Verdict(objs, libs, secs, recs) ==
  LET g == ResolveGlobals(objs)
      undefined == IF prog.dynamic THEN UndefinedDynamic(objs, g.table, libs)
                   ELSE UndefinedStatic(objs, g.table, secs, recs)
      used == {DefinitionOf(objs, g.table, d) : d \in Relocated(secs, recs)}
                \cup {g.table[n] : n \in {prog.entry} \cup ExportNames(g.table, libs)}
      unplaced == \E d \in used \ {NoDef} : ~Placed(objs, d)
  IN  CASE g.duplicate -> "Duplicate"
        [] ~g.duplicate /\ undefined -> "Undefined"
        [] ~g.duplicate /\ ~undefined /\ unplaced -> "Unplaced"
        [] ~g.duplicate /\ ~undefined /\ ~unplaced /\ g.table[prog.entry] = NoDef ->
             "NoEntry"
        [] OTHER -> "linked"

Bind ==
  /\ pc = "bind"
  /\ outcome' = Verdict(FinalObjects, FinalLibraries,
                        IF prog.gc THEN live ELSE Sections,
                        IF prog.gc THEN kept ELSE ToSet(AllRecords))
  /\ pc' = IF outcome' = "linked" THEN "done" ELSE "failed"
  /\ UNCHANGED <<prog, objects, defined, pulled, taken, shared, dep, stack, scan,
                 gvars>>
-----------------------------------------------------------------------------
LinkInit ==
  /\ Init
  /\ globals = [n \in Names |-> NoDef]
  /\ live = {} /\ pending = <<>> /\ referenced = {} /\ wanted = {}
  /\ kept = {} /\ forced = {} /\ retained = {}

Ended == pc \in {"done", "failed"}

Over == Ended /\ UNCHANGED vars

Next ==
  \/ SelectNext /\ UNCHANGED gvars
  \/ StartGc \/ Analyze \/ PopSection \/ EhPass \/ Retain
  \/ CheckShared \/ Bind
  \/ Over

\* One thread runs the link and is never descheduled for good.  Some step is
\* enabled until the link has ended, so this is weak fairness of Next, without
\* an ENABLED.
KeepsRunning == []<><<TRUE>>_vars \/ []<>Ended

Spec == LinkInit /\ [][Next]_vars /\ KeepsRunning
-----------------------------------------------------------------------------
(* Properties *)

Positioned(d) == d \in ToSet(Positions(Loaded))

\* Every variable holds what the code's field of that name can hold: loaded
\* objects are objects and good members of the program's items, what is defined
\* is exactly what they and the selected libraries define (until a collection
\* recomputes it), and the collection's marks are sections, symbols and records
\* of loaded objects.
ElfTypeOK ==
  /\ \A id \in ToSet(objects) :
       \/ id[2] = NoMember /\ Items[id[1]].kind = "Object"
       \/ id[2] \in DOMAIN Items[id[1]].members
  /\ pc \in {"range", "scan", "gc", "analyze", "drain", "retain"} =>
       defined = DefinedByAny(Loaded) \cup ExportsOf(Selected)
  /\ ToSet(shared) \subseteq taken
  /\ \A i \in ToSet(shared) : Items[i].soname \in DOMAIN dep
  /\ live \subseteq Sections /\ ToSet(pending) \subseteq live
  /\ forced \subseteq live
  /\ \A r \in kept : r \in ToSet(AllRecords) /\ <<r[1], r[2]>> \in live
  /\ \A d \in referenced : Positioned(d)
  /\ wanted \subseteq Names
  /\ retained \subseteq DOMAIN shared

\* No archive member is linked twice, however often its archive is searched and
\* whichever of its names is asked for, and no soname is selected twice
\* (ArchiveInput::pulled, Option::take on objects, selected_sonames).
NothingLinkedTwice ==
  /\ \A i, j \in DOMAIN objects : objects[i] = objects[j] => i = j
  /\ \A i, j \in DOMAIN shared :
       Items[shared[i]].soname = Items[shared[j]].soname => i = j

\* The order of definitions that resolve_globals documents: strong, then
\* tentative (the larger, then the more aligned), then weak; link order decides
\* among equals.
Strength(s) ==
  CASE s.shndx = "COMMON" -> <<2, s.size, s.align>>
    [] s.shndx # "COMMON" /\ s.bind = "GLOBAL" -> <<3, 0, 0>>
    [] OTHER -> <<1, 0, 0>>

Stronger(a, b) ==
  \/ a[1] > b[1]
  \/ a[1] = b[1] /\ a[2] > b[2]
  \/ a[1] = b[1] /\ a[2] = b[2] /\ a[3] > b[3]

\* When the objects are complete, every name stands for its strongest, earliest
\* definition whatever the order the members were pulled in, an unversioned
\* name that nothing defines for its earliest default version, and a duplicate
\* is reported if and only if two strong definitions have one name.
GlobalsAreWinners ==
  pc \in {"gc", "shared"} =>
    LET defs(n) == {d \in ToSet(Positions(Loaded)) :
                      IsDefinition(SymbolAt(Loaded, d)) /\ SymbolAt(Loaded, d).name = n}
        power(d) == Strength(SymbolAt(Loaded, d))
        wins(d, D) == \A e \in D \ {d} :
                        \/ Stronger(power(d), power(e))
                        \/ power(d) = power(e) /\ Before(d, e)
        table == ResolveGlobals(Loaded).table
        clash(n) == Cardinality({d \in defs(n) : power(d)[1] = 3}) > 1
    IN  IF ResolveGlobals(Loaded).duplicate THEN \E n \in Names : clash(n)
        ELSE \A n \in Names :
          /\ ~clash(n)
          /\ defs(n) # {} => table[n] \in defs(n) /\ wins(table[n], defs(n))
          /\ defs(n) = {} =>
               LET vs == {v \in DOMAIN BaseOf : BaseOf[v] = n /\ defs(v) # {}}
                   best == IF vs \cap DefaultVersions # {} THEN vs \cap DefaultVersions
                           ELSE vs
               IN  IF best = {} THEN table[n] = NoDef
                   ELSE \E v \in best :
                          /\ table[n] \in defs(v) /\ wins(table[n], defs(v))
                          /\ \A w \in best : table[n] = table[w]
                                               \/ Before(table[n], table[w])

\* A group is left only when another search of it would add nothing: no archive
\* in it holds a member for a name still wanted, no library left out of it
\* exports one.  The last pass over the group may have changed nothing although
\* names appeared late in the pass before.
GroupsClosed ==
  [][Len(stack') < Len(stack) =>
       LET group == Top.from .. Top.to
           strong == {s \in ToSet(AllSymbols(Loaded)) :
                        IsStrongReference(s) /\ s.name \notin LinkerSyms}
           open == {s.name : s \in {t \in strong : t.name \notin defined}}
           openHere == {s.name : s \in {t \in strong : /\ t.vis # "DEFAULT"
                                                       /\ t.name \notin DefinedByAny(Loaded)}}
           entry == {prog.entry} \ DefinedByAny(Loaded)
       IN  \A i \in group :
             /\ Items[i].kind = "Archive" =>
                  \A n \in open \cup openHere \cup entry :
                    ArmapMember(Items[i].index, n) \in {NoMember} \cup pulled[i]
             /\ Items[i].kind = "Shared" /\ Items[i].soname \notin SonamesSelected =>
                  \A n \in open : n \in Items[i].exports =>
                    \A s \in strong : s.name = n => s.vis # "DEFAULT"]_vars

\* What a reference to a symbol keeps: its section and, if that is an
\* .eh_frame, all its records.
Keeps(d) ==
  SymbolSection(d) \cup {r \in ToSet(AllRecords) : <<r[1], r[2]>> \in SymbolSection(d)}

\* What a live section or a kept record needs: what it refers to, the FDEs of a
\* function, the CIE and the section of a record.
Needs(x) ==
  IF Len(x) = 2
    THEN UNION {Keeps(d) : d \in Relocated({x}, {})}
           \cup {r \in ToSet(AllRecords) : IsFde(r) /\ x \in FdeTarget(r)}
    ELSE UNION {Keeps(d) : d \in Relocated({}, {x})}
           \cup {<<x[1], x[2]>>}
           \cup (IF IsFde(x) THEN {<<x[1], x[2], Record(x).cie>>} ELSE {})

Roots ==
  LET names == {n \in ToSet(RootNames) : globals[n] # NoDef}
      held == {s \in Sections : Section(s).root}
  IN  held \cup {r \in ToSet(AllRecords) : <<r[1], r[2]>> \in held}
        \cup UNION {Keeps(globals[n]) : n \in names}

\* When a collection is done, the live sections and kept unwind records are the
\* least ones closed under references: nothing live refers to anything dropped,
\* an FDE stays exactly with its function, and nothing else is kept, although
\* records and sections revive each other in alternating passes.
LiveIsLeast ==
  pc = "retain" =>
    LET all == live \cup kept
        closed(S) == \A x \in S : Needs(x) \subseteq S
    IN  /\ Roots \subseteq all /\ closed(all)
        /\ \A S \in SUBSET (all \ Roots) : closed(Roots \cup S) => all = Roots \cup S

\* --gc-sections never turns a link that works into one that fails: a collected
\* link fails at its symbol checks only if the same link without collection
\* fails too, so every library dropped and every section emptied was needed by
\* nobody that stays.
GcNeverBreaksTheLink ==
  prog.gc /\ outcome \in {"UndefinedInShared", "Undefined", "NoEntry", "Unplaced",
                          "Duplicate"} =>
    \/ prog.dynamic /\ SharedUndefined(Selected, DefinedByAny(Loaded) \cup ExportsOf(Selected))
    \/ Verdict(Loaded, Selected, Sections, ToSet(AllRecords)) # "linked"

\* What goes into the link is settled by the command line alone: nothing twice,
\* and every name by its strongest, earliest definition (see the two above).
SelectionSound == NothingLinkedTwice /\ GlobalsAreWinners

\* Collection keeps what is needed, only that, and never costs the link.
CollectionSound == LiveIsLeast /\ GcNeverBreaksTheLink

\* Every link ends, linked or with an error: group passes, archive passes,
\* unwind passes and retention rounds all run dry.
LinkEnds == <>Ended
=============================================================================
