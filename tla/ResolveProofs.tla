---------------------------- MODULE ResolveProofs ----------------------------
(***************************************************************************)
(* What resolution promises for any inputs: its type invariant, that a     *)
(* member becomes an input at most once, and that it uses the table as     *)
(* TableSpec allows.  All rest on one inductive invariant, ResolveInv,     *)
(* which says what each loop of the thread may rely on.                    *)
(***************************************************************************)
EXTENDS Resolve, SymbolTableProofs

Members == SetOf(prog.members[Current.id])
Index == SetOf(prog.index[Current.id])

\* What each loop works on, and that it finds the others' lists empty.
LoopsApart ==
  /\ pos <= Len(Line(prog)) + 1
  /\ pc \in {"seed", "scan", "force", "drain"} => InLine
  /\ pc = "seed" => work \in Seq(Seeds)
  /\ pc = "scan" => work \in Seq(IndexEntry)
  /\ pc \notin {"seed", "scan"} => work = <<>>
  /\ pc \notin {"seed", "force", "failed"} => forced = <<>>
  /\ pc \in {"next", "resolved", "done"} => queue = <<>>
  /\ pc \in {"next", "scan", "force"} \/ forced # <<>> => prepared = {}
  /\ pc \in {"resolved", "done"} => errors = {}

\* A forced archive ends with all its members in the link.
ForcedLoop ==
  /\ pc = "force" \/ forced # <<>> => InLine /\ IsForced(prog, pos)
  /\ forced # <<>> => SetOf(forced) \subseteq Members
  /\ pc \in {"seed", "force", "drain"} /\ IsForced(prog, pos) =>
       Members \subseteq fetched \cup SetOf(forced)

\* A demand archive has been scanned as far as the scan has come.
ScanLoop ==
  pc = "scan" =>
    /\ IsDemandArchive(prog, pos)
    /\ SetOf(work) \subseteq Index
    /\ \A e \in Index : e \in SetOf(work) \/ table[e.name].kind # "Undefined"

\* What is in the link is there once, is sound, and was not parsed ahead.
LinkedOnce ==
  /\ \A i, j \in DOMAIN objects : objects[i] = objects[j] => i = j
  /\ fetched = SetOf(objects)
  /\ fetched \cap prog.bad = {}
  /\ prepared \cap fetched = {}

\* A fetch stays in step with the slot it was queued for, and as long as its
\* member is not in the link it is the current archive that offered it.
QueueInStep ==
  \A p \in SetOf(queue) :
    /\ table[p.name].kind \notin {"Vacant", "Undefined"}
    /\ table[p.name].kind = "LazyArchive" => table[p.name].member = p.member
    /\ p.member \notin fetched => IsDemandArchive(prog, pos) /\ p \in Index

\* No lazy slot is forgotten, and each was offered by the index of an archive.
LazySlots ==
  \A n \in Names :
    /\ table[n].kind # "LazyObject"
    /\ table[n].kind = "LazyArchive" =>
         /\ pc = "failed" \/ table[n].member \in fetched
              \/ [name |-> n, member |-> table[n].member] \in SetOf(queue)
         /\ \E x \in Archives :
              [name |-> n, member |-> table[n].member] \in SetOf(prog.index[x])

\* A symbol the seed loop has still to insert.
InWork(n, kinds) ==
  pc = "seed" /\ \E e \in SetOf(work) : e.name = n /\ e.sym.kind \in kinds

\* What a member in the link defines is provided, or about to be, or refused.
MembersProvide ==
  \A m \in fetched, n \in Names :
    Defines(prog, m, n) =>
      table[n].kind \in Provided \/ errors # {} \/ InWork(n, Provided)

\* Undefined names can cite an object, and what an alias stands for is known to
\* the table, or about to be.
ReferencesLogged ==
  \A n \in Names :
    /\ table[n].kind = "Undefined" => table[n].origin \in referrers[n]
    /\ table[n].kind = "Alias" =>
         table[table[n].to].kind # "Vacant" \/ InWork(table[n].to, {"Undefined"})

\* After classification nothing is undefined, after allocation nothing tentative.
Outcome ==
  /\ pc \in {"resolved", "done"} => \A n \in Names : table[n].kind # "Undefined"
  /\ pc = "done" => \A n \in Names : table[n].kind # "Common"

\* The inductive invariant.
ResolveInv ==
  /\ TypeOK
  /\ LoopsApart
  /\ ForcedLoop
  /\ ScanLoop
  /\ LinkedOnce
  /\ QueueInStep
  /\ LazySlots
  /\ MembersProvide
  /\ ReferencesLogged
  /\ Outcome
-----------------------------------------------------------------------------
(* The lists that the thread works through. *)

\* What a list holds has the type of the list; the empty one holds nothing.
LEMMA Listed == ASSUME NEW S, NEW l \in Seq(S) PROVE SetOf(l) \subseteq S
  BY DEF SetOf
LEMMA NothingListed == SetOf(<<>>) = {}
  BY DEF SetOf

\* An item is taken from the front of a list.
LEMMA TakenFromFront ==
  ASSUME NEW S, NEW l \in Seq(S), l # <<>>
  PROVE  /\ Head(l) \in S /\ Tail(l) \in Seq(S)
         /\ SetOf(l) = {Head(l)} \cup SetOf(Tail(l))
PROOF
  <1>1. /\ Head(l) = l[1] /\ Head(l) \in S /\ Tail(l) \in Seq(S) /\ Len(l) \in Nat \ {0}
        /\ DOMAIN l = 1 .. Len(l) /\ DOMAIN Tail(l) = 1 .. Len(l) - 1
        /\ \A i \in 1 .. Len(l) - 1 : Tail(l)[i] = l[i + 1]
    OBVIOUS
  <1>2. ASSUME NEW i \in DOMAIN l, i # 1 PROVE i - 1 \in DOMAIN Tail(l) /\ l[i] = Tail(l)[i - 1]
    BY <1>1, <1>2
  <1>3. 1 \in DOMAIN l /\ \A i \in DOMAIN Tail(l) : i + 1 \in DOMAIN l
    BY <1>1
  <1>4. ASSUME NEW i \in DOMAIN l PROVE l[i] \in {Head(l)} \cup SetOf(Tail(l))
    <2>1. CASE i = 1
      BY <1>1, <2>1, Zenon
    <2>2. CASE i # 1
      BY <1>2, <2>2, Zenon DEF SetOf
    <2> QED BY <2>1, <2>2, Zenon
  <1>5. {Head(l)} \cup SetOf(Tail(l)) \subseteq SetOf(l)
    BY <1>1, <1>3, Zenon DEF SetOf
  <1> QED BY <1>1, <1>4, <1>5, Zenon DEF SetOf

\* An item is put at the end of a list.
LEMMA PutAtEnd ==
  ASSUME NEW S, NEW l \in Seq(S), NEW x \in S
  PROVE  Append(l, x) \in Seq(S) /\ SetOf(Append(l, x)) = SetOf(l) \cup {x}
PROOF
  <1>1. /\ Append(l, x) \in Seq(S) /\ DOMAIN l = 1 .. Len(l) /\ Len(l) \in Nat
        /\ DOMAIN Append(l, x) = 1 .. Len(l) + 1 /\ Append(l, x)[Len(l) + 1] = x
        /\ \A i \in DOMAIN l : Append(l, x)[i] = l[i]
    OBVIOUS
  <1>2. /\ Len(l) + 1 \in DOMAIN Append(l, x)
        /\ \A i \in DOMAIN Append(l, x) : i \in DOMAIN l \/ i = Len(l) + 1
        /\ \A i \in DOMAIN l : i \in DOMAIN Append(l, x)
    BY <1>1
  <1>3. SetOf(Append(l, x)) \subseteq SetOf(l) \cup {x}
    BY <1>1, <1>2, Zenon DEF SetOf
  <1>4. SetOf(l) \cup {x} \subseteq SetOf(Append(l, x))
    BY <1>1, <1>2, Zenon DEF SetOf
  <1> QED BY <1>1, <1>3, <1>4, Zenon

\* An item is put in front of a list.
LEMMA PutInFront ==
  ASSUME NEW S, NEW l \in Seq(S), NEW x \in S
  PROVE  <<x>> \o l \in Seq(S) /\ SetOf(<<x>> \o l) = {x} \cup SetOf(l)
PROOF
  <1> DEFINE p == <<x>> \o l
  <1>1. /\ p \in Seq(S) /\ Len(p) = Len(l) + 1 /\ Len(l) \in Nat /\ p # <<>>
        /\ Head(p) = x /\ Tail(p) \in Seq(S) /\ Len(Tail(p)) = Len(l)
    OBVIOUS
  <1>2. \A i \in 1 .. Len(l) : Tail(p)[i] = l[i]
    OBVIOUS
  <1>3. Tail(p) = l
    BY <1>1, <1>2
  <1> QED BY <1>1, <1>3, TakenFromFront, Zenon
-----------------------------------------------------------------------------
(* The top-level inputs and the stack of pending fetches. *)

\* A stack is its top and the rest.
LEMMA TopAndRest ==
  ASSUME NEW S, NEW l \in Seq(S), l # <<>>
  PROVE  /\ Top(l) \in S /\ Pop(l) \in Seq(S)
         /\ SetOf(l) = {Top(l)} \cup SetOf(Pop(l))
PROOF
  <1>0. Len(l) \in Nat \ {0}
    OBVIOUS
  <1>1. Top(l) \in S /\ Pop(l) \in Seq(S) /\ Len(l) \in Nat \ {0}
    <2>1. Top(l) \in S
      BY <1>0 DEF Top
    <2>2. Pop(l) \in Seq(S)
      BY <1>0 DEF Pop
    <2> QED BY <1>0, <2>1, <2>2, Zenon
  <1>2. Len(Pop(l)) = Len(l) - 1 /\ \A i \in 1 .. Len(l) - 1 : Pop(l)[i] = l[i]
    BY <1>0 DEF Pop
  <1>3. ASSUME NEW i \in DOMAIN l PROVE l[i] \in {Top(l)} \cup SetOf(Pop(l))
    <2>1. CASE i = Len(l)
      BY <2>1, Zenon DEF Top
    <2>2. CASE i # Len(l)
      <3>1. i \in DOMAIN Pop(l) /\ Pop(l)[i] = l[i]
        BY <1>1, <1>2, <2>2
      <3> QED BY <3>1 DEF SetOf
    <2> QED BY <2>1, <2>2, Zenon
  <1>4. Top(l) \in SetOf(l)
    <2>1. Len(l) \in DOMAIN l /\ Top(l) = l[Len(l)]
      BY <1>1 DEF Top
    <2> QED BY <2>1, Zenon DEF SetOf
  <1>5. ASSUME NEW i \in DOMAIN Pop(l) PROVE Pop(l)[i] \in SetOf(l)
    <2>1. i \in DOMAIN l /\ Pop(l)[i] = l[i]
      BY <1>1, <1>2
    <2> QED BY <2>1, Zenon DEF SetOf
  <1> QED BY <1>1, <1>3, <1>4, <1>5, Zenon DEF SetOf

LineItem ==
  [type : {"Object"}, id : Files]
    \cup [type : {"Archive", "ForceLoadArchive"}, id : Archives]
    \cup [type : {"Dylib"}, id : Dylibs]

\* The legacy force loads come after the ordered inputs.
LEMMA LineShape ==
  ASSUME NEW p, IsProgram(p)
  PROVE  /\ Line(p) \in Seq(LineItem) /\ Len(p.line) \in Nat
         /\ Len(Line(p)) \in Nat /\ Len(p.line) <= Len(Line(p))
         /\ DOMAIN p.line = 1 .. Len(p.line)
         /\ \A i \in 1 .. Len(p.line) : Line(p)[i] = p.line[i]
PROOF
  <1> DEFINE more == [i \in DOMAIN p.legacy |->
                        [type |-> "ForceLoadArchive", id |-> p.legacy[i]]]
  <1>1. p.line \in Seq(LineItem) /\ p.legacy \in Seq(Archives)
    BY Zenon DEF IsProgram, LineItem
  <1>2. more \in Seq(LineItem)
    <2>1. DOMAIN p.legacy = 1 .. Len(p.legacy) /\ Len(p.legacy) \in Nat
      BY <1>1
    <2>2. more \in [1 .. Len(p.legacy) -> LineItem]
      BY <1>1, <2>1 DEF LineItem
    <2> QED BY <2>1, <2>2
  <1>3. Line(p) = p.line \o more
    BY Zenon DEF Line
  <1> HIDE DEF more
  <1> QED BY <1>1, <1>2, <1>3

\* What kind of input the current one is, and what it names.
LEMMA CurrentShape ==
  ASSUME TypeOK, InLine
  PROVE  /\ Current \in LineItem
         /\ Current.type = "Object" => Current.id \in Files
         /\ Current.type = "Dylib" => Current.id \in Dylibs
         /\ IsForced(prog, pos) \/ IsDemandArchive(prog, pos) => Current.id \in Archives
         /\ ~(IsForced(prog, pos) /\ IsDemandArchive(prog, pos))
         /\ Current.type \in {"Object", "Dylib"} =>
              ~IsForced(prog, pos) /\ ~IsDemandArchive(prog, pos)
PROOF
  <1>1. Current \in LineItem
    BY LineShape DEF TypeOK, InLine, Current
  <1> QED BY <1>1, Zenon DEF LineItem, Current, IsForced, IsDemandArchive
-----------------------------------------------------------------------------
(* Seeds. *)

\* Seeds are items of the seed loop.
LEMMA SeedsAreItems ==
  ASSUME NEW l \in Seq(Seeds)
  PROVE  l \in Seq(SeedItem)
PROOF
  <1>1. Seeds \subseteq SeedItem
    BY Zenon DEF Seeds, SeedItem, SeedSymbols
  <1> QED BY <1>1

\* What an object file seeds.
LEMMA ObjectSeeds ==
  ASSUME TypeOK, NEW f \in Files
  PROVE  /\ ObjectItems(f) \in Seq(Seeds)
         /\ \A n \in Names : Defines(prog, f, n) =>
              \E e \in SetOf(ObjectItems(f)) : e.name = n /\ e.sym.kind \in Provided
PROOF
  <1> DEFINE l == prog.syms[f]
             Item(r) == [name |-> r.name, sym |-> Symbolize(r, f)]
  <1>1. l \in Seq(RawSymbol) /\ DOMAIN l = 1 .. Len(l) /\ Len(l) \in Nat
    BY DEF TypeOK, IsProgram
  <1>2. ASSUME NEW r \in RawSymbol
        PROVE  /\ Symbolize(r, f) \in SeedSymbols
               /\ r.type # "undef" => Symbolize(r, f).kind \in Provided
    <2>1. CASE r.type = "undef"
      BY <2>1, Zenon DEF RawSymbol, Symbolize, SeedSymbols, Symbol, UndefinedSymbols
    <2>2. CASE r.type = "common"
      BY <2>2, Zenon DEF RawSymbol, Symbolize, SeedSymbols, Symbol, CommonSymbols, Provided
    <2>3. CASE r.type = "def"
      BY <2>3, Zenon DEF RawSymbol, Symbolize, SeedSymbols, Symbol, DefinedSymbols, Provided
    <2>4. CASE r.type = "indirect"
      BY <2>4, Zenon DEF RawSymbol, Symbolize, SeedSymbols, Symbol, AliasSymbols, Provided
    <2> QED BY <2>1, <2>2, <2>3, <2>4, Zenon DEF RawSymbol
  <1>3. ObjectItems(f) = [i \in 1 .. Len(l) |-> Item(l[i])]
    BY <1>1, Zenon DEF ObjectItems
  <1>4. \A i \in 1 .. Len(l) : Item(l[i]) \in Seeds
    <2> TAKE i \in 1 .. Len(l)
    <2>1. l[i] \in RawSymbol
      BY <1>1
    <2>2. Symbolize(l[i], f) \in SeedSymbols /\ l[i].name \in Names
      BY <1>2, <2>1, Zenon DEF RawSymbol
    <2> QED BY <2>2, Zenon DEF Seeds
  <1>5. ObjectItems(f) \in Seq(Seeds)
    BY <1>1, <1>3, <1>4
  <1>6. ASSUME NEW n \in Names, Defines(prog, f, n)
        PROVE  \E e \in SetOf(ObjectItems(f)) : e.name = n /\ e.sym.kind \in Provided
    <2>1. PICK i \in 1 .. Len(l) : l[i].name = n /\ l[i].type # "undef"
      BY <1>1, <1>6, Zenon DEF Defines, SetOf
    <2>2. Item(l[i]).name = n /\ Item(l[i]).sym.kind \in Provided
      BY <1>1, <1>2, <2>1
    <2>3. Item(l[i]) \in SetOf(ObjectItems(f))
      BY <1>1, <1>3, <2>1, Zenon DEF SetOf
    <2> QED BY <2>2, <2>3
  <1> QED BY <1>5, <1>6, Zenon

\* What a dylib seeds.
LEMMA DylibSeeds ==
  ASSUME TypeOK, NEW d \in Dylibs
  PROVE  DylibItems(d) \in Seq(Seeds)
PROOF
  <1> DEFINE l == prog.exports[d]
             Export == [name : Names, weak : BOOLEAN]
  <1>0. l \in Seq(Export)
    BY Zenon DEF TypeOK, IsProgram
  <1>1. DOMAIN l = 1 .. Len(l) /\ Len(l) \in Nat /\ \A i \in 1 .. Len(l) : l[i] \in Export
    <2> HIDE DEF l, Export
    <2> QED BY <1>0
  <1>2. ASSUME NEW i \in 1 .. Len(l)
        PROVE  [name |-> l[i].name,
                sym |-> [kind |-> "DylibImport", origin |-> d, weak |-> l[i].weak]] \in Seeds
    <2> DEFINE s == [kind |-> "DylibImport", origin |-> d, weak |-> l[i].weak]
    <2>1. l[i].name \in Names /\ l[i].weak \in BOOLEAN
      BY <1>1, Zenon
    <2>2. s \in ImportSymbols
      BY <2>1 DEF ImportSymbols
    <2>3. s \in SeedSymbols
      BY <2>2, Zenon DEF SeedSymbols, Symbol
    <2> QED BY <2>1, <2>3, Zenon DEF Seeds
  <1> HIDE DEF l
  <1>3. DylibItems(d) = [i \in 1 .. Len(l) |->
          [name |-> l[i].name,
           sym |-> [kind |-> "DylibImport", origin |-> d, weak |-> l[i].weak]]]
    BY <1>1 DEF DylibItems, l
  <1> QED BY <1>1, <1>2, <1>3
-----------------------------------------------------------------------------
(* The symbol table, as resolution uses it. *)

\* Every step of resolution is an insert of a symbol, a step after the last
\* insert, or leaves the table alone.
LEMMA StepOfTable ==
  ASSUME TypeOK, LoopsApart, Next
  PROVE  [TableNext]_tvars
PROOF
  <1>1. CASE SeedSymbol
    <2>1. work \in Seq(Seeds) /\ work # <<>>
      BY <1>1 DEF SeedSymbol, LoopsApart
    <2>2. Head(work) \in Seeds
      BY <2>1, TakenFromFront
    <2>3. Head(work).name \in Names /\ Head(work).sym \in Symbol
      BY <2>2, Zenon DEF Seeds, SeedSymbols
    <2>4. Insert(Head(work).name, Head(work).sym)
      BY <1>1 DEF SeedSymbol
    <2> QED BY <2>3, <2>4, Zenon DEF TableNext
  <1>2. CASE ScanEntry
    <2>1. work \in Seq(IndexEntry) /\ work # <<>>
      BY <1>2, Zenon DEF ScanEntry, LoopsApart
    <2>2. Head(work) \in IndexEntry
      BY <2>1, TakenFromFront
    <2> DEFINE s == [kind |-> "LazyArchive", member |-> Head(work).member]
    <2>3. Head(work).name \in Names /\ s \in Symbol
      BY <2>2, Zenon DEF IndexEntry, Symbol, LazyArchiveSymbols
    <2>4. Insert(Head(work).name, s) \/ UNCHANGED tvars
      BY <1>2, Zenon DEF ScanEntry, tvars
    <2> HIDE DEF s
    <2> QED BY <2>3, <2>4, Zenon DEF TableNext
  <1>3. CASE Classify
    BY <1>3 DEF Classify, TableNext
  <1>4. CASE AllocateCommons
    BY <1>4, Zenon DEF AllocateCommons, TableNext
  <1>5. CASE Over
    BY <1>5, Zenon DEF Over, vars
  <1>6. CASE \/ TakeObject \/ TakeDylib \/ TakeArchive \/ TakeForced
             \/ ForceLoadNotArchive \/ DuplicateSymbols
             \/ SeedDone \/ ScanDone \/ ForceMember \/ ForceDone
             \/ SkipPending \/ FetchPending \/ DrainDone \/ UndefinedSymbolsError
    BY <1>6 DEF TakeObject, TakeDylib, TakeArchive, TakeForced, ForceLoadNotArchive,
         DuplicateSymbols, SeedDone, ScanDone, ForceMember, ForceDone, SkipPending,
         FetchPending, DrainDone, UndefinedSymbolsError
  <1> QED BY <1>1, <1>2, <1>3, <1>4, <1>5, <1>6 DEF Next, Step
-----------------------------------------------------------------------------
(* ResolveInv is inductive: the steps that leave the table, the queue and    *)
(* the link alone.                                                           *)

\* An empty list of work holds nothing.
LEMMA NothingInWork ==
  ASSUME pc = "seed" => work = <<>>, NEW n, NEW kinds
  PROVE  ~InWork(n, kinds)
  BY NothingListed DEF InWork

\* What a step between two loops leaves as it was.
LEMMA QuietStep ==
  ASSUME ResolveInv, pc # "failed", pc = "seed" => work = <<>>,
         UNCHANGED <<table, errors, prog, queue, fetched, objects, referrers>>,
         prepared' \subseteq prepared, pos' = pos \/ queue = <<>>
  PROVE  /\ LinkedOnce' /\ QueueInStep' /\ LazySlots'
         /\ MembersProvide' /\ ReferencesLogged'
PROOF
  <1>1. LinkedOnce'
    BY DEF ResolveInv, LinkedOnce
  <1>2. QueueInStep'
    <2>1. CASE pos' = pos
      BY <2>1, Zenon DEF ResolveInv, QueueInStep, Index, Current
    <2>2. CASE queue = <<>>
      BY <2>2, NothingListed DEF QueueInStep
    <2> QED BY <2>1, <2>2
  <1>3. LazySlots'
    BY Zenon DEF ResolveInv, LazySlots
  <1>4. MembersProvide'
    BY NothingInWork, Zenon DEF ResolveInv, MembersProvide
  <1>5. ReferencesLogged'
    BY NothingInWork DEF ResolveInv, ReferencesLogged
  <1> QED BY <1>1, <1>2, <1>3, <1>4, <1>5, Zenon

\* Beginning and ending an input.
LEMMA InputsBeginAndEnd ==
  ASSUME ResolveInv,
         \/ TakeObject \/ TakeDylib \/ TakeArchive \/ TakeForced
         \/ SeedDone \/ ScanDone \/ ForceDone \/ DrainDone
  PROVE  ResolveInv'
PROOF
  <1> USE DEF ResolveInv
  <1>0. /\ Len(Line(prog)) \in Nat /\ pos \in Nat \ {0} /\ pos <= Len(Line(prog)) + 1
        /\ IsProgram(prog)
    BY LineShape, Zenon DEF TypeOK, LoopsApart
  <1>1. CASE TakeObject
    <2>1. Current.id \in Files /\ ~IsForced(prog, pos)
      BY <1>1, CurrentShape DEF TakeObject
    <2>2. work' \in Seq(Seeds) /\ forced = <<>>
      BY <1>1, <2>1, ObjectSeeds, Zenon DEF TakeObject, LoopsApart
    <2>3. TypeOK'
      BY <1>1, <2>2, SeedsAreItems DEF TakeObject, TypeOK, tvars, TableTypeOK
    <2>4. LoopsApart' /\ ForcedLoop' /\ ScanLoop' /\ Outcome'
      BY <1>1, <2>1, <2>2 DEF TakeObject, tvars, LoopsApart, InLine, ForcedLoop, ScanLoop, Outcome
    <2> QED BY <1>1, <2>3, <2>4, QuietStep DEF TakeObject, tvars
  <1>2. CASE TakeDylib
    <2>1. Current.id \in Dylibs /\ ~IsForced(prog, pos)
      BY <1>2, CurrentShape DEF TakeDylib
    <2>2. work' \in Seq(Seeds) /\ forced = <<>>
      BY <1>2, <2>1, DylibSeeds DEF TakeDylib, LoopsApart
    <2>3. TypeOK'
      BY <1>2, <2>2, SeedsAreItems, Zenon DEF TakeDylib, TypeOK, tvars, TableTypeOK
    <2>4. LoopsApart' /\ ForcedLoop' /\ ScanLoop' /\ Outcome'
      BY <1>2, <2>1, <2>2 DEF TakeDylib, tvars, LoopsApart, InLine, ForcedLoop, ScanLoop, Outcome
    <2> QED BY <1>2, <2>3, <2>4, QuietStep, Zenon DEF TakeDylib, tvars
  <1>3. CASE TakeArchive
    <2>1. Current.id \in Archives
      BY <1>3, CurrentShape, Zenon DEF TakeArchive
    <2>2. work' \in Seq(IndexEntry) /\ forced = <<>> /\ prepared = {}
      BY <1>3, <2>1 DEF TakeArchive, LoopsApart, TypeOK, IsProgram
    <2>3. TypeOK'
      BY <1>3, <2>2 DEF TakeArchive, TypeOK, tvars, TableTypeOK
    <2>4. LoopsApart' /\ ForcedLoop' /\ ScanLoop' /\ Outcome'
      BY <1>3, <2>1, <2>2, Zenon DEF TakeArchive, tvars, LoopsApart, InLine, ForcedLoop, ScanLoop,
           Outcome, Index, Current
    <2> QED BY <1>3, <2>3, <2>4, QuietStep DEF TakeArchive, tvars
  <1>4. CASE TakeForced
    <2>1. Current.id \in Archives /\ ~IsDemandArchive(prog, pos)
      BY <1>4, CurrentShape, Zenon DEF TakeForced
    <2>2. forced' \in Seq(Files) /\ prepared = {}
      BY <1>4, <2>1, Zenon DEF TakeForced, LoopsApart, TypeOK, IsProgram
    <2>3. TypeOK'
      BY <1>4, <2>2 DEF TakeForced, TypeOK, tvars, TableTypeOK
    <2>4. LoopsApart' /\ ForcedLoop' /\ ScanLoop' /\ Outcome'
      BY <1>4, <2>1, <2>2 DEF TakeForced, tvars, LoopsApart, InLine, ForcedLoop, ScanLoop,
           Outcome, Members, Current
    <2> QED BY <1>4, <2>3, <2>4, QuietStep DEF TakeForced, tvars
  <1>5. CASE SeedDone
    <2>1. TypeOK'
      BY <1>5 DEF SeedDone, TypeOK, tvars, TableTypeOK
    <2>2. LoopsApart' /\ ScanLoop' /\ Outcome'
      BY <1>5, Zenon DEF SeedDone, tvars, LoopsApart, InLine, ForcedLoop, ScanLoop, Outcome
    <2>3. ForcedLoop'
      BY <1>5, Zenon DEF SeedDone, tvars, LoopsApart, InLine, ForcedLoop, Members, Current
    <2> QED BY <1>5, <2>1, <2>2, <2>3, QuietStep, Zenon DEF SeedDone, tvars
  <1>6. CASE ScanDone
    <2>1. TypeOK'
      BY <1>0, <1>6 DEF ScanDone, TypeOK, tvars, TableTypeOK
    <2>2. IsDemandArchive(prog, pos) /\ ~IsForced(prog, pos) /\ InLine
      BY <1>6, CurrentShape, Zenon DEF ScanDone, ScanLoop, LoopsApart
    <2>3. LoopsApart' /\ ForcedLoop' /\ ScanLoop' /\ Outcome'
      BY <1>0, <1>6, <2>2 DEF ScanDone, tvars, LoopsApart, InLine, ForcedLoop, ScanLoop, Outcome
    <2> QED BY <1>6, <2>1, <2>3, QuietStep DEF ScanDone, tvars
  <1>7. CASE ForceDone
    <2>1. TypeOK'
      BY <1>7, Zenon DEF ForceDone, TypeOK, tvars, TableTypeOK
    <2>2. LoopsApart' /\ ForcedLoop' /\ ScanLoop' /\ Outcome'
      BY <1>7 DEF ForceDone, tvars, LoopsApart, InLine, ForcedLoop, ScanLoop, Outcome,
           Members, Current
    <2> QED BY <1>7, <2>1, <2>2, QuietStep, Zenon DEF ForceDone, tvars
  <1>8. CASE DrainDone
    <2>1. InLine /\ work = <<>> /\ forced = <<>>
      BY <1>8 DEF DrainDone, LoopsApart
    <2>2. CASE IsDemandArchive(prog, pos)
      <3>1. Current.id \in Archives /\ ~IsForced(prog, pos)
        BY <2>1, <2>2, CurrentShape
      <3>2. work' \in Seq(IndexEntry)
        BY <1>8, <2>2, <3>1 DEF DrainDone, TypeOK, IsProgram
      <3>3. TypeOK'
        BY <1>8, <2>2, <3>2, Zenon DEF DrainDone, TypeOK, tvars, TableTypeOK
      <3>4. LoopsApart' /\ ForcedLoop' /\ ScanLoop' /\ Outcome'
        BY <1>8, <2>1, <2>2, <3>1, <3>2 DEF DrainDone, tvars, LoopsApart, InLine, ForcedLoop,
             ScanLoop, Outcome, Index, Current
      <3> QED BY <1>8, <2>2, <3>3, <3>4, QuietStep, Zenon DEF DrainDone, tvars
    <2>3. CASE ~IsDemandArchive(prog, pos)
      <3>1. TypeOK'
        BY <1>0, <1>8, <2>3 DEF DrainDone, TypeOK, tvars, TableTypeOK
      <3>2. LoopsApart' /\ ForcedLoop' /\ ScanLoop' /\ Outcome'
        BY <1>0, <1>8, <2>1, <2>3 DEF DrainDone, tvars, LoopsApart, InLine, ForcedLoop,
             ScanLoop, Outcome
      <3> QED BY <1>8, <2>3, <3>1, <3>2, QuietStep, Zenon DEF DrainDone, tvars
    <2> QED BY <2>2, <2>3, Zenon
  <1> QED BY <1>1, <1>2, <1>3, <1>4, <1>5, <1>6, <1>7, <1>8

\* The errors that end the ordered pass.
LEMMA LinkRejected ==
  ASSUME ResolveInv, ForceLoadNotArchive \/ DuplicateSymbols \/ UndefinedSymbolsError
  PROVE  ResolveInv'
PROOF
  <1> USE DEF ResolveInv
  <1>1. CASE ForceLoadNotArchive
    <2>1. TypeOK'
      BY <1>1 DEF ForceLoadNotArchive, Fail, TypeOK, tvars, TableTypeOK
    <2>2. LoopsApart' /\ ForcedLoop' /\ ScanLoop' /\ Outcome'
      BY <1>1, Zenon DEF ForceLoadNotArchive, Fail, tvars, LoopsApart, ForcedLoop, ScanLoop, Outcome
    <2> QED BY <1>1, <2>1, <2>2, QuietStep, Zenon DEF ForceLoadNotArchive, tvars
  <1>2. CASE DuplicateSymbols
    <2>1. TypeOK'
      BY <1>2, Zenon DEF DuplicateSymbols, Fail, TypeOK, tvars, TableTypeOK
    <2>2. LoopsApart' /\ ForcedLoop' /\ ScanLoop' /\ Outcome'
      BY <1>2 DEF DuplicateSymbols, Fail, tvars, LoopsApart, ForcedLoop, ScanLoop, Outcome
    <2> QED BY <1>2, <2>1, <2>2, QuietStep DEF DuplicateSymbols, tvars
  <1>3. CASE UndefinedSymbolsError
    <2>1. TypeOK'
      BY <1>3, Zenon DEF UndefinedSymbolsError, Fail, TypeOK, tvars, TableTypeOK
    <2>2. LoopsApart' /\ ForcedLoop' /\ ScanLoop' /\ Outcome'
      BY <1>3 DEF UndefinedSymbolsError, Fail, tvars, LoopsApart, ForcedLoop, ScanLoop, Outcome
    <2> QED BY <1>3, <2>1, <2>2, QuietStep DEF UndefinedSymbolsError, tvars
  <1> QED BY <1>1, <1>2, <1>3
-----------------------------------------------------------------------------
(* ... the fetch queue and the link ... *)

\* An entry that was overtaken is dropped.
LEMMA EntrySkipped ==
  ASSUME ResolveInv, SkipPending
  PROVE  ResolveInv'
PROOF
  <1> USE DEF ResolveInv
  <1>1. /\ queue \in Seq(IndexEntry) /\ queue # <<>> /\ pc = "drain" /\ work = <<>> /\ forced = <<>>
        /\ ~Serviceable(Top(queue)) /\ queue' = Pop(queue) /\ prepared' \subseteq prepared
        /\ UNCHANGED <<table, errors, prog, pos, pc, work, forced, fetched, objects, referrers, result>>
    BY Zenon DEF SkipPending, tvars, TypeOK, LoopsApart
  <1>2. queue' \in Seq(IndexEntry) /\ SetOf(queue) = {Top(queue)} \cup SetOf(queue')
    BY <1>1, TopAndRest
  <1>3. TypeOK'
    BY <1>1, <1>2 DEF TypeOK, TableTypeOK
  <1>4. LoopsApart' /\ ForcedLoop' /\ ScanLoop' /\ Outcome'
    BY <1>1, Zenon DEF LoopsApart, InLine, ForcedLoop, ScanLoop, Outcome, Members, Current
  <1>5. LinkedOnce'
    BY <1>1 DEF LinkedOnce
  <1>6. QueueInStep'
    BY <1>1, <1>2 DEF QueueInStep, Index, Current
  <1>7. LazySlots'
    <2> SUFFICES ASSUME NEW n \in Names, table[n].kind = "LazyArchive", table[n].member \notin fetched
                 PROVE  [name |-> n, member |-> table[n].member] \in SetOf(queue')
      BY <1>1 DEF LazySlots
    <2>1. [name |-> n, member |-> table[n].member] \in SetOf(queue)
      BY <1>1 DEF LazySlots
    <2>2. [name |-> n, member |-> table[n].member] # Top(queue)
      BY <1>1 DEF Serviceable, StillLazy
    <2> QED BY <1>2, <2>1, <2>2, Zenon
  <1>8. MembersProvide' /\ ReferencesLogged'
    BY <1>1, NothingInWork DEF MembersProvide, ReferencesLogged
  <1> QED BY <1>3, <1>4, <1>5, <1>6, <1>7, <1>8

\* A member joins the link: all that waited for it is answered, or will be by
\* the symbols that are now to be seeded.
LEMMA MemberJoins ==
  ASSUME ResolveInv, NEW m \in Files, m \notin fetched, m \notin prog.bad,
         pc \in {"force", "drain"}, Ingest(m),
         UNCHANGED <<table, errors, prog, pos, referrers>>,
         prepared' \cap (fetched \cup {m}) = {},
         SetOf(queue') \subseteq SetOf(queue),
         \A p \in SetOf(queue) : p \in SetOf(queue') \/ p.member = m
  PROVE  /\ work' \in Seq(Seeds) /\ objects' \in Seq(Files) /\ fetched' \subseteq Files
         /\ ScanLoop' /\ LinkedOnce' /\ QueueInStep' /\ LazySlots'
         /\ MembersProvide' /\ ReferencesLogged' /\ Outcome'
PROOF
  <1> USE DEF ResolveInv
  <1>1. /\ pc' = "seed" /\ work' = ObjectItems(m) /\ fetched' = fetched \cup {m}
        /\ objects' = Append(objects, m) /\ objects \in Seq(Files) /\ fetched \subseteq Files
    BY DEF Ingest, TypeOK
  <1>2. work' \in Seq(Seeds)
    BY <1>1, ObjectSeeds
  <1>3. objects' \in Seq(Files) /\ SetOf(objects') = SetOf(objects) \cup {m}
    BY <1>1, PutAtEnd
  <1>4. ScanLoop' /\ Outcome'
    BY <1>1 DEF ScanLoop, Outcome
  <1>5. LinkedOnce'
    <2>1. \A i, j \in DOMAIN objects' : objects'[i] = objects'[j] => i = j
      <3>1. /\ DOMAIN objects = 1 .. Len(objects) /\ Len(objects) \in Nat
            /\ DOMAIN objects' = 1 .. Len(objects) + 1
            /\ objects'[Len(objects) + 1] = m
            /\ \A i \in 1 .. Len(objects) : objects'[i] = objects[i] /\ objects[i] # m
        BY <1>1 DEF LinkedOnce, SetOf
      <3>2. \A i, j \in 1 .. Len(objects) : objects[i] = objects[j] => i = j
        BY <3>1, Zenon DEF LinkedOnce
      <3>3. \A i \in DOMAIN objects' : i \in 1 .. Len(objects) \/ i = Len(objects) + 1
        BY <3>1
      <3> QED BY <3>1, <3>2, <3>3
    <2> QED BY <1>1, <1>3, <2>1 DEF LinkedOnce
  <1>6. QueueInStep'
    BY <1>1, Zenon DEF QueueInStep, Index, Current
  <1>7. LazySlots'
    <2> SUFFICES ASSUME NEW n \in Names, table[n].kind = "LazyArchive", table[n].member \notin fetched'
                 PROVE  [name |-> n, member |-> table[n].member] \in SetOf(queue')
      BY Zenon DEF LazySlots
    <2>1. [name |-> n, member |-> table[n].member] \in SetOf(queue)
      BY <1>1, Zenon DEF LazySlots
    <2> QED BY <1>1, <2>1
  <1>8. MembersProvide'
    <2> SUFFICES ASSUME NEW f \in fetched', NEW n \in Names, Defines(prog, f, n)
                 PROVE  table[n].kind \in Provided \/ errors # {} \/ InWork(n, Provided)'
      BY DEF MembersProvide
    <2>1. CASE f = m
      BY <1>1, <2>1, ObjectSeeds DEF InWork
    <2>2. CASE f # m
      BY <1>1, <2>2, NothingInWork, Zenon DEF MembersProvide
    <2> QED BY <2>1, <2>2, Zenon
  <1>9. ReferencesLogged'
    BY NothingInWork DEF ReferencesLogged
  <1> QED BY <1>1, <1>2, <1>3, <1>4, <1>5, <1>6, <1>7, <1>8, <1>9, Zenon

\* force_load_archive takes the next member.
LEMMA MemberForced ==
  ASSUME ResolveInv, ForceMember
  PROVE  ResolveInv'
PROOF
  <1> USE DEF ResolveInv
  <1> DEFINE m == Head(forced)
  <1>1. /\ forced \in Seq(Files) /\ forced # <<>> /\ pc = "force" /\ forced' = Tail(forced)
        /\ prepared = {} /\ work = <<>>
        /\ UNCHANGED <<table, errors, prog, pos, queue, prepared, referrers>>
    BY Zenon DEF ForceMember, tvars, TypeOK, LoopsApart
  <1>2. /\ m \in Files /\ forced' \in Seq(Files)
        /\ SetOf(forced) = {m} \cup SetOf(forced')
    BY <1>1, TakenFromFront
  <1>3. CASE m \in prog.bad
    <2>1. pc' = "failed" /\ result' = "Fetch" /\ UNCHANGED <<work, fetched, objects>>
      BY <1>3 DEF ForceMember, Fail
    <2>2. TypeOK'
      BY <1>1, <1>2, <2>1 DEF TypeOK, TableTypeOK
    <2>3. LoopsApart' /\ ForcedLoop' /\ ScanLoop' /\ Outcome'
      BY <1>1, <1>2, <2>1, Zenon DEF LoopsApart, InLine, ForcedLoop, ScanLoop, Outcome, Members, Current
    <2> QED BY <1>1, <2>1, <2>2, <2>3, QuietStep
  <1>4. CASE m \notin prog.bad /\ m \in fetched
    <2>1. UNCHANGED <<pc, work, fetched, objects, result>>
      BY <1>4, Zenon DEF ForceMember
    <2>2. TypeOK'
      BY <1>1, <1>2, <2>1 DEF TypeOK, TableTypeOK
    <2>3. LoopsApart' /\ ScanLoop' /\ Outcome'
      BY <1>1, <2>1 DEF LoopsApart, InLine, ScanLoop, Outcome
    <2>4. ForcedLoop'
      BY <1>1, <1>2, <1>4, <2>1 DEF LoopsApart, InLine, ForcedLoop, Members, Current
    <2> QED BY <1>1, <2>1, <2>2, <2>3, <2>4, QuietStep
  <1>5. CASE m \notin prog.bad /\ m \notin fetched
    <2>1. Ingest(m) /\ UNCHANGED result
      BY <1>5 DEF ForceMember
    <2>2. /\ work' \in Seq(Seeds) /\ objects' \in Seq(Files) /\ fetched' \subseteq Files
          /\ ScanLoop' /\ LinkedOnce' /\ QueueInStep' /\ LazySlots'
          /\ MembersProvide' /\ ReferencesLogged' /\ Outcome'
      <3> HIDE DEF m
      <3> QED BY <1>1, <1>2, <1>5, <2>1, MemberJoins
    <2>3. TypeOK'
      BY <1>1, <1>2, <2>1, <2>2, SeedsAreItems DEF TypeOK, TableTypeOK, Ingest
    <2>4. LoopsApart'
      BY <1>1, <2>1, <2>2, Zenon DEF LoopsApart, InLine, Ingest
    <2>5. ForcedLoop'
      BY <1>1, <1>2, <2>1 DEF LoopsApart, InLine, ForcedLoop, Members, Current, Ingest
    <2> QED BY <2>2, <2>3, <2>4, <2>5, Zenon
  <1> QED BY <1>3, <1>4, <1>5

\* drain_fetches_into services the entry at the top.
LEMMA MemberFetched ==
  ASSUME ResolveInv, FetchPending
  PROVE  ResolveInv'
PROOF
  <1> USE DEF ResolveInv
  <1> DEFINE m == Top(queue).member
  <1>1. /\ queue \in Seq(IndexEntry) /\ queue # <<>> /\ pc = "drain" /\ forced = <<>> /\ work = <<>>
        /\ Serviceable(Top(queue)) /\ queue' = Pop(queue)
        /\ UNCHANGED <<table, errors, prog, pos, forced, referrers>>
    BY DEF FetchPending, tvars, TypeOK, LoopsApart
  <1>2. /\ Top(queue) \in IndexEntry /\ queue' \in Seq(IndexEntry)
        /\ SetOf(queue) = {Top(queue)} \cup SetOf(queue')
    BY <1>1, TopAndRest
  <1>3. m \in Files /\ m \notin fetched
    BY <1>1, <1>2, Zenon DEF IndexEntry, Serviceable
  <1>4. prepared' \subseteq Files /\ prepared' \cap (fetched \cup {m}) = {}
    <2>1. \A p \in SetOf(queue) : p.member \in Files
      BY <1>1, Listed, Zenon DEF IndexEntry
    <2>2. Preparsed \subseteq Files /\ Preparsed \cap fetched = {}
      BY <1>3, <2>1 DEF Preparsed, Serviceable, TypeOK, LinkedOnce
    <2>3. prepared' = (IF m \in prepared THEN prepared ELSE Preparsed) \ {m}
      BY Zenon DEF FetchPending
    <2> HIDE DEF m
    <2> QED BY <2>2, <2>3 DEF TypeOK, LinkedOnce
  <1>5. CASE m \in prog.bad
    <2>1. pc' = "failed" /\ result' = "Fetch" /\ UNCHANGED <<work, fetched, objects>>
      BY <1>5 DEF FetchPending, Fail
    <2>2. TypeOK'
      BY <1>1, <1>2, <1>4, <2>1 DEF TypeOK, TableTypeOK
    <2>3. LoopsApart' /\ ForcedLoop' /\ ScanLoop' /\ Outcome'
      BY <1>1, <2>1 DEF LoopsApart, InLine, ForcedLoop, ScanLoop, Outcome
    <2>4. LinkedOnce'
      BY <1>1, <1>4, <2>1, Zenon DEF LinkedOnce
    <2>5. QueueInStep'
      BY <1>1, <1>2, <2>1 DEF QueueInStep, Index, Current
    <2>6. LazySlots'
      BY <1>1, <2>1 DEF LazySlots
    <2>7. MembersProvide' /\ ReferencesLogged'
      BY <1>1, <2>1, NothingInWork, Zenon DEF MembersProvide, ReferencesLogged
    <2> QED BY <2>2, <2>3, <2>4, <2>5, <2>6, <2>7, Zenon
  <1>6. CASE m \notin prog.bad
    <2>1. Ingest(m) /\ UNCHANGED result
      BY <1>6 DEF FetchPending
    <2>2. \A p \in SetOf(queue) : p \in SetOf(queue') \/ p.member = m
      BY <1>2
    <2>3. /\ work' \in Seq(Seeds) /\ objects' \in Seq(Files) /\ fetched' \subseteq Files
          /\ ScanLoop' /\ LinkedOnce' /\ QueueInStep' /\ LazySlots'
          /\ MembersProvide' /\ ReferencesLogged' /\ Outcome'
      <3>1. SetOf(queue') \subseteq SetOf(queue)
        BY <1>2
      <3> HIDE DEF m
      <3> QED BY <1>1, <1>3, <1>4, <1>6, <2>1, <2>2, <3>1, MemberJoins
    <2>4. TypeOK'
      BY <1>1, <1>2, <1>4, <2>1, <2>3, SeedsAreItems DEF TypeOK, TableTypeOK, Ingest
    <2>5. LoopsApart'
      BY <1>1, <2>1, <2>3 DEF LoopsApart, InLine, Ingest
    <2>6. ForcedLoop'
      BY <1>1, <2>1, Zenon DEF LoopsApart, InLine, ForcedLoop, Members, Current, Ingest
    <2> QED BY <2>3, <2>4, <2>5, <2>6
  <1> QED BY <1>5, <1>6
-----------------------------------------------------------------------------
(* ... and the table. *)

\* One symbol is seeded: the case the resolution matrix is there for.
LEMMA SymbolSeeded ==
  ASSUME ResolveInv, SeedSymbol
  PROVE  ResolveInv'
PROOF
  <1> USE DEF ResolveInv
  <1> DEFINE n == Head(work).name
             s == Head(work).sym
             v == Verdict(table, n, s)
             new == SlotAfter(table[n], s, v)
             wanted == [name |-> n, member |-> table[n].member]
  <1>1. /\ pc = "seed" /\ work \in Seq(Seeds) /\ work # <<>> /\ table \in Table
        /\ UNCHANGED <<prog, pos, pc, forced, prepared, fetched, objects, result>>
    BY DEF SeedSymbol, LoopsApart, TypeOK, TableTypeOK, Table
  <1>2. /\ Head(work) \in Seeds /\ Tail(work) \in Seq(Seeds)
        /\ SetOf(work) = {Head(work)} \cup SetOf(Tail(work))
    BY <1>1, TakenFromFront
  <1>3. n \in Names /\ s \in SeedSymbols /\ s \in Symbol
    BY <1>2, Zenon DEF Seeds, SeedSymbols
  <1>4. table' = [table EXCEPT ![n] = new] /\ errors' = errors \cup ErrorsOf(table, n, s, v)
    BY DEF SeedSymbol, Insert
  <1>5. work' = IF s.kind = "Alias" /\ v \notin InsertErrors
                  THEN <<TargetItem(s)>> \o Tail(work) ELSE Tail(work)
    BY DEF SeedSymbol
  <1>6. queue' = IF v \in FetchVerdicts THEN Append(queue, wanted) ELSE queue
    BY Zenon DEF SeedSymbol
  <1>7. referrers' = IF s.kind = "DylibImport" THEN referrers
                     ELSE [referrers EXCEPT ![n] = @ \cup {s.origin}]
    BY DEF SeedSymbol
  <1>8. TableTypeOK'
    BY StepOfTable, TableTypeKept DEF Next, Step, TypeOK
  <1> HIDE DEF n, s
  <1>9. /\ new \in Symbol \cup {Vacant}
        /\ new.kind \in {"LazyArchive", "LazyObject"} => new = table[n]
        /\ new.kind = "Vacant" => table[n].kind = "Vacant" /\ s.kind = "Alias"
        /\ new.kind = "Undefined" =>
             \/ table[n].kind = "Undefined" /\ new.origin = table[n].origin
             \/ new = s
        /\ table[n].kind \notin {"Vacant", "Undefined"} => new.kind \notin {"Vacant", "Undefined"}
        /\ table[n].kind \in Provided => new.kind \in Provided
        /\ s.kind \in Provided => new.kind \in Provided \/ v \in InsertErrors
        /\ new.kind = "Alias" => new = table[n] \/ (new = s /\ v \notin InsertErrors)
        /\ v \in FetchVerdicts => table[n].kind = "LazyArchive"
        /\ v \in InsertErrors => ErrorsOf(table, n, s, v) # {}
    <2>1. SlotSeeded(table, n, s)
      BY <1>1, <1>3, SeededSlot
    <2> QED BY <2>1, Zenon DEF SlotSeeded
  <1> HIDE DEF v, new, wanted
  <1>10. /\ table'[n] = new /\ \A k \in Names \ {n} : table'[k] = table[k]
    BY <1>1, <1>3, <1>4, Zenon DEF Table
  <1>11. \A k \in Names : table'[k].kind = "Vacant" => table[k].kind = "Vacant"
    BY <1>9, <1>10
  <1>12. /\ work' \in Seq(Seeds) /\ SetOf(Tail(work)) \subseteq SetOf(work')
         /\ s.kind = "Alias" /\ v \notin InsertErrors => TargetItem(s) \in SetOf(work')
    <2>1. CASE s.kind = "Alias" /\ v \notin InsertErrors
      <3>1. s \in AliasSymbols
        BY <1>3, <2>1, KindsTellShapes
      <3>2. TargetItem(s).sym \in SeedSymbols /\ TargetItem(s).name \in Names
        BY <3>1 DEF TargetItem, AliasSymbols, SeedSymbols, Symbol, UndefinedSymbols
      <3>3. TargetItem(s) \in Seeds
        BY <3>2, Zenon DEF TargetItem, Seeds
      <3>4. work' = <<TargetItem(s)>> \o Tail(work)
        BY <1>5, <2>1, Zenon
      <3>5. /\ <<TargetItem(s)>> \o Tail(work) \in Seq(Seeds)
            /\ SetOf(<<TargetItem(s)>> \o Tail(work)) = {TargetItem(s)} \cup SetOf(Tail(work))
        BY <1>2, <3>3, PutInFront, Zenon
      <3> QED BY <3>4, <3>5
    <2>2. CASE ~(s.kind = "Alias" /\ v \notin InsertErrors)
      BY <1>2, <1>5, <2>2, Zenon
    <2> QED BY <2>1, <2>2
  <1>13. /\ queue' \in Seq(IndexEntry)
         /\ SetOf(queue') = IF v \in FetchVerdicts THEN SetOf(queue) \cup {wanted} ELSE SetOf(queue)
    <2>1. CASE v \in FetchVerdicts
      <3>1. table[n] \in LazyArchiveSymbols
        BY <1>1, <1>3, <1>9, <2>1, KindsTellShapes DEF Table
      <3>2. wanted \in IndexEntry
        BY <1>3, <3>1 DEF wanted, IndexEntry, LazyArchiveSymbols
      <3>3. queue \in Seq(IndexEntry)
        BY Zenon DEF TypeOK
      <3> QED BY <1>6, <2>1, <3>2, <3>3, PutAtEnd
    <2>2. CASE v \notin FetchVerdicts
      BY <1>6, <2>2 DEF TypeOK
    <2> QED BY <2>1, <2>2
  <1>14. /\ referrers' \in [Names -> SUBSET Files]
         /\ \A k \in Names : referrers[k] \subseteq referrers'[k]
         /\ s.kind # "DylibImport" => s.origin \in referrers'[n]
    <2>1. s.kind # "DylibImport" => s.origin \in Files
      BY <1>3, KindsTellShapes DEF SeedSymbols, UndefinedSymbols, DefinedSymbols, CommonSymbols,
           AliasSymbols, Symbol, Vacant, LazyArchiveSymbols, LazyObjectSymbols, ImportSymbols
    <2>2. referrers \in [Names -> SUBSET Files]
      BY DEF TypeOK
    <2> QED BY <1>3, <1>7, <2>1, <2>2, Zenon
  <1>15. TypeOK'
    BY <1>1, <1>8, <1>12, <1>13, <1>14, SeedsAreItems DEF TypeOK
  <1>16. LoopsApart' /\ ScanLoop' /\ Outcome'
    BY <1>1, <1>12 DEF LoopsApart, InLine, ScanLoop, Outcome
  <1>17. ForcedLoop'
    BY <1>1 DEF ForcedLoop, InLine, Members, Current
  <1>18. LinkedOnce'
    BY <1>1 DEF LinkedOnce
  <1>19. QueueInStep'
    <2> SUFFICES ASSUME NEW p \in SetOf(queue')
                 PROVE  /\ table'[p.name].kind \notin {"Vacant", "Undefined"}
                        /\ table'[p.name].kind = "LazyArchive" => table'[p.name].member = p.member
                        /\ p.member \notin fetched => IsDemandArchive(prog, pos) /\ p \in Index
      BY <1>1 DEF QueueInStep, Index, Current
    <2>1. CASE p \in SetOf(queue)
      <3>0. SetOf(queue) \subseteq IndexEntry
        BY Listed DEF TypeOK
      <3>1. p.name \in Names
        BY <2>1, <3>0 DEF IndexEntry
      <3>2. /\ table[p.name].kind \notin {"Vacant", "Undefined"}
            /\ table[p.name].kind = "LazyArchive" => table[p.name].member = p.member
            /\ p.member \notin fetched => IsDemandArchive(prog, pos) /\ p \in Index
        BY <2>1 DEF QueueInStep
      <3> QED BY <1>9, <1>10, <3>1, <3>2, Zenon
    <2>2. CASE p \notin SetOf(queue)
      <3>1. p = wanted /\ v \in FetchVerdicts
        BY <1>13, <2>2
      <3>2. p.name = n /\ p.member = table[n].member /\ table[n].kind = "LazyArchive"
        BY <1>9, <3>1, Zenon DEF wanted
      <3>3. p.member \in fetched
        BY <1>1, <1>3, <2>2, <3>1, <3>2 DEF LazySlots, wanted
      <3> QED BY <1>9, <1>10, <3>2, <3>3
    <2> QED BY <2>1, <2>2, Zenon
  <1>20. LazySlots'
    <2> SUFFICES ASSUME NEW k \in Names
                 PROVE  /\ table'[k].kind # "LazyObject"
                        /\ table'[k].kind = "LazyArchive" => table'[k] = table[k]
      BY <1>1, <1>13, Zenon DEF LazySlots
    <2> QED BY <1>9, <1>10, Zenon DEF LazySlots
  <1>21. MembersProvide'
    <2> SUFFICES ASSUME NEW f \in fetched, NEW k \in Names, Defines(prog, f, k)
                 PROVE  table'[k].kind \in Provided \/ errors' # {} \/ InWork(k, Provided)'
      BY <1>1, Zenon DEF MembersProvide
    <2>1. CASE table[k].kind \in Provided
      BY <1>9, <1>10, <2>1
    <2>2. CASE errors # {}
      BY <1>4, <2>2, Zenon
    <2>3. CASE InWork(k, Provided)
      <3>1. PICK e \in SetOf(work) : e.name = k /\ e.sym.kind \in Provided
        BY <2>3, Zenon DEF InWork
      <3>2. CASE e = Head(work)
        BY <1>4, <1>9, <1>10, <3>1, <3>2, Zenon DEF n, s
      <3>3. CASE e # Head(work)
        BY <1>1, <1>2, <1>12, <3>1, <3>3 DEF InWork
      <3> QED BY <3>2, <3>3
    <2> QED BY <2>1, <2>2, <2>3 DEF MembersProvide
  <1>22. ReferencesLogged'
    <2> SUFFICES ASSUME NEW k \in Names
                 PROVE  /\ table'[k].kind = "Undefined" => table'[k].origin \in referrers'[k]
                        /\ table'[k].kind = "Alias" =>
                             \/ table'[table'[k].to].kind # "Vacant"
                             \/ \E e \in SetOf(work') :
                                  e.name = table'[k].to /\ e.sym.kind = "Undefined"
      BY <1>1 DEF ReferencesLogged, InWork
    <2>1. table'[k].kind = "Undefined" => table'[k].origin \in referrers'[k]
      BY <1>9, <1>10, <1>14 DEF ReferencesLogged
    <2>2. ASSUME table'[k].kind = "Alias", table'[k] = table[k]
          PROVE  \/ table'[table'[k].to].kind # "Vacant"
                 \/ \E e \in SetOf(work') : e.name = table'[k].to /\ e.sym.kind = "Undefined"
      <3>1. table[k].to \in Names
        BY <1>1, <2>2, KindsTellShapes DEF Table, AliasSymbols
      <3>2. CASE table[table[k].to].kind # "Vacant"
        BY <1>11, <2>2, <3>1, <3>2, Zenon
      <3>3. CASE InWork(table[k].to, {"Undefined"})
        <4>1. PICK e \in SetOf(work) : e.name = table[k].to /\ e.sym.kind = "Undefined"
          BY <3>3, Zenon DEF InWork
        <4>2. CASE e = Head(work)
          <5>1. n = table[k].to /\ s.kind = "Undefined"
            BY <4>1, <4>2 DEF n, s
          <5>2. table'[n].kind # "Vacant"
            BY <1>9, <1>10, <5>1
          <5> QED BY <2>2, <5>1, <5>2
        <4>3. CASE e # Head(work)
          BY <1>2, <1>12, <2>2, <4>1, <4>3, Zenon
        <4> QED BY <4>2, <4>3
      <3> QED BY <2>2, <3>2, <3>3 DEF ReferencesLogged
    <2>3. ASSUME table'[k].kind = "Alias", table'[k] # table[k]
          PROVE  \E e \in SetOf(work') : e.name = table'[k].to /\ e.sym.kind = "Undefined"
      <3>1. table'[k] = s /\ s.kind = "Alias" /\ v \notin InsertErrors
        BY <1>9, <1>10, <2>3, Zenon
      <3>2. TargetItem(s) \in SetOf(work')
        BY <1>12, <3>1
      <3>3. TargetItem(s).name = s.to /\ TargetItem(s).sym.kind = "Undefined"
        BY DEF TargetItem
      <3> QED BY <3>1, <3>2, <3>3
    <2> QED BY <2>1, <2>2, <2>3, Zenon
  <1> QED BY <1>15, <1>16, <1>17, <1>18, <1>19, <1>20, <1>21, <1>22

\* One index entry is looked at.
LEMMA EntryScanned ==
  ASSUME ResolveInv, ScanEntry
  PROVE  ResolveInv'
PROOF
  <1> USE DEF ResolveInv
  <1> DEFINE e == Head(work)
             n == e.name
             s == [kind |-> "LazyArchive", member |-> e.member]
             asked == [name |-> n, member |-> e.member]
  <1>1. /\ pc = "scan" /\ work \in Seq(IndexEntry) /\ work # <<>> /\ table \in Table
        /\ work' = Tail(work)
        /\ UNCHANGED <<prog, pos, pc, forced, prepared, fetched, objects, referrers, result>>
    BY DEF ScanEntry, LoopsApart, TypeOK, TableTypeOK, Table
  <1>2. /\ e \in IndexEntry /\ work' \in Seq(IndexEntry)
        /\ SetOf(work) = {e} \cup SetOf(work')
    BY <1>1, TakenFromFront
  <1>3. /\ n \in Names /\ e.member \in Files /\ asked = e
        /\ e \in Index /\ IsDemandArchive(prog, pos) /\ InLine
    BY <1>1, <1>2, Zenon DEF IndexEntry, ScanLoop, LoopsApart
  <1>4. TableTypeOK'
    BY StepOfTable, TableTypeKept DEF Next, Step, TypeOK
  <1>5. CASE table[n].kind = "Undefined"
    <2>1. Insert(n, s) /\ queue' = Append(queue, asked)
      BY <1>5 DEF ScanEntry
    <2> HIDE DEF n
    <2>2. table' = [table EXCEPT ![n] = s] /\ errors' = errors
      <3>1. /\ SlotAfter(table[n], s, Verdict(table, n, s)) = s
            /\ ErrorsOf(table, n, s, Verdict(table, n, s)) = {}
        BY <1>5, ScannedSlot, Zenon
      <3> HIDE DEF s
      <3> QED BY <2>1, <3>1 DEF Insert
    <2>3. /\ queue' \in Seq(IndexEntry) /\ SetOf(queue') = SetOf(queue) \cup {e}
      BY <1>2, <1>3, <2>1, PutAtEnd DEF TypeOK
    <2>4. table'[n] = s /\ \A k \in Names \ {n} : table'[k] = table[k]
      BY <1>1, <1>3, <2>2 DEF Table
    <2> HIDE DEF e
    <2>5. TypeOK'
      BY <1>1, <1>2, <1>4, <2>3, Zenon DEF TypeOK
    <2>6. LoopsApart' /\ Outcome'
      BY <1>1, <1>2, <2>2 DEF LoopsApart, InLine, Outcome
    <2>7. ForcedLoop'
      BY <1>1, Zenon DEF ForcedLoop, LoopsApart
    <2>8. ScanLoop'
      <3>1. SetOf(work') \subseteq Index
        BY <1>1, <1>2, Zenon DEF ScanLoop
      <3>2. ASSUME NEW x \in Index, x \notin SetOf(work') PROVE table'[x.name].kind # "Undefined"
        <4>1. CASE x.name = n
          BY <2>4, <4>1
        <4>2. CASE x.name # n
          <5>1. x # e
            BY <4>2 DEF n
          <5>2. table[x.name].kind # "Undefined"
            BY <1>1, <1>2, <3>2, <5>1 DEF ScanLoop
          <5>3. Index \subseteq IndexEntry
            <6>1. Current.id \in Archives
              BY <1>3, CurrentShape
            <6>2. prog.index[Current.id] \in Seq(IndexEntry)
              BY <6>1, Zenon DEF TypeOK, IsProgram
            <6> QED BY <6>2, Listed DEF Index
          <5> QED BY <2>4, <4>2, <5>2, <5>3 DEF IndexEntry
        <4> QED BY <4>1, <4>2, Zenon
      <3> QED BY <1>1, <1>3, <3>1, <3>2 DEF ScanLoop, Index, Current
    <2>9. LinkedOnce'
      BY <1>1 DEF LinkedOnce
    <2>10. QueueInStep'
      <3> SUFFICES ASSUME NEW p \in SetOf(queue')
                   PROVE  /\ table'[p.name].kind \notin {"Vacant", "Undefined"}
                          /\ table'[p.name].kind = "LazyArchive" =>
                               table'[p.name].member = p.member
                          /\ p.member \notin fetched => IsDemandArchive(prog, pos) /\ p \in Index
        BY <1>1, Zenon DEF QueueInStep, Index, Current
      <3>1. CASE p = e
        BY <1>3, <2>4, <3>1 DEF n
      <3>2. CASE p \in SetOf(queue)
        <4>0. SetOf(queue) \subseteq IndexEntry
          BY Listed, Zenon DEF TypeOK
        <4>1. p.name \in Names
          BY <3>2, <4>0, Zenon DEF IndexEntry
        <4>2. /\ table[p.name].kind \notin {"Vacant", "Undefined"}
              /\ table[p.name].kind = "LazyArchive" => table[p.name].member = p.member
              /\ p.member \notin fetched => IsDemandArchive(prog, pos) /\ p \in Index
          BY <3>2 DEF QueueInStep
        <4> QED BY <1>5, <2>4, <4>1, <4>2
      <3> QED BY <2>3, <3>1, <3>2
    <2>11. LazySlots'
      <3> SUFFICES ASSUME NEW k \in Names
                   PROVE  /\ table'[k].kind # "LazyObject"
                          /\ table'[k].kind = "LazyArchive" =>
                               /\ \/ table'[k].member \in fetched
                                  \/ [name |-> k, member |-> table'[k].member] \in SetOf(queue')
                               /\ \E x \in Archives :
                                    [name |-> k, member |-> table'[k].member] \in SetOf(prog.index[x])
        BY <1>1, Zenon DEF LazySlots
      <3>1. CASE k = n
        <4>1. [name |-> k, member |-> table'[k].member] = e
          BY <1>3, <2>4, <3>1
        <4>2. Current.id \in Archives
          BY <1>3, CurrentShape, Zenon
        <4> QED BY <1>3, <2>3, <2>4, <3>1, <4>1, <4>2 DEF Index
      <3>2. CASE k # n
        BY <1>1, <2>3, <2>4, <3>2 DEF LazySlots
      <3> QED BY <3>1, <3>2
    <2>12. MembersProvide'
      <3>1. \A k \in Names : table[k].kind \in Provided => table'[k].kind \in Provided
        BY <1>5, <2>4 DEF Provided
      <3> QED BY <1>1, <2>2, <3>1, NothingInWork DEF MembersProvide
    <2>13. ReferencesLogged'
      <3>1. \A k \in Names : /\ table'[k].kind \in {"Undefined", "Alias"} => table'[k] = table[k]
                             /\ table[k].kind # "Vacant" => table'[k].kind # "Vacant"
        BY <2>4
      <3>2. \A k \in Names : table[k].kind = "Alias" => table[k].to \in Names
        BY <1>1, KindsTellShapes DEF Table, AliasSymbols
      <3> QED BY <1>1, <3>1, <3>2, NothingInWork DEF ReferencesLogged
    <2> QED BY <2>5, <2>6, <2>7, <2>8, <2>9, <2>10, <2>11, <2>12, <2>13
  <1>6. CASE table[n].kind # "Undefined"
    <2>1. UNCHANGED <<table, errors, queue>>
      BY <1>6 DEF ScanEntry, tvars
    <2>2. TypeOK'
      BY <1>1, <1>2, <1>4, <2>1, Zenon DEF TypeOK
    <2>3. LoopsApart' /\ Outcome' /\ ForcedLoop'
      BY <1>1, <1>2, <2>1 DEF LoopsApart, InLine, Outcome, ForcedLoop
    <2>4. ScanLoop'
      BY <1>1, <1>2, <1>3, <1>6, <2>1 DEF ScanLoop, Index, Current
    <2> QED BY <1>1, <2>1, <2>2, <2>3, <2>4, QuietStep, Zenon
  <1> QED BY <1>5, <1>6, Zenon

\* classify_unresolved promotes what is left, materialize_common_symbols gives
\* the tentative definitions storage.
LEMMA TableFinished ==
  ASSUME ResolveInv, Classify \/ AllocateCommons
  PROVE  ResolveInv'
PROOF
  <1> USE DEF ResolveInv
  <1>1. TableTypeOK'
    BY StepOfTable, TableTypeKept DEF Next, Step, TypeOK
  <1>2. /\ pc \in {"next", "resolved"} /\ pc' \in {"resolved", "done"}
        /\ UNCHANGED <<errors, prog, pos, work, forced, queue, prepared, fetched, objects,
                       referrers, result>>
    BY Zenon DEF Classify, AllocateCommons, Promote, MaterializeCommon
  <1>3. /\ \A n \in Names : \/ table'[n] = table[n]
                            \/ table[n].kind = "Undefined" /\ table'[n].kind = "DylibImport"
                            \/ table[n].kind = "Common" /\ table'[n].kind = "Defined"
    BY DEF Classify, AllocateCommons, Promote, MaterializeCommon
  <1>4. TypeOK'
    BY <1>1, <1>2 DEF TypeOK
  <1>5. LoopsApart'
    <2>1. errors = {}
      <3>1. CASE Classify
        <4>1. Len(Line(prog)) \in Nat /\ pos \in Nat \ {0} /\ pos <= Len(Line(prog)) + 1
          BY LineShape, Zenon DEF TypeOK, LoopsApart
        <4>2. pos = Len(Line(prog)) + 1
          BY <3>1, <4>1 DEF Classify, InLine
        <4> QED BY <3>1, <4>2 DEF Classify, MayProceed, AtCheckpoint
      <3>2. CASE AllocateCommons
        BY <3>2, Zenon DEF AllocateCommons, LoopsApart
      <3> QED BY <3>1, <3>2, Zenon
    <2> QED BY <1>2, <2>1, Zenon DEF LoopsApart
  <1>6. ForcedLoop' /\ ScanLoop' /\ LinkedOnce'
    BY <1>2, Zenon DEF LoopsApart, ForcedLoop, ScanLoop, LinkedOnce
  <1>7. QueueInStep'
    BY <1>2, NothingListed DEF LoopsApart, QueueInStep
  <1>8. LazySlots'
    BY <1>2, <1>3, Zenon DEF LazySlots
  <1>9. MembersProvide'
    BY <1>2, <1>3, NothingInWork, Zenon DEF MembersProvide, Provided
  <1>10. ReferencesLogged'
    <2>1. \A k \in Names : /\ table'[k].kind \in {"Undefined", "Alias"} => table'[k] = table[k]
                           /\ table[k].kind # "Vacant" => table'[k].kind # "Vacant"
      BY <1>3, Zenon
    <2>2. \A k \in Names : table[k].kind = "Alias" => table[k].to \in Names
      BY KindsTellShapes DEF TypeOK, TableTypeOK, AliasSymbols
    <2> QED BY <1>2, <2>1, <2>2, NothingInWork DEF ReferencesLogged
  <1>11. Outcome'
    <2>1. CASE Classify
      <3>1. \A n \in Names : table'[n].kind # "Undefined"
        BY <2>1 DEF Classify, Promote
      <3> QED BY <2>1, <3>1, Zenon DEF Classify, Outcome
    <2>2. CASE AllocateCommons
      <3>1. \A n \in Names : table[n].kind # "Undefined"
        BY <2>2 DEF AllocateCommons, Outcome
      <3>2. \A n \in Names : table'[n].kind \notin {"Undefined", "Common"}
        BY <2>2, <3>1, Zenon DEF AllocateCommons, MaterializeCommon
      <3> QED BY <3>2, Zenon DEF Outcome
    <2> QED BY <2>1, <2>2
  <1> QED BY <1>4, <1>5, <1>6, <1>7, <1>8, <1>9, <1>10, <1>11, Zenon

\* ResolveInv holds of a link that has not begun.
LEMMA ResolveInvInit == Init => ResolveInv
PROOF
  <1> SUFFICES ASSUME Init PROVE ResolveInv
    BY Zenon
  <1>1. IsProgram(prog) /\ Len(Line(prog)) \in Nat
    BY ProgramsAssumption, LineShape, Zenon DEF Init
  <1>2. table \in [Names -> {Vacant}] /\ \A n \in Names : table[n].kind = "Vacant"
    BY DEF Init, TableInit, Vacant
  <1>3. TypeOK
    BY <1>1, <1>2 DEF Init, TableInit, TypeOK, TableTypeOK
  <1>4. LoopsApart /\ ForcedLoop /\ ScanLoop
    BY <1>1 DEF Init, TableInit, LoopsApart, ForcedLoop, ScanLoop
  <1>5. LinkedOnce
    BY DEF Init, LinkedOnce, SetOf
  <1>6. QueueInStep
    BY NothingListed DEF Init, QueueInStep
  <1>7. LazySlots /\ MembersProvide /\ ReferencesLogged /\ Outcome
    BY <1>2, Zenon DEF Init, LazySlots, MembersProvide, ReferencesLogged, Outcome
  <1> QED BY <1>3, <1>4, <1>5, <1>6, <1>7 DEF ResolveInv

\* Every step keeps ResolveInv.
LEMMA ResolveInvKept == ResolveInv /\ [Next]_vars => ResolveInv'
PROOF
  <1> SUFFICES ASSUME ResolveInv, [Next]_vars PROVE ResolveInv'
    BY Zenon
  <1>1. CASE UNCHANGED vars
    <2>1. /\ UNCHANGED <<table, errors>>
          /\ UNCHANGED <<prog, pos, pc, work, forced, queue, prepared, fetched, objects,
                         referrers, result>>
      BY <1>1, Zenon DEF vars, tvars, rvars
    <2>2. TypeOK' /\ LoopsApart'
      BY <2>1 DEF ResolveInv, TypeOK, TableTypeOK, LoopsApart, InLine
    <2>3. ForcedLoop' /\ ScanLoop'
      <3>1. ForcedLoop'
        BY <2>1, Zenon DEF ResolveInv, ForcedLoop, Members, Current, InLine
      <3>2. ScanLoop'
        BY <2>1, Zenon DEF ResolveInv, ScanLoop, Index, Current
      <3> QED BY <3>1, <3>2, Zenon
    <2>4. LinkedOnce' /\ QueueInStep'
      BY <2>1, Zenon DEF ResolveInv, LinkedOnce, QueueInStep, Index, Current
    <2>5. LazySlots' /\ Outcome'
      BY <2>1, Zenon DEF ResolveInv, LazySlots, Outcome
    <2>6. MembersProvide'
      BY <2>1 DEF ResolveInv, MembersProvide, InWork
    <2>7. ReferencesLogged'
      BY <2>1, Zenon DEF ResolveInv, ReferencesLogged, InWork
    <2> QED BY <2>2, <2>3, <2>4, <2>5, <2>6, <2>7 DEF ResolveInv
  <1>2. CASE Over
    BY <1>1, <1>2, Zenon DEF Over
  <1>3. CASE Step
    BY <1>3, InputsBeginAndEnd, LinkRejected, EntrySkipped, MemberForced, MemberFetched,
       SymbolSeeded, EntryScanned, TableFinished DEF Step
  <1> QED BY <1>1, <1>2, <1>3 DEF Next

\* The inductive invariant holds of every link.
THEOREM ResolutionInvariant == Spec => []ResolveInv
  BY ResolveInvInit, ResolveInvKept, PTL DEF Spec
-----------------------------------------------------------------------------
(* What follows. *)

\* The state of resolution keeps its types, whatever the inputs.
THEOREM ResolveTypeCorrect == Spec => []TypeOK
PROOF
  <1>1. ResolveInv => TypeOK
    BY DEF ResolveInv
  <1> QED BY <1>1, ResolutionInvariant, PTL

\* However members are demanded, forced and queued, each becomes an input at
\* most once, and no queued fetch or parsed-ahead result is stale.
THEOREM MembersOnce == Spec => []MembersIngestedOnce
PROOF
  <1>1. ResolveInv => MembersIngestedOnce
    BY Zenon DEF ResolveInv, LinkedOnce, QueueInStep, LoopsApart, MembersIngestedOnce
  <1> QED BY <1>1, ResolutionInvariant, PTL

\* Whatever the inputs, resolution changes the symbol table only as TableSpec
\* allows, so that what is proved of TableSpec holds of every link.
THEOREM ResolveUsesTable == Spec => TableSpec
PROOF
  <1>1. Init => TableInit
    BY Zenon DEF Init
  <1>2. ResolveInv /\ [Next]_vars => [TableNext]_tvars
    BY StepOfTable, Zenon DEF ResolveInv, vars
  <1> QED BY <1>1, <1>2, ResolutionInvariant, PTL DEF Spec, TableSpec
=============================================================================
