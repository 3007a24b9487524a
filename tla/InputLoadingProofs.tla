------------------------- MODULE InputLoadingProofs -------------------------
(***************************************************************************)
(* A parallel load comes out as a serial one, for any number of threads    *)
(* and any command lines.                                                  *)
(***************************************************************************)
EXTENDS InputLoading, DataTheorems

(* The pool. *)

\* A pool that has not been asked for anything.
PoolQuiet ==
  /\ todo = <<>> /\ hands = [w \in Workers |-> 0] /\ live = {} /\ spawned = 0
  /\ chan = <<>> /\ got = <<>>

\* A job is in one place, and there once.
HeldOnce ==
  /\ Once(todo) /\ Once(chan) /\ Once(got)
  /\ \A v, w \in Workers : hands[v] = hands[w] /\ hands[v] # 0 => v = w
  /\ SetOf(todo) \cap SetOf(chan) = {} /\ SetOf(todo) \cap SetOf(got) = {}
  /\ SetOf(chan) \cap SetOf(got) = {}
  /\ InHand \cap (SetOf(todo) \cup SetOf(chan) \cup SetOf(got)) = {}

\* While a thread is left the deque may hold jobs; the last one leaves it empty.
PoolInv ==
  /\ PoolTypeOK /\ Once(jobs)
  /\ pool = "idle" => PoolQuiet
  /\ pool # "idle" =>
       /\ HeldOnce
       /\ SetOf(jobs) = SetOf(todo) \cup InHand \cup SetOf(chan) \cup SetOf(got)
  /\ \A w \in Workers : hands[w] # 0 => w \in live
  /\ pool \in {"spawn", "collect"} => JobCount > 1
  /\ pool = "collect" => spawned >= 1
  /\ spawned # 0 /\ live = {} => todo = <<>>
  /\ pool = "done" => live = {} /\ chan = <<>> /\ todo = <<>>

\* A worker's hands, when it takes a job and when it gives one up.
LEMMA HandsFill ==
  ASSUME NEW h \in [Workers -> Nat], NEW w \in Workers, h[w] = 0, NEW x \in Nat \ {0}
  PROVE  {[h EXCEPT ![w] = x][v] : v \in Workers} \ {0} =
           ({h[v] : v \in Workers} \ {0}) \cup {x}
PROOF
  <1> DEFINE g == [h EXCEPT ![w] = x]
             G == {g[v] : v \in Workers}
             H == {h[v] : v \in Workers}
  <1>1. g[w] = x /\ \A v \in Workers : v # w => g[v] = h[v]
    BY Zenon
  <1> HIDE DEF g
  <1>2. x \in G /\ \A y \in H : y # 0 => y \in G
    BY <1>1, Zenon
  <1>3. \A y \in G : y = x \/ y \in H
    BY <1>1, Zenon
  <1> HIDE DEF G, H
  <1>4. G \ {0} = (H \ {0}) \cup {x}
    BY <1>2, <1>3, Zenon
  <1> QED BY <1>4, Zenon DEF G, H, g

\* The same for a job given up.
LEMMA HandsEmpty ==
  ASSUME NEW h \in [Workers -> Nat], NEW w \in Workers, h[w] # 0,
         \A u, v \in Workers : h[u] = h[v] /\ h[u] # 0 => u = v
  PROVE  {[h EXCEPT ![w] = 0][v] : v \in Workers} \ {0} =
           ({h[v] : v \in Workers} \ {0}) \ {h[w]}
PROOF
  <1> DEFINE g == [h EXCEPT ![w] = 0]
             G == {g[v] : v \in Workers}
             H == {h[v] : v \in Workers}
  <1>1. g[w] = 0 /\ \A v \in Workers : v # w => g[v] = h[v]
    BY Zenon
  <1> HIDE DEF g
  <1>2. \A y \in H : y # 0 /\ y # h[w] => y \in G
    BY <1>1, Zenon
  <1>3. \A y \in G : y # 0 => y \in H /\ y # h[w]
    BY <1>1, Zenon
  <1> HIDE DEF G, H
  <1>4. G \ {0} = (H \ {0}) \ {h[w]}
    BY <1>2, <1>3, Zenon
  <1> QED BY <1>4, Zenon DEF G, H, g

\* There is a thread name for each thread of the pool.
LEMMA ThreadsNamed ==
  ASSUME PoolTypeOK, JobCount > 1
  PROVE  JobCount \in Nat /\ \A n \in Nat : 1 <= n /\ n <= JobCount => n \in Workers
PROOF
  <1>1. Len(jobs) \in Nat /\ Parallel \in Nat
    BY PoolAssumption DEF PoolTypeOK
  <1>2. PICK k \in Nat : k = Cardinality(Workers)
    BY PoolAssumption, FS_CardinalityType, Zenon
  <1>3. Workers = 1 .. k /\ Parallel <= k
    BY <1>2, PoolAssumption, Zenon
  <1>4. JobCount \in Nat /\ JobCount <= Parallel
    BY <1>1 DEF JobCount, Larger, Smaller
  <1>5. JobCount <= k
    BY <1>1, <1>3, <1>4
  <1>6. Workers = 1 .. k
    BY <1>3, Zenon
  <1> HIDE DEF JobCount
  <1> QED BY <1>4, <1>5, <1>6

\* What a step that leaves the jobs and the deque's users alone keeps.
Places == <<jobs, todo, hands, chan, got>>

\* The main thread opens the pool, or does the jobs itself.
LEMMA PoolBegins ==
  ASSUME PoolInv, RunSerially \/ OpenPool
  PROVE  PoolInv'
PROOF
  <1> USE DEF PoolInv
  <1>1. /\ pool = "idle" /\ PoolQuiet /\ jobs' = jobs /\ hands' = hands /\ live' = live
        /\ spawned' = spawned /\ chan' = chan
    BY Zenon DEF RunSerially, OpenPool
  <1>2. jobs \in Seq(Nat \ {0}) /\ Once(jobs) /\ SetOf(<<>>) = {}
    BY ListEmpty, Zenon DEF PoolTypeOK
  <1>3. InHand = {} /\ InHand' = {}
    BY <1>1, Zenon DEF InHand, PoolQuiet
  <1>4. \/ todo' = <<>> /\ got' = jobs /\ pool' = "done" /\ mainTx' = mainTx
        \/ todo' = jobs /\ got' = <<>> /\ pool' = "spawn" /\ mainTx' = TRUE /\ JobCount > 1
    BY <1>1, Zenon DEF RunSerially, OpenPool, PoolQuiet
  <1>5. Once(<<>>)
    BY DEF Once
  <1>6. HeldOnce'
    BY <1>1, <1>2, <1>3, <1>4, <1>5, Zenon DEF HeldOnce, PoolQuiet
  <1>7. PoolTypeOK'
    BY <1>1, <1>4, Zenon DEF PoolTypeOK, PoolQuiet
  <1>8. SetOf(jobs') = SetOf(todo') \cup InHand' \cup SetOf(chan') \cup SetOf(got')
    BY <1>1, <1>2, <1>3, <1>4, Zenon DEF PoolQuiet
  <1>9. JobCount' = JobCount
    BY <1>1, Zenon DEF JobCount
  <1> QED BY <1>1, <1>2, <1>4, <1>6, <1>7, <1>8, <1>9, Zenon DEF PoolQuiet

\* Threads are started, the main thread drops its sender, and the receiver's
\* loop ends once every sender is gone.
LEMMA PoolThreads ==
  ASSUME PoolInv, Spawn \/ DropTx \/ Disconnected
  PROVE  PoolInv'
PROOF
  <1> USE DEF PoolInv
  <1>1. UNCHANGED Places
    BY Zenon DEF Spawn, DropTx, Disconnected, Places
  <1>2. pool # "idle" /\ pool \in {"spawn", "collect"} /\ JobCount' = JobCount
    BY <1>1, Zenon DEF Spawn, DropTx, Disconnected, Places, JobCount
  <1>3. InHand' = InHand /\ HeldOnce' /\ Once(jobs)'
    BY <1>1, <1>2, Zenon DEF InHand, HeldOnce, Places
  <1>4. SetOf(jobs') = SetOf(todo') \cup InHand' \cup SetOf(chan') \cup SetOf(got')
    BY <1>1, <1>2, <1>3, Zenon DEF Places
  <1>5. CASE Spawn
    <2>1. spawned \in Nat /\ spawned + 1 \in Workers
      BY <1>2, <1>5, ThreadsNamed DEF Spawn, PoolTypeOK
    <2>2. PoolTypeOK'
      BY <1>1, <1>5, <2>1 DEF Spawn, PoolTypeOK, Places
    <2>3. live' # {} /\ live \subseteq live' /\ pool' = "spawn"
      BY <1>2, <1>5, Zenon DEF Spawn
    <2> QED BY <1>1, <1>2, <1>3, <1>4, <2>2, <2>3, Zenon DEF Places
  <1>6. CASE DropTx
    <2>1. PoolTypeOK' /\ live' = live /\ spawned' = spawned /\ pool' = "collect"
      BY <1>1, <1>6, Zenon DEF DropTx, PoolTypeOK, Places
    <2>2. spawned >= 1
      BY <1>2, <1>6 DEF DropTx, PoolTypeOK
    <2> QED BY <1>1, <1>2, <1>3, <1>4, <2>1, <2>2, Zenon DEF Places
  <1>7. CASE Disconnected
    <2>1. /\ PoolTypeOK' /\ live' = live /\ spawned' = spawned /\ pool' = "done"
          /\ live = {} /\ chan = <<>> /\ spawned >= 1
      BY <1>1, <1>7, Zenon DEF Disconnected, PoolTypeOK, Places
    <2>2. todo = <<>>
      BY <2>1 DEF PoolTypeOK
    <2> QED BY <1>1, <1>2, <1>3, <1>4, <2>1, <2>2, Zenon DEF Places
  <1> QED BY <1>5, <1>6, <1>7, Zenon

\* A worker takes the first job of the deque.
LEMMA JobTaken ==
  ASSUME PoolInv, NEW w \in Workers, PopJob(w)
  PROVE  PoolInv'
PROOF
  <1> USE DEF PoolInv
  <1> DEFINE x == Head(todo)
  <1>1. /\ pool # "idle" /\ pool # "done" /\ HeldOnce /\ w \in live /\ hands[w] = 0
        /\ todo \in Seq(Nat \ {0}) /\ todo # <<>> /\ hands \in [Workers -> Nat]
        /\ hands' = [hands EXCEPT ![w] = x] /\ todo' = Tail(todo)
        /\ UNCHANGED <<jobs, live, spawned, mainTx, chan, got, pool>>
    BY Zenon DEF PopJob, PoolQuiet, PoolTypeOK
  <1>2. /\ x \in Nat \ {0} /\ todo' \in Seq(Nat \ {0})
        /\ SetOf(todo) = {x} \cup SetOf(todo')
    BY <1>1, ListHead, Zenon
  <1>3. Once(todo') /\ x \notin SetOf(todo')
    BY <1>1, OnceTail, Zenon DEF HeldOnce
  <1>4. InHand' = InHand \cup {x}
    <2> HIDE DEF x
    <2>1. {[hands EXCEPT ![w] = x][v] : v \in Workers} \ {0} =
            ({hands[v] : v \in Workers} \ {0}) \cup {x}
      BY <1>1, <1>2, HandsFill
    <2> QED BY <1>1, <2>1, Zenon DEF InHand
  <1> HIDE DEF x
  <1>5. x \notin InHand /\ x \notin SetOf(chan) /\ x \notin SetOf(got)
    BY <1>1, <1>2, Zenon DEF HeldOnce
  <1>6. ASSUME NEW u \in Workers, NEW v \in Workers, hands'[u] = hands'[v], hands'[u] # 0
        PROVE  u = v
    <2>1. \A y \in Workers : hands[y] # 0 => hands[y] # x
      BY <1>5, Zenon DEF InHand
    <2>2. \A y \in Workers : hands'[y] = IF y = w THEN x ELSE hands[y]
      BY <1>1, Zenon
    <2> QED BY <1>1, <1>2, <1>6, <2>1, <2>2, Zenon DEF HeldOnce
  <1>7. HeldOnce'
    BY <1>1, <1>2, <1>3, <1>4, <1>5, <1>6 DEF HeldOnce
  <1>8. PoolTypeOK'
    BY <1>1, <1>2, Zenon DEF PoolTypeOK
  <1>9. SetOf(jobs)' = SetOf(todo)' \cup InHand' \cup SetOf(chan)' \cup SetOf(got)'
    BY <1>1, <1>2, <1>4, Zenon
  <1>10. \A v \in Workers : hands'[v] # 0 => v \in live'
    BY <1>1, Zenon
  <1>11. JobCount' = JobCount
    BY <1>1, Zenon DEF JobCount
  <1> QED BY <1>1, <1>7, <1>8, <1>9, <1>10, <1>11, Zenon

\* A worker sends the result of its job.
LEMMA ResultSent ==
  ASSUME PoolInv, NEW w \in Workers, SendResult(w)
  PROVE  PoolInv'
PROOF
  <1> USE DEF PoolInv
  <1> DEFINE x == hands[w]
  <1>1. /\ pool # "idle" /\ pool # "done" /\ HeldOnce /\ w \in live /\ x # 0
        /\ chan \in Seq(Nat \ {0}) /\ hands \in [Workers -> Nat] /\ x \in Nat \ {0}
        /\ hands' = [hands EXCEPT ![w] = 0] /\ chan' = Append(chan, x)
        /\ UNCHANGED <<jobs, todo, live, spawned, mainTx, got, pool>>
    BY Zenon DEF SendResult, PoolQuiet, PoolTypeOK
  <1>2. x \in InHand
    BY <1>1, Zenon DEF InHand
  <1>3. InHand' = InHand \ {x}
    <2>1. {[hands EXCEPT ![w] = 0][v] : v \in Workers} \ {0} =
            ({hands[v] : v \in Workers} \ {0}) \ {hands[w]}
      BY <1>1, HandsEmpty, Zenon DEF HeldOnce
    <2> QED BY <1>1, <2>1, Zenon DEF InHand
  <1>4. \A y \in Workers : hands'[y] = IF y = w THEN 0 ELSE hands[y]
    BY <1>1, Zenon
  <1> HIDE DEF x
  <1>5. chan' \in Seq(Nat \ {0}) /\ SetOf(chan') = SetOf(chan) \cup {x}
    BY <1>1, ListAppend
  <1>6. x \notin SetOf(todo) /\ x \notin SetOf(chan) /\ x \notin SetOf(got)
    BY <1>1, <1>2, Zenon DEF HeldOnce
  <1>7. Once(chan')
    BY <1>1, <1>6, OnceAppend, Zenon DEF HeldOnce
  <1>8. HeldOnce'
    <2>1. \A u, v \in Workers : hands'[u] = hands'[v] /\ hands'[u] # 0 => u = v
      BY <1>1, <1>4, Zenon DEF HeldOnce
    <2> QED BY <1>1, <1>3, <1>5, <1>6, <1>7, <2>1 DEF HeldOnce
  <1>9. PoolTypeOK'
    BY <1>1, <1>5, Zenon DEF PoolTypeOK
  <1>10. SetOf(jobs)' = SetOf(todo)' \cup InHand' \cup SetOf(chan)' \cup SetOf(got)'
    BY <1>1, <1>2, <1>3, <1>5
  <1>11. \A v \in Workers : hands'[v] # 0 => v \in live'
    BY <1>1, <1>4, Zenon
  <1>12. JobCount' = JobCount
    BY <1>1 DEF JobCount
  <1> QED BY <1>1, <1>8, <1>9, <1>10, <1>11, <1>12

\* The main thread receives a result, or a worker finds the deque empty.
LEMMA ResultReceived ==
  ASSUME PoolInv, Receive \/ \E w \in Workers : Exit(w)
  PROVE  PoolInv'
PROOF
  <1> USE DEF PoolInv
  <1>1. CASE Receive
    <2> DEFINE x == Head(chan)
    <2>1. /\ pool = "collect" /\ HeldOnce
          /\ chan \in Seq(Nat \ {0}) /\ chan # <<>> /\ got \in Seq(Nat \ {0})
          /\ chan' = Tail(chan) /\ got' = Append(got, x)
          /\ UNCHANGED <<jobs, todo, hands, live, spawned, mainTx, pool>>
      BY <1>1 DEF Receive, PoolTypeOK
    <2>2. /\ x \in Nat \ {0} /\ chan' \in Seq(Nat \ {0})
          /\ SetOf(chan) = {x} \cup SetOf(chan')
      BY <2>1, ListHead
    <2>3. Once(chan') /\ x \notin SetOf(chan')
      BY <2>1, OnceTail, Zenon DEF HeldOnce
    <2> HIDE DEF x
    <2>4. got' \in Seq(Nat \ {0}) /\ SetOf(got') = SetOf(got) \cup {x}
      BY <2>1, <2>2, ListAppend
    <2>5. x \notin SetOf(got)
      BY <2>1, <2>2 DEF HeldOnce
    <2>6. Once(got')
      BY <2>1, <2>2, <2>5, OnceAppend, Zenon DEF HeldOnce
    <2>7. InHand' = InHand /\ JobCount' = JobCount
      BY <2>1 DEF InHand, JobCount
    <2>8. HeldOnce'
      BY <2>1, <2>2, <2>3, <2>4, <2>6, <2>7 DEF HeldOnce
    <2>9. PoolTypeOK'
      BY <2>1, <2>2, <2>4, Zenon DEF PoolTypeOK
    <2> QED BY <2>1, <2>2, <2>4, <2>7, <2>8, <2>9, Zenon
  <1>2. ASSUME NEW w \in Workers, Exit(w) PROVE PoolInv'
    <2>1. /\ pool # "idle" /\ pool # "done" /\ live' = live \ {w} /\ hands[w] = 0
          /\ todo = <<>> /\ UNCHANGED <<jobs, todo, hands, spawned, mainTx, chan, got, pool>>
      BY <1>2 DEF Exit, PoolQuiet
    <2>2. InHand' = InHand /\ JobCount' = JobCount
      BY <2>1, Zenon DEF InHand, JobCount
    <2>3. HeldOnce' /\ PoolTypeOK'
      BY <2>1, <2>2 DEF HeldOnce, PoolTypeOK
    <2> QED BY <2>1, <2>2, <2>3, Zenon
  <1> QED BY <1>1, <1>2, Zenon

\* Every step of the pool keeps PoolInv.
LEMMA PoolInvKept ==
  ASSUME PoolInv, PoolNext
  PROVE  PoolInv'
  BY PoolBegins, PoolThreads, JobTaken, ResultSent, ResultReceived, Zenon
     DEF PoolNext, MainStep, WorkerStep

\* Sets that share nothing add up.
LEMMA DisjointUnion ==
  ASSUME NEW S, NEW T, IsFiniteSet(S), IsFiniteSet(T), S \cap T = {}
  PROVE  /\ IsFiniteSet(S \cup T)
         /\ Cardinality(S \cup T) = Cardinality(S) + Cardinality(T)
PROOF
  <1>1. /\ IsFiniteSet(S \cup T)
        /\ Cardinality(S \cup T) = Cardinality(S) + Cardinality(T) - Cardinality(S \cap T)
    BY FS_Union, Zenon
  <1>2. Cardinality(S \cap T) = 0
    BY FS_EmptySet, Zenon
  <1>3. Cardinality(S) \in Nat /\ Cardinality(T) \in Nat
    BY FS_CardinalityType
  <1> QED BY <1>1, <1>2, <1>3

\* The invariant conserves jobs: their number too, as no two places share one.
LEMMA PoolInvConserves ==
  ASSUME PoolInv
  PROVE  JobsConserved
PROOF
  <1> USE DEF PoolInv
  <1> SUFFICES ASSUME pool # "idle"
               PROVE  Len(jobs) = Len(todo) + Cardinality(InHand) + Len(chan) + Len(got)
    BY DEF JobsConserved
  <1> DEFINE A == SetOf(todo)
             B == InHand
             C == SetOf(chan)
             D == SetOf(got)
  <1>1. /\ IsFiniteSet(SetOf(jobs)) /\ Cardinality(SetOf(jobs)) = Len(jobs)
        /\ IsFiniteSet(A) /\ Cardinality(A) = Len(todo)
        /\ IsFiniteSet(C) /\ Cardinality(C) = Len(chan)
        /\ IsFiniteSet(D) /\ Cardinality(D) = Len(got)
    BY OnceLength DEF PoolTypeOK, HeldOnce
  <1>2. SetOf(jobs) = A \cup B \cup C \cup D
    BY Zenon
  <1>3. IsFiniteSet(B)
    BY <1>1, <1>2, FS_Subset
  <1>4. /\ A \cap B = {} /\ (A \cup B) \cap C = {} /\ (A \cup B \cup C) \cap D = {}
    BY Zenon DEF HeldOnce
  <1> HIDE DEF A, B, C, D
  <1>5. IsFiniteSet(A \cup B) /\ Cardinality(A \cup B) = Cardinality(A) + Cardinality(B)
    BY <1>1, <1>3, <1>4, DisjointUnion, Zenon
  <1>6. /\ IsFiniteSet(A \cup B \cup C)
        /\ Cardinality(A \cup B \cup C) = Cardinality(A \cup B) + Cardinality(C)
    BY <1>1, <1>4, <1>5, DisjointUnion, Zenon
  <1>7. Cardinality(A \cup B \cup C \cup D) = Cardinality(A \cup B \cup C) + Cardinality(D)
    BY <1>1, <1>4, <1>6, DisjointUnion, Zenon
  <1>8. Cardinality(A) \in Nat /\ Cardinality(B) \in Nat /\ Cardinality(C) \in Nat
    BY <1>1, <1>3, FS_CardinalityType
  <1> QED BY <1>1, <1>2, <1>5, <1>6, <1>7, <1>8 DEF A, B, C, D
-----------------------------------------------------------------------------
(* The passes of the driver, by what they have done with the inputs so far. *)

\* The inputs of the first pass, those put off by their names, the one that was
\* not found, and what is wrong or right with the inputs of S.
Early(c) == {i \in 1 .. FoundPrefix(c) : ~PutOff(c, i)}
Late(c) == {i \in 1 .. FoundPrefix(c) : PutOff(c, i)}
Missing(c) == IF FoundPrefix(c) < Len(c) THEN {FoundPrefix(c) + 1} ELSE {}
Bad(c, S) == {i \in S : ~Loads(c, i)}
Plain(c, S) == {i \in S : Loads(c, i) /\ c[i].file # "dylib"}
Dylib(c, S) == {i \in S : Loads(c, i) /\ c[i].file = "dylib"}

\* The inputs of the second pass, and the dylibs that have an ordinal or none.
Second(c) == Late(c) \cup Dylib(c, Early(c))
Sooner(c, i) == Cardinality({j \in Dylib(c, 1 .. FoundPrefix(c)) : j < i})
Numbered(c, S) == {i \in Dylib(c, S) : Sooner(c, i) < MaxOrdinal}
Excess(c, S) == {i \in Dylib(c, S) : Sooner(c, i) >= MaxOrdinal}

Below(S, T) == \A i \in S, j \in T : i < j

\* Before and during the parallel part.
InPool ==
  /\ SetOf(results) = {i \in Early(cmd) : ByMainThread(cmd, i)}
  /\ SetOf(jobs) = {i \in Early(cmd) : ~ByMainThread(cmd, i)}
  /\ SetOf(deferred) = Late(cmd)
  /\ Once(results) /\ Once(deferred) /\ order = <<>> /\ dylibs = <<>>
  /\ IsEarliest(firstError, Missing(cmd))

\* The first pass has dealt with the inputs P.
InRegister ==
  \E P \in SUBSET Early(cmd) :
    /\ P = Early(cmd) \ SetOf(results) /\ SetOf(results) \subseteq Early(cmd)
    /\ IsAscending(results) /\ Below(P, SetOf(results))
    /\ IsAscending(order) /\ SetOf(order) = Plain(cmd, P)
    /\ Once(deferred) /\ SetOf(deferred) = Late(cmd) \cup Dylib(cmd, P)
    /\ dylibs = <<>>
    /\ IsEarliest(firstError, Missing(cmd) \cup Bad(cmd, P))

\* The second pass has dealt with the inputs P.
InDylibs ==
  \E P \in SUBSET Second(cmd) :
    /\ P = Second(cmd) \ SetOf(deferred) /\ SetOf(deferred) \subseteq Second(cmd)
    /\ IsAscending(deferred) /\ Below(P, SetOf(deferred))
    /\ IsAscending(dylibs) /\ SetOf(dylibs) = Numbered(cmd, P)
    /\ Len(dylibs) = Smaller(Cardinality(Dylib(cmd, P)), MaxOrdinal)
    /\ Once(order) /\ SetOf(order) = Plain(cmd, Early(cmd)) \cup SetOf(dylibs)
    /\ IsEarliest(firstError, Missing(cmd) \cup Bad(cmd, Early(cmd) \cup P)
                                \cup Excess(cmd, P))

\* The inductive invariant of the driver.
LoadInv ==
  /\ cmd \in Commands /\ LoadTypeOK /\ PoolInv
  /\ phase = "specs" => pool = "idle" /\ order = <<>> /\ dylibs = <<>>
  /\ phase = "pool" => InPool
  /\ phase = "register" => pool = "done" /\ InRegister
  /\ phase = "dylibs" => InDylibs
  /\ phase \in {"ok", "failed"} =>
       /\ IsEarliest(firstError, Faulty(cmd)) /\ IsAscending(dylibs)
       /\ phase = "ok" => order = [i \in 1 .. Len(cmd) |-> i]

\* The search for inputs stops somewhere, at the first that is not found.
LEMMA PrefixFound ==
  ASSUME NEW c \in Commands
  PROVE  /\ Len(c) \in Nat \ {0} /\ FoundPrefix(c) \in 0 .. Len(c)
         /\ DOMAIN c = 1 .. Len(c) /\ c \in Seq(Input)
PROOF
  <1> DEFINE Stop(n) == /\ \A i \in 1 .. n : c[i].found
                        /\ n < Len(c) => ~c[n + 1].found
             S == {n \in Nat : (\A i \in 1 .. n : c[i].found)}
  <1>1. Len(c) \in Nat \ {0} /\ DOMAIN c = 1 .. Len(c) /\ c \in Seq(Input)
    BY CommandsAssumption
  <1>2. SUFFICES ASSUME ~ \E n \in 0 .. Len(c) : Stop(n) PROVE FALSE
    BY <1>1 DEF FoundPrefix
  <1>3. 0 \in S
    OBVIOUS
  <1>4. ASSUME NEW n \in Nat, n \in S \/ n > Len(c)
        PROVE  n + 1 \in S \/ n + 1 > Len(c)
    <2>1. CASE n \in S /\ n < Len(c)
      <3>1. c[n + 1].found
        BY <1>2, <2>1
      <3>2. \A i \in 1 .. n + 1 : i \in 1 .. n \/ i = n + 1
        OBVIOUS
      <3>3. \A i \in 1 .. n + 1 : c[i].found
        BY <2>1, <3>1, <3>2, Zenon
      <3> QED BY <3>3
    <2>2. CASE n >= Len(c)
      BY <1>1, <2>2
    <2> QED BY <1>1, <1>4, <2>1, <2>2
  <1> DEFINE T == {n \in Nat : n \in S \/ n > Len(c)}
  <1>5. Nat \subseteq T
    <2>1. 0 \in T
      BY <1>3
    <2>2. \A n \in Nat : n \in T => n + 1 \in T
      <3> HIDE DEF S
      <3> QED BY <1>4
    <2> HIDE DEF T
    <2> QED BY <2>1, <2>2, SetInduction, Zenon
  <1>6. Len(c) \in S
    BY <1>1, <1>5
  <1> QED BY <1>1, <1>2, <1>6

\* The parts that the passes deal with.
LEMMA Parts ==
  ASSUME NEW c \in Commands
  PROVE  /\ Early(c) \subseteq 1 .. FoundPrefix(c) /\ Late(c) \subseteq 1 .. FoundPrefix(c)
         /\ Early(c) \cup Late(c) = 1 .. FoundPrefix(c) /\ Early(c) \cap Late(c) = {}
         /\ Second(c) \subseteq 1 .. FoundPrefix(c)
         /\ 1 .. FoundPrefix(c) \subseteq 1 .. Len(c)
         /\ Missing(c) \subseteq 1 .. Len(c)
         /\ \A i \in Second(c) : Loads(c, i) => c[i].file = "dylib"
         /\ Dylib(c, Second(c)) = Dylib(c, 1 .. FoundPrefix(c))
         /\ \A i \in 1 .. FoundPrefix(c) : Loads(c, i) /\ c[i].file # "dylib" => i \in Early(c)
PROOF
  <1>1. Len(c) \in Nat /\ FoundPrefix(c) \in 0 .. Len(c)
    BY PrefixFound
  <1>2. \A i : Loads(c, i) /\ PutOff(c, i) => c[i].file = "dylib"
    BY DEF Loads, PutOff, ByMainThread
  <1>3. Missing(c) \subseteq 1 .. Len(c)
    BY <1>1 DEF Missing
  <1>4. 1 .. FoundPrefix(c) \subseteq 1 .. Len(c)
    BY <1>1
  <1>5. \A i \in Second(c) : Loads(c, i) => c[i].file = "dylib"
    BY <1>2 DEF Second, Late, Dylib
  <1>6. Dylib(c, Second(c)) = Dylib(c, 1 .. FoundPrefix(c))
    BY DEF Second, Late, Early, Dylib
  <1> QED BY <1>2, <1>3, <1>4, <1>5, <1>6, Zenon DEF Early, Late, Second, Dylib

\* retain_earliest_input_error keeps the first error of all that were met.
LEMMA EarliestRetained ==
  ASSUME NEW F \in SUBSET Nat, NEW e \in Nat, NEW i \in Nat \ {0}, IsEarliest(e, F), 0 \notin F
  PROVE  IsEarliest(RetainEarliest(e, i), F \cup {i})
PROOF
  <1>1. CASE e = 0 /\ F = {}
    BY <1>1 DEF IsEarliest, RetainEarliest
  <1>2. CASE e \in F /\ \A j \in F : e <= j
    <2>1. CASE i < e
      <3>1. \A j \in F : i <= j
        BY <1>2, <2>1
      <3> QED BY <2>1, <3>1 DEF IsEarliest, RetainEarliest
    <2>2. CASE ~(i < e)
      <3>1. e <= i /\ e # 0
        BY <1>2, <2>2
      <3> QED BY <1>2, <2>2, <3>1, Zenon DEF IsEarliest, RetainEarliest
    <2> QED BY <2>1, <2>2, Zenon
  <1> QED BY <1>1, <1>2 DEF IsEarliest

\* A list is one of a set's elements when its elements are in the set.
LEMMA ListWithin ==
  ASSUME NEW S, NEW T, NEW s \in Seq(S), SetOf(s) \subseteq T
  PROVE  s \in Seq(T)
PROOF
  <1>1. s \in [1 .. Len(s) -> S] /\ Len(s) \in Nat /\ DOMAIN s = 1 .. Len(s)
    BY ListShape, Zenon
  <1>2. \A i \in 1 .. Len(s) : s[i] \in T
    BY <1>1 DEF SetOf
  <1>3. s \in [1 .. Len(s) -> T]
    BY <1>1, <1>2, Zenon
  <1> QED BY <1>1, <1>3

\* Steps of the driver that leave the pool alone.
LEMMA PoolInvStays ==
  ASSUME PoolInv, UNCHANGED pvars
  PROVE  PoolInv'
PROOF
  <1>1. UNCHANGED <<jobs, todo, hands, live, spawned, mainTx, chan, got, pool>>
    BY Zenon DEF pvars
  <1>2. UNCHANGED <<InHand, JobCount>>
    BY <1>1 DEF InHand, JobCount
  <1> QED BY <1>1, <1>2 DEF PoolInv, PoolTypeOK, PoolQuiet, HeldOnce

\* The types of the driver's variables, one by one.
LEMMA LoadTypes ==
  LoadTypeOK <=>
    /\ PoolTypeOK
    /\ phase \in {"specs", "pool", "register", "dylibs", "ok", "failed"}
    /\ resolved \in 0 .. Len(cmd) /\ firstError \in 0 .. Len(cmd)
    /\ results \in Seq(1 .. Len(cmd)) /\ deferred \in Seq(1 .. Len(cmd))
    /\ order \in Seq(1 .. Len(cmd)) /\ dylibs \in Seq(1 .. Len(cmd))
  BY Zenon DEF LoadTypeOK

\* The first input not found is the first error.
LEMMA MissingFirst ==
  ASSUME NEW c \in Commands
  PROVE  LET e == IF FoundPrefix(c) < Len(c) THEN FoundPrefix(c) + 1 ELSE 0
         IN  e \in 0 .. Len(c) /\ IsEarliest(e, Missing(c))
  BY PrefixFound DEF Missing, IsEarliest

\* Initially.
LEMMA LoadInvInit == LoadInit => LoadInv
PROOF
  <1> SUFFICES ASSUME LoadInit PROVE LoadInv
    OBVIOUS
  <1> USE DEF LoadInit
  <1>1. Len(cmd) \in Nat
    BY PrefixFound, Zenon
  <1>2. PoolTypeOK
    <2>1. mainTx \in BOOLEAN
      BY Zenon DEF PoolInit
    <2>2. /\ jobs \in Seq(Nat \ {0}) /\ todo \in Seq(Nat \ {0})
          /\ chan \in Seq(Nat \ {0}) /\ got \in Seq(Nat \ {0})
          /\ hands \in [Workers -> Nat] /\ live \subseteq Workers /\ spawned \in Nat
      BY DEF PoolInit
    <2> QED BY <2>1, <2>2, Zenon DEF PoolInit, PoolTypeOK
  <1>3. PoolInv
    BY <1>2 DEF PoolInit, PoolInv, PoolQuiet, Once
  <1>4. LoadTypeOK
    BY <1>1, <1>2 DEF LoadTypeOK
  <1> QED BY <1>3, <1>4, Zenon DEF LoadInv, PoolInit

\* The inputs are resolved and dealt out.
LEMMA SpecsResolved ==
  ASSUME LoadInv, ResolveSpecs
  PROVE  LoadInv'
PROOF
  <1> DEFINE n == FoundPrefix(cmd)
             R == {i \in 1 .. n : ~PutOff(cmd, i) /\ ByMainThread(cmd, i)}
             J == {i \in 1 .. n : ~PutOff(cmd, i) /\ ~ByMainThread(cmd, i)}
             D == {i \in 1 .. n : PutOff(cmd, i)}
             e == IF n < Len(cmd) THEN n + 1 ELSE 0
  <1>1. /\ cmd \in Commands /\ PoolInv /\ pool = "idle" /\ order = <<>> /\ dylibs = <<>>
        /\ resolved' = n /\ firstError' = e
        /\ deferred' = InOrder(D) /\ results' = InOrder(R) /\ jobs' = InOrder(J)
        /\ phase' = "pool"
        /\ UNCHANGED <<cmd, order, dylibs, todo, hands, live, spawned, mainTx, chan, got, pool>>
    BY DEF LoadInv, ResolveSpecs
  <1>2. n \in 0 .. Len(cmd) /\ Len(cmd) \in Nat
    BY <1>1, PrefixFound, Zenon
  <1>3. e \in 0 .. Len(cmd) /\ IsEarliest(e, Missing(cmd))
    BY <1>1, MissingFirst
  <1>4. /\ R = {i \in Early(cmd) : ByMainThread(cmd, i)}
        /\ J = {i \in Early(cmd) : ~ByMainThread(cmd, i)}
        /\ D = Late(cmd)
    BY DEF Early, Late
  <1>5. R \subseteq 1 .. Len(cmd) /\ J \subseteq 1 .. Len(cmd) /\ D \subseteq 1 .. Len(cmd)
    BY <1>2
  <1> HIDE DEF n, R, J, D, e
  <1>6. ASSUME NEW S, S \subseteq 1 .. Len(cmd)
        PROVE  /\ InOrder(S) \in Seq(1 .. Len(cmd)) /\ InOrder(S) \in Seq(Nat \ {0})
               /\ Once(InOrder(S)) /\ SetOf(InOrder(S)) = S
    <2>0. IsFiniteSet(S)
      <3>1. IsFiniteSet(1 .. Len(cmd))
        BY <1>2, FS_Interval
      <3> QED BY <1>6, <3>1, FS_Subset, Zenon
    <2>1. S \subseteq Nat /\ S \subseteq Nat \ {0}
      BY <1>2, <1>6
    <2>2. InOrder(S) \in Seq(S) /\ IsAscending(InOrder(S)) /\ SetOf(InOrder(S)) = S
      BY <2>0, <2>1, InOrderSorts, Zenon
    <2>3. InOrder(S) \in Seq(Nat) /\ InOrder(S) \in Seq(1 .. Len(cmd))
          /\ InOrder(S) \in Seq(Nat \ {0})
      BY <1>6, <2>1, <2>2, ListWithin, Zenon
    <2> QED BY <2>2, <2>3, AscendingOnce
  <1>7. /\ results' \in Seq(1 .. Len(cmd)) /\ Once(results') /\ SetOf(results') = R
        /\ deferred' \in Seq(1 .. Len(cmd)) /\ Once(deferred') /\ SetOf(deferred') = D
        /\ jobs' \in Seq(Nat \ {0}) /\ Once(jobs') /\ SetOf(jobs') = J
    BY <1>1, <1>5, <1>6, Zenon
  <1>8. PoolTypeOK'
    BY <1>1, <1>7 DEF PoolInv, PoolTypeOK
  <1>9. PoolInv'
    BY <1>1, <1>7, <1>8, Zenon DEF PoolInv, PoolQuiet
  <1>10. LoadTypeOK'
    BY <1>1, <1>2, <1>3, <1>7, <1>8 DEF LoadTypeOK
  <1>11. InPool'
    BY <1>1, <1>3, <1>4, <1>7 DEF InPool
  <1> QED BY <1>1, <1>9, <1>10, <1>11 DEF LoadInv

\* The pool runs.
LEMMA PoolRuns ==
  ASSUME LoadInv, RunPool
  PROVE  LoadInv'
PROOF
  <1>1. /\ phase = "pool" /\ PoolNext /\ PoolInv /\ LoadTypeOK /\ InPool /\ cmd \in Commands
        /\ UNCHANGED <<cmd, phase, resolved, results, deferred, order, dylibs, firstError>>
    BY DEF LoadInv, RunPool, lvars
  <1>2. PoolInv'
    BY <1>1, PoolInvKept
  <1>3. jobs' = jobs
    BY <1>1, Zenon DEF PoolNext, MainStep, WorkerStep, RunSerially, OpenPool, Spawn, DropTx, Receive,
                Disconnected, PopJob, SendResult, Exit
  <1>4. LoadTypeOK'
    BY <1>1, <1>2 DEF LoadTypeOK, PoolInv
  <1>5. InPool'
    BY <1>1, <1>3, Zenon DEF InPool
  <1> QED BY <1>1, <1>2, <1>4, <1>5, Zenon DEF LoadInv

\* The results are collected and sorted: the inputs of the first pass.
LEMMA ResultsCollected ==
  ASSUME LoadInv, CollectResults
  PROVE  LoadInv'
PROOF
  <1>1. /\ phase = "pool" /\ pool = "done" /\ PoolInv /\ LoadTypeOK /\ InPool /\ cmd \in Commands
        /\ results' = Ascending(results \o got) /\ phase' = "register" /\ UNCHANGED pvars
        /\ UNCHANGED <<cmd, resolved, deferred, order, dylibs, firstError>>
    BY DEF LoadInv, CollectResults
  <1>2. pool' = pool /\ PoolInv'
    BY <1>1, PoolInvStays DEF pvars
  <1>3. Once(got) /\ SetOf(got) = SetOf(jobs) /\ got \in Seq(Nat \ {0})
    <2>1. InHand = {}
      BY <1>1, Zenon DEF PoolInv, InHand
    <2> QED BY <1>1, <2>1, ListEmpty, Zenon DEF PoolInv, HeldOnce, PoolTypeOK
  <1>4. /\ Len(cmd) \in Nat
        /\ Early(cmd) \subseteq 1 .. Len(cmd) /\ Late(cmd) \subseteq 1 .. Len(cmd)
    BY <1>1, PrefixFound, Parts
  <1>5. results \in Seq(Nat) /\ got \in Seq(Nat)
    <2>1. SetOf(results) \subseteq Nat /\ SetOf(got) \subseteq Nat
      BY <1>1, <1>3, <1>4 DEF InPool
    <2>2. results \in Seq(1 .. Len(cmd))
      BY <1>1, LoadTypes, Zenon
    <2> QED BY <1>3, <2>1, <2>2, ListWithin, Zenon
  <1>6. SetOf(results) \cap SetOf(got) = {} /\ SetOf(results) \cup SetOf(got) = Early(cmd)
    BY <1>1, <1>3 DEF InPool
  <1>7. results \o got \in Seq(Nat) /\ SetOf(results \o got) = Early(cmd)
    <2>1. results \o got \in Seq(Nat) /\ SetOf(results \o got) = SetOf(results) \cup SetOf(got)
      BY <1>5, ListConcat
    <2> QED BY <1>6, <2>1, Zenon
  <1>8. Once(results \o got)
    BY <1>1, <1>3, <1>5, <1>6, OnceConcat, Zenon DEF InPool
  <1>9. results' \in Seq(Nat) /\ IsAscending(results') /\ SetOf(results') = Early(cmd)
    BY <1>1, <1>7, <1>8, AscendingSorts, Zenon
  <1>10. results' \in Seq(1 .. Len(cmd))
    BY <1>4, <1>9, ListWithin
  <1>11. LoadTypeOK'
    BY <1>1, <1>2, <1>10 DEF LoadTypeOK, PoolInv
  <1>12. InRegister'
    <2>1. Plain(cmd, {}) = {} /\ Dylib(cmd, {}) = {} /\ Bad(cmd, {}) = {}
      BY Zenon DEF Plain, Dylib, Bad
    <2>2. IsAscending(order) /\ SetOf(order) = {}
      BY <1>1, ListEmpty DEF InPool, IsAscending
    <2>3. /\ {} = Early(cmd) \ SetOf(results') /\ SetOf(results') \subseteq Early(cmd)
          /\ IsAscending(results') /\ Below({}, SetOf(results'))
          /\ IsAscending(order) /\ SetOf(order) = Plain(cmd, {})
          /\ Once(deferred) /\ SetOf(deferred) = Late(cmd) \cup Dylib(cmd, {})
          /\ dylibs = <<>>
          /\ IsEarliest(firstError, Missing(cmd) \cup Bad(cmd, {}))
      BY <1>1, <1>9, <2>1, <2>2, Zenon DEF InPool, Below
    <2> QED BY <1>1, <2>3, Zenon DEF InRegister
  <1> QED BY <1>1, <1>2, <1>11, <1>12 DEF LoadInv

\* One result of the first pass.
LEMMA ResultRegistered ==
  ASSUME LoadInv, RegisterResult
  PROVE  LoadInv'
PROOF
  <1> DEFINE i == Head(results)
             m == Len(cmd)
  <1>1. /\ phase = "register" /\ pool = "done" /\ PoolInv /\ LoadTypeOK /\ InRegister
        /\ cmd \in Commands /\ results # <<>> /\ results' = Tail(results)
        /\ UNCHANGED pvars /\ UNCHANGED <<cmd, phase, resolved, dylibs>>
    BY DEF LoadInv, RegisterResult
  <1>2. pool' = pool /\ PoolInv'
    BY <1>1, PoolInvStays DEF pvars
  <1>3. /\ m \in Nat /\ Early(cmd) \subseteq 1 .. m /\ Late(cmd) \subseteq 1 .. m
        /\ Missing(cmd) \subseteq 1 .. m /\ Early(cmd) \cap Late(cmd) = {}
    BY <1>1, PrefixFound, Parts
  <1>4. /\ results \in Seq(1 .. m) /\ deferred \in Seq(1 .. m) /\ order \in Seq(1 .. m)
        /\ dylibs \in Seq(1 .. m) /\ firstError \in 0 .. m /\ resolved \in 0 .. m
    BY <1>1, LoadTypes, Zenon
  <1>5. PICK P \in SUBSET Early(cmd) :
          /\ P = Early(cmd) \ SetOf(results) /\ SetOf(results) \subseteq Early(cmd)
          /\ IsAscending(results) /\ Below(P, SetOf(results))
          /\ IsAscending(order) /\ SetOf(order) = Plain(cmd, P)
          /\ Once(deferred) /\ SetOf(deferred) = Late(cmd) \cup Dylib(cmd, P)
          /\ dylibs = <<>>
          /\ IsEarliest(firstError, Missing(cmd) \cup Bad(cmd, P))
    BY <1>1, Zenon DEF InRegister
  <1>6. /\ i \in 1 .. m /\ results' \in Seq(1 .. m)
        /\ SetOf(results) = {i} \cup SetOf(results')
    BY <1>1, <1>4, ListHead
  <1>7. /\ IsAscending(results') /\ \A x \in SetOf(results') : i < x
    <2>1. results \in Seq(Nat)
      BY <1>3, <1>4, <1>5, ListWithin
    <2> QED BY <1>1, <1>5, <2>1, AscendingTail
  <1> DEFINE Q == P \cup {i}
  <1>8. /\ Q \in SUBSET Early(cmd) /\ i \in Early(cmd) /\ i \notin P
        /\ SetOf(results') \subseteq Early(cmd)
    BY <1>5, <1>6
  <1>9. Q = Early(cmd) \ SetOf(results')
    <2>1. i \notin SetOf(results')
      BY <1>6, <1>7
    <2> QED BY <1>5, <1>6, <2>1, Zenon
  <1>10. Below(Q, SetOf(results'))
    BY <1>5, <1>6, <1>7, Zenon DEF Below
  <1>11. /\ firstError \in Nat /\ i \in Nat \ {0} /\ Missing(cmd) \cup Bad(cmd, P) \in SUBSET Nat
         /\ 0 \notin Missing(cmd) \cup Bad(cmd, P)
    BY <1>3, <1>4, <1>6 DEF Bad
  <1> HIDE DEF i
  <1>12. /\ order' \in Seq(1 .. m) /\ IsAscending(order') /\ SetOf(order') = Plain(cmd, Q)
         /\ deferred' \in Seq(1 .. m)
         /\ Once(deferred') /\ SetOf(deferred') = Late(cmd) \cup Dylib(cmd, Q)
         /\ firstError' \in 0 .. m
         /\ IsEarliest(firstError', Missing(cmd) \cup Bad(cmd, Q))
    <2>1. CASE ~Loads(cmd, i)
      <3>1. /\ firstError' = RetainEarliest(firstError, i) /\ UNCHANGED <<deferred, order>>
        BY <2>1, Zenon DEF RegisterResult, i
      <3>2. Plain(cmd, Q) = Plain(cmd, P) /\ Dylib(cmd, Q) = Dylib(cmd, P)
            /\ Bad(cmd, Q) = Bad(cmd, P) \cup {i}
        BY <2>1, Zenon DEF Plain, Dylib, Bad
      <3>3. IsEarliest(firstError', Missing(cmd) \cup Bad(cmd, P) \cup {i})
        BY <1>5, <1>11, <3>1, EarliestRetained, Zenon
      <3>4. firstError' \in 0 .. m
        BY <1>3, <1>4, <1>6, <3>1 DEF RetainEarliest
      <3>5. Missing(cmd) \cup Bad(cmd, P) \cup {i} = Missing(cmd) \cup Bad(cmd, Q)
        BY <3>2
      <3> QED BY <1>4, <1>5, <3>1, <3>2, <3>3, <3>4, <3>5, Zenon
    <2>2. CASE Loads(cmd, i) /\ cmd[i].file = "dylib"
      <3>1. /\ deferred' = Append(deferred, i) /\ UNCHANGED <<order, firstError>>
        BY <2>2 DEF RegisterResult, i
      <3>2. Plain(cmd, Q) = Plain(cmd, P) /\ Dylib(cmd, Q) = Dylib(cmd, P) \cup {i}
            /\ Bad(cmd, Q) = Bad(cmd, P)
        BY <2>2, Zenon DEF Plain, Dylib, Bad
      <3>3. i \notin SetOf(deferred)
        BY <1>3, <1>5, <1>8 DEF Dylib
      <3>4. /\ deferred' \in Seq(1 .. m) /\ SetOf(deferred') = SetOf(deferred) \cup {i}
        <4> DEFINE X == 1 .. m
        <4>1. deferred \in Seq(X) /\ i \in X
          BY <1>4, <1>6
        <4> HIDE DEF X
        <4>2. Append(deferred, i) \in Seq(X) /\ SetOf(Append(deferred, i)) = SetOf(deferred) \cup {i}
          BY <4>1, ListAppend
        <4> QED BY <3>1, <4>2 DEF X
      <3>5. Once(deferred')
        BY <1>4, <1>5, <1>6, <3>1, <3>3, OnceAppend, Zenon
      <3> QED BY <1>4, <1>5, <3>1, <3>2, <3>4, <3>5, Zenon
    <2>3. CASE Loads(cmd, i) /\ cmd[i].file # "dylib"
      <3>1. /\ order' = Append(order, i) /\ UNCHANGED <<deferred, firstError>>
        BY <2>3, Zenon DEF RegisterResult, i
      <3>2. Plain(cmd, Q) = Plain(cmd, P) \cup {i} /\ Dylib(cmd, Q) = Dylib(cmd, P)
            /\ Bad(cmd, Q) = Bad(cmd, P)
        BY <2>3, Zenon DEF Plain, Dylib, Bad
      <3>3. \A y \in SetOf(order) : y < i
        BY <1>5, <1>6 DEF Plain, Below
      <3>4. /\ order' \in Seq(1 .. m) /\ SetOf(order') = SetOf(order) \cup {i}
        <4> DEFINE X == 1 .. m
        <4>1. order \in Seq(X) /\ i \in X
          BY <1>4, <1>6
        <4> HIDE DEF X
        <4>2. Append(order, i) \in Seq(X) /\ SetOf(Append(order, i)) = SetOf(order) \cup {i}
          BY <4>1, ListAppend
        <4> QED BY <3>1, <4>2, Zenon DEF X
      <3>5. IsAscending(order')
        <4>1. order \in Seq(Nat)
          BY <1>3, <1>4, <1>5, <1>8, ListWithin DEF Plain
        <4> QED BY <1>5, <1>11, <3>1, <3>3, <4>1, AscendingAppend, Zenon
      <3> QED BY <1>4, <1>5, <3>1, <3>2, <3>4, <3>5, Zenon
    <2> QED BY <2>1, <2>2, <2>3, Zenon
  <1>13. LoadTypeOK'
    <2>1. phase' \in {"specs", "pool", "register", "dylibs", "ok", "failed"} /\ PoolTypeOK'
      BY <1>1, <1>2 DEF PoolInv
    <2> QED BY <1>1, <1>4, <1>6, <1>12, <2>1 DEF LoadTypeOK
  <1>14. InRegister'
    <2> HIDE DEF Q
    <2> QED BY <1>1, <1>5, <1>7, <1>8, <1>9, <1>10, <1>12, Zenon DEF InRegister
  <1> QED BY <1>1, <1>2, <1>13, <1>14 DEF LoadInv

\* The first pass is over: the dylibs it put off join those put off before.
LEMMA DylibsSorted ==
  ASSUME LoadInv, SortDylibs
  PROVE  LoadInv'
PROOF
  <1> DEFINE m == Len(cmd)
             E == Early(cmd)
  <1>1. /\ phase = "register" /\ pool = "done" /\ PoolInv /\ LoadTypeOK /\ InRegister
        /\ cmd \in Commands /\ results = <<>> /\ deferred' = Ascending(deferred)
        /\ phase' = "dylibs" /\ UNCHANGED pvars
        /\ UNCHANGED <<cmd, resolved, results, order, dylibs, firstError>>
    BY DEF LoadInv, SortDylibs
  <1>2. pool' = pool /\ PoolInv'
    BY <1>1, PoolInvStays DEF pvars
  <1>3. m \in Nat /\ E \subseteq 1 .. m /\ Second(cmd) \subseteq 1 .. m
    BY <1>1, PrefixFound, Parts
  <1>4. /\ deferred \in Seq(1 .. m) /\ order \in Seq(1 .. m)
        /\ dylibs \in Seq(1 .. m) /\ results \in Seq(1 .. m)
        /\ firstError \in 0 .. m /\ resolved \in 0 .. m
    BY <1>1, LoadTypes, Zenon
  <1>5. /\ IsAscending(order) /\ SetOf(order) = Plain(cmd, E)
        /\ Once(deferred) /\ SetOf(deferred) = Second(cmd) /\ dylibs = <<>>
        /\ IsEarliest(firstError, Missing(cmd) \cup Bad(cmd, E))
    BY <1>1, ListEmpty DEF InRegister, Second
  <1>6. deferred \in Seq(Nat) /\ order \in Seq(Nat)
    <2>1. SetOf(deferred) \subseteq Nat /\ SetOf(order) \subseteq Nat
      BY <1>3, <1>5 DEF Plain
    <2> QED BY <1>4, <2>1, ListWithin, Zenon
  <1>7. deferred' \in Seq(Nat) /\ IsAscending(deferred') /\ SetOf(deferred') = Second(cmd)
    BY <1>1, <1>5, <1>6, AscendingSorts, Zenon
  <1>8. deferred' \in Seq(1 .. m)
    BY <1>3, <1>7, ListWithin
  <1>9. LoadTypeOK'
    BY <1>1, <1>2, <1>4, <1>8, Zenon DEF LoadTypeOK, PoolInv
  <1>10. InDylibs'
    <2>1. /\ Numbered(cmd, {}) = {} /\ Dylib(cmd, {}) = {} /\ Excess(cmd, {}) = {}
          /\ E \cup {} = E
      BY Zenon DEF Numbered, Dylib, Excess
    <2>2. IsAscending(dylibs) /\ SetOf(dylibs) = {} /\ Len(dylibs) = 0
      BY <1>5, ListEmpty DEF IsAscending
    <2>3. Smaller(Cardinality(Dylib(cmd, {})), MaxOrdinal) = 0
      BY <2>1, FS_EmptySet, CommandsAssumption DEF Smaller
    <2>4. Once(order)
      BY <1>5, <1>6, AscendingOnce, Zenon
    <2>5. /\ {} = Second(cmd) \ SetOf(deferred') /\ SetOf(deferred') \subseteq Second(cmd)
          /\ IsAscending(deferred') /\ Below({}, SetOf(deferred'))
          /\ IsAscending(dylibs) /\ SetOf(dylibs) = Numbered(cmd, {})
          /\ Len(dylibs) = Smaller(Cardinality(Dylib(cmd, {})), MaxOrdinal)
          /\ Once(order) /\ SetOf(order) = Plain(cmd, E) \cup SetOf(dylibs)
          /\ IsEarliest(firstError, Missing(cmd) \cup Bad(cmd, E \cup {}) \cup Excess(cmd, {}))
      <3> HIDE DEF E
      <3>1. Missing(cmd) \cup Bad(cmd, E) =
              Missing(cmd) \cup Bad(cmd, E \cup {}) \cup Excess(cmd, {})
        BY <2>1, Zenon
      <3> QED BY <1>5, <1>7, <2>1, <2>2, <2>3, <2>4, <3>1 DEF Below
    <2> QED BY <1>1, <2>5 DEF InDylibs
  <1> QED BY <1>1, <1>2, <1>9, <1>10 DEF LoadInv

\* The dylibs registered before the next one are the dylibs before it.
LEMMA SoonerIsDone ==
  ASSUME NEW c \in Commands, NEW P \in SUBSET Second(c), NEW R \in SUBSET Second(c),
         NEW i \in R, P = Second(c) \ R, \A j \in P : j < i, \A j \in R : i <= j
  PROVE  /\ Sooner(c, i) = Cardinality(Dylib(c, P)) /\ IsFiniteSet(Dylib(c, P))
         /\ Cardinality(Dylib(c, P)) \in Nat
PROOF
  <1> DEFINE N == 1 .. FoundPrefix(c)
  <1>1. /\ FoundPrefix(c) \in Nat /\ Second(c) \subseteq N
        /\ Dylib(c, Second(c)) = Dylib(c, N)
    BY PrefixFound, Parts
  <1>2. {j \in Dylib(c, N) : j < i} = Dylib(c, P)
    <2>1. ASSUME NEW j \in Dylib(c, P) PROVE j \in Dylib(c, N) /\ j < i
      BY <1>1 DEF Dylib
    <2>2. ASSUME NEW j \in Dylib(c, N), j < i PROVE j \in Dylib(c, P)
      <3>1. j \in Dylib(c, Second(c)) /\ j \in Second(c) /\ j \in N
        BY <1>1, Zenon DEF Dylib
      <3>2. j \notin R
        BY <1>1, <2>2, <3>1
      <3> QED BY <3>1, <3>2, Zenon DEF Dylib
    <2> HIDE DEF N
    <2> QED BY <2>1, <2>2, Zenon
  <1>3. IsFiniteSet(Dylib(c, P))
    <2>1. IsFiniteSet(N)
      BY <1>1, FS_Interval
    <2>2. Dylib(c, P) \subseteq N
      BY <1>1 DEF Dylib
    <2> QED BY <2>1, <2>2, FS_Subset
  <1> QED BY <1>2, <1>3, FS_CardinalityType DEF Sooner

\* One dylib of the second pass: it loads and there is an ordinal left for it,
\* or it is at fault.
LEMMA DylibRegistered ==
  ASSUME LoadInv, RegisterDylib
  PROVE  LoadInv'
PROOF
  <1> DEFINE i == Head(deferred)
             m == Len(cmd)
             S == Second(cmd)
  <1>1. /\ phase = "dylibs" /\ PoolInv /\ LoadTypeOK /\ InDylibs
        /\ cmd \in Commands /\ deferred # <<>> /\ deferred' = Tail(deferred)
        /\ UNCHANGED pvars /\ UNCHANGED <<cmd, phase, resolved, results>>
    BY DEF LoadInv, RegisterDylib
  <1>2. PoolInv'
    BY <1>1, PoolInvStays
  <1>3. /\ m \in Nat /\ S \subseteq 1 .. m /\ Early(cmd) \subseteq 1 .. m
        /\ Missing(cmd) \subseteq 1 .. m /\ MaxOrdinal \in Nat
        /\ \A j \in S : Loads(cmd, j) => cmd[j].file = "dylib"
    BY <1>1, PrefixFound, Parts, CommandsAssumption
  <1>4. /\ results \in Seq(1 .. m) /\ deferred \in Seq(1 .. m) /\ order \in Seq(1 .. m)
        /\ dylibs \in Seq(1 .. m) /\ firstError \in 0 .. m /\ resolved \in 0 .. m
    BY <1>1, LoadTypes
  <1>5. PICK P \in SUBSET S :
          /\ P = S \ SetOf(deferred) /\ SetOf(deferred) \subseteq S
          /\ IsAscending(deferred) /\ Below(P, SetOf(deferred))
          /\ IsAscending(dylibs) /\ SetOf(dylibs) = Numbered(cmd, P)
          /\ Len(dylibs) = Smaller(Cardinality(Dylib(cmd, P)), MaxOrdinal)
          /\ Once(order) /\ SetOf(order) = Plain(cmd, Early(cmd)) \cup SetOf(dylibs)
          /\ IsEarliest(firstError, Missing(cmd) \cup Bad(cmd, Early(cmd) \cup P)
                                      \cup Excess(cmd, P))
    BY <1>1 DEF InDylibs
  <1> DEFINE Q == P \cup {i}
             F == Missing(cmd) \cup Bad(cmd, Early(cmd) \cup P) \cup Excess(cmd, P)
             G == Missing(cmd) \cup Bad(cmd, Early(cmd) \cup Q) \cup Excess(cmd, Q)
             k == Cardinality(Dylib(cmd, P))
  <1>6. /\ i \in 1 .. m /\ deferred' \in Seq(1 .. m)
        /\ SetOf(deferred) = {i} \cup SetOf(deferred')
    BY <1>1, <1>4, ListHead, Zenon
  <1>7. IsAscending(deferred') /\ \A x \in SetOf(deferred') : i < x
    <2>1. SetOf(deferred) \subseteq S /\ S \subseteq Nat
      BY <1>3, <1>5
    <2>2. deferred \in Seq(Nat)
      BY <1>4, <2>1, ListWithin
    <2> QED BY <1>1, <1>5, <2>2, AscendingTail
  <1>8. /\ Q \in SUBSET S /\ i \in S /\ i \notin P /\ SetOf(deferred') \subseteq S
        /\ i \in SetOf(deferred) /\ i \in Nat
    BY <1>5, <1>6
  <1>9. Q = S \ SetOf(deferred')
    <2>1. i \notin SetOf(deferred')
      BY <1>6, <1>7
    <2> QED BY <1>5, <1>6, <2>1
  <1>10. (\A j \in P : j < i) /\ Below(Q, SetOf(deferred'))
    BY <1>5, <1>6, <1>7 DEF Below
  <1>11. Sooner(cmd, i) = k /\ IsFiniteSet(Dylib(cmd, P)) /\ k \in Nat
    <2>1. \A j \in SetOf(deferred) : i <= j
      <3> HIDE DEF i
      <3>1. \A j \in SetOf(deferred) : j = i \/ i < j
        BY <1>6, <1>7
      <3>2. \A j \in SetOf(deferred) : j \in Nat
        <4>1. SetOf(deferred) \subseteq S /\ S \subseteq Nat
          BY <1>3, <1>5
        <4> QED BY <4>1
      <3> QED BY <1>8, <3>1, <3>2
    <2> HIDE DEF i
    <2> QED BY <1>1, <1>5, <1>8, <1>10, <2>1, SoonerIsDone
  <1>12. F \in SUBSET Nat /\ 0 \notin F /\ firstError \in Nat /\ i \in Nat \ {0}
    <2>1. F \subseteq 1 .. m
      <3>1. Bad(cmd, Early(cmd) \cup P) \subseteq Early(cmd) \cup P /\ Excess(cmd, P) \subseteq P
        BY DEF Bad, Excess, Dylib
      <3> QED BY <1>3, <3>1
    <2> HIDE DEF F, i
    <2> QED BY <1>3, <1>4, <1>6, <2>1
  <1>13. Len(dylibs) = Smaller(k, MaxOrdinal) /\ k \in Nat /\ MaxOrdinal \in Nat
    BY <1>3, <1>5, <1>11, Zenon
  <1> HIDE DEF i, k
  <1>14. Len(dylibs) < MaxOrdinal <=> k < MaxOrdinal
    BY <1>13 DEF Smaller
  <1>15. /\ order' \in Seq(1 .. m) /\ dylibs' \in Seq(1 .. m) /\ firstError' \in 0 .. m
         /\ IsAscending(dylibs') /\ SetOf(dylibs') = Numbered(cmd, Q)
         /\ Len(dylibs') = Smaller(Cardinality(Dylib(cmd, Q)), MaxOrdinal)
         /\ Once(order') /\ SetOf(order') = Plain(cmd, Early(cmd)) \cup SetOf(dylibs')
         /\ IsEarliest(firstError', G)
    <2>1. CASE Loads(cmd, i) /\ Len(dylibs) < MaxOrdinal
      <3>1. /\ dylibs' = Append(dylibs, i) /\ order' = Append(order, i)
            /\ UNCHANGED firstError
        BY <2>1 DEF RegisterDylib, i
      <3>2. cmd[i].file = "dylib" /\ k < MaxOrdinal /\ i \notin Dylib(cmd, P)
        BY <1>3, <1>8, <1>14, <2>1, Zenon DEF Dylib
      <3>3. /\ Dylib(cmd, Q) = Dylib(cmd, P) \cup {i}
            /\ Numbered(cmd, Q) = Numbered(cmd, P) \cup {i} /\ Excess(cmd, Q) = Excess(cmd, P)
            /\ Bad(cmd, Early(cmd) \cup Q) = Bad(cmd, Early(cmd) \cup P)
        <4>1. Dylib(cmd, Q) = Dylib(cmd, P) \cup {i}
          BY <2>1, <3>2 DEF Dylib
        <4>2. Bad(cmd, Early(cmd) \cup Q) = Bad(cmd, Early(cmd) \cup P)
          BY <2>1 DEF Bad
        <4> HIDE DEF Q
        <4> QED BY <1>3, <1>11, <3>2, <4>1, <4>2 DEF Numbered, Excess
      <3>4. Cardinality(Dylib(cmd, Q)) = k + 1
        BY <1>11, <3>2, <3>3, FS_AddElement DEF k
      <3>5. i \notin SetOf(dylibs) /\ i \notin SetOf(order) /\ \A y \in SetOf(dylibs) : y < i
        BY <1>5, <1>8, <1>10, <3>2 DEF Numbered, Dylib, Plain
      <3> DEFINE X == 1 .. m
      <3>6. dylibs \in Seq(X) /\ order \in Seq(X) /\ i \in X
        BY <1>4, <1>6
      <3>7. dylibs \in Seq(Nat)
        <4>1. SetOf(dylibs) \subseteq Nat
          BY <1>3, <1>5 DEF Numbered, Dylib
        <4> QED BY <1>4, <4>1, ListWithin
      <3> HIDE DEF X, Q
      <3>8. /\ Append(dylibs, i) \in Seq(X) /\ SetOf(Append(dylibs, i)) = SetOf(dylibs) \cup {i}
            /\ Append(order, i) \in Seq(X) /\ SetOf(Append(order, i)) = SetOf(order) \cup {i}
        BY <3>6, ListAppend
      <3>9. IsAscending(dylibs') /\ Once(order')
        <4>1. IsAscending(dylibs')
          BY <1>5, <1>8, <3>1, <3>5, <3>7, AscendingAppend
        <4>2. Once(order')
          BY <1>5, <3>1, <3>5, <3>6, OnceAppend
        <4> QED BY <4>1, <4>2
      <3>10. Len(dylibs') = Smaller(k + 1, MaxOrdinal)
        <4>1. Len(dylibs') = Len(dylibs) + 1
          <5>1. Len(Append(dylibs, i)) = Len(dylibs) + 1
            BY <3>7
          <5> QED BY <3>1, <5>1
        <4> QED BY <1>13, <3>2, <4>1 DEF Smaller
      <3>11. SetOf(dylibs') = Numbered(cmd, Q)
             /\ SetOf(order') = Plain(cmd, Early(cmd)) \cup SetOf(dylibs')
        BY <1>5, <3>1, <3>3, <3>8
      <3>12. IsEarliest(firstError', G)
        BY <1>5, <3>1, <3>3
      <3> QED BY <1>4, <3>1, <3>4, <3>8, <3>9, <3>10, <3>11, <3>12 DEF X
    <2>2. CASE ~(Loads(cmd, i) /\ Len(dylibs) < MaxOrdinal)
      <3>1. firstError' = RetainEarliest(firstError, i) /\ UNCHANGED <<dylibs, order>>
        BY <2>2 DEF RegisterDylib, i
      <3>2. IsEarliest(firstError', F \cup {i})
        BY <1>5, <1>12, <3>1, EarliestRetained, Zenon
      <3>3. firstError' \in 0 .. m
        <4>1. i \in 0 .. m /\ firstError \in 0 .. m
          BY <1>3, <1>4, <1>6
        <4>2. firstError' \in {i, firstError}
          BY <3>1, Zenon DEF RetainEarliest
        <4> QED BY <4>1, <4>2, Zenon
      <3>4. CASE ~Loads(cmd, i)
        <4>1. /\ Dylib(cmd, Q) = Dylib(cmd, P)
              /\ Bad(cmd, Early(cmd) \cup Q) = Bad(cmd, Early(cmd) \cup P) \cup {i}
          BY <3>4 DEF Dylib, Bad
        <4>2. Numbered(cmd, Q) = Numbered(cmd, P) /\ Excess(cmd, Q) = Excess(cmd, P)
          BY <4>1, Zenon DEF Numbered, Excess
        <4> HIDE DEF Q
        <4>3. G = F \cup {i}
          BY <4>1, <4>2
        <4> QED BY <1>4, <1>5, <3>1, <3>2, <3>3, <4>1, <4>2, <4>3
      <3>5. CASE Loads(cmd, i) /\ ~(k < MaxOrdinal)
        <4>1. cmd[i].file = "dylib" /\ i \notin Dylib(cmd, P) /\ Sooner(cmd, i) >= MaxOrdinal
          <5>1. cmd[i].file = "dylib"
            BY <1>3, <1>8, <3>5
          <5>2. i \notin Dylib(cmd, P)
            BY <1>8 DEF Dylib
          <5>3. Sooner(cmd, i) = k
            BY <1>11 DEF k
          <5> QED BY <1>13, <3>5, <5>1, <5>2, <5>3
        <4>2. /\ Dylib(cmd, Q) = Dylib(cmd, P) \cup {i}
              /\ Bad(cmd, Early(cmd) \cup Q) = Bad(cmd, Early(cmd) \cup P)
          BY <3>5, <4>1, Zenon DEF Dylib, Bad
        <4>3. Numbered(cmd, Q) = Numbered(cmd, P) /\ Excess(cmd, Q) = Excess(cmd, P) \cup {i}
          <5> HIDE DEF Q
          <5>1. ~(Sooner(cmd, i) < MaxOrdinal)
            BY <1>3, <1>11, <3>5
          <5> QED BY <4>1, <4>2, <5>1 DEF Numbered, Excess
        <4>4. Cardinality(Dylib(cmd, Q)) = k + 1
          BY <1>11, <4>1, <4>2, FS_AddElement DEF k
        <4>5. Len(dylibs') = Smaller(k + 1, MaxOrdinal)
          BY <1>13, <3>1, <3>5 DEF Smaller
        <4> HIDE DEF Q
        <4>6. G = F \cup {i}
          BY <4>2, <4>3
        <4> QED BY <1>4, <1>5, <3>1, <3>2, <3>3, <4>3, <4>4, <4>5, <4>6
      <3> QED BY <1>14, <2>2, <3>4, <3>5
    <2> QED BY <2>1, <2>2
  <1>16. LoadTypeOK'
    BY <1>1, <1>2, <1>4, <1>6, <1>15 DEF LoadTypeOK, PoolInv
  <1>17. InDylibs'
    <2> HIDE DEF Q
    <2> QED BY <1>1, <1>7, <1>8, <1>9, <1>10, <1>15 DEF InDylibs
  <1> QED BY <1>1, <1>2, <1>16, <1>17, Zenon DEF LoadInv

\* What the two passes find between them is what is wrong with the command line.
LEMMA FaultsFound ==
  ASSUME NEW c \in Commands
  PROVE  Faulty(c) = Missing(c) \cup Bad(c, Early(c) \cup Second(c)) \cup Excess(c, Second(c))
PROOF
  <1> DEFINE n == FoundPrefix(c)
             good == Dylib(c, 1 .. n)
  <1>1. /\ Early(c) \cup Second(c) = 1 .. n /\ Dylib(c, Second(c)) = good
    BY Parts, Zenon DEF Second
  <1>2. Excess(c, Second(c)) = {i \in good : Cardinality({j \in good : j < i}) >= MaxOrdinal}
    BY <1>1 DEF Excess, Sooner
  <1>3. Faulty(c) = Bad(c, 1 .. n)
                      \cup {i \in good : Cardinality({j \in good : j < i}) >= MaxOrdinal}
                      \cup Missing(c)
    BY Zenon DEF Faulty, Bad, Dylib, Missing
  <1> HIDE DEF good, n
  <1> QED BY <1>1, <1>2, <1>3, Zenon

\* A command line without a fault is registered in full.
LEMMA NoFaultIsAll ==
  ASSUME NEW c \in Commands, Faulty(c) = {}
  PROVE  Plain(c, Early(c)) \cup Numbered(c, Second(c)) = 1 .. Len(c)
PROOF
  <1> DEFINE n == FoundPrefix(c)
  <1>1. /\ Missing(c) = {} /\ Bad(c, Early(c) \cup Second(c)) = {} /\ Excess(c, Second(c)) = {}
    BY FaultsFound, Zenon
  <1>2. n \in 0 .. Len(c) /\ Len(c) \in Nat
    BY PrefixFound
  <1>3. n = Len(c)
    BY <1>1, <1>2 DEF Missing
  <1>4. /\ Early(c) \cup Second(c) = 1 .. n
        /\ Dylib(c, Second(c)) = Dylib(c, 1 .. n)
        /\ \A i \in 1 .. n : Loads(c, i) /\ c[i].file # "dylib" => i \in Early(c)
    BY Parts, Zenon DEF Second
  <1> HIDE DEF n
  <1>5. Numbered(c, Second(c)) = Dylib(c, 1 .. n)
    <2>1. \A i \in Dylib(c, Second(c)) : Sooner(c, i) \in Nat
      <3> SUFFICES ASSUME NEW i \in Dylib(c, Second(c)) PROVE Sooner(c, i) \in Nat
        OBVIOUS
      <3>1. IsFiniteSet(1 .. n)
        BY <1>2, FS_Interval
      <3>2. {j \in Dylib(c, 1 .. n) : j < i} \subseteq 1 .. n
        BY Zenon DEF Dylib
      <3>3. IsFiniteSet({j \in Dylib(c, 1 .. n) : j < i})
        BY <3>1, <3>2, FS_Subset, Zenon
      <3> QED BY <3>3, FS_CardinalityType DEF Sooner, n
    <2>2. \A i \in Dylib(c, Second(c)) : Sooner(c, i) < MaxOrdinal
      <3>1. \A i \in Dylib(c, Second(c)) : ~(Sooner(c, i) >= MaxOrdinal)
        BY <1>1, Zenon DEF Excess
      <3> QED BY <2>1, <3>1, CommandsAssumption
    <2> QED BY <1>4, <2>2 DEF Numbered
  <1>6. \A i \in 1 .. n : Loads(c, i)
    BY <1>1, <1>4 DEF Bad
  <1>7. Plain(c, Early(c)) \subseteq 1 .. n
    BY <1>4, Zenon DEF Plain
  <1>8. \A i \in 1 .. n : i \in Plain(c, Early(c)) \/ i \in Dylib(c, 1 .. n)
    BY <1>4, <1>6 DEF Plain, Dylib
  <1>9. Dylib(c, 1 .. n) \subseteq 1 .. n
    BY DEF Dylib
  <1> QED BY <1>3, <1>5, <1>7, <1>8, <1>9, Zenon

\* The second pass is over.
LEMMA LoadFinished ==
  ASSUME LoadInv, Finish
  PROVE  LoadInv'
PROOF
  <1> DEFINE m == Len(cmd)
  <1>1. /\ phase = "dylibs" /\ PoolInv /\ LoadTypeOK /\ InDylibs
        /\ cmd \in Commands /\ deferred = <<>> /\ order' = Ascending(order)
        /\ phase' = (IF firstError = 0 THEN "ok" ELSE "failed") /\ UNCHANGED pvars
        /\ UNCHANGED <<cmd, resolved, results, deferred, dylibs, firstError>>
    BY DEF LoadInv, Finish
  <1>2. PoolInv'
    BY <1>1, PoolInvStays
  <1>3. /\ m \in Nat /\ Early(cmd) \subseteq 1 .. m /\ Second(cmd) \subseteq 1 .. m
        /\ Missing(cmd) \subseteq 1 .. m
    BY <1>1, PrefixFound, Parts
  <1>4. /\ results \in Seq(1 .. m) /\ deferred \in Seq(1 .. m) /\ order \in Seq(1 .. m)
        /\ dylibs \in Seq(1 .. m) /\ firstError \in 0 .. m /\ resolved \in 0 .. m
    BY <1>1, LoadTypes, Zenon
  <1>5. /\ IsAscending(dylibs) /\ Once(order)
        /\ SetOf(order) = Plain(cmd, Early(cmd)) \cup Numbered(cmd, Second(cmd))
        /\ IsEarliest(firstError, Faulty(cmd))
    <2>1. Second(cmd) \ SetOf(deferred) = Second(cmd)
      BY <1>1, ListEmpty, Zenon
    <2> QED BY <1>1, <2>1, FaultsFound DEF InDylibs
  <1>6. SetOf(order) \subseteq 1 .. m
    <2>1. /\ Plain(cmd, Early(cmd)) \subseteq Early(cmd)
          /\ Numbered(cmd, Second(cmd)) \subseteq Second(cmd)
      BY DEF Plain, Numbered, Dylib
    <2> QED BY <1>3, <1>5, <2>1
  <1>7. order' \in Seq(Nat) /\ IsAscending(order') /\ SetOf(order') = SetOf(order)
    <2>1. SetOf(order) \subseteq Nat
      BY <1>3, <1>6
    <2>2. order \in Seq(Nat)
      BY <1>4, <2>1, ListWithin, Zenon
    <2> QED BY <1>1, <1>5, <2>2, AscendingSorts
  <1>8. order' \in Seq(1 .. m)
    BY <1>6, <1>7, ListWithin
  <1>9. phase' = "ok" => order' = [i \in 1 .. m |-> i]
    <2> SUFFICES ASSUME firstError = 0 PROVE order' = [i \in 1 .. m |-> i]
      BY <1>1
    <2>1. 0 \notin Faulty(cmd)
      <3>1. /\ Bad(cmd, Early(cmd) \cup Second(cmd)) \subseteq Early(cmd) \cup Second(cmd)
            /\ Excess(cmd, Second(cmd)) \subseteq Second(cmd)
        BY DEF Bad, Excess, Dylib
      <3> QED BY <1>1, <1>3, <3>1, FaultsFound
    <2>2. Faulty(cmd) = {}
      BY <1>5, <2>1 DEF IsEarliest
    <2>3. SetOf(order') = 1 .. m
      BY <1>1, <1>5, <1>7, <2>2, NoFaultIsAll, Zenon
    <2> QED BY <1>3, <1>7, <2>3, AscendingIdentity, Zenon
  <1>10. phase' \in {"ok", "failed"}
    BY <1>1
  <1>11. LoadTypeOK'
    BY <1>1, <1>2, <1>4, <1>8, <1>10 DEF LoadTypeOK, PoolInv
  <1> QED BY <1>1, <1>2, <1>5, <1>9, <1>10, <1>11 DEF LoadInv
-----------------------------------------------------------------------------
\* Every step keeps the invariant.
LEMMA LoadInvKept == LoadInv /\ [LoadNext]_dvars => LoadInv'
PROOF
  <1> SUFFICES ASSUME LoadInv, [LoadNext]_dvars PROVE LoadInv'
    BY Zenon
  <1>1. CASE UNCHANGED dvars
    <2>1. /\ UNCHANGED pvars /\ UNCHANGED <<jobs, pool>>
          /\ UNCHANGED <<cmd, phase, resolved, results, deferred, order, dylibs, firstError>>
      BY <1>1, Zenon DEF dvars, lvars, pvars
    <2>2. PoolInv'
      BY <2>1, PoolInvStays DEF LoadInv
    <2>3. LoadTypeOK'
      BY <2>1, <2>2 DEF LoadInv, LoadTypeOK, PoolInv
    <2>4. UNCHANGED <<InPool, InRegister, InDylibs>>
      BY <2>1 DEF InPool, InRegister, InDylibs
    <2> QED BY <2>1, <2>2, <2>3, <2>4 DEF LoadInv
  <1>2. CASE RunPool
    BY <1>2, PoolRuns
  <1>3. CASE DriverStep
    BY <1>3, SpecsResolved, ResultsCollected, ResultRegistered, DylibsSorted, DylibRegistered,
       LoadFinished, Zenon DEF DriverStep
  <1> QED BY <1>1, <1>2, <1>3 DEF LoadNext, Over

\* The invariant of input loading: where each input is in the passes of the
\* driver, and which errors have been met.
THEOREM LoadingInvariant == LoadSpec => []LoadInv
  BY LoadInvInit, LoadInvKept, PTL DEF LoadSpec

\* For any command line, any number of workers and any schedule, loading in
\* parallel comes out as loading one input after the other: jobs are done once,
\* a load that succeeds has registered every input in command-line order, and the
\* error of one that fails is that of the leftmost faulty input.
THEOREM LoadingIsSerial == LoadSpec => []LoadsAsIfSerial
PROOF
  <1>1. LoadInv => LoadsAsIfSerial
    <2> SUFFICES ASSUME LoadInv PROVE LoadsAsIfSerial
      OBVIOUS
    <2>1. LoadTypeOK /\ JobsConserved
      BY PoolInvConserves DEF LoadInv
    <2>2. phase = "register" => IsAscending(order)
      BY Zenon DEF LoadInv, InRegister
    <2>3. IsAscending(dylibs)
      <3>1. dylibs = <<>> => IsAscending(dylibs)
        BY DEF IsAscending
      <3> QED BY <2>1, <3>1, Zenon DEF LoadInv, LoadTypeOK, InPool, InRegister, InDylibs
    <2>4. RegisteredInLoadOrder
      BY <2>2, <2>3, Zenon DEF LoadInv, RegisteredInLoadOrder, IsAscending
    <2>5. EarliestErrorReported
      BY Zenon DEF LoadInv, EarliestErrorReported
    <2> QED BY <2>1, <2>4, <2>5, Zenon DEF LoadsAsIfSerial
  <1> QED BY <1>1, LoadingInvariant, PTL
=============================================================================
