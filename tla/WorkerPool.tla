----------------------------- MODULE WorkerPool -----------------------------
(***************************************************************************)
(* The pool that loads and parses inputs in parallel.  The same code       *)
(* appears twice: load_macho_inputs_parallel in src/src/lib.rs and         *)
(* load_archive_members_parallel in src/src/resolve.rs.  Workers pop jobs  *)
(* from a deque under a mutex and send results into a channel; the main    *)
(* thread gives up its own sender, collects until every sender is gone,    *)
(* and sorts.  A job is its index (or load order); its result is a         *)
(* function of the job, so the job stands for the result too.              *)
(***************************************************************************)
EXTENDS Lists

CONSTANTS Workers,  \* thread names 1 .. n, n the largest pool
          Parallel  \* parallel_jobs, from -j or the number of cores

ASSUME PoolAssumption ==
  /\ Parallel \in Nat
  /\ IsFiniteSet(Workers) /\ Workers = 1 .. Cardinality(Workers)
  /\ Parallel <= Cardinality(Workers)

VARIABLES jobs,   \* what the pool was asked to do, ascending
          todo,   \* the shared deque
          hands,  \* the job each worker is busy with, 0 if none
          live,   \* workers started and not yet over: each owns a sender
          spawned,\* how many threads the main thread has started
          mainTx, \* the main thread still owns its sender
          chan,   \* results sent and not received
          got,    \* results received, in arrival order
          pool    \* "idle", "spawn", "collect" or "done"

pvars == <<jobs, todo, hands, live, spawned, mainTx, chan, got, pool>>

Smaller(m, n) == IF m <= n THEN m ELSE n
Larger(m, n) == IF m >= n THEN m ELSE n

\* job_count
JobCount == Larger(Smaller(Larger(Parallel, 1), Len(jobs)), 1)

PoolInit ==
  /\ todo = <<>> /\ hands = [w \in Workers |-> 0] /\ live = {} /\ spawned = 0
  /\ mainTx = FALSE /\ chan = <<>> /\ got = <<>> /\ pool = "idle"

\* No job, or one thread's worth of parallelism: the main thread does it all.
RunSerially ==
  /\ pool = "idle" /\ (jobs = <<>> \/ JobCount = 1)
  /\ got' = jobs /\ pool' = "done"
  /\ UNCHANGED <<jobs, todo, hands, live, spawned, mainTx, chan>>

OpenPool ==
  /\ pool = "idle" /\ jobs # <<>> /\ JobCount > 1
  /\ todo' = jobs /\ mainTx' = TRUE /\ pool' = "spawn"
  /\ UNCHANGED <<jobs, hands, live, spawned, chan, got>>

Spawn ==
  /\ pool = "spawn" /\ spawned < JobCount
  /\ spawned' = spawned + 1
  /\ live' = live \cup {spawned + 1}
  /\ UNCHANGED <<jobs, todo, hands, mainTx, chan, got, pool>>

\* Mutant: the main thread keeps its sender.
KeepTx ==
  /\ pool = "spawn" /\ spawned = JobCount
  /\ pool' = "collect"
  /\ UNCHANGED <<jobs, todo, hands, live, spawned, mainTx, chan, got>>

\* drop(tx)
DropTx ==
  /\ pool = "spawn" /\ spawned = JobCount
  /\ mainTx' = FALSE /\ pool' = "collect"
  /\ UNCHANGED <<jobs, todo, hands, live, spawned, chan, got>>

\* lock, pop_front, unlock
PopJob(w) ==
  /\ w \in live /\ hands[w] = 0 /\ todo # <<>>
  /\ hands' = [hands EXCEPT ![w] = Head(todo)]
  /\ todo' = Tail(todo)
  /\ UNCHANGED <<jobs, live, spawned, mainTx, chan, got, pool>>

SendResult(w) ==
  /\ w \in live /\ hands[w] # 0
  /\ chan' = Append(chan, hands[w])
  /\ hands' = [hands EXCEPT ![w] = 0]
  /\ UNCHANGED <<jobs, todo, live, spawned, mainTx, got, pool>>

\* The deque is empty: the thread ends and its sender goes with it.
Exit(w) ==
  /\ w \in live /\ hands[w] = 0 /\ todo = <<>>
  /\ live' = live \ {w}
  /\ UNCHANGED <<jobs, todo, hands, spawned, mainTx, chan, got, pool>>

Receive ==
  /\ pool = "collect" /\ chan # <<>>
  /\ got' = Append(got, Head(chan)) /\ chan' = Tail(chan)
  /\ UNCHANGED <<jobs, todo, hands, live, spawned, mainTx, pool>>

\* Every sender is gone and the channel is empty: the receiver's loop ends.
Disconnected ==
  /\ pool = "collect" /\ chan = <<>> /\ live = {} /\ ~mainTx
  /\ pool' = "done"
  /\ UNCHANGED <<jobs, todo, hands, live, spawned, mainTx, chan, got>>

WorkerStep(w) == PopJob(w) \/ SendResult(w) \/ Exit(w)
MainStep == RunSerially \/ OpenPool \/ Spawn \/ DropTx \/ Receive \/ Disconnected

PoolNext == MainStep \/ \E w \in Workers : WorkerStep(w)

\* Threads are scheduled by the operating system, none is starved.
PoolFairness == WF_pvars(MainStep) /\ \A w \in Workers : WF_pvars(WorkerStep(w))
-----------------------------------------------------------------------------
\* Type invariant.
PoolTypeOK ==
  /\ jobs \in Seq(Nat \ {0}) /\ todo \in Seq(Nat \ {0})
  /\ hands \in [Workers -> Nat]
  /\ live \subseteq Workers
  /\ spawned \in Nat /\ mainTx \in BOOLEAN
  /\ chan \in Seq(Nat \ {0}) /\ got \in Seq(Nat \ {0})
  /\ pool \in {"idle", "spawn", "collect", "done"}

InHand == {hands[w] : w \in Workers} \ {0}

\* No job is lost and none is done twice: while the pool runs, every job is in
\* exactly one of the deque, a worker's hands, the channel and the results.
\* Only running threads hold jobs, and when the receiver's loop has ended no
\* thread is left to send.
JobsConserved ==
  /\ pool # "idle" =>
       /\ SetOf(jobs) =
            SetOf(todo) \cup InHand \cup SetOf(chan) \cup SetOf(got)
       /\ Len(jobs) = Len(todo) + Cardinality(InHand) + Len(chan) + Len(got)
  /\ \A w \in Workers : hands[w] # 0 => w \in live
  /\ pool = "done" => live = {} /\ chan = <<>> /\ todo = <<>>
=============================================================================
