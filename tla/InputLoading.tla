---------------------------- MODULE InputLoading ----------------------------
(***************************************************************************)
(* The front of the Mach-O driver (src/src/lib.rs): command-line inputs    *)
(* are resolved to files, archives are read by the main thread, Mach-O     *)
(* files by the worker pool, dylibs are put off, everything is registered  *)
(* in load order, and of all errors the one of the earliest input is       *)
(* reported.                                                               *)
(*                                                                         *)
(* An input is described by what the code asks about it: found (a path, or *)
(* a -l / -framework that a search directory has), force (-force_load),    *)
(* ext (its extension; "dylib" stands for .tbd too, whose documents share  *)
(* one ordinal) and file (what its bytes turn out to be).                  *)
(***************************************************************************)
EXTENDS WorkerPool

CONSTANTS Commands,   \* the command lines to consider, sequences of inputs
          MaxOrdinal  \* MAX_LIBRARY_ORDINAL (253 in the code)

VARIABLES cmd,
          phase,     \* "specs", "pool", "register", "dylibs", "ok", "failed"
          resolved,  \* inputs that were found, from the left
          results,   \* load results still to register, in load order
          deferred,  \* dylibs put off, in the order they were met
          order,     \* input_order: load orders as they are registered
          dylibs,    \* registered dylibs, the n-th has ordinal n
          firstError \* load order of the error to report, 0 if none

lvars == <<cmd, phase, resolved, results, deferred, order, dylibs, firstError>>
dvars == <<pvars, lvars>>

Input == [found : BOOLEAN, force : BOOLEAN, ext : {"a", "dylib", "o"},
          file : {"object", "dylib", "archive", "junk"}]

ASSUME CommandsAssumption ==
  /\ MaxOrdinal \in Nat
  /\ \A c \in Commands : c \in Seq(Input) /\ c # <<>>
-----------------------------------------------------------------------------
\* resolve_input_specs stops at the first input that cannot be found.
FoundPrefix(c) ==
  CHOOSE n \in 0 .. Len(c) :
    /\ \A i \in 1 .. n : c[i].found
    /\ n < Len(c) => ~c[n + 1].found

PutOff(c, i) == ~c[i].force /\ c[i].ext = "dylib"
ByMainThread(c, i) == c[i].force \/ c[i].ext = "a"

\* load_archive_input, load_macho_input and, for a dylib put off by its name,
\* the loading done by register_input.
Loads(c, i) ==
  CASE PutOff(c, i) -> c[i].file = "dylib"
    [] ByMainThread(c, i) -> c[i].file = "archive"
    [] OTHER -> c[i].file \in {"object", "dylib"}

\* Mutant: the last error overwrites.
RetainLast(old, i) == i

\* retain_earliest_input_error
RetainEarliest(old, i) == IF old = 0 \/ i < old THEN i ELSE old

LoadInit ==
  /\ cmd \in Commands
  /\ PoolInit /\ jobs = <<>>
  /\ phase = "specs" /\ resolved = 0
  /\ results = <<>> /\ deferred = <<>> /\ order = <<>> /\ dylibs = <<>>
  /\ firstError = 0

\* Resolve the inputs, put the dylibs off, read the archives, set up the jobs.
ResolveSpecs ==
  /\ phase = "specs"
  /\ LET n == FoundPrefix(cmd) IN
     /\ resolved' = n
     /\ firstError' = IF n < Len(cmd) THEN n + 1 ELSE 0
     /\ deferred' = InOrder({i \in 1 .. n : PutOff(cmd, i)})
     /\ results' = InOrder({i \in 1 .. n : ~PutOff(cmd, i) /\ ByMainThread(cmd, i)})
     /\ jobs' = InOrder({i \in 1 .. n : ~PutOff(cmd, i) /\ ~ByMainThread(cmd, i)})
  /\ phase' = "pool"
  /\ UNCHANGED <<cmd, order, dylibs, todo, hands, live, spawned, mainTx, chan,
                 got, pool>>

RunPool == phase = "pool" /\ PoolNext /\ UNCHANGED lvars

\* results.sort_by_key(load_order)
CollectResults ==
  /\ phase = "pool" /\ pool = "done"
  /\ results' = Ascending(results \o got)
  /\ phase' = "register"
  /\ UNCHANGED <<pvars, cmd, resolved, deferred, order, dylibs, firstError>>

\* One load result: an error, a dylib to put off, or an input to register.
RegisterResult ==
  /\ phase = "register" /\ results # <<>>
  /\ LET i == Head(results) IN
     CASE ~Loads(cmd, i) ->
            /\ firstError' = RetainEarliest(firstError, i)
            /\ UNCHANGED <<deferred, order>>
       [] Loads(cmd, i) /\ cmd[i].file = "dylib" ->
            /\ deferred' = Append(deferred, i)
            /\ UNCHANGED <<order, firstError>>
       [] Loads(cmd, i) /\ cmd[i].file # "dylib" ->
            /\ order' = Append(order, i)
            /\ UNCHANGED <<deferred, firstError>>
  /\ results' = Tail(results)
  /\ UNCHANGED <<pvars, cmd, phase, resolved, dylibs>>

\* deferred_dylibs.sort_by_key(load_order)
SortDylibs ==
  /\ phase = "register" /\ results = <<>>
  /\ deferred' = Ascending(deferred)
  /\ phase' = "dylibs"
  /\ UNCHANGED <<pvars, cmd, resolved, results, order, dylibs, firstError>>

\* A dylib gets the next ordinal, unless it does not load or there is none.
RegisterDylib ==
  /\ phase = "dylibs" /\ deferred # <<>>
  /\ LET i == Head(deferred) IN
     IF Loads(cmd, i) /\ Len(dylibs) < MaxOrdinal
       THEN /\ dylibs' = Append(dylibs, i) /\ order' = Append(order, i)
            /\ UNCHANGED firstError
       ELSE /\ firstError' = RetainEarliest(firstError, i)
            /\ UNCHANGED <<dylibs, order>>
  /\ deferred' = Tail(deferred)
  /\ UNCHANGED <<pvars, cmd, phase, resolved, results>>

\* resolve_inputs_in_order sorts what was registered by load order.
Finish ==
  /\ phase = "dylibs" /\ deferred = <<>>
  /\ phase' = IF firstError = 0 THEN "ok" ELSE "failed"
  /\ order' = Ascending(order)
  /\ UNCHANGED <<pvars, cmd, resolved, results, deferred, dylibs, firstError>>

Over == phase \in {"ok", "failed"} /\ UNCHANGED dvars

DriverStep ==
  \/ ResolveSpecs \/ CollectResults \/ RegisterResult \/ SortDylibs
  \/ RegisterDylib \/ Finish

LoadNext == RunPool \/ DriverStep \/ Over

LoadSpec == LoadInit /\ [][LoadNext]_dvars /\ WF_dvars(DriverStep)
             /\ WF_dvars(phase = "pool" /\ MainStep /\ UNCHANGED lvars)
             /\ \A w \in Workers :
                  WF_dvars(phase = "pool" /\ WorkerStep(w) /\ UNCHANGED lvars)
-----------------------------------------------------------------------------
\* Type invariant of the driver part.
LoadTypeOK ==
  /\ PoolTypeOK
  /\ phase \in {"specs", "pool", "register", "dylibs", "ok", "failed"}
  /\ resolved \in 0 .. Len(cmd) /\ firstError \in 0 .. Len(cmd)
  /\ \A s \in {results, deferred, order, dylibs} : s \in Seq(1 .. Len(cmd))

\* The inputs that are at fault, from the command line alone.
Faulty(c) ==
  LET n == FoundPrefix(c)
      good == {i \in 1 .. n : Loads(c, i) /\ c[i].file = "dylib"}
  IN  {i \in 1 .. n : ~Loads(c, i)}
        \cup {i \in good : Cardinality({j \in good : j < i}) >= MaxOrdinal}
        \cup (IF n < Len(c) THEN {n + 1} ELSE {})

\* e stands for the first of the errors of F, 0 for none.
IsEarliest(e, F) ==
  \/ e = 0 /\ F = {}
  \/ e \in F /\ \A i \in F : e <= i

\* The reported error is that of the leftmost faulty input: neither the order
\* in which threads finish nor the detour of dylibs through a second pass
\* shows in it.
EarliestErrorReported ==
  phase \in {"ok", "failed"} => IsEarliest(firstError, Faulty(cmd))

\* Ids do not depend on the threads: objects and archives get theirs in
\* command-line order, dylibs their ordinals, and a load that succeeds has
\* registered every input.
RegisteredInLoadOrder ==
  /\ phase = "ok" => order = [i \in 1 .. Len(cmd) |-> i]
  /\ phase = "register" => \A i, j \in DOMAIN order : i < j => order[i] < order[j]
  /\ \A i, j \in DOMAIN dylibs : i < j => dylibs[i] < dylibs[j]

\* A parallel load comes out as a serial one would: no job is lost or done twice,
\* inputs are registered as the command line has them, and the error is the one
\* a serial load would have met first.
LoadsAsIfSerial ==
  LoadTypeOK /\ JobsConserved /\ RegisteredInLoadOrder /\ EarliestErrorReported

\* Loading ends: the main thread is not left waiting on the channel.
LoadingEnds == <>(phase \in {"ok", "failed"})
=============================================================================
