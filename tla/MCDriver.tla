------------------------------ MODULE MCDriver ------------------------------
(***************************************************************************)
(* The two ends of a link at which threads and processes meet: the loading *)
(* of the inputs and the publication of the artifact.  `job` picks the end *)
(* that is looked at; the other rests in a state in which it is over.      *)
(***************************************************************************)
EXTENDS InputLoading, Publish

\* All command lines of up to MaxInputs inputs of a few sorts.
CONSTANT MaxInputs

In(ext, file) == [found |-> TRUE, force |-> FALSE, ext |-> ext, file |-> file]

Sorts == {In("o", "object"), In("o", "dylib"), In("o", "junk"), In("a", "archive"),
          In("dylib", "dylib"), In("dylib", "junk"),
          [In("o", "object") EXCEPT !.force = TRUE],
          [In("o", "object") EXCEPT !.found = FALSE]}

MCCommands == UNION {[1 .. n -> Sorts] : n \in 1 .. MaxInputs}

\* Two threads of one process and a second process, one pid used twice.
CONSTANTS p, q, u, v, w

MCPid == [x \in Writers |-> IF x = w THEN q ELSE p]
MCMaxRuns == [x \in Pids |-> IF x = p THEN 2 ELSE 1]
MCMode == [x \in Writers |-> IF x = v THEN "Preserve" ELSE "AddExecute"]
-----------------------------------------------------------------------------
VARIABLE job

cdvars == <<dvars, vars, job>>

Loaded ==
  /\ cmd = <<>> /\ PoolInit /\ jobs = <<>> /\ phase = "ok" /\ resolved = 0
  /\ results = <<>> /\ deferred = <<>> /\ order = <<>> /\ dylibs = <<>>
  /\ firstError = 0

Published ==
  /\ dest = Absent /\ temps = [t \in TempNames |-> Absent]
  /\ nextId = [x \in Pids |-> 0] /\ runs = [x \in Pids |-> 1]
  /\ pc = [x \in Writers |-> "ok"] /\ path = [x \in Writers |-> NoPath]
  /\ tries = [x \in Writers |-> 0]

\* The destination is a new path, or holds an image that may not be executed.
FirstDestination == dest # Absent => dest.bits = "r"

DriverInit ==
  \/ job = "load" /\ LoadInit /\ Published
  \/ job = "publish" /\ Init /\ FirstDestination /\ Loaded

DriverNext ==
  \/ job = "load" /\ LoadNext /\ UNCHANGED <<vars, job>>
  \/ job = "publish" /\ Next /\ UNCHANGED <<dvars, job>>

\* The fairness of LoadSpec and of Spec.
DriverFairness ==
  /\ WF_dvars(DriverStep)
  /\ WF_dvars(phase = "pool" /\ MainStep /\ UNCHANGED lvars)
  /\ \A x \in Workers : WF_dvars(phase = "pool" /\ WorkerStep(x) /\ UNCHANGED lvars)
  /\ \A x \in Writers : WF_vars(job = "publish" /\ Write(x))

DriverSpec == DriverInit /\ [][DriverNext]_cdvars /\ DriverFairness
=============================================================================
