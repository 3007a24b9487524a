------------------------------- MODULE Publish -------------------------------
(***************************************************************************)
(* Atomic publication of a linker artifact (src/src/output.rs): write a    *)
(* temporary file beside the destination, set its permissions, rename it   *)
(* over the destination.  Several writers, in one process or in several,   *)
(* publish to one destination; any system call may fail and a process may  *)
(* be killed, after which its pid may be used again.                       *)
(***************************************************************************)
EXTENDS Naturals, FiniteSets

CONSTANTS Pids,      \* process ids
          Writers,   \* calls of write_atomic
          Pid,       \* the process of each writer
          Mode,      \* the PermissionMode of each writer
          Attempts,  \* TEMP_CREATE_ATTEMPTS (128 in the code)
          MaxTempId, \* bound on NEXT_TEMP_ID
          MaxRuns,   \* bound on the processes that use each pid in turn
          Absent     \* no such file

ASSUME PublishAssumption ==
  /\ "old" \notin Writers /\ Pid \in [Writers -> Pids]
  /\ Mode \in [Writers -> {"Preserve", "AddExecute", "Exact"}]
  /\ Attempts \in Nat \ {0} /\ MaxTempId \in Nat /\ MaxRuns \in [Pids -> Nat]
  /\ Absent \notin [by : Writers \cup {"old"}, data : {"partial", "complete"},
                    bits : {"none", "r", "rx"}]

VARIABLES dest,   \* the file at the destination path, or Absent
          temps,  \* the temporary files, by name
          nextId, \* NEXT_TEMP_ID of each process
          runs,   \* how many processes have used the pid
          pc,     \* where each writer is
          path,   \* PendingOutput::path: its temporary file
          tries   \* names tried so far

vars == <<dest, temps, nextId, runs, pc, path, tries>>

\* Permission bits, as far as publication tells them apart.
Bits == {"none", "r", "rx"}
TempNames == Pids \X (0 .. MaxTempId)
NoPath == <<>>
File == [by : Writers \cup {"old"}, data : {"partial", "complete"}, bits : Bits]

Active == {"create", "open", "write", "perm", "rename"}
Holding == {"write", "perm", "rename"}

Set(w, at) == pc' = [pc EXCEPT ![w] = at]
-----------------------------------------------------------------------------
(* PendingOutput::create *)

\* Mutant: the counter is read but not advanced, attempts are not counted.
ReserveSameName(w) ==
  /\ pc[w] = "create"
  /\ path' = [path EXCEPT ![w] = <<Pid[w], nextId[Pid[w]]>>]
  /\ Set(w, "open")
  /\ UNCHANGED <<dest, temps, nextId, runs, tries>>

\* NEXT_TEMP_ID.fetch_add
Reserve(w) ==
  /\ pc[w] = "create" /\ tries[w] < Attempts
  /\ nextId[Pid[w]] <= MaxTempId
  /\ path' = [path EXCEPT ![w] = <<Pid[w], nextId[Pid[w]]>>]
  /\ nextId' = [nextId EXCEPT ![Pid[w]] = @ + 1]
  /\ tries' = [tries EXCEPT ![w] = @ + 1]
  /\ Set(w, "open")
  /\ UNCHANGED <<dest, temps, runs>>

NoNameLeft(w) ==
  /\ pc[w] = "create" /\ tries[w] = Attempts
  /\ Set(w, "err")
  /\ UNCHANGED <<dest, temps, nextId, runs, path, tries>>

\* Mutant: open without create_new.
OpenShared(w) ==
  /\ pc[w] = "open"
  /\ temps' = [temps EXCEPT ![path[w]] =
                 [by |-> w, data |-> "partial", bits |-> "r"]]
  /\ Set(w, "write") /\ UNCHANGED path
  /\ UNCHANGED <<dest, nextId, runs, tries>>

\* create_new: the open succeeds only if no such file exists; AlreadyExists
\* tries the next name.
Open(w) ==
  /\ pc[w] = "open"
  /\ IF temps[path[w]] = Absent
       THEN /\ temps' = [temps EXCEPT ![path[w]] =
                           [by |-> w, data |-> "partial", bits |-> "r"]]
            /\ Set(w, "write") /\ UNCHANGED path
       ELSE /\ Set(w, "create") /\ path' = [path EXCEPT ![w] = NoPath]
            /\ UNCHANGED temps
  /\ UNCHANGED <<dest, nextId, runs, tries>>

OpenFails(w) ==
  /\ pc[w] = "open"
  /\ Set(w, "err") /\ path' = [path EXCEPT ![w] = NoPath]
  /\ UNCHANGED <<dest, temps, nextId, runs, tries>>
-----------------------------------------------------------------------------
(* write, apply_permissions, commit *)

\* Mutant: a short write is taken for a whole one.
WriteSome(w) ==
  /\ pc[w] = "write"
  /\ Set(w, "perm")
  /\ UNCHANGED <<dest, temps, nextId, runs, path, tries>>

WriteAll(w) ==
  /\ pc[w] = "write"
  /\ temps' = [temps EXCEPT ![path[w]].data = "complete"]
  /\ Set(w, "perm")
  /\ UNCHANGED <<dest, nextId, runs, path, tries>>

AddExecute(b) == IF b = "r" THEN "rx" ELSE b

\* existing_mode(output), read before the rename; a missing destination leaves
\* the bits the temporary file was created with.
BaseBits(w) == IF dest = Absent THEN temps[path[w]].bits ELSE dest.bits

ChooseBits(w) ==
  CASE Mode[w] = "Preserve" -> BaseBits(w)
    [] Mode[w] = "AddExecute" -> AddExecute(BaseBits(w))
    [] Mode[w] = "Exact" -> "rx"

\* Mutant: the old destination is removed ahead of the rename.
RemoveOld(w) ==
  /\ pc[w] = "perm"
  /\ temps' = [temps EXCEPT ![path[w]].bits = ChooseBits(w)]
  /\ dest' = Absent
  /\ Set(w, "rename")
  /\ UNCHANGED <<nextId, runs, path, tries>>

\* The bits are set on a file no one else uses, so reading the destination's
\* and setting them is one step; the rename comes later.
ApplyPermissions(w) ==
  /\ pc[w] = "perm"
  /\ temps' = [temps EXCEPT ![path[w]].bits = ChooseBits(w)]
  /\ Set(w, "rename")
  /\ UNCHANGED <<dest, nextId, runs, path, tries>>

\* Mutant: publish first, set the permissions afterwards.
CommitEarly(w) ==
  /\ pc[w] \in {"perm", "rename"}
  /\ dest' = temps[path[w]]
  /\ temps' = [temps EXCEPT ![path[w]] = Absent]
  /\ path' = [path EXCEPT ![w] = NoPath]
  /\ Set(w, "ok")
  /\ UNCHANGED <<nextId, runs, tries>>

\* fs::rename replaces the destination in one step.
Commit(w) ==
  /\ pc[w] = "rename"
  /\ dest' = temps[path[w]]
  /\ temps' = [temps EXCEPT ![path[w]] = Absent]
  /\ path' = [path EXCEPT ![w] = NoPath]
  /\ Set(w, "ok")
  /\ UNCHANGED <<nextId, runs, tries>>

\* Mutant: the error path forgets the temporary file.
FailKeepingTemp(w) ==
  /\ pc[w] \in Holding
  /\ path' = [path EXCEPT ![w] = NoPath]
  /\ Set(w, "err")
  /\ UNCHANGED <<dest, temps, nextId, runs, tries>>

\* Any of these calls fails: the error is returned and Drop removes the file.
FailAndDrop(w) ==
  /\ pc[w] \in Holding
  /\ temps' = [temps EXCEPT ![path[w]] = Absent]
  /\ path' = [path EXCEPT ![w] = NoPath]
  /\ Set(w, "err")
  /\ UNCHANGED <<dest, nextId, runs, tries>>
-----------------------------------------------------------------------------
(* The environment. *)

Of(p) == {w \in Writers : Pid[w] = p}

\* The process is killed: no destructor runs.
Kill(p) ==
  /\ \E w \in Of(p) : pc[w] \in Active
  /\ pc' = [w \in Writers |->
              IF Pid[w] = p /\ pc[w] \in Active THEN "killed" ELSE pc[w]]
  /\ UNCHANGED <<dest, temps, nextId, runs, path, tries>>

\* A new process gets the pid and publishes the same artifacts.
Restart(p) ==
  /\ runs[p] < MaxRuns[p]
  /\ \A w \in Of(p) : pc[w] \notin Active
  /\ runs' = [runs EXCEPT ![p] = @ + 1]
  /\ nextId' = [nextId EXCEPT ![p] = 0]
  /\ pc' = [w \in Writers |-> IF Pid[w] = p THEN "create" ELSE pc[w]]
  /\ path' = [w \in Writers |-> IF Pid[w] = p THEN NoPath ELSE path[w]]
  /\ tries' = [w \in Writers |-> IF Pid[w] = p THEN 0 ELSE tries[w]]
  /\ UNCHANGED <<dest, temps>>
-----------------------------------------------------------------------------
Init ==
  /\ dest \in {Absent} \cup [by : {"old"}, data : {"complete"}, bits : Bits]
  /\ temps = [t \in TempNames |-> Absent]
  /\ nextId = [p \in Pids |-> 0]
  /\ runs = [p \in Pids |-> 1]
  /\ pc = [w \in Writers |-> "create"]
  /\ path = [w \in Writers |-> NoPath]
  /\ tries = [w \in Writers |-> 0]

Write(w) ==
  \/ Reserve(w) \/ NoNameLeft(w) \/ Open(w) \/ OpenFails(w)
  \/ WriteAll(w) \/ ApplyPermissions(w) \/ Commit(w)
  \/ FailAndDrop(w)

Next ==
  \/ \E w \in Writers : Write(w)
  \/ \E p \in Pids : Kill(p) \/ Restart(p)

\* Every writer that is not killed keeps running.
Spec == Init /\ [][Next]_vars /\ \A w \in Writers : WF_vars(Write(w))
-----------------------------------------------------------------------------
\* Type invariant.
TypeOK ==
  /\ dest \in File \cup {Absent}
  /\ temps \in [TempNames -> File \cup {Absent}]
  /\ nextId \in [Pids -> 0 .. MaxTempId + 1]
  /\ runs \in [Pids -> Nat]
  /\ pc \in [Writers -> Active \cup {"ok", "err", "killed"}]
  /\ path \in [Writers -> TempNames \cup {NoPath}]
  /\ tries \in [Writers -> 0 .. Attempts]

\* The destination is at every moment absent or one complete image: never the
\* half-written file of some writer, whatever fails and whoever is killed.
DestinationComplete == dest # Absent => dest.data = "complete"

\* create_new: a temporary file stays with the writer that created it. A name
\* that a killed process of the same pid left behind is never written again.
TempsNeverTakenOver ==
  [][\A t \in TempNames :
       temps[t] # Absent /\ temps'[t] # Absent => temps'[t].by = temps[t].by]_vars

\* "Temporary files are removed on every ordinary error path": a temporary
\* file exists only while its writer is at work or because it was killed.
TempsAccountedFor ==
  \A t \in TempNames :
    temps[t] # Absent =>
      \/ \E w \in Writers : pc[w] \in Holding /\ path[w] = t
      \/ \E w \in Writers : temps[t].by = w /\ (pc[w] = "killed" \/ runs[Pid[w]] > 1)

\* "Returned errors leave an existing destination untouched": the destination
\* changes only in the step in which a writer succeeds, to that writer's image.
OnlySuccessPublishes ==
  [][dest' # dest =>
       \E w \in Writers : pc[w] = "rename" /\ pc'[w] = "ok" /\ dest'.by = w]_vars

\* An executable is never visible without its execute bit: permissions are set
\* before the rename, although they were derived from an older destination.
ExecutablesAreExecutable ==
  dest # Absent /\ dest.by \in Writers /\ Mode[dest.by] = "AddExecute"
    => dest.bits # "r"

\* Every call of write_atomic returns, unless its process is killed, although
\* the names it tries may be taken by the leftovers of earlier processes.
WritersReturn ==
  \A w \in Writers : []<>(pc[w] \notin Active)
=============================================================================
