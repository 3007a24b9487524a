---------------------------- MODULE PublishProofs ----------------------------
(***************************************************************************)
(* Publication is atomic for any number of writers, processes, attempts    *)
(* and restarts.                                                           *)
(***************************************************************************)
EXTENDS Publish, TLAPS

\* While a writer holds a temporary file, the file is there and its own; it is
\* complete once written, and executable if it must be once its bits are set.
Holds(w) ==
  /\ path[w] \in TempNames
  /\ temps[path[w]] \in File
  /\ temps[path[w]].by = w
  /\ pc[w] \in {"perm", "rename"} => temps[path[w]].data = "complete"
  /\ pc[w] = "rename" /\ Mode[w] = "AddExecute" => temps[path[w]].bits # "r"

FilesOwned ==
  \A w \in Writers :
    /\ pc[w] = "open" => path[w] \in TempNames
    /\ pc[w] \in Holding => Holds(w)

IInv ==
  /\ TypeOK /\ FilesOwned /\ \A p \in Pids : runs[p] >= 1
  /\ DestinationComplete /\ ExecutablesAreExecutable /\ TempsAccountedFor

\* Two writers, of one process or of several, never hold the same file.
TempsExclusive ==
  \A v, w \in Writers :
    v # w /\ pc[v] \in Holding /\ pc[w] \in Holding => path[v] # path[w]

\* A missing file is told from every file.
LEMMA AbsentIsNoFile == Absent \notin File
  BY PublishAssumption DEF File, Bits

\* A file that two writers hold would be written by both.
LEMMA OwnersDiffer ==
  ASSUME FilesOwned
  PROVE  TempsExclusive
  BY DEF FilesOwned, Holds, TempsExclusive

\* Publication begins in IInv.
LEMMA InitIInv == Init => IInv
PROOF
  <1> SUFFICES ASSUME Init PROVE IInv
    OBVIOUS
  <1>1. TypeOK
    BY PublishAssumption DEF Init, TypeOK, File, Bits, Active
  <1>2. FilesOwned /\ \A p \in Pids : runs[p] >= 1
    BY DEF Init, FilesOwned, Holding
  <1>3. DestinationComplete
    BY DEF Init, DestinationComplete
  <1>4. ExecutablesAreExecutable
    <2>1. SUFFICES ASSUME dest # Absent, dest.by \in Writers,
                          Mode[dest.by] = "AddExecute"
                   PROVE  dest.bits # "r"
      BY DEF ExecutablesAreExecutable
    <2> QED BY <2>1, PublishAssumption DEF Init
  <1>5. TempsAccountedFor
    BY DEF Init, TempsAccountedFor
  <1> QED BY <1>1, <1>2, <1>3, <1>4, <1>5 DEF IInv

\* The name that fetch_add reserves is one of the process.
LEMMA ReservedName ==
  ASSUME TypeOK, NEW w \in Writers, Reserve(w)
  PROVE  /\ Pid[w] \in Pids
         /\ nextId[Pid[w]] + 1 \in 0 .. MaxTempId + 1
         /\ <<Pid[w], nextId[Pid[w]]>> \in TempNames
PROOF
  <1>1. Pid[w] \in Pids /\ MaxTempId \in Nat
    BY PublishAssumption
  <1>2. nextId[Pid[w]] \in 0 .. MaxTempId + 1 /\ nextId[Pid[w]] <= MaxTempId
    BY <1>1 DEF TypeOK, Reserve
  <1> QED BY <1>1, <1>2 DEF TempNames

\* PendingOutput::create leaves the files of others and the destination alone.
LEMMA CreateStep ==
  ASSUME IInv, NEW w \in Writers,
         Reserve(w) \/ NoNameLeft(w) \/ Open(w) \/ OpenFails(w)
  PROVE  IInv'
PROOF
  <1> USE DEF IInv
  <1>1. TypeOK'
    <2>1. CASE Reserve(w)
      <3>1. <<Pid[w], nextId[Pid[w]]>> \in TempNames
        BY <2>1, ReservedName
      <3>2. Pid[w] \in Pids /\ nextId[Pid[w]] + 1 \in 0 .. MaxTempId + 1
        BY <2>1, ReservedName, Zenon
      <3>3. tries[w] + 1 \in 0 .. Attempts
        BY <2>1, PublishAssumption DEF Reserve, TypeOK
      <3> QED BY <2>1, <3>1, <3>2, <3>3 DEF Reserve, Set, TypeOK, Active
    <2>2. CASE NoNameLeft(w)
      BY <2>2 DEF NoNameLeft, Set, TypeOK
    <2>3. CASE Open(w)
      <3>1. [by |-> w, data |-> "partial", bits |-> "r"] \in File
        BY DEF File, Bits
      <3> QED BY <2>3, <3>1 DEF Open, Set, TypeOK, Active
    <2>4. CASE OpenFails(w)
      BY <2>4 DEF OpenFails, Set, TypeOK
    <2> QED BY <2>1, <2>2, <2>3, <2>4
  <1>2. FilesOwned'
    <2> SUFFICES ASSUME NEW v \in Writers
                 PROVE  /\ pc'[v] = "open" => path'[v] \in TempNames
                        /\ pc'[v] \in Holding => Holds(v)'
      BY DEF FilesOwned
    <2>1. CASE Reserve(w)
      <3>1. <<Pid[w], nextId[Pid[w]]>> \in TempNames
        BY <2>1, ReservedName
      <3> QED BY <2>1, <3>1 DEF Reserve, Set, TypeOK, FilesOwned, Holds, Holding
    <2>2. CASE NoNameLeft(w)
      BY <2>2 DEF NoNameLeft, Set, TypeOK, FilesOwned, Holds, Holding
    <2>3. CASE OpenFails(w)
      BY <2>3 DEF OpenFails, Set, TypeOK, FilesOwned, Holds, Holding
    <2>4. CASE Open(w) /\ temps[path[w]] # Absent
      BY <2>4 DEF Open, Set, TypeOK, FilesOwned, Holds, Holding
    <2>5. CASE Open(w) /\ temps[path[w]] = Absent
      <3>1. path[w] \in TempNames /\ [by |-> w, data |-> "partial", bits |-> "r"] \in File
        BY <2>5 DEF Open, FilesOwned, File, Bits
      <3>2. CASE v = w
        BY <2>5, <3>1, <3>2 DEF Open, Set, TypeOK, Holds, Holding
      <3>3. CASE v # w
        <4>1. pc'[v] = pc[v] /\ path'[v] = path[v]
          BY <2>5, <3>3 DEF Open, Set, TypeOK
        <4>2. pc[v] \in Holding => path[v] # path[w]
          BY <2>5, AbsentIsNoFile DEF FilesOwned, Holds
        <4>3. pc[v] \in Holding => temps'[path[v]] = temps[path[v]]
          BY <2>5, <4>2 DEF Open, TypeOK, FilesOwned, Holds
        <4> QED BY <4>1, <4>3 DEF FilesOwned, Holds
      <3> QED BY <3>2, <3>3
    <2> QED BY <2>1, <2>2, <2>3, <2>4, <2>5
  <1>3. dest' = dest /\ runs' = runs
    BY DEF Reserve, NoNameLeft, Open, OpenFails
  <1>4. TempsAccountedFor'
    <2> SUFFICES ASSUME NEW t \in TempNames, temps'[t] # Absent
                 PROVE  \/ \E v \in Writers : pc'[v] \in Holding /\ path'[v] = t
                        \/ \E v \in Writers : /\ temps'[t].by = v
                             /\ (pc'[v] = "killed" \/ runs'[Pid[v]] > 1)
      BY DEF TempsAccountedFor
    <2>1. CASE Open(w) /\ temps[path[w]] = Absent /\ t = path[w]
      BY <2>1 DEF Open, Set, TypeOK, Holding
    <2>2. CASE ~(Open(w) /\ temps[path[w]] = Absent /\ t = path[w])
      <3>1. temps'[t] = temps[t]
        BY <2>2 DEF Reserve, NoNameLeft, Open, OpenFails, TypeOK
      <3>2. \A v \in Writers : pc[v] \in Holding \cup {"killed"} =>
              pc'[v] = pc[v] /\ path'[v] = path[v]
        BY DEF Reserve, NoNameLeft, Open, OpenFails, Set, TypeOK, Holding
      <3> QED BY <1>3, <3>1, <3>2 DEF TempsAccountedFor
    <2> QED BY <2>1, <2>2
  <1>5. DestinationComplete' /\ ExecutablesAreExecutable'
    BY <1>3 DEF DestinationComplete, ExecutablesAreExecutable
  <1> QED BY <1>1, <1>2, <1>3, <1>4, <1>5

\* Writing and setting permissions change only the file that is held.
LEMMA WriteStep ==
  ASSUME IInv, NEW w \in Writers, WriteAll(w) \/ ApplyPermissions(w)
  PROVE  IInv'
PROOF
  <1> USE DEF IInv
  <1> DEFINE f == temps[path[w]]
             g == temps'[path[w]]
  <1>1. path[w] \in TempNames /\ f \in File /\ f.by = w
    BY DEF WriteAll, ApplyPermissions, FilesOwned, Holds, Holding
  <1>2. /\ dest' = dest /\ runs' = runs /\ path' = path
        /\ nextId' = nextId /\ tries' = tries
    BY DEF WriteAll, ApplyPermissions
  <1>3. ApplyPermissions(w) => ChooseBits(w) \in Bits
    <2>1. BaseBits(w) \in Bits
      BY <1>1 DEF BaseBits, TypeOK, File
    <2> QED BY <2>1, PublishAssumption DEF ChooseBits, AddExecute, Bits
  <1>4. /\ temps' = [temps EXCEPT ![path[w]] = g]
        /\ g \in File /\ g.by = w
        /\ WriteAll(w) => g.data = "complete"
        /\ ApplyPermissions(w) => g.data = f.data /\ g.bits = ChooseBits(w)
    <2>1. CASE WriteAll(w)
      <3>1. g = [f EXCEPT !.data = "complete"]
        BY <1>1, <2>1 DEF WriteAll, TypeOK
      <3>2. temps' = [temps EXCEPT ![path[w]] = g]
        BY <1>1, <2>1, <3>1 DEF WriteAll, TypeOK
      <3>3. ~ApplyPermissions(w)
        BY <2>1 DEF WriteAll, ApplyPermissions
      <3> QED BY <1>1, <3>1, <3>2, <3>3 DEF File
    <2>2. CASE ApplyPermissions(w)
      <3>1. g = [f EXCEPT !.bits = ChooseBits(w)]
        BY <1>1, <2>2 DEF ApplyPermissions, TypeOK
      <3>2. temps' = [temps EXCEPT ![path[w]] = g]
        BY <1>1, <2>2, <3>1 DEF ApplyPermissions, TypeOK
      <3>3. ~WriteAll(w)
        BY <2>2 DEF WriteAll, ApplyPermissions
      <3> QED BY <1>1, <1>3, <2>2, <3>1, <3>2, <3>3 DEF File
    <2> QED BY <2>1, <2>2
  <1>5. TypeOK'
    BY <1>1, <1>2, <1>4 DEF WriteAll, ApplyPermissions, Set, TypeOK, Active
  <1>6. FilesOwned'
    <2> SUFFICES ASSUME NEW v \in Writers
                 PROVE  /\ pc'[v] = "open" => path'[v] \in TempNames
                        /\ pc'[v] \in Holding => Holds(v)'
      BY DEF FilesOwned
    <2>1. CASE v = w /\ WriteAll(w)
      BY <1>1, <1>2, <1>4, <2>1 DEF WriteAll, Set, TypeOK, Holds, Holding
    <2>2. CASE v = w /\ ApplyPermissions(w)
      <3>1. f.data = "complete"
        BY <2>2 DEF ApplyPermissions, FilesOwned, Holds, Holding
      <3>2. Mode[w] = "AddExecute" => ChooseBits(w) # "r"
        BY DEF ChooseBits, AddExecute
      <3>3. pc'[w] = "rename"
        BY <2>2 DEF ApplyPermissions, Set, TypeOK
      <3> QED BY <1>1, <1>2, <1>4, <2>2, <3>1, <3>2, <3>3 DEF Holds
    <2>3. CASE v # w
      <3>1. pc'[v] = pc[v]
        BY <2>3 DEF WriteAll, ApplyPermissions, Set, TypeOK
      <3>2. pc[v] \in Holding => path[v] # path[w] /\ temps'[path[v]] = temps[path[v]]
        BY <1>1, <1>4, <2>3 DEF TypeOK, FilesOwned, Holds
      <3> QED BY <1>2, <3>1, <3>2 DEF FilesOwned, Holds
    <2> QED BY <2>1, <2>2, <2>3
  <1>7. TempsAccountedFor'
    <2>1. pc[w] \in Holding /\ pc'[w] \in Holding
      BY DEF WriteAll, ApplyPermissions, Set, TypeOK, Holding
    <2>2. \A v \in Writers : v # w => pc'[v] = pc[v]
      BY DEF WriteAll, ApplyPermissions, Set, TypeOK
    <2>3. \A t \in TempNames : t # path[w] => temps'[t] = temps[t]
      BY <1>1, <1>4 DEF TypeOK
    <2>4. pc[w] # "killed"
      BY <2>1 DEF Holding
    <2> QED BY <1>2, <2>1, <2>2, <2>3, <2>4 DEF TempsAccountedFor
  <1>8. DestinationComplete' /\ ExecutablesAreExecutable'
    BY <1>2 DEF DestinationComplete, ExecutablesAreExecutable
  <1> QED BY <1>2, <1>5, <1>6, <1>7, <1>8

\* A writer that publishes or gives up takes its own file out of the way and
\* no other.
LEMMA LeaveStep ==
  ASSUME IInv, NEW w \in Writers, Commit(w) \/ FailAndDrop(w)
  PROVE  IInv'
PROOF
  <1> USE DEF IInv
  <1>1. path[w] \in TempNames /\ temps[path[w]] \in File /\ temps[path[w]].by = w
    BY DEF Commit, FailAndDrop, FilesOwned, Holds, Holding
  <1>2. /\ temps' = [temps EXCEPT ![path[w]] = Absent]
        /\ path' = [path EXCEPT ![w] = NoPath]
        /\ nextId' = nextId /\ runs' = runs /\ tries' = tries
    BY DEF Commit, FailAndDrop
  <1>3. pc[w] \in Holding /\ pc'[w] \in {"ok", "err"} /\
        pc' = [pc EXCEPT ![w] = pc'[w]]
    BY DEF Commit, FailAndDrop, Set, TypeOK, Holding
  <1>4. dest' = dest \/ (pc[w] = "rename" /\ dest' = temps[path[w]])
    BY DEF Commit, FailAndDrop
  <1>5. TypeOK'
    BY <1>1, <1>2, <1>3, <1>4 DEF TypeOK
  <1>6. FilesOwned'
    <2> SUFFICES ASSUME NEW v \in Writers
                 PROVE  /\ pc'[v] = "open" => path'[v] \in TempNames
                        /\ pc'[v] \in Holding => Holds(v)'
      BY DEF FilesOwned
    <2>1. CASE v = w
      BY <1>3, <2>1 DEF Holding
    <2>2. CASE v # w
      <3>1. pc'[v] = pc[v] /\ path'[v] = path[v]
        BY <1>2, <1>3, <2>2 DEF TypeOK
      <3>2. pc[v] \in Holding => path[v] # path[w] /\ temps'[path[v]] = temps[path[v]]
        BY <1>1, <1>2, <2>2 DEF TypeOK, FilesOwned, Holds
      <3> QED BY <3>1, <3>2 DEF FilesOwned, Holds
    <2> QED BY <2>1, <2>2
  <1>7. TempsAccountedFor'
    <2>1. \A v \in Writers : v # w => pc'[v] = pc[v] /\ path'[v] = path[v]
      BY <1>2, <1>3 DEF TypeOK
    <2>2. temps'[path[w]] = Absent /\
          \A t \in TempNames : t # path[w] => temps'[t] = temps[t]
      BY <1>1, <1>2 DEF TypeOK
    <2>3. pc[w] # "killed"
      BY <1>3 DEF Holding
    <2> QED BY <1>2, <2>1, <2>2, <2>3 DEF TempsAccountedFor
  <1>8. DestinationComplete'
    BY <1>3, <1>4 DEF DestinationComplete, FilesOwned, Holds
  <1>9. ExecutablesAreExecutable'
    BY <1>1, <1>3, <1>4 DEF ExecutablesAreExecutable, FilesOwned, Holds
  <1> QED BY <1>2, <1>5, <1>6, <1>7, <1>8, <1>9

\* A kill leaves every file in place; the ones its writers held are accounted
\* for by them.
LEMMA KillStep ==
  ASSUME IInv, NEW p \in Pids, Kill(p)
  PROVE  IInv'
PROOF
  <1> USE DEF IInv
  <1>1. /\ dest' = dest /\ temps' = temps /\ nextId' = nextId
        /\ runs' = runs /\ path' = path /\ tries' = tries
    BY DEF Kill
  <1>2. \A v \in Writers : pc'[v] = pc[v] \/ pc'[v] = "killed"
    BY DEF Kill
  <1>3. TypeOK'
    BY <1>1 DEF Kill, TypeOK
  <1>4. FilesOwned'
    BY <1>1, <1>2 DEF FilesOwned, Holds, Holding
  <1>5. TempsAccountedFor'
    BY <1>1, <1>2 DEF TempsAccountedFor, FilesOwned, Holds
  <1>6. DestinationComplete' /\ ExecutablesAreExecutable'
    BY <1>1 DEF DestinationComplete, ExecutablesAreExecutable
  <1> QED BY <1>1, <1>3, <1>4, <1>5, <1>6

\* What a process leaves behind is accounted for by its successor.
LEMMA RestartStep ==
  ASSUME IInv, NEW p \in Pids, Restart(p)
  PROVE  IInv'
PROOF
  <1> USE DEF IInv
  <1>1. dest' = dest /\ temps' = temps
    BY DEF Restart
  <1>2. \A v \in Writers :
          \/ pc'[v] = pc[v] /\ path'[v] = path[v]
          \/ Pid[v] = p /\ pc[v] \notin Active /\ pc'[v] = "create"
    BY DEF Restart, Of, TypeOK
  <1>3. /\ runs' \in [Pids -> Nat] /\ runs'[p] > 1
        /\ \A q \in Pids : runs'[q] >= runs[q] /\ runs'[q] >= 1
    BY DEF Restart, TypeOK
  <1>4. TypeOK'
    <2>1. /\ pc' \in [Writers -> Active \cup {"ok", "err", "killed"}]
          /\ path' \in [Writers -> TempNames \cup {NoPath}]
      BY DEF Restart, TypeOK, Active
    <2>2. tries' \in [Writers -> 0 .. Attempts]
      BY PublishAssumption DEF Restart, TypeOK
    <2>3. nextId' \in [Pids -> 0 .. MaxTempId + 1]
      BY PublishAssumption DEF Restart, TypeOK
    <2> QED BY <1>1, <1>3, <2>1, <2>2, <2>3 DEF TypeOK
  <1>5. FilesOwned'
    BY <1>1, <1>2 DEF FilesOwned, Holds, Holding
  <1>6. TempsAccountedFor'
    <2> SUFFICES ASSUME NEW t \in TempNames, temps[t] # Absent
                 PROVE  \/ \E v \in Writers : pc'[v] \in Holding /\ path'[v] = t
                        \/ \E v \in Writers : /\ temps[t].by = v
                             /\ (pc'[v] = "killed" \/ runs'[Pid[v]] > 1)
      BY <1>1 DEF TempsAccountedFor
    <2>1. CASE \E v \in Writers : pc[v] \in Holding /\ path[v] = t
      BY <1>2, <2>1 DEF Holding, Active
    <2>2. CASE \E v \in Writers : temps[t].by = v /\ (pc[v] = "killed" \/ runs[Pid[v]] > 1)
      <3>1. PICK v \in Writers : temps[t].by = v /\ (pc[v] = "killed" \/ runs[Pid[v]] > 1)
        BY <2>2
      <3>2. Pid[v] \in Pids
        BY PublishAssumption
      <3>3. CASE pc'[v] = pc[v] /\ pc[v] = "killed"
        BY <3>1, <3>3
      <3>4. CASE Pid[v] = p
        BY <1>3, <3>1, <3>4
      <3>5. CASE runs[Pid[v]] > 1
        BY <1>3, <3>1, <3>2, <3>5 DEF TypeOK
      <3> QED BY <1>2, <3>1, <3>3, <3>4, <3>5
    <2> QED BY <2>1, <2>2 DEF TempsAccountedFor
  <1>7. DestinationComplete' /\ ExecutablesAreExecutable'
    BY <1>1 DEF DestinationComplete, ExecutablesAreExecutable
  <1> QED BY <1>3, <1>4, <1>5, <1>6, <1>7

\* Every step keeps IInv.
LEMMA StepIInv == IInv /\ [Next]_vars => IInv'
PROOF
  <1> SUFFICES ASSUME IInv, [Next]_vars PROVE IInv'
    OBVIOUS
  <1>1. ASSUME NEW w \in Writers, Write(w) PROVE IInv'
    BY <1>1, CreateStep, WriteStep, LeaveStep DEF Write
  <1>2. ASSUME NEW p \in Pids, Kill(p) \/ Restart(p) PROVE IInv'
    BY <1>2, KillStep, RestartStep
  <1>3. CASE UNCHANGED vars
    BY <1>3 DEF vars, IInv, TypeOK, FilesOwned, Holds, DestinationComplete,
                ExecutablesAreExecutable, TempsAccountedFor
  <1> QED BY <1>1, <1>2, <1>3 DEF Next

\* A writer's temporary file stays its own, whatever the others do.
THEOREM Invariance == Spec => []IInv
  BY InitIInv, StepIInv, PTL DEF Spec

\* Every variable of write_atomic and of the file system keeps its type.
THEOREM TypeCorrect == Spec => []TypeOK
  BY Invariance, PTL DEF IInv

\* No reader of the destination ever sees a half-written image.
THEOREM DestinationAlwaysComplete == Spec => []DestinationComplete
  BY Invariance, PTL DEF IInv

\* No two calls ever write to the same temporary file.
THEOREM TempsAlwaysExclusive == Spec => []TempsExclusive
PROOF
  <1>1. IInv => TempsExclusive
    BY OwnersDiffer DEF IInv
  <1> QED BY <1>1, Invariance, PTL

\* No call ever opens a temporary file that is already there.
THEOREM TempsAreNeverTakenOver == Spec => TempsNeverTakenOver
PROOF
  <1> DEFINE Kept == \A t \in TempNames : temps[t] # Absent /\ temps'[t] # Absent =>
                        temps'[t].by = temps[t].by
  <1>1. IInv /\ [Next]_vars => [Kept]_vars
    <2> SUFFICES ASSUME IInv, Next PROVE Kept
      OBVIOUS
    <2> USE DEF IInv, TypeOK
    <2>1. ASSUME NEW w \in Writers, WriteAll(w) \/ ApplyPermissions(w) PROVE Kept
      <3>1. path[w] \in TempNames /\ temps[path[w]] \in File
        BY <2>1 DEF WriteAll, ApplyPermissions, FilesOwned, Holds, Holding
      <3>2. temps'[path[w]].by = temps[path[w]].by
        BY <2>1, <3>1 DEF WriteAll, ApplyPermissions, File
      <3>3. \A t \in TempNames : t # path[w] => temps'[t] = temps[t]
        BY <2>1, <3>1 DEF WriteAll, ApplyPermissions
      <3> QED BY <3>2, <3>3
    <2>2. ASSUME NEW w \in Writers, Open(w) PROVE Kept
      BY <2>2 DEF Open
    <2>3. ASSUME NEW w \in Writers, Commit(w) \/ FailAndDrop(w) PROVE Kept
      BY <2>3 DEF Commit, FailAndDrop
    <2>4. CASE UNCHANGED temps
      BY <2>4
    <2> QED BY <2>1, <2>2, <2>3, <2>4 DEF Next, Write, Reserve, NoNameLeft,
               OpenFails, Kill, Restart
  <1> QED BY <1>1, Invariance, PTL DEF Spec, TempsNeverTakenOver

\* A temporary file that stays behind is the work of a killed process.
THEOREM TempsAlwaysAccountedFor == Spec => []TempsAccountedFor
  BY Invariance, PTL DEF IInv

\* An executable that is published can be executed from the first moment.
THEOREM AlwaysExecutable == Spec => []ExecutablesAreExecutable
  BY Invariance, PTL DEF IInv

\* A call that returns an error has not touched the destination.
THEOREM OnlySuccessEverPublishes == Spec => OnlySuccessPublishes
PROOF
  <1> DEFINE Publishes == dest' # dest => \E w \in Writers :
                 pc[w] = "rename" /\ pc'[w] = "ok" /\ dest'.by = w
  <1>1. IInv /\ [Next]_vars => [Publishes]_vars
    <2> SUFFICES ASSUME IInv, Next, dest' # dest PROVE Publishes
      OBVIOUS
    <2>1. PICK w \in Writers : Commit(w)
      BY Zenon DEF Next, Write, Reserve, NoNameLeft, Open, OpenFails, WriteAll,
             ApplyPermissions, FailAndDrop, Kill, Restart
    <2>2. temps[path[w]].by = w
      BY <2>1 DEF Commit, IInv, FilesOwned, Holds, Holding
    <2> QED BY <2>1, <2>2 DEF Commit, Set, IInv, TypeOK
  <1> QED BY <1>1, Invariance, PTL DEF Spec, OnlySuccessPublishes
=============================================================================
