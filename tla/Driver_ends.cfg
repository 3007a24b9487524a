SPECIFICATION DriverSpec
CONSTANTS
  Workers = {1, 2}
  Parallel = 2
  MaxOrdinal = 2
  MaxInputs = 3
  Commands <- MCCommands
  p = p
  q = q
  u = u
  v = v
  w = w
  Pids = {p, q}
  Writers = {u, v, w}
  Pid <- MCPid
  Mode <- MCMode
  Attempts = 2
  MaxTempId = 3
  MaxRuns <- MCMaxRuns
  Absent = Absent
INVARIANTS
  LoadsAsIfSerial
  DestinationComplete
  
  ExecutablesAreExecutable
PROPERTIES
  LoadingEnds
  OnlySuccessPublishes
  TempsNeverTakenOver
  WritersReturn
CHECK_DEADLOCK FALSE
