SPECIFICATION ObjectsSpec
CONSTANTS
  AtomLinks <- MCAtomLinks
  AddendSpan = 8
  SectionLimit = 8
  RecordSize = 2
  FieldOffset = 1
  SizeLimit = 8
  BinderName = 11
  BootstrapName = 1
  HeaderName = 12
  PrivateName = 13
  Temporaries = {14}
  PageSize = 64
  WordRange <- MCWordRange
  Links <- MCLinks
  Jobs = 2
  Slide = 10240
INVARIANTS
  
  RelocsRoundTrip
  
  CallsReachSymbols
  SymbolTableConsistent
  FailuresDeterministic
