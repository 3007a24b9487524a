SPECIFICATION AtomizeSpec
CONSTANTS
  AtomLinks <- Entries
  AddendSpan = 8
  SectionLimit = 8
  RecordSize = 2
  FieldOffset = 1
  SizeLimit = 8
INVARIANTS
  HandlesDenote
