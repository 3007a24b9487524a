CONSTANTS
  PageSize = 16
  TextBase = 64
  PrivateAlign = 2
  CustomSegments <- MCCustom
  OtherSections <- MCOther
  ThunkSize = 2
  Reach = 16
  Links <- MCLinks
  MaxPlans = 16
  MaxPasses = 4
  HeaderBase = 6
  HeaderPerSegment = 3
  HeaderPerSection = 2
  UnwindHead = 7
  UnwindPage = 3
  UnwindDelta = 6
SPECIFICATION Spec
INVARIANTS LayoutSound ImageCoherent ThunksLeadHome
