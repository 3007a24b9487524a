SPECIFICATION Spec
CONSTANTS
  a = a
  b = b
  main = main
  m1 = m1
  m2 = m2
  m3 = m3
  L = L
  K = K
  D = D
  FlatLookup = flat
  Sizes = {8}
  Aligns = {3}
  MaxAliasDepth = 3
  Names <- MCNames
  Files <- MCFiles
  Archives <- MCArchives
  Dylibs <- MCDylibs
  Programs <- MCPrograms
INVARIANTS
  MembersIngestedOnce
  FinishedLinkIsBound
PROPERTIES
  TableSpec
  LoadsOnDemand
  Terminates
