SPECIFICATION Spec
CONSTANTS
  main = main
  f = f
  h = h
  fv = fv
  fo = fo
  end = end
  m1 = m1
  m2 = m2
  NoName = NoName
  NoMember = NoMember
  Names <- MCNames
  BaseOf <- MCBaseOf
  DefaultVersions <- MCDefault
  LinkerSyms <- MCLinker
  RuntimeSyms <- MCLinker
  Programs <- MCPrograms
INVARIANTS SelectionSound CollectionSound
PROPERTIES GroupsClosed LinkEnds
