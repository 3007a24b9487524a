SPECIFICATION Spec
CONSTANTS
  main = main
  foo = foo
  bar = bar
  fv = fv
  tv = tv
  end = end
  initStart = initStart
  initEnd = initEnd
  ipltStart = ipltStart
  ipltEnd = ipltEnd
  gotSym = gotSym
  bssStart = bssStart
  tga = tga
  NoName = NoName
  NoMember = NoMember
  Names <- MCNames
  BaseOf <- MCBaseOf
  DefaultVersions <- MCDefault
  LinkerSyms <- MCLinkerSyms
  RuntimeSyms <- MCRuntimeSyms
  TlsGetAddr = tga
  ElfHash <- MCElfHash
  LinkerRole <- MCLinkerRole
  NameSize = 4
  InterpSize = 28
  Reach = 8388608
  Jobs <- GeneralDynamicJobs
INVARIANT GeneralDynamicReaches
