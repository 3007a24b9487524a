SPECIFICATION MCSpec
CONSTANTS
  x = x
  y = y
  z = z
  w = w
  v = v
  f = f
  g = g
  Names = {x, y, z, w, v}
  Files = {f, g}
  Dylibs = {d}
  FlatLookup = flat
  Sizes = {8, 16}
  Aligns = {3}
  MaxAliasDepth = 2
  Watched = {v}
  Scenes <- BothScenes
INVARIANTS
  
  AliasesAcyclic
PROPERTIES
  RanksNeverDrop
CHECK_DEADLOCK FALSE
