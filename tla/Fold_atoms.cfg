SPECIFICATION AtomsSpec
CONSTANTS
  Atoms = {1, 2, 3, 4, 5}
  Symbols = {"m", "f", "alias", "z"}
  NoSymbol = "none"
  Links <- AllLinks
INVARIANTS
  
  OnlyNeededLive
  ImageIsClosed
  ExplanationsEndAtRoots
  FoldingIsComplete
