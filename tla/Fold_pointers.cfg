SPECIFICATION AtomsSpec
CONSTANTS
  Atoms = {1, 2, 3, 4, 5}
  Symbols = {"m", "f", "alias", "z"}
  NoSymbol = "none"
  Links <- FoldLinks
INVARIANTS SectionPointersHold
