CONSTANTS
  SizeMod = 4096
  MaxRep = 2
  Tables <- MCTables
  MaxCalls = 1
  SyntaxErrors = FALSE
SPECIFICATION Spec
INVARIANTS NoBadAnyCast NoNullVisit ASTIsTree RangesNest SiblingsInOrder NamesKept
