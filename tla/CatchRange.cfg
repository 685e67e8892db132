CONSTANTS
  SizeMod = 4096
  MaxRep = 2
  Tables <- StmtsOnly
  MaxCalls = 1
  SyntaxErrors = FALSE
SPECIFICATION Spec
INVARIANTS AllSiblingsInOrder
