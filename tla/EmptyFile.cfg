CONSTANTS
  SizeMod = 4096
  MaxRep = 2
  Tables <- EmptyTables
  MaxCalls = 1
  SyntaxErrors = FALSE
SPECIFICATION Spec
INVARIANTS RangesInBuffer
