CONSTANTS
  SizeMod = 4096
  MaxRep = 3
  Tables <- MCTables
  MaxCalls = 1
  SyntaxErrors = FALSE
SPECIFICATION Spec
INVARIANTS Precedence RangesNest SiblingsInOrder DiagnosticsExact
