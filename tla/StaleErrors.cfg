CONSTANTS
  SizeMod = 4096
  MaxRep = 2
  Tables <- FewTables
  MaxCalls = 2
  SyntaxErrors = FALSE
SPECIFICATION Spec
INVARIANTS NullOnlyOnSyntaxError
