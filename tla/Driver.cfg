CONSTANTS
  SizeMod = 4096
  MaxRep = 3
  Tables <- MCTables
  MaxCalls = 1
  SyntaxErrors = TRUE
  DumpAST = {TRUE, FALSE}
SPECIFICATION AstraSpec
INVARIANTS ExitStatus SaysWhy DumpIsAST BarsConnect NoNullName HeadersTell MembersAsDeclared ShapesAsDocumented
