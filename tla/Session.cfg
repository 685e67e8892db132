CONSTANTS
  SizeMod = 4096
  MaxRep = 2
  Tables <- MCTables
  MaxCalls = 2
  SyntaxErrors = TRUE
SPECIFICATION FairSpec
INVARIANTS TypeOK NoProgramOnSyntaxError ErrorsPending IInv OwnershipInv
PROPERTIES EarlierASTKept ParsePromise Termination
