CONSTANTS
  Files <- MCFiles
  Decoded <- MCDecoded
  MaxNodes = 4
SPECIFICATION ContextSpec
INVARIANTS SameNameSamePointer TextsKept
