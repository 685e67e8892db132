CONSTANTS
  Symbols <- MCSymbols
  Buffers <- MCBuffers
  Lookaheads = {1}
  Indices = {0}
  EOF = EOF
  SizeMod = 16
SPECIFICATION LexSpec
INVARIANTS Tiles LongestMatch DropsReported LocExact
