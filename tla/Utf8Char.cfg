CONSTANTS
  Symbols <- MCSymbols
  Buffers <- Utf8Buffers
  Lookaheads = {1}
  Indices = {0}
  EOF = EOF
  SizeMod = 16
SPECIFICATION LexSpec
INVARIANTS CharTakesUtf8
