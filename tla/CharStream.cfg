CONSTANTS
  Symbols = {"x", "y"}
  Buffers <- MCBuffers
  Lookaheads = {1, 2, 3, 4, 5, 6}
  Indices = {0, 1, 2, 3, 4, 5, 6}
  EOF = EOF
  SizeMod = 8
SPECIFICATION StreamSpec
PROPERTIES StreamContract
