------------------------------- MODULE MCLexer -------------------------------
(***************************************************************************)
(* Every buffer over a few alphabets, each made of the symbols that some   *)
(* rules compete for.                                                      *)
(***************************************************************************)
EXTENDS Lexer

Over(alphabet, n) == UNION {[1..k -> alphabet] : k \in 0..n}

UnicodeChar == << "'", "\\", "u", "0", "0", "0", "0" >>

MCBuffers ==
  Over({"/", "*", "n", "\n"}, 5) \cup        \* comments and what falls short of one
  Over({"\"", "'", "\\", "n"}, 5) \cup       \* strings and characters
  Over({"0", "1", ".", "e"}, 4) \cup Over({"1", "e", "-", "f"}, 4) \cup
  Over({"0", "x", "b", "f"}, 4) \cup         \* numbers
  Over({">", "=", "?", ":"}, 4) \cup         \* operators
  Over({"i", "f", "0", " ", "#"}, 4) \cup    \* keywords, identifiers, errors
  Over({"\n", "\r", "#", "\""}, 4)  \cup       \* lines
  {SubSeq(UnicodeChar, 1, k) \o tail : k \in 2..7, tail \in Over({"'", "n"}, 2)}

Utf8Buffers == {<< "'", "C3", "A9", "'" >>}

MCSymbols == UNION {{b[k] : k \in DOMAIN b} : b \in MCBuffers \cup Utf8Buffers}
=============================================================================
