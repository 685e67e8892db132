--------------------------- MODULE LiteralDecoding ---------------------------
(***************************************************************************)
(* The functions that turn the text of a literal into its value.  A text   *)
(* is a sequence of bytes, counted from 1; the text of a string or         *)
(* character literal comes without its quotes.  An integer literal is a    *)
(* radix prefix and a sequence of digits.                                  *)
(***************************************************************************)
EXTENDS Integers, Sequences

CONSTANT LongBits    \* bits of the magnitude of a long; an APInt of a long has one more

ASSUME LongBitsAssumption == LongBits \in Nat \ {0}

Byte == 0..255
Backslash == 92

\* Mutant: the limit of the two-byte form is one too high.
appendUtf8_LongTwo(cp) ==
  IF cp < 128 THEN << cp >>
  ELSE IF cp <= 2048 THEN << 192 + cp \div 64, 128 + (cp % 64) >>
  ELSE << 224 + cp \div 4096, 128 + ((cp \div 64) % 64), 128 + (cp % 64) >>

\* What appendUtf8 appends for a code point of 16 bits.
appendUtf8(cp) ==
  IF cp < 128 THEN << cp >>
  ELSE IF cp < 2048 THEN << 192 + cp \div 64, 128 + (cp % 64) >>
  ELSE << 224 + cp \div 4096, 128 + ((cp \div 64) % 64), 128 + (cp % 64) >>

-----------------------------------------------------------------------------
(* Escapes.                                                                *)

NoFault == ""
UnicodeFault == "invalid \\u escape sequence"

Decoded(cp, next) == [fault |-> NoFault, cp |-> cp, next |-> next]
Invalid(fault) == [fault |-> fault, cp |-> 0, next |-> 0]

SimpleEscape ==   \* t b n r ' " \ $
  [b \in {116, 98, 110, 114, 39, 34, 92, 36} |->
     CASE b = 116 -> 9 [] b = 98 -> 8 [] b = 110 -> 10 [] b = 114 -> 13 [] OTHER -> b]

\* llvm::StringRef::substr, and getAsInteger with radix 16 on four bytes.
substr(s, from, n) == SubSeq(s, from, IF from + n - 1 > Len(s) THEN Len(s) ELSE from + n - 1)

HexDigit ==
  [b \in (48..57) \cup (65..70) \cup (97..102) |->
     IF b <= 57 THEN b - 48 ELSE IF b <= 70 THEN b - 55 ELSE b - 87]

IsHex4(s) == Len(s) = 4 /\ \A k \in 1..4 : s[k] \in DOMAIN HexDigit
Hex4(s) == 4096 * HexDigit[s[1]] + 256 * HexDigit[s[2]] + 16 * HexDigit[s[3]] + HexDigit[s[4]]

\* Mutant: the index moves past the backslash and the u only.
decodeUnicode_Short(body, i) ==
  LET hex == substr(body, i + 2, 4)
  IN  IF IsHex4(hex) THEN Decoded(Hex4(hex), i + 2)
      ELSE Invalid(UnicodeFault)

decodeUnicode(body, i) ==
  LET hex == substr(body, i + 2, 4)
  IN  IF IsHex4(hex) THEN Decoded(Hex4(hex), i + 6)
      ELSE Invalid(UnicodeFault)

\* The escape at body[i], a backslash; one at the end of the text would be
\* read past its end.
decodeEscape(body, i) ==
  IF i = Len(body) THEN Invalid("overrun")
  ELSE IF body[i + 1] \in DOMAIN SimpleEscape THEN Decoded(SimpleEscape[body[i + 1]], i + 2)
  ELSE IF body[i + 1] = 117 THEN decodeUnicode(body, i)
  ELSE Invalid("invalid escape sequence")

-----------------------------------------------------------------------------
(* Character literals.                                                     *)

InvalidChar == Invalid("invalid character literal")

\* How many bytes a UTF-8 sequence with this lead has, 0 for no lead.
SequenceLength(lead) ==
  CASE lead \in 192..223 -> 2 [] lead \in 224..239 -> 3 [] lead \in 240..247 -> 4
    [] OTHER -> 0

\* The bits of the lead and of the continuation bytes put together.
SequenceValue(body) ==
  CASE Len(body) = 2 -> 64 * (body[1] % 32) + (body[2] % 64)
    [] Len(body) = 3 -> 4096 * (body[1] % 16) + 64 * (body[2] % 64) + (body[3] % 64)
    [] OTHER -> 262144 * (body[1] % 8) + 4096 * (body[2] % 64) + 64 * (body[3] % 64)
                + (body[4] % 64)

decodeCharValue(body) ==
  IF body[1] = Backslash
  THEN LET decoded == decodeEscape(body, 1)
       IN  IF decoded.fault = NoFault /\ decoded.next # Len(body) + 1 THEN InvalidChar ELSE decoded
  ELSE IF Len(body) = 1 THEN Decoded(body[1], 2)
  ELSE IF \/ SequenceLength(body[1]) # Len(body)
          \/ \E j \in 2..Len(body) : body[j] \notin 128..191
  THEN InvalidChar
  ELSE Decoded(SequenceValue(body), Len(body) + 1)

-----------------------------------------------------------------------------
(* Integer literals.                                                       *)

Radix(prefix) ==
  CASE prefix \in {"0x", "0X"} -> 16 [] prefix \in {"0b", "0B"} -> 2
    [] prefix \in {"0o", "0O"} -> 8 [] OTHER -> 10

\* b to the power of n, by a recursion that can be reasoned about.
Powers(b, n) == LET p[k \in 0..n] == IF k = 0 THEN 1 ELSE b * p[k - 1] IN p
Power(b, n) == Powers(b, n)[n]

\* The value of the digits, up to each of them.
Accumulated(radix, digits) ==
  LET upTo[k \in 0..Len(digits)] == IF k = 0 THEN 0 ELSE radix * upTo[k - 1] + digits[k]
  IN  upTo

\* llvm::StringRef::getAsInteger into an APInt: leading zeros go, and each
\* digit left gets as many bits as the largest one needs.
getAsInteger(radix, digits) ==
  LET nonzero == {k \in DOMAIN digits : digits[k] # 0}
      first == CHOOSE k \in nonzero : \A j \in nonzero : k <= j
      perDigit == CHOOSE b \in 1..4 : Power(2, b) >= radix /\ Power(2, b - 1) < radix
  IN  IF nonzero = {} THEN [width |-> LongBits + 1, value |-> 0]
      ELSE [width |-> perDigit * (Len(digits) + 1 - first),
            value |-> Accumulated(radix, digits)[Len(digits)]]

ActiveBits(raw) ==
  CHOOSE n \in 0..raw.width :
    raw.value < Power(2, n) /\ (n > 0 => raw.value >= Power(2, n - 1))

\* APInt::trunc or zext to the width of a long, read as a signed number.
AsLong(raw) ==
  LET bits == raw.value % Power(2, LongBits + 1)
  IN  IF bits < Power(2, LongBits) THEN bits ELSE bits - Power(2, LongBits + 1)

\* Mutant: a literal may use the sign bit.
TooLarge_SignBit(raw) == ActiveBits(raw) > LongBits + 1

TooLarge(raw) == ActiveBits(raw) > LongBits
-----------------------------------------------------------------------------
(* How the dumper writes the value of a string literal.                    *)

HexChar(n) == IF n < 10 THEN 48 + n ELSE 87 + n

\* Mutant: a backslash is written as it is.
dumpByte_Plain(b) ==
  CASE b = 10 -> << Backslash, 110 >> [] b = 13 -> << Backslash, 114 >>
    [] b = 9 -> << Backslash, 116 >>
    [] b \in ((0..31) \ {9, 10, 13}) \cup {127} ->
         << Backslash, 120, HexChar(b \div 16), HexChar(b % 16) >>
    [] OTHER -> << b >>

\* dumpHeader escapes backslashes, line breaks and control characters.
dumpByte(b) ==
  CASE b = Backslash -> << Backslash, Backslash >>
    [] b = 10 -> << Backslash, 110 >> [] b = 13 -> << Backslash, 114 >>
    [] b = 9 -> << Backslash, 116 >>
    [] b \in ((0..31) \ {9, 10, 13}) \cup {127} ->
         << Backslash, 120, HexChar(b \div 16), HexChar(b % 16) >>
    [] OTHER -> << b >>

\* The dump of the first bytes of Value, and of all of them.
dumpPrefixes(Value) ==
  LET upTo[i \in 0..Len(Value)] == IF i = 0 THEN << >> ELSE upTo[i - 1] \o dumpByte(Value[i])
  IN  upTo

dumpString(Value) == dumpPrefixes(Value)[Len(Value)]
=============================================================================
