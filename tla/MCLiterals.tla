----------------------------- MODULE MCLiterals ------------------------------
(***************************************************************************)
(* Strings of up to three pieces, each piece a character of one to four    *)
(* bytes, a byte that is none, a valid or broken escape, or a \u escape at *)
(* a boundary of UTF-8; every character literal; integers around the limit *)
(* of a long of LongBits bits.                                             *)
(***************************************************************************)
EXTENDS Literals

\* The recursion of the model is the power of TLC.
ASSUME PowersAgree ==
  /\ \A n \in 0..30 : Power(2, n) = 2 ^ n
  /\ \A b \in {8, 10, 16}, n \in 0..6 : Power(b, n) = b ^ n

\* The reader of UTF-8 takes the first and the last sequence of each length
\* and around the surrogates, and not the bytes just outside them.
ASSUME Utf8AtItsEdges ==
  /\ \A s \in {<< >>, << 0 >>, << 127 >>, << 194, 128 >>, << 223, 191 >>, << 224, 160, 128 >>,
              << 237, 159, 191 >>, << 238, 128, 128 >>, << 239, 191, 191 >>,
              << 240, 144, 128, 128 >>, << 241, 128, 128, 128 >>, << 244, 143, 191, 191 >>} :
       IsUtf8(s) /\ IsUtf8(s \o s) /\ (s # << >> => ~ IsUtf8(s \o << 128 >>))
  /\ \A s \in {<< 128 >>, << 193, 191 >>, << 194 >>, << 194, 192 >>, << 224, 159, 191 >>,
              << 237, 160, 128 >>, << 239, 191 >>, << 240, 143, 191, 191 >>,
              << 240, 159, 152 >>, << 240, 159, 152, 65 >>, << 244, 144, 128, 128 >>,
              << 245, 128, 128, 128 >>} :
       ~ IsUtf8(s)

Hex(n) == IF n < 10 THEN 48 + n ELSE 55 + n
UnicodeEscape(cp) ==
  << 92, 117, Hex(cp \div 4096), Hex((cp \div 256) % 16), Hex((cp \div 16) % 16),
     Hex(cp % 16) >>

Boundaries == {31, 65, 127, 128, 2047, 2048, 55296, 65535}

Plain == {<< 48 >>, << 117 >>, << 103 >>, << 195, 169 >>, << 233 >>,
          << 226, 130, 172 >>,           << 240, 159, 152, 128 >>}
Short == {<< 92, b >> : b \in {116, 39, 34, 92, 117, 120}}
Pieces == Plain \cup Short \cup {UnicodeEscape(cp) : cp \in Boundaries} \cup {<< 92, 117, 48, 97 >>}

MCStringBodies ==
  {<< >>} \cup Pieces \cup {p \o q : p, q \in Pieces} \cup {p \o q \o r : p, q, r \in Pieces}

MCCharBodies ==
  {<< b >> : b \in Byte \ {10, 13, 39, 92}} \cup {<< 92, b >> : b \in Byte \ {10, 13}} \cup
  {UnicodeEscape(cp) : cp \in Boundaries}

DigitsOf(radix, n) == UNION {[1..k -> 0..(radix - 1)] : k \in 1..n}

MCIntegers ==
  {[prefix |-> "", digits |-> d] : d \in {d \in DigitsOf(10, 3) : Len(d) = 1 \/ d[1] # 0}} \cup
  {[prefix |-> p, digits |-> d] : p \in {"0x", "0X"}, d \in DigitsOf(16, 3)} \cup
  {[prefix |-> p, digits |-> d] : p \in {"0o"}, d \in DigitsOf(8, 4)} \cup
  {[prefix |-> p, digits |-> d] : p \in {"0b", "0B"}, d \in DigitsOf(2, 9)}
=============================================================================
