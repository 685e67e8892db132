------------------------------ MODULE Literals -------------------------------
(***************************************************************************)
(* ASTBuilder::visitLiteralConstant on one literal token: the loop of      *)
(* decodeStringBody byte by byte, the other literals in one step.  Module  *)
(* ASTVisitors knows the text of a literal as good or bad; this module     *)
(* says which it is, and what the node holds.                              *)
(***************************************************************************)
EXTENDS LiteralDecoding

CONSTANTS
  StringBodies,   \* the texts of string literals explored
  CharBodies,     \* the texts of character literals explored
  Integers_       \* the integer literals explored: prefix and digits

\* The positions of the backslashes that begin an escape: those behind an
\* even number of backslashes.
Escapes(body) ==
  {i \in DOMAIN body :
     /\ body[i] = Backslash
     /\ \E n \in 0..(i - 1) :
          /\ n % 2 = 0
          /\ \A k \in (i - n)..(i - 1) : body[k] = Backslash
          /\ i - n > 1 => body[i - n - 1] # Backslash}

LineEnds == {10, 13}

\* STRING_LITERAL: escapes, and bytes other than `"`, backslash and line ends.
IsStringBody(body) ==
  /\ body \in Seq(Byte)
  /\ \A i \in DOMAIN body :
       /\ body[i] \notin LineEnds
       /\ body[i] = 34 => i - 1 \in Escapes(body)
       /\ i \in Escapes(body) => i < Len(body)

\* CHAR_LITERAL: one escape or one symbol; a symbol of the stream is a byte.
IsCharBody(body) ==
  /\ body # << >> /\ body \in Seq(Byte)
  /\ IF body[1] = Backslash
     THEN Len(body) = 2 \/ (Len(body) = 6 /\ body[2] = 117 /\ IsHex4(substr(body, 3, 4)))
     ELSE Len(body) = 1 /\ body[1] \notin LineEnds \cup {39}

\* INTEGER_LITERAL: a decimal literal has no leading zero.
IsInteger(n) ==
  /\ n.digits # << >> /\ n.digits \in Seq(0..(Radix(n.prefix) - 1))
  /\ (n.prefix = "" /\ Len(n.digits) > 1) => n.digits[1] # 0

ASSUME TokensAssumption ==
  /\ \A b \in StringBodies : IsStringBody(b)
  /\ \A b \in CharBodies : IsCharBody(b)
  /\ \A n \in Integers_ : IsInteger(n)

VARIABLES
  token,    \* the literal: kind and text
  I,        \* decodeStringBody: the index into the text
  Out,      \* decodeStringBody: the bytes decoded so far
  value,    \* Result->Value once visited, NoValue before
  reports   \* the messages reported

vars == << token, I, Out, value, reports >>

Tokens ==
  [kind : {"STRING_LITERAL"}, text : StringBodies] \cup
  [kind : {"CHAR_LITERAL"}, text : CharBodies] \cup
  [kind : {"INTEGER_LITERAL"}, text : Integers_] \cup
  [kind : {"FLOAT_LITERAL", "DOUBLE_LITERAL"}, text : {<< >>}]

NoValue == << "" >>

Init == token \in Tokens /\ I = 1 /\ Out = << >> /\ value = NoValue /\ reports = << >>

Visiting(kind) == token.kind = kind /\ value = NoValue

\* The node's value is set, with what is reported on the way.
Finish(v, messages) == value' = v /\ reports' = messages /\ UNCHANGED << token, I, Out >>

Default == << "default" >>

CopyByte ==
  /\ Visiting("STRING_LITERAL") /\ I <= Len(token.text) /\ token.text[I] # Backslash
  /\ Out' = Append(Out, token.text[I]) /\ I' = I + 1
  /\ UNCHANGED << token, value, reports >>

\* The first invalid escape is reported and the node keeps the raw text.
DecodeEscape ==
  /\ Visiting("STRING_LITERAL") /\ I <= Len(token.text) /\ token.text[I] = Backslash
  /\ LET decoded == decodeEscape(token.text, I)
     IN  IF decoded.fault # NoFault THEN Finish(<< "raw", token.text >>, << decoded.fault >>)
         ELSE /\ Out' = Out \o appendUtf8(decoded.cp) /\ I' = decoded.next
              /\ UNCHANGED << token, value, reports >>

EndString ==
  /\ Visiting("STRING_LITERAL") /\ I > Len(token.text)
  /\ Finish(<< "decoded", Out >>, << >>)

\* Mutant: a failure is not reported.
VisitChar_Silent ==
  /\ Visiting("CHAR_LITERAL")
  /\ LET decoded == decodeCharValue(token.text)
     IN  Finish(IF decoded.fault = NoFault THEN << "decoded", decoded.cp >> ELSE Default, << >>)

\* decodeCharValue sets the value only when it succeeds.
VisitChar ==
  /\ Visiting("CHAR_LITERAL")
  /\ LET decoded == decodeCharValue(token.text)
     IN  IF decoded.fault # NoFault THEN Finish(Default, << decoded.fault >>)
         ELSE Finish(<< "decoded", decoded.cp >>, << >>)

VisitInteger ==
  /\ Visiting("INTEGER_LITERAL")
  /\ LET raw == getAsInteger(Radix(token.text.prefix), token.text.digits)
     IN  IF TooLarge(raw) THEN Finish(Default, << "integer literal is too large for long" >>)
         ELSE Finish(<< "decoded", AsLong(raw) >>, << >>)

\* What convertFloatString may return: the status APFloat gives a text it
\* can parse, or else opInvalidOp; which, is left open.
convertFloatString == {"opOK", "opInexact", "opOverflow", "opUnderflow"} \cup {"opInvalidOp"}

VisitFloat ==
  /\ \/ Visiting("FLOAT_LITERAL") \/ Visiting("DOUBLE_LITERAL")
  /\ \E status \in convertFloatString :
       CASE status = "opInvalidOp" -> Finish(Default, << "invalid floating-point literal" >>)
         [] status \in {"opOverflow", "opUnderflow"} ->
              Finish(<< "raw", status >>, << "floating-point literal is out of range" >>)
         [] OTHER -> Finish(<< "decoded", status >>, << >>)

Done == value # NoValue /\ UNCHANGED vars

Next ==
  \/ CopyByte \/ DecodeEscape \/ EndString
  \/ VisitChar \/ VisitInteger \/ VisitFloat \/ Done

Spec == Init /\ [][Next]_vars

-----------------------------------------------------------------------------
(* What a literal means.                                                   *)

Visited(kind) == token.kind = kind /\ value # NoValue

\* The escape that begins at i, read off the text alone.
UnicodeAt(body, i) == i + 5 <= Len(body) /\ body[i + 1] = 117 /\ IsHex4(SubSeq(body, i + 2, i + 5))
SimpleAt(body, i) == body[i + 1] \in DOMAIN SimpleEscape
Meaning(body, i) ==
  IF SimpleAt(body, i) THEN << SimpleEscape[body[i + 1]] >>
  ELSE appendUtf8(Hex4(SubSeq(body, i + 2, i + 5)))

\* The bytes that belong to an escape.
Covered(body) ==
  UNION {i..(IF UnicodeAt(body, i) THEN i + 5 ELSE i + 1) : i \in Escapes(body)}

\* What the byte at i contributes when each escape is replaced by its meaning.
Piece(body, i) ==
  IF i \in Escapes(body) THEN Meaning(body, i)
  ELSE IF i \in Covered(body) THEN << >> ELSE << body[i] >>

\* The same for the text up to each place, and for all of it.
Contents(body) ==
  LET upTo[i \in 0..Len(body)] == IF i = 0 THEN << >> ELSE upTo[i - 1] \o Piece(body, i)
  IN  upTo

Content(body) == Contents(body)[Len(body)]

\* A string literal holds its text with every escape replaced, nothing
\* dropped, repeated or decoded twice; if any escape is invalid it holds the
\* raw text, and the first one is reported and no other (decodeStringBody).
StringExact ==
  Visited("STRING_LITERAL") =>
    LET body == token.text
        bad == {i \in Escapes(body) : ~ SimpleAt(body, i) /\ ~ UnicodeAt(body, i)}
        first == CHOOSE i \in bad : \A j \in bad : i <= j
    IN  IF bad = {} THEN value = << "decoded", Content(body) >> /\ reports = << >>
        ELSE /\ value = << "raw", body >>
             /\ reports = << IF body[first + 1] = 117 THEN UnicodeFault
                             ELSE "invalid escape sequence" >>

\* A text is UTF-8 from a place on: sequences of one to four bytes by the
\* ranges of lead and second byte, without overlong forms, surrogates and
\* what lies above U+10FFFF.
Utf8From(s) ==
  LET tail(i, n) == \A k \in 1..n : i + k <= Len(s) /\ s[i + k] \in 128..191
      from[i \in 1..(Len(s) + 4)] ==
        \/ i > Len(s)
        \/ s[i] < 128 /\ from[i + 1]
        \/ s[i] \in 194..223 /\ tail(i, 1) /\ from[i + 2]
        \/ /\ s[i] \in 224..239 /\ tail(i, 2) /\ from[i + 3]
           /\ s[i] = 224 => s[i + 1] >= 160
           /\ s[i] = 237 => s[i + 1] < 160
        \/ /\ s[i] \in 240..244 /\ tail(i, 3) /\ from[i + 4]
           /\ s[i] = 240 => s[i + 1] >= 144
           /\ s[i] = 244 => s[i + 1] < 144
  IN  from

IsUtf8(s) == Utf8From(s)[1]

\* decodeStringBody decodes a text "as UTF-8 bytes": from a text in UTF-8,
\* with characters of any length, comes a value in UTF-8, unless an escape that is decoded is a surrogate,
\* and then, in pairs too, never.
DecodesToUtf8 ==
  (Visited("STRING_LITERAL") /\ IsUtf8(token.text)) =>
    LET body == token.text
        surrogate(i) == UnicodeAt(body, i) /\ Hex4(SubSeq(body, i + 2, i + 5)) \in 55296..57343
    IN  IsUtf8(value[2]) <=> (value[1] = "raw" \/ \A i \in Escapes(body) : ~ surrogate(i))

\* A character literal with an escape holds its code point, which is the one
\* the same escape contributes to a string; a byte holds itself.
CharAgreesWithString ==
  Visited("CHAR_LITERAL") =>
    LET body == token.text IN
    IF body[1] # Backslash THEN value = << "decoded", body[1] >>
    ELSE IF SimpleAt(body, 1) \/ UnicodeAt(body, 1)
    THEN value[1] = "decoded" /\ appendUtf8(value[2]) = Content(body)
    ELSE value = Default /\ Len(reports) = 1

\* The two directions of UTF-8 agree: the bytes appendUtf8 makes of a code
\* point are the ones decodeCharValue reads as that code point, though no
\* token the lexer makes leads it there (CharTakesUtf8 of module Lexer).
ReadsBack(cp) == decodeCharValue(appendUtf8(cp)) = Decoded(cp, Len(appendUtf8(cp)) + 1)

\* Every value a character literal can have survives the way through UTF-8
\* (a backslash apart, which begins an escape).
CharReadsBack ==
  (Visited("CHAR_LITERAL") /\ value[1] = "decoded" /\ value[2] # Backslash)
    => ReadsBack(value[2])

\* The value of a numeral, by place, summed up to each digit.
PlaceValue(n, k) == n.digits[k] * Power(Radix(n.prefix), Len(n.digits) - k)
Numerals(n) ==
  LET sum[k \in 0..Len(n.digits)] == IF k = 0 THEN 0 ELSE sum[k - 1] + PlaceValue(n, k)
  IN  sum

Numeral(n) == Numerals(n)[Len(n.digits)]

\* An integer literal that fits in a long has exactly its value, whatever
\* width the digits were parsed with; any other is reported.
IntegerExact ==
  Visited("INTEGER_LITERAL") =>
    LET n == Numeral(token.text) IN
    IF n < Power(2, LongBits) THEN value = << "decoded", n >> /\ reports = << >>
    ELSE value = Default /\ Len(reports) = 1

\* A literal is reported at most once, and then never passes for a decoded
\* one: what module ASTVisitors takes for granted about a bad text.
ReportedOnce ==
  value # NoValue => Len(reports) <= 1 /\ (reports # << >> <=> value[1] # "decoded")

\* The bytes a reader takes a dumped string for from each place on, << -1 >>
\* where it makes no sense, and the bytes it takes the whole for.
ReadFrom(s) ==
  LET from[i \in 1..(Len(s) + 4)] ==
        IF i > Len(s) THEN << >>
        ELSE IF s[i] # Backslash THEN << s[i] >> \o from[i + 1]
        ELSE IF i = Len(s) THEN << -1 >>
        ELSE IF s[i + 1] = Backslash THEN << Backslash >> \o from[i + 2]
        ELSE IF s[i + 1] \in {110, 114, 116} THEN << SimpleEscape[s[i + 1]] >> \o from[i + 2]
        ELSE IF s[i + 1] = 120 /\ i + 3 <= Len(s)
        THEN << 16 * HexDigit[s[i + 2]] + HexDigit[s[i + 3]] >> \o from[i + 4]
        ELSE << -1 >>
  IN  from

ReadDump(s) == ReadFrom(s)[1]

\* The dump of a string literal, decoded or raw, is one line of printable
\* bytes, and tells exactly the value: two strings that differ, or one and
\* its own escaped spelling, are never dumped alike.
DumpReadsBack ==
  Visited("STRING_LITERAL") =>
    LET shown == dumpString(value[2])
    IN  /\ \A i \in DOMAIN shown : shown[i] >= 32 /\ shown[i] # 127
        /\ ReadDump(shown) = value[2]
=============================================================================
