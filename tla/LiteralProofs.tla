--------------------------- MODULE LiteralProofs ---------------------------
(***************************************************************************)
(* What module Literals says of the decoding of literals, for every text   *)
(* the lexer can deliver.  The recursion over a text is dealt with by a    *)
(* least counterexample: no induction principle is needed.                 *)
(***************************************************************************)
EXTENDS Literals, SequenceTheorems, WellFoundedInduction, TLAPS

\* The least element of a set of naturals.
LEMMA Least ==
  ASSUME NEW T, T \subseteq Nat, T # {}
  PROVE  \E n \in T : \A m \in T : n <= m
<1> DEFINE less == {p \in Nat \X Nat : p[1] < p[2]}
<1>1. IsWellFoundedOn(less, Nat)
  BY NatLessThanWellFounded, Zenon DEF OpToRel
<1>2. \A i, j \in Nat : << j, i >> \in less <=> j < i
  OBVIOUS
<1> HIDE DEF less
<1>3. PICK n \in T : \A m \in T : ~ (<< m, n >> \in less)
  BY <1>1, WFMin, Zenon
<1>4. \A m \in T : n <= m
  <2> TAKE m \in T
  <2>1. n \in Nat /\ m \in Nat
    OBVIOUS
  <2>2. ~ (m < n)
    BY <1>2, <1>3, <2>1, Zenon
  <2> QED
    BY <2>1, <2>2
<1> QED
  BY <1>4

-----------------------------------------------------------------------------
(* Reports.                                                                *)

\* Before the value is set nothing is reported.
ReportInv == (value = NoValue => reports = << >>) /\ ReportedOnce

LEMMA Messages ==
  /\ UnicodeFault # NoFault /\ "invalid escape sequence" # NoFault
  /\ "invalid character literal" # NoFault /\ "overrun" # NoFault
  BY Zenon DEF UnicodeFault, NoFault

LEMMA Values ==
  ASSUME NEW x
  PROVE  << "decoded", x >> # NoValue /\ << "raw", x >> # NoValue /\ Default # NoValue
<1>1. << "decoded", x >> # << "" >> /\ << "raw", x >> # << "" >> /\ << "default" >> # << "" >>
  BY Zenon
<1> QED
  BY <1>1 DEF NoValue, Default

LEMMA FinishDecoded ==
  ASSUME NEW x, Finish(<< "decoded", x >>, << >>)
  PROVE  ReportInv'
<1>1. value' # NoValue /\ value'[1] = "decoded"
  BY Values DEF Finish
<1>2. reports' = << >> /\ Len(reports') <= 1
  BY DEF Finish
<1> QED
  BY <1>1, <1>2, Zenon DEF ReportInv, ReportedOnce

LEMMA FinishReported ==
  ASSUME NEW x, NEW m, Finish(<< "raw", x >>, << m >>) \/ Finish(Default, << m >>)
  PROVE  ReportInv'
<1>1. value' # NoValue /\ value'[1] # "decoded"
  <2>1. CASE Finish(<< "raw", x >>, << m >>)
    BY <2>1, Values DEF Finish
  <2>2. CASE Finish(Default, << m >>)
    BY <2>2, Values DEF Finish, Default
  <2> QED
    BY <2>1, <2>2
<1>2. reports' # << >> /\ Len(reports') <= 1
  <2>1. reports' = << m >>
    BY DEF Finish
  <2>2. << m >> # << >> /\ Len(<< m >>) = 1
    OBVIOUS
  <2> QED
    BY <2>1, <2>2
<1> QED
  BY <1>1, <1>2, Zenon DEF ReportInv, ReportedOnce

\* Theorem ReportedOnceHolds: for every literal, at most one message, and
\* none exactly when the literal was decoded (visitLiteralConstant).
THEOREM ReportedOnceHolds == Spec => []ReportedOnce
<1>1. Init => ReportInv
  BY DEF Init, ReportInv, ReportedOnce
<1>2. ReportInv /\ [Next]_vars => ReportInv'
  <2> SUFFICES ASSUME ReportInv, [Next]_vars PROVE ReportInv'
    OBVIOUS
  <2>1. CASE CopyByte
    BY <2>1 DEF CopyByte, ReportInv, ReportedOnce, Visiting
  <2>2. CASE DecodeEscape
    <3> DEFINE decoded == decodeEscape(token.text, I)
    <3>1. CASE decoded.fault # NoFault
      <4>1. Finish(<< "raw", token.text >>, << decoded.fault >>)
        BY <2>2, <3>1 DEF DecodeEscape
      <4> HIDE DEF decoded
      <4> QED
        BY <4>1, FinishReported
    <3>2. CASE decoded.fault = NoFault
      BY <2>2, <3>2 DEF DecodeEscape, ReportInv, ReportedOnce, Visiting
    <3> QED
      BY <3>1, <3>2
  <2>3. CASE EndString
    BY <2>3, FinishDecoded DEF EndString
  <2>4. CASE VisitChar
    <3>1. \/ \E x : Finish(<< "decoded", x >>, << >>)
          \/ \E m : Finish(Default, << m >>)
      BY <2>4 DEF VisitChar
    <3> QED
      BY <3>1, FinishDecoded, FinishReported
  <2>5. CASE VisitInteger
    <3>1. \/ \E x : Finish(<< "decoded", x >>, << >>)
          \/ \E m : Finish(Default, << m >>)
      BY <2>5 DEF VisitInteger
    <3> QED
      BY <3>1, FinishDecoded, FinishReported
  <2>6. CASE VisitFloat
    <3>1. \/ \E x : Finish(<< "decoded", x >>, << >>)
          \/ \E x, m : Finish(<< "raw", x >>, << m >>) \/ Finish(Default, << m >>)
      BY <2>6 DEF VisitFloat, convertFloatString
    <3> QED
      BY <3>1, FinishDecoded, FinishReported
  <2>7. CASE Done \/ UNCHANGED vars
    BY <2>7 DEF Done, vars, ReportInv, ReportedOnce
  <2> QED
    BY <2>1, <2>2, <2>3, <2>4, <2>5, <2>6, <2>7 DEF Next
<1>3. ReportInv => ReportedOnce
  BY DEF ReportInv
<1> QED
  BY <1>1, <1>2, <1>3, PTL DEF Spec

-----------------------------------------------------------------------------
(* Recursion over a text.                                                  *)

\* f joins the words of g, up to each place.
Joins(f, n, g) == f = [i \in 0..n |-> IF i = 0 THEN << >> ELSE f[i - 1] \o g[i]]

LEMMA JoinsExist == ASSUME NEW g, NEW n \in Nat PROVE \E f : Joins(f, n, g)
<1> DEFINE T == {k \in Nat : ~ \E f : Joins(f, k, g)}
<1> SUFFICES ASSUME T # {} PROVE FALSE
  OBVIOUS
<1>1. PICK k \in T : \A m \in T : k <= m
  BY Least
<1>2. CASE k = 0
  <2>1. Joins([i \in 0..0 |-> << >>], 0, g)
    BY DEF Joins
  <2> QED
    BY <1>2, <2>1
<1>3. CASE k # 0
  <2>1. k - 1 \in Nat /\ k - 1 \notin T
    BY <1>1, <1>3
  <2>2. PICK f : Joins(f, k - 1, g)
    BY <2>1
  <2> DEFINE h == [i \in 0..k |-> IF i = k THEN f[k - 1] \o g[k] ELSE f[i]]
  <2>3. \A i \in 0..(k - 1) : f[i] = IF i = 0 THEN << >> ELSE f[i - 1] \o g[i]
    BY <2>2 DEF Joins
  <2>4. \A i \in 0..k : h[i] = IF i = 0 THEN << >> ELSE h[i - 1] \o g[i]
    <3> TAKE i \in 0..k
    <3>1. CASE i = k
      <4>1. h[i] = f[k - 1] \o g[k] /\ h[i - 1] = f[k - 1] /\ i # 0
        BY <1>3, <2>1, <3>1
      <4> QED
        BY <3>1, <4>1
    <3>2. CASE i # k
      <4>1. h[i] = f[i] /\ i \in 0..(k - 1)
        BY <2>1, <3>2
      <4>2. i # 0 => h[i - 1] = f[i - 1]
        BY <2>1, <3>2
      <4> QED
        BY <2>3, <4>1, <4>2
    <3> QED
      BY <3>1, <3>2
  <2>5. h = [i \in 0..k |-> h[i]]
    OBVIOUS
  <2> HIDE DEF h
  <2>6. Joins(h, k, g)
    BY <2>4, <2>5 DEF Joins
  <2> QED
    BY <2>6
<1> QED
  BY <1>2, <1>3

\* Contents(body) is what its recursion says.
LEMMA ContentsRec ==
  ASSUME NEW body \in Seq(Byte)
  PROVE  /\ Contents(body)[0] = << >>
         /\ \A i \in 1..Len(body) : Contents(body)[i] = Contents(body)[i - 1] \o Piece(body, i)
<1> DEFINE n == Len(body)
           R(f) == f = [i \in 0..n |-> IF i = 0 THEN << >> ELSE f[i - 1] \o Piece(body, i)]
           g == [i \in 1..n |-> Piece(body, i)]
           u == CHOOSE f : R(f)
<1>0. n \in Nat
  OBVIOUS
<1>1. PICK f : Joins(f, n, g)
  BY <1>0, JoinsExist
<1>2. R(f)
  <2>1. \A i \in 0..n : f[i] = IF i = 0 THEN << >> ELSE f[i - 1] \o Piece(body, i)
    BY <1>0, <1>1, SMTT(30) DEF Joins
  <2>2. f = [i \in 0..n |-> f[i]]
    BY <1>1 DEF Joins
  <2> QED
    BY <2>1, <2>2
<1>3. R(u)
  BY <1>2
<1>4. Contents(body) = u
  BY DEF Contents
<1> HIDE DEF u
<1>5. \A i \in 0..n : u[i] = IF i = 0 THEN << >> ELSE u[i - 1] \o Piece(body, i)
  BY <1>3
<1>6. u[0] = << >>
  BY <1>0, <1>5
<1>7. \A i \in 1..n : u[i] = u[i - 1] \o Piece(body, i)
  <2> TAKE i \in 1..n
  <2>1. i \in 0..n /\ i # 0
    BY <1>0
  <2> HIDE DEF n
  <2> QED
    BY <1>5, <2>1, Zenon
<1> QED
  BY <1>4, <1>6, <1>7

-----------------------------------------------------------------------------
(* Where escapes begin and end.                                            *)

\* Exactly n backslashes stand before place i.
Run(body, i, n) ==
  /\ n \in 0..(i - 1)
  /\ \A k \in (i - n)..(i - 1) : body[k] = Backslash
  /\ i - n > 1 => body[i - n - 1] # Backslash

\* No escape is open at place i.
Open(body, i) == \E n \in Nat : n % 2 = 0 /\ Run(body, i, n)

\* The last byte of the escape that begins at i.
EndOf(body, i) == IF UnicodeAt(body, i) THEN i + 5 ELSE i + 1

Broken(body, i) == ~ SimpleAt(body, i) /\ ~ UnicodeAt(body, i)

LEMMA RunsAgree ==
  ASSUME NEW body, NEW i \in Nat \ {0}, NEW n, NEW m, Run(body, i, n), Run(body, i, m)
  PROVE  n = m
<1>1. n \in Nat /\ m \in Nat /\ n <= i - 1 /\ m <= i - 1
  BY DEF Run
<1>2. CASE n < m
  <2>1. i - n - 1 \in (i - m)..(i - 1) /\ i - n > 1
    BY <1>1, <1>2
  <2> QED
    BY <2>1 DEF Run
<1>3. CASE m < n
  <2>1. i - m - 1 \in (i - n)..(i - 1) /\ i - m > 1
    BY <1>1, <1>3
  <2> QED
    BY <2>1 DEF Run
<1> QED
  BY <1>1, <1>2, <1>3

LEMMA EscapesAre ==
  ASSUME NEW body \in Seq(Byte), NEW i
  PROVE  i \in Escapes(body) <=> i \in DOMAIN body /\ body[i] = Backslash /\ Open(body, i)
<1>1. i \in DOMAIN body => i \in Nat \ {0}
  OBVIOUS
<1> QED
  BY <1>1 DEF Escapes, Open, Run

\* Behind any other byte, and at the beginning, no escape is open.
LEMMA OpenBehind ==
  ASSUME NEW body, NEW i \in Nat \ {0}, i > 1 => body[i - 1] # Backslash
  PROVE  Open(body, i)
<1>1. Run(body, i, 0)
  BY DEF Run
<1> QED
  BY <1>1 DEF Open

\* One more backslash.
LEMMA RunGrows ==
  ASSUME NEW body, NEW i \in Nat \ {0}, NEW n, Run(body, i, n), body[i] = Backslash
  PROVE  Run(body, i + 1, n + 1)
<1>1. n \in Nat /\ n <= i - 1
  BY DEF Run
<1>2. n + 1 \in 0..i /\ (i + 1) - (n + 1) = i - n /\ (i + 1) - 1 = i
  BY <1>1
<1>3. \A k \in (i - n)..i : k = i \/ k \in (i - n)..(i - 1)
  BY <1>1
<1> QED
  BY <1>2, <1>3 DEF Run

\* The byte behind the backslash of an escape begins none.
LEMMA ClosedBehind ==
  ASSUME NEW body, NEW i \in Nat \ {0}, Open(body, i), body[i] = Backslash
  PROVE  ~ Open(body, i + 1)
<1> SUFFICES ASSUME Open(body, i + 1) PROVE FALSE
  OBVIOUS
<1>1. PICK n \in Nat : n % 2 = 0 /\ Run(body, i, n)
  BY DEF Open
<1>2. PICK m \in Nat : m % 2 = 0 /\ Run(body, i + 1, m)
  BY DEF Open
<1>3. Run(body, i + 1, n + 1)
  BY <1>1, RunGrows
<1>4. m = n + 1
  BY <1>2, <1>3, RunsAgree
<1> QED
  BY <1>1, <1>2, <1>4

\* Two backslashes are one escape.
LEMMA OpenBehindTwo ==
  ASSUME NEW body, NEW i \in Nat \ {0}, Open(body, i), body[i] = Backslash,
         body[i + 1] = Backslash
  PROVE  Open(body, i + 2)
<1>1. PICK n \in Nat : n % 2 = 0 /\ Run(body, i, n)
  BY DEF Open
<1>2. Run(body, i + 1, n + 1)
  BY <1>1, RunGrows
<1>3. Run(body, (i + 1) + 1, (n + 1) + 1)
  BY <1>2, RunGrows
<1>4. (i + 1) + 1 = i + 2 /\ (n + 1) + 1 = n + 2 /\ (n + 2) % 2 = 0 /\ n + 2 \in Nat
  BY <1>1
<1> QED
  BY <1>3, <1>4 DEF Open

\* The code points of an escape.
Units == {n \in Nat : n < 65536}

LEMMA Bytes == \A b : b \in Byte <=> b \in Nat /\ b < 256
  BY DEF Byte

LEMMA HexDigits ==
  /\ Backslash \notin DOMAIN HexDigit /\ 117 \notin DOMAIN SimpleEscape
  /\ \A b \in DOMAIN HexDigit : HexDigit[b] \in 0..15
  /\ \A b \in DOMAIN SimpleEscape : SimpleEscape[b] \in 0..127
<1>1. DOMAIN HexDigit = (48..57) \cup (65..70) \cup (97..102)
  BY DEF HexDigit
<1>2. DOMAIN SimpleEscape = {116, 98, 110, 114, 39, 34, 92, 36}
  BY DEF SimpleEscape
<1>3. Backslash \notin DOMAIN HexDigit
  BY <1>1 DEF Backslash
<1>4. 117 \notin DOMAIN SimpleEscape
  BY <1>2
<1>5. ASSUME NEW b \in DOMAIN HexDigit PROVE HexDigit[b] \in 0..15
  <2>1. HexDigit[b] = IF b <= 57 THEN b - 48 ELSE IF b <= 70 THEN b - 55 ELSE b - 87
    BY <1>1 DEF HexDigit
  <2>2. b \in 48..57 \/ b \in 65..70 \/ b \in 97..102
    BY <1>1
  <2> QED
    BY <2>1, <2>2
<1>6. ASSUME NEW b \in DOMAIN SimpleEscape PROVE SimpleEscape[b] \in 0..127
  <2>1. SimpleEscape[b] = CASE b = 116 -> 9 [] b = 98 -> 8 [] b = 110 -> 10 [] b = 114 -> 13
                            [] OTHER -> b
    BY <1>2 DEF SimpleEscape
  <2>2. b \in 0..127
    BY <1>2
  <2> QED
    BY <2>1, <2>2
<1> QED
  BY <1>3, <1>4, <1>5, <1>6

LEMMA FourBytes ==
  ASSUME NEW S, NEW s \in Seq(S), NEW i \in Nat, i + 5 <= Len(s)
  PROVE  \A k \in 1..4 : SubSeq(s, i + 2, i + 5)[k] = s[i + 1 + k]
  OBVIOUS

LEMMA FourDigits ==
  ASSUME NEW a \in 0..15, NEW b \in 0..15, NEW c \in 0..15, NEW d \in 0..15
  PROVE  4096 * a + 256 * b + 16 * c + d \in Nat /\ 4096 * a + 256 * b + 16 * c + d < 65536
  OBVIOUS

\* The hexadecimal digits of an escape are bytes of the text.
LEMMA UnicodeBytes ==
  ASSUME NEW body \in Seq(Byte), NEW i \in DOMAIN body, UnicodeAt(body, i)
  PROVE  /\ i + 5 <= Len(body) /\ body[i + 1] = 117
         /\ \A j \in (i + 2)..(i + 5) : body[j] \in DOMAIN HexDigit
         /\ IsHex4(SubSeq(body, i + 2, i + 5))
         /\ Hex4(SubSeq(body, i + 2, i + 5)) \in Units
<1> DEFINE hex == SubSeq(body, i + 2, i + 5)
<1>1. /\ i \in Nat \ {0} /\ i + 5 <= Len(body) /\ Len(body) \in Nat
      /\ body[i + 1] = 117 /\ IsHex4(hex)
  BY DEF UnicodeAt
<1>2. /\ hex[1] = body[i + 2] /\ hex[2] = body[i + 3]
      /\ hex[3] = body[i + 4] /\ hex[4] = body[i + 5]
  <2>1. \A k \in 1..4 : hex[k] = body[i + 1 + k]
    BY <1>1, FourBytes
  <2>2. i + 1 + 1 = i + 2 /\ i + 1 + 2 = i + 3 /\ i + 1 + 3 = i + 4 /\ i + 1 + 4 = i + 5
    BY <1>1
  <2> HIDE DEF hex
  <2> QED
    BY <2>1, <2>2
<1> HIDE DEF hex
<1>3. /\ hex[1] \in DOMAIN HexDigit /\ hex[2] \in DOMAIN HexDigit
      /\ hex[3] \in DOMAIN HexDigit /\ hex[4] \in DOMAIN HexDigit
  BY <1>1 DEF IsHex4
<1>4. \A j \in (i + 2)..(i + 5) : body[j] \in DOMAIN HexDigit
  <2> TAKE j \in (i + 2)..(i + 5)
  <2>1. i \in Nat
    BY <1>1
  <2>2. j = i + 2 \/ j = i + 3 \/ j = i + 4 \/ j = i + 5
    BY <2>1
  <2> QED
    BY <1>2, <1>3, <2>2
<1>5. Hex4(hex) \in Units
  <2> DEFINE a == HexDigit[hex[1]]
             b == HexDigit[hex[2]]
             c == HexDigit[hex[3]]
             d == HexDigit[hex[4]]
  <2>1. a \in 0..15 /\ b \in 0..15 /\ c \in 0..15 /\ d \in 0..15
    BY <1>3, HexDigits
  <2>2. Hex4(hex) = 4096 * a + 256 * b + 16 * c + d
    BY DEF Hex4
  <2> HIDE DEF a, b, c, d
  <2>3. Hex4(hex) \in Nat /\ Hex4(hex) < 65536
    BY <2>1, <2>2, FourDigits
  <2> QED
    BY <2>3 DEF Units
<1> QED
  BY <1>1, <1>4, <1>5 DEF hex

\* An escape that is not broken lies within the text, begins no other escape
\* on its way, and leaves none open.
LEMMA EscapeSpans ==
  ASSUME NEW body \in Seq(Byte), NEW i \in Escapes(body), i < Len(body), ~ Broken(body, i)
  PROVE  /\ EndOf(body, i) \in (i + 1)..Len(body)
         /\ Open(body, EndOf(body, i) + 1)
         /\ \A j \in (i + 1)..EndOf(body, i) : j \notin Escapes(body) /\ j \in Covered(body)
<1>1. i \in Nat \ {0} /\ i \in DOMAIN body /\ body[i] = Backslash /\ Open(body, i)
  BY EscapesAre
<1>2. \A j : j \in i..EndOf(body, i) => j \in Covered(body)
  BY DEF Covered, EndOf
<1>3. i + 1 \notin Escapes(body)
  BY <1>1, EscapesAre, ClosedBehind
<1>4. CASE UnicodeAt(body, i)
  <2>1. EndOf(body, i) = i + 5
    BY <1>4 DEF EndOf
  <2>2. \A j \in (i + 2)..(i + 5) : body[j] # Backslash
    BY <1>1, <1>4, UnicodeBytes, HexDigits
  <2>3. Open(body, (i + 5) + 1)
    BY <1>1, <2>2, OpenBehind
  <2>4. i + 5 <= Len(body) /\ Len(body) \in Nat
    BY <1>1, <1>4, UnicodeBytes
  <2>5. \A j \in (i + 1)..(i + 5) : j \notin Escapes(body)
    BY <1>1, <1>3, <2>2, EscapesAre
  <2> QED
    BY <1>1, <1>2, <2>1, <2>3, <2>4, <2>5
<1>5. CASE ~ UnicodeAt(body, i)
  <2>1. EndOf(body, i) = i + 1
    BY <1>5 DEF EndOf
  <2>2. Open(body, i + 2)
    <3>1. CASE body[i + 1] = Backslash
      BY <1>1, <3>1, OpenBehindTwo
    <3>2. CASE body[i + 1] # Backslash
      BY <1>1, <3>2, OpenBehind
    <3> QED
      BY <3>1, <3>2
  <2> QED
    BY <1>1, <1>2, <1>3, <2>1, <2>2
<1> QED
  BY <1>4, <1>5

-----------------------------------------------------------------------------
(* What decodeEscape finds there.                                          *)

\* The parts of a code point in two and in three bytes, and the way back.
LEMMA TwoBytes ==
  ASSUME NEW cp \in Nat, cp < 2048
  PROVE  /\ cp \div 64 \in Nat /\ cp \div 64 < 32 /\ cp % 64 \in Nat /\ cp % 64 < 64
         /\ 64 * ((192 + cp \div 64) % 32) + ((128 + (cp % 64)) % 64) = cp
  OBVIOUS

LEMMA ThreeBytes ==
  ASSUME NEW cp \in Nat, cp < 65536
  PROVE  /\ cp \div 4096 \in Nat /\ cp \div 4096 < 16
         /\ (cp \div 64) % 64 \in Nat /\ (cp \div 64) % 64 < 64
         /\ cp % 64 \in Nat /\ cp % 64 < 64
         /\ 4096 * ((224 + cp \div 4096) % 16) + 64 * ((128 + ((cp \div 64) % 64)) % 64)
              + ((128 + (cp % 64)) % 64) = cp
  OBVIOUS

LEMMA SeqsOf ==
  ASSUME NEW S, NEW a \in S, NEW b \in S, NEW c \in S
  PROVE  << a >> \in Seq(S) /\ << a, b >> \in Seq(S) /\ << a, b, c >> \in Seq(S)
  OBVIOUS

LEMMA SeqOfFour ==
  ASSUME NEW S, NEW a \in S, NEW b \in S, NEW c \in S, NEW d \in S
  PROVE  << a, b, c, d >> \in Seq(S)
  OBVIOUS

LEMMA Utf8Bytes ==
  ASSUME NEW cp \in Units
  PROVE  appendUtf8(cp) \in Seq(Byte) /\ (cp < 128 => appendUtf8(cp) = << cp >>)
<1>0. cp \in Nat /\ cp < 65536
  BY DEF Units
<1>1. CASE cp < 128
  <2>1. appendUtf8(cp) = << cp >>
    BY <1>1 DEF appendUtf8
  <2>2. cp \in Byte
    BY <1>0, <1>1, Bytes
  <2> QED
    BY <2>1, <2>2, SeqsOf
<1>2. CASE ~ (cp < 128) /\ cp < 2048
  <2> DEFINE a == 192 + cp \div 64
             b == 128 + (cp % 64)
  <2>1. appendUtf8(cp) = << a, b >>
    BY <1>2 DEF appendUtf8
  <2>2. a \in Nat /\ a < 256 /\ b \in Nat /\ b < 256
    BY <1>0, <1>2, TwoBytes
  <2>3. a \in Byte /\ b \in Byte
    BY <2>2, Bytes
  <2> HIDE DEF a, b
  <2> QED
    BY <1>2, <2>1, <2>3, SeqsOf
<1>3. CASE ~ (cp < 128) /\ ~ (cp < 2048)
  <2> DEFINE a == 224 + cp \div 4096
             b == 128 + ((cp \div 64) % 64)
             c == 128 + (cp % 64)
  <2>1. appendUtf8(cp) = << a, b, c >>
    BY <1>3 DEF appendUtf8
  <2>2. a \in Nat /\ a < 256 /\ b \in Nat /\ b < 256 /\ c \in Nat /\ c < 256
    BY <1>0, ThreeBytes
  <2>3. a \in Byte /\ b \in Byte /\ c \in Byte
    BY <2>2, Bytes
  <2> HIDE DEF a, b, c
  <2> QED
    BY <1>3, <2>1, <2>3, SeqsOf
<1> QED
  BY <1>1, <1>2, <1>3

LEMMA Results ==
  ASSUME NEW fault, NEW cp, NEW next
  PROVE  /\ Invalid(fault).fault = fault
         /\ Decoded(cp, next).fault = NoFault /\ Decoded(cp, next).cp = cp
         /\ Decoded(cp, next).next = next
  BY DEF Invalid, Decoded

\* The escape at i is decoded whole, to the code point cp.
Means(body, i, cp) ==
  /\ decodeEscape(body, i) = Decoded(cp, EndOf(body, i) + 1)
  /\ appendUtf8(cp) = Meaning(body, i)

\* An escape decodes to what it means and ends where it ends.
LEMMA DecodesWhole ==
  ASSUME NEW body \in Seq(Byte), NEW i \in DOMAIN body, i < Len(body), ~ Broken(body, i)
  PROVE  \E cp \in Units : Means(body, i, cp)
<1>1. CASE SimpleAt(body, i)
  <2> DEFINE cp == SimpleEscape[body[i + 1]]
  <2>1. cp \in 0..127 /\ ~ UnicodeAt(body, i)
    BY <1>1, HexDigits DEF SimpleAt, UnicodeAt
  <2>2. decodeEscape(body, i) = Decoded(cp, i + 2)
    BY <1>1 DEF decodeEscape, SimpleAt
  <2>3. Meaning(body, i) = << cp >>
    BY <1>1 DEF Meaning
  <2>4. EndOf(body, i) + 1 = i + 2
    BY <2>1 DEF EndOf
  <2> HIDE DEF cp
  <2>5. cp \in Units /\ cp < 128
    BY <2>1 DEF Units
  <2>6. appendUtf8(cp) = << cp >>
    BY <2>5, Utf8Bytes
  <2> QED
    BY <2>2, <2>3, <2>4, <2>5, <2>6 DEF cp, Means
<1>2. CASE ~ SimpleAt(body, i)
  <2> DEFINE hex == SubSeq(body, i + 2, i + 5)
  <2>1. UnicodeAt(body, i)
    BY <1>2 DEF Broken
  <2>2. Hex4(hex) \in Units /\ IsHex4(hex) /\ i + 5 <= Len(body) /\ body[i + 1] = 117
    BY <2>1, UnicodeBytes
  <2>3. substr(body, i + 2, 4) = hex
    BY <2>2, SMTT(30) DEF substr
  <2>4. Meaning(body, i) = appendUtf8(Hex4(hex))
    BY <1>2 DEF Meaning
  <2>5. EndOf(body, i) + 1 = i + 6
    BY <2>1 DEF EndOf
  <2> HIDE DEF hex
  <2>6. decodeUnicode(body, i) = Decoded(Hex4(hex), i + 6)
    BY <2>2, <2>3 DEF decodeUnicode
  <2>7. i # Len(body) /\ body[i + 1] \notin DOMAIN SimpleEscape
    BY <1>2 DEF SimpleAt
  <2>8. decodeEscape(body, i) = decodeUnicode(body, i)
    BY <2>2, <2>7 DEF decodeEscape
  <2> QED
    BY <1>2, <2>2, <2>4, <2>5, <2>6, <2>8 DEF Means
<1> QED
  BY <1>1, <1>2

\* A broken escape is refused, with the message for its kind.
LEMMA RefusesBroken ==
  ASSUME NEW body \in Seq(Byte), NEW i \in DOMAIN body, i < Len(body), Broken(body, i)
  PROVE  decodeEscape(body, i).fault = IF body[i + 1] = 117 THEN UnicodeFault
                                       ELSE "invalid escape sequence"
<1>1. body[i + 1] \notin DOMAIN SimpleEscape /\ i # Len(body) /\ i \in Nat /\ Len(body) \in Nat
  BY DEF Broken, SimpleAt
<1>2. CASE body[i + 1] = 117
  <2> DEFINE hex == substr(body, i + 2, 4)
  <2>1. ~ IsHex4(hex)
    <3>1. CASE i + 5 <= Len(body)
      <4>1. hex = SubSeq(body, i + 2, i + 5)
        BY <1>1, <3>1, SMTT(30) DEF substr
      <4>2. ~ IsHex4(SubSeq(body, i + 2, i + 5))
        BY <1>2, <3>1 DEF Broken, UnicodeAt
      <4> QED
        BY <4>1, <4>2
    <3>2. CASE ~ (i + 5 <= Len(body))
      <4>1. hex = SubSeq(body, i + 2, Len(body))
        BY <1>1, <3>2, SMTT(30) DEF substr
      <4>2. Len(SubSeq(body, i + 2, Len(body))) # 4
        BY <1>1, <3>2
      <4> HIDE DEF hex
      <4> QED
        BY <4>1, <4>2 DEF IsHex4
    <3> QED
      BY <3>1, <3>2
  <2> HIDE DEF hex
  <2>2. decodeUnicode(body, i) = Invalid(UnicodeFault)
    BY <2>1 DEF decodeUnicode, hex
  <2>3. decodeEscape(body, i) = decodeUnicode(body, i)
    BY <1>1, <1>2 DEF decodeEscape
  <2> QED
    BY <1>2, <2>2, <2>3, Results
<1>3. CASE body[i + 1] # 117
  <2>1. decodeEscape(body, i) = Invalid("invalid escape sequence")
    BY <1>1, <1>3 DEF decodeEscape
  <2> QED
    BY <1>3, <2>1, Results
<1> QED
  BY <1>2, <1>3

-----------------------------------------------------------------------------
(* The loop of decodeStringBody.                                           *)

\* The text is decoded before place i, and out is what came of it: every
\* escape that began before i has also ended there, and was not broken.
Scanned(body, i, out) ==
  /\ i \in 1..(Len(body) + 1)
  /\ Open(body, i)
  /\ \A j \in Escapes(body) : j < i => EndOf(body, j) < i /\ ~ Broken(body, j)
  /\ out = Contents(body)[i - 1]
  /\ out \in Seq(Byte)

LEMMA ScanBegins ==
  ASSUME NEW body \in Seq(Byte)
  PROVE  Scanned(body, 1, << >>)
<1>1. Open(body, 1)
  BY OpenBehind
<1>2. Contents(body)[0] = << >> /\ 1 - 1 = 0
  BY ContentsRec
<1>3. \A j \in Escapes(body) : j \in Nat \ {0}
  BY EscapesAre
<1>4. << >> \in Seq(Byte) /\ Len(body) \in Nat
  OBVIOUS
<1> QED
  BY <1>1, <1>2, <1>3, <1>4 DEF Scanned

LEMMA ScanCopies ==
  ASSUME NEW body \in Seq(Byte), NEW i, NEW out, Scanned(body, i, out), i <= Len(body),
         body[i] # Backslash
  PROVE  Scanned(body, i + 1, Append(out, body[i]))
<1>1. /\ i \in 1..Len(body) /\ i \in Nat \ {0} /\ Len(body) \in Nat
      /\ out \in Seq(Byte) /\ out = Contents(body)[i - 1]
      /\ \A j \in Escapes(body) : j < i => EndOf(body, j) < i /\ ~ Broken(body, j)
  BY DEF Scanned
<1>2. \A j \in Escapes(body) : j \in Nat \ {0} /\ body[j] = Backslash
  BY EscapesAre
<1>3. i \notin Escapes(body)
  BY <1>2
<1>4. i \notin Covered(body)
  <2> SUFFICES ASSUME i \in Covered(body) PROVE FALSE
    OBVIOUS
  <2>1. PICK j \in Escapes(body) : i \in j..EndOf(body, j)
    BY DEF Covered, EndOf
  <2>2. j < i /\ i <= EndOf(body, j)
    BY <1>1, <1>2, <1>3, <2>1
  <2>3. EndOf(body, j) < i
    BY <1>1, <2>2
  <2>4. EndOf(body, j) \in Int
    BY <1>2 DEF EndOf
  <2> QED
    BY <1>1, <2>2, <2>3, <2>4
<1>5. Piece(body, i) = << body[i] >>
  BY <1>3, <1>4 DEF Piece
<1>6. Contents(body)[i] = out \o << body[i] >>
  BY <1>1, <1>5, ContentsRec
<1>7. body[i] \in Byte
  BY <1>1
<1>8. out \o << body[i] >> = Append(out, body[i]) /\ Append(out, body[i]) \in Seq(Byte)
  <2> HIDE DEF Byte
  <2> QED
    BY <1>1, <1>7
<1>9. Open(body, i + 1)
  BY <1>1, OpenBehind
<1>10. ASSUME NEW j \in Escapes(body), j < i + 1
       PROVE  EndOf(body, j) < i + 1 /\ ~ Broken(body, j)
  <2>1. j < i
    BY <1>1, <1>2, <1>3, <1>10
  <2>2. EndOf(body, j) < i /\ ~ Broken(body, j)
    BY <1>1, <2>1
  <2>3. EndOf(body, j) \in Int
    BY <1>2 DEF EndOf
  <2> QED
    BY <1>1, <2>2, <2>3
<1>11. i + 1 \in 1..(Len(body) + 1) /\ (i + 1) - 1 = i
  BY <1>1
<1> QED
  BY <1>6, <1>8, <1>9, <1>10, <1>11 DEF Scanned

\* A backslash met there begins an escape, and a byte follows it.
LEMMA ScanMeetsEscape ==
  ASSUME NEW body \in Seq(Byte), IsStringBody(body), NEW i, NEW out, Scanned(body, i, out),
         i <= Len(body), body[i] = Backslash
  PROVE  i \in Escapes(body) /\ i \in DOMAIN body /\ i < Len(body)
<1>1. i \in DOMAIN body /\ Open(body, i)
  BY DEF Scanned
<1>2. i \in Escapes(body)
  BY <1>1, EscapesAre
<1> QED
  BY <1>1, <1>2 DEF IsStringBody

\* Appending nothing leaves a sequence as it is.
LEMMA NothingAdded ==
  ASSUME NEW S, NEW f, NEW i \in Nat, NEW e \in {i + 1, i + 5}, f[i] \in Seq(S),
         \A k \in (i + 1)..e : f[k] = f[k - 1] \o << >>
  PROVE  f[e] = f[i]
<1>1. \A s \in Seq(S) : s \o << >> = s
  OBVIOUS
<1>2. f[i + 1] = f[i]
  <2>1. i + 1 \in (i + 1)..e /\ (i + 1) - 1 = i
    OBVIOUS
  <2> QED
    BY <1>1, <2>1
<1>3. CASE e = i + 1
  BY <1>2, <1>3
<1>4. CASE e = i + 5
  <2>1. /\ i + 2 \in (i + 1)..e /\ (i + 2) - 1 = i + 1
        /\ i + 3 \in (i + 1)..e /\ (i + 3) - 1 = i + 2
        /\ i + 4 \in (i + 1)..e /\ (i + 4) - 1 = i + 3
        /\ i + 5 \in (i + 1)..e /\ (i + 5) - 1 = i + 4
    BY <1>4
  <2>2. f[i + 2] = f[i]
    BY <1>1, <1>2, <2>1
  <2>3. f[i + 3] = f[i]
    BY <1>1, <2>1, <2>2
  <2>4. f[i + 4] = f[i]
    BY <1>1, <2>1, <2>3
  <2> QED
    BY <1>1, <1>4, <2>1, <2>4
<1> QED
  BY <1>3, <1>4

LEMMA ScanDecodes ==
  ASSUME NEW body \in Seq(Byte), NEW i \in Escapes(body), i < Len(body), ~ Broken(body, i),
         NEW out, Scanned(body, i, out)
  PROVE  Scanned(body, EndOf(body, i) + 1, out \o Meaning(body, i))
<1> DEFINE e == EndOf(body, i)
<1>1. /\ i \in 1..Len(body) /\ i \in Nat \ {0} /\ Len(body) \in Nat
      /\ out \in Seq(Byte) /\ out = Contents(body)[i - 1]
      /\ \A j \in Escapes(body) : j < i => EndOf(body, j) < i /\ ~ Broken(body, j)
  BY DEF Scanned
<1>2. /\ e \in (i + 1)..Len(body) /\ Open(body, e + 1)
      /\ \A j \in (i + 1)..e : j \notin Escapes(body) /\ j \in Covered(body)
  BY EscapeSpans
<1>3. e \in {i + 1, i + 5}
  BY DEF EndOf
<1>4. \A j \in Escapes(body) : j \in Nat \ {0} /\ EndOf(body, j) \in Nat
  BY EscapesAre DEF EndOf
<1>5. Meaning(body, i) \in Seq(Byte)
  <2>1. i \in DOMAIN body
    BY <1>1
  <2>2. PICK cp \in Units : Means(body, i, cp)
    BY <2>1, DecodesWhole
  <2> QED
    BY <2>2, Utf8Bytes DEF Means
<1>6. Contents(body)[i] = out \o Meaning(body, i)
  <2>1. Piece(body, i) = Meaning(body, i)
    BY DEF Piece
  <2> QED
    BY <1>1, <2>1, ContentsRec
<1>7. out \o Meaning(body, i) \in Seq(Byte)
  <2> HIDE DEF Byte
  <2> QED
    BY <1>1, <1>5
<1> HIDE DEF e
<1>8. \A k \in (i + 1)..e : Contents(body)[k] = Contents(body)[k - 1] \o << >>
  <2> TAKE k \in (i + 1)..e
  <2>1. k \in 1..Len(body)
    BY <1>1, <1>2
  <2>2. Piece(body, k) = << >>
    BY <1>2 DEF Piece
  <2> QED
    BY <2>1, <2>2, ContentsRec
<1>9. Contents(body)[e] = Contents(body)[i]
  BY <1>1, <1>3, <1>6, <1>7, <1>8, NothingAdded
<1>10. ASSUME NEW j \in Escapes(body), j < e + 1
       PROVE  EndOf(body, j) < e + 1 /\ ~ Broken(body, j)
  <2>1. j < i \/ j = i
    BY <1>1, <1>2, <1>4, <1>10
  <2>2. CASE j < i
    <3>1. EndOf(body, j) < i /\ ~ Broken(body, j) /\ EndOf(body, j) \in Nat
      BY <1>1, <1>4, <2>2
    <3>2. e \in Nat /\ i < e
      BY <1>1, <1>2
    <3> QED
      BY <1>1, <3>1, <3>2
  <2>3. CASE j = i
    BY <1>2, <2>3 DEF e
  <2> QED
    BY <2>1, <2>2, <2>3
<1>11. e + 1 \in 1..(Len(body) + 1) /\ (e + 1) - 1 = e
  BY <1>1, <1>2
<1>12. Scanned(body, e + 1, out \o Meaning(body, i))
  BY <1>2, <1>6, <1>7, <1>9, <1>10, <1>11 DEF Scanned
<1> QED
  BY <1>12 DEF e

-----------------------------------------------------------------------------
(* What a string literal holds.                                            *)

\* What StringExact says of a text, the value and the reports.
Exact(body, v, r) ==
  LET bad == {i \in Escapes(body) : ~ SimpleAt(body, i) /\ ~ UnicodeAt(body, i)}
      first == CHOOSE i \in bad : \A j \in bad : i <= j
  IN  IF bad = {} THEN v = << "decoded", Content(body) >> /\ r = << >>
      ELSE /\ v = << "raw", body >>
           /\ r = << IF body[first + 1] = 117 THEN UnicodeFault
                     ELSE "invalid escape sequence" >>

\* The loop ends with every escape replaced.
LEMMA ScanEnds ==
  ASSUME NEW body \in Seq(Byte), NEW i, NEW out, Scanned(body, i, out), i > Len(body)
  PROVE  Exact(body, << "decoded", out >>, << >>)
<1>1. i = Len(body) + 1 /\ Len(body) \in Nat
  BY DEF Scanned
<1>2. out = Content(body)
  <2>1. out = Contents(body)[i - 1] /\ i - 1 = Len(body)
    BY <1>1 DEF Scanned
  <2> QED
    BY <2>1 DEF Content
<1>3. \A j \in Escapes(body) : ~ Broken(body, j)
  <2> TAKE j \in Escapes(body)
  <2>1. j \in 1..Len(body)
    BY EscapesAre
  <2> QED
    BY <1>1, <2>1 DEF Scanned
<1>4. {j \in Escapes(body) : ~ SimpleAt(body, j) /\ ~ UnicodeAt(body, j)} = {}
  BY <1>3 DEF Broken
<1> QED
  BY <1>2, <1>4 DEF Exact

\* The loop stops at the first broken escape.
LEMMA ScanStops ==
  ASSUME NEW body \in Seq(Byte), NEW i \in Escapes(body), i < Len(body), Broken(body, i),
         NEW out, Scanned(body, i, out)
  PROVE  Exact(body, << "raw", body >>, << decodeEscape(body, i).fault >>)
<1> DEFINE bad == {j \in Escapes(body) : ~ SimpleAt(body, j) /\ ~ UnicodeAt(body, j)}
           first == CHOOSE j \in bad : \A k \in bad : j <= k
<1>1. i \in bad /\ i \in DOMAIN body
  BY EscapesAre DEF Broken
<1>2. \A j \in bad : j \in Nat /\ i \in Nat /\ i <= j
  <2> TAKE j \in bad
  <2>1. j \in Nat /\ i \in Nat
    BY <1>1, EscapesAre
  <2>2. Broken(body, j)
    BY DEF Broken
  <2>3. ~ (j < i)
    BY <2>2 DEF Scanned
  <2> QED
    BY <2>1, <2>3
<1> HIDE DEF bad
<1>3. first \in bad /\ \A k \in bad : first <= k
  BY <1>1, <1>2
<1>4. first = i
  <2>1. first <= i /\ i <= first /\ first \in Nat /\ i \in Nat
    BY <1>1, <1>2, <1>3
  <2> HIDE DEF first
  <2> QED
    BY <2>1
<1>5. decodeEscape(body, i).fault = IF body[i + 1] = 117 THEN UnicodeFault
                                    ELSE "invalid escape sequence"
  BY <1>1, RefusesBroken
<1>6. bad # {}
  BY <1>1
<1> QED
  BY <1>4, <1>5, <1>6, Zenon DEF Exact, bad

\* While a string is visited the loop has come to place I.
StringInv ==
  /\ token \in Tokens
  /\ Visiting("STRING_LITERAL") => Scanned(token.text, I, Out)
  /\ Visited("STRING_LITERAL") => Exact(token.text, value, reports) /\ value[2] \in Seq(Byte)

LEMMA StringTokens ==
  ASSUME token \in Tokens, token.kind = "STRING_LITERAL"
  PROVE  token.text \in StringBodies /\ token.text \in Seq(Byte) /\ IsStringBody(token.text)
<1>1. token.text \in StringBodies
  BY DEF Tokens
<1> QED
  BY <1>1, TokensAssumption DEF IsStringBody

\* The other literals leave strings alone.
LEMMA OtherLiterals ==
  ASSUME StringInv, token.kind # "STRING_LITERAL", token' = token
  PROVE  StringInv'
  BY DEF StringInv, Visiting, Visited

LEMMA FinishString ==
  ASSUME StringInv, NEW v, NEW m, Finish(v, m), v # NoValue, Exact(token.text, v, m),
         v[2] \in Seq(Byte)
  PROVE  StringInv'
  BY DEF StringInv, Visiting, Visited, Finish

LEMMA StringInvInit == Init => StringInv
<1> SUFFICES ASSUME Init PROVE StringInv
  OBVIOUS
<1>1. token \in Tokens /\ I = 1 /\ Out = << >> /\ value = NoValue
  BY DEF Init
<1>2. Visiting("STRING_LITERAL") => Scanned(token.text, I, Out)
  BY <1>1, StringTokens, ScanBegins DEF Visiting
<1> QED
  BY <1>1, <1>2 DEF StringInv, Visited

LEMMA StringInvNext == StringInv /\ [Next]_vars => StringInv'
<1> SUFFICES ASSUME StringInv, [Next]_vars PROVE StringInv'
  OBVIOUS
<1> DEFINE body == token.text
<1>0. token \in Tokens
  BY DEF StringInv
<1>1. CASE CopyByte
  <2>1. /\ body \in Seq(Byte) /\ Scanned(body, I, Out) /\ I <= Len(body) /\ body[I] # Backslash
        /\ Out' = Append(Out, body[I]) /\ I' = I + 1 /\ token' = token /\ value' = value
        /\ token.kind = "STRING_LITERAL" /\ value = NoValue
    BY <1>0, <1>1, StringTokens DEF CopyByte, StringInv, Visiting
  <2>2. Scanned(body, I', Out')
    BY <2>1, ScanCopies
  <2> QED
    BY <1>0, <2>1, <2>2 DEF StringInv, Visited
<1>2. CASE DecodeEscape
  <2> DEFINE decoded == decodeEscape(body, I)
  <2>1. /\ body \in Seq(Byte) /\ IsStringBody(body) /\ Scanned(body, I, Out)
        /\ I <= Len(body) /\ body[I] = Backslash
        /\ token.kind = "STRING_LITERAL" /\ value = NoValue
    BY <1>0, <1>2, StringTokens DEF DecodeEscape, StringInv, Visiting
  <2>2. IF decoded.fault # NoFault THEN Finish(<< "raw", body >>, << decoded.fault >>)
        ELSE /\ Out' = Out \o appendUtf8(decoded.cp) /\ I' = decoded.next
             /\ token' = token /\ value' = value
    BY <1>2 DEF DecodeEscape
  <2>3. I \in Escapes(body) /\ I \in DOMAIN body /\ I < Len(body)
    BY <2>1, ScanMeetsEscape
  <2> HIDE DEF decoded, body
  <2>4. CASE Broken(body, I)
    <3>1. decoded.fault # NoFault
      BY <2>1, <2>3, <2>4, RefusesBroken, Messages DEF decoded
    <3>2. Exact(body, << "raw", body >>, << decoded.fault >>)
      BY <2>1, <2>3, <2>4, ScanStops DEF decoded
    <3>3. Finish(<< "raw", body >>, << decoded.fault >>)
      BY <2>2, <3>1
    <3>4. << "raw", body >>[2] \in Seq(Byte)
      BY <2>1
    <3> QED
      BY <3>2, <3>3, <3>4, Values, FinishString DEF body
  <2>5. CASE ~ Broken(body, I)
    <3>0. PICK cp \in Units : Means(body, I, cp)
      BY <2>1, <2>3, <2>5, DecodesWhole
    <3>1. decoded = Decoded(cp, EndOf(body, I) + 1) /\ appendUtf8(cp) = Meaning(body, I)
      BY <3>0 DEF decoded, Means
    <3>2. decoded.fault = NoFault /\ decoded.cp = cp /\ decoded.next = EndOf(body, I) + 1
      BY <3>1, Results
    <3>3. /\ Out' = Out \o Meaning(body, I) /\ I' = EndOf(body, I) + 1
          /\ token' = token /\ value' = value
      BY <2>2, <3>1, <3>2
    <3>4. Scanned(body, I', Out')
      BY <2>1, <2>3, <2>5, <3>3, ScanDecodes
    <3> QED
      BY <1>0, <2>1, <3>3, <3>4 DEF StringInv, Visited, body
  <2> QED
    BY <2>4, <2>5
<1>3. CASE EndString
  <2>1. /\ body \in Seq(Byte) /\ Scanned(body, I, Out) /\ I > Len(body)
        /\ Finish(<< "decoded", Out >>, << >>)
    BY <1>0, <1>3, StringTokens DEF EndString, StringInv, Visiting
  <2>2. << "decoded", Out >>[2] \in Seq(Byte)
    BY <2>1 DEF Scanned
  <2> QED
    BY <2>1, <2>2, ScanEnds, Values, FinishString
<1>4. CASE VisitChar
  BY <1>4, OtherLiterals DEF VisitChar, Visiting, Finish
<1>5. CASE VisitInteger
  BY <1>5, OtherLiterals DEF VisitInteger, Visiting, Finish
<1>6. CASE VisitFloat
  <2>1. token' = token /\ token.kind # "STRING_LITERAL"
    BY <1>6 DEF VisitFloat, Visiting, Finish, convertFloatString
  <2> QED
    BY <2>1, OtherLiterals
<1>7. CASE Done \/ UNCHANGED vars
  BY <1>7 DEF Done, vars, StringInv, Visiting, Visited
<1> QED
  BY <1>1, <1>2, <1>3, <1>4, <1>5, <1>6, <1>7 DEF Next

\* Theorem StringExactHolds: a string literal holds its text with every escape
\* replaced by its meaning, or else the raw text, and then the first broken
\* escape is reported and no other (decodeStringBody), for every text.
THEOREM StringExactHolds == Spec => []StringExact
<1>1. StringInv => StringExact
  BY Zenon DEF StringInv, StringExact, Exact
<1> QED
  BY <1>1, StringInvInit, StringInvNext, PTL DEF Spec

-----------------------------------------------------------------------------
(* Character literals.                                                     *)

LEMMA LeadOfThree == ASSUME NEW a \in 224..239 PROVE SequenceLength(a) = 3
  BY DEF SequenceLength

\* decodeCharValue reads what appendUtf8 wrote.
LEMMA EveryUnitReadsBack ==
  ASSUME NEW cp \in Units, cp # Backslash
  PROVE  ReadsBack(cp)
<1>0. cp \in Nat /\ cp < 65536
  BY DEF Units
<1>1. CASE cp < 128
  <2>1. appendUtf8(cp) = << cp >>
    BY Utf8Bytes, <1>1
  <2>2. << cp >>[1] = cp /\ Len(<< cp >>) = 1 /\ 1 + 1 = 2
    OBVIOUS
  <2>3. decodeCharValue(<< cp >>) = Decoded(cp, 2)
    BY <2>2 DEF decodeCharValue
  <2> QED
    BY <2>1, <2>2, <2>3 DEF ReadsBack
<1>2. CASE ~ (cp < 128) /\ cp < 2048
  <2> DEFINE a == 192 + cp \div 64
             b == 128 + (cp % 64)
             s == << a, b >>
  <2>1. appendUtf8(cp) = s
    BY <1>2 DEF appendUtf8
  <2>2. /\ a \in Nat /\ 192 <= a /\ a < 224 /\ b \in Nat /\ 128 <= b /\ b < 192
        /\ 64 * (a % 32) + (b % 64) = cp
    BY <1>0, <1>2, TwoBytes
  <2>3. s[1] = a /\ s[2] = b /\ Len(s) = 2
    OBVIOUS
  <2> HIDE DEF a, b, s
  <2>4. SequenceLength(s[1]) = 2
    BY <2>2, <2>3 DEF SequenceLength
  <2>5. \A j \in 2..2 : s[j] \in 128..191
    BY <2>2, <2>3
  <2>6. SequenceValue(s) = cp
    BY <2>2, <2>3 DEF SequenceValue
  <2>7. s[1] # Backslash
    BY <2>2, <2>3 DEF Backslash
  <2>8. decodeCharValue(s) = Decoded(cp, Len(s) + 1)
    BY <2>3, <2>4, <2>5, <2>6, <2>7 DEF decodeCharValue
  <2> QED
    BY <2>1, <2>8 DEF ReadsBack
<1>3. CASE ~ (cp < 128) /\ ~ (cp < 2048)
  <2> DEFINE a == 224 + cp \div 4096
             b == 128 + ((cp \div 64) % 64)
             c == 128 + (cp % 64)
             s == << a, b, c >>
  <2>1. appendUtf8(cp) = s
    BY <1>3 DEF appendUtf8
  <2>2. /\ a \in Nat /\ 224 <= a /\ a < 240 /\ b \in Nat /\ 128 <= b /\ b < 192
        /\ c \in Nat /\ 128 <= c /\ c < 192
        /\ 4096 * (a % 16) + 64 * (b % 64) + (c % 64) = cp
    BY <1>0, ThreeBytes
  <2>3. s[1] = a /\ s[2] = b /\ s[3] = c /\ Len(s) = 3
    OBVIOUS
  <2> HIDE DEF a, b, c, s
  <2>4. SequenceLength(s[1]) = 3
    <3>1. a \in 224..239
      BY <2>2
    <3> QED
      BY <2>3, <3>1, LeadOfThree
  <2>5. \A j \in 2..3 : s[j] \in 128..191
    <3> TAKE j \in 2..3
    <3>1. j = 2 \/ j = 3
      OBVIOUS
    <3> QED
      BY <2>2, <2>3, <3>1
  <2>6. SequenceValue(s) = cp
    BY <2>2, <2>3 DEF SequenceValue
  <2>7. s[1] # Backslash
    BY <2>2, <2>3 DEF Backslash
  <2>8. decodeCharValue(s) = Decoded(cp, Len(s) + 1)
    BY <2>3, <2>4, <2>5, <2>6, <2>7 DEF decodeCharValue
  <2> QED
    BY <2>1, <2>8 DEF ReadsBack
<1> QED
  BY <1>1, <1>2, <1>3

\* What decodeCharValue returns for one text: a code point, or a fault.
Read(body, result) ==
  \/ \E cp \in Units :
       /\ result.fault = NoFault /\ result.cp = cp
       /\ body[1] # Backslash => cp = body[1]
       /\ body[1] = Backslash => ~ Broken(body, 1) /\ appendUtf8(cp) = Content(body)
  \/ result.fault # NoFault /\ body[1] = Backslash /\ Broken(body, 1)

LEMMA ByteRead ==
  ASSUME NEW body, IsCharBody(body), body[1] # Backslash
  PROVE  Read(body, decodeCharValue(body))
<1>1. Len(body) = 1 /\ body \in Seq(Byte)
  BY DEF IsCharBody
<1>2. body[1] \in Units
  <2>1. body[1] \in Byte
    BY <1>1
  <2> QED
    BY <2>1, Bytes DEF Units
<1>3. decodeCharValue(body) = Decoded(body[1], 2)
  BY <1>1 DEF decodeCharValue
<1> QED
  BY <1>2, <1>3, Results DEF Read

LEMMA EscapeRead ==
  ASSUME NEW body, IsCharBody(body), body[1] = Backslash
  PROVE  Read(body, decodeCharValue(body))
<1>1. /\ body \in Seq(Byte) /\ Len(body) \in Nat /\ 1 \in DOMAIN body /\ 1 < Len(body)
      /\ Len(body) = 2 \/ (Len(body) = 6 /\ body[2] = 117)
  BY DEF IsCharBody
<1>2. 1 \in Escapes(body)
  BY <1>1, OpenBehind, EscapesAre
<1> DEFINE decoded == decodeEscape(body, 1)
<1>3. decodeCharValue(body) =
        IF decoded.fault = NoFault /\ decoded.next # Len(body) + 1 THEN InvalidChar ELSE decoded
  BY DEF decodeCharValue
<1> HIDE DEF decoded
<1>4. CASE Broken(body, 1)
  <2>1. decoded.fault # NoFault
    BY <1>1, <1>4, RefusesBroken, Messages DEF decoded
  <2> QED
    BY <1>3, <1>4, <2>1 DEF Read
<1>5. CASE ~ Broken(body, 1)
  <2>1. PICK cp \in Units : Means(body, 1, cp)
    BY <1>1, <1>5, DecodesWhole
  <2>2. /\ decoded.fault = NoFault /\ decoded.cp = cp /\ decoded.next = EndOf(body, 1) + 1
        /\ appendUtf8(cp) = Meaning(body, 1)
    BY <2>1, Results DEF Means, decoded
  <2>3. EndOf(body, 1) = Len(body)
    <3>1. CASE UnicodeAt(body, 1)
      <4>1. 1 + 5 <= Len(body)
        BY <3>1, <1>1, UnicodeBytes
      <4>2. EndOf(body, 1) = 6
        BY <3>1 DEF EndOf
      <4>3. Len(body) = 6
        <5>1. Len(body) # 2
          <6> DEFINE n == Len(body)
          <6>1. n \in Nat /\ 1 + 5 <= n
            BY <1>1, <4>1
          <6> HIDE DEF n
          <6>2. n # 2
            BY <6>1
          <6> QED
            BY <6>2 DEF n
        <5> QED
          BY <1>1, <5>1, Zenon
      <4> QED
        BY <4>2, <4>3
    <3>2. CASE ~ UnicodeAt(body, 1)
      <4>1. body[2] # 117
        BY <1>5, <3>2, HexDigits DEF Broken, SimpleAt
      <4> QED
        BY <1>1, <3>2, <4>1 DEF EndOf
    <3> QED
      BY <3>1, <3>2
  <2>4. Content(body) = Meaning(body, 1)
    <3>0. Scanned(body, 1, << >>)
      BY <1>1, ScanBegins
    <3>1. Scanned(body, EndOf(body, 1) + 1, << >> \o Meaning(body, 1))
      BY <1>1, <1>2, <1>5, <3>0, ScanDecodes, ZenonT(40)
    <3>2. << >> \o Meaning(body, 1) = Contents(body)[(Len(body) + 1) - 1]
      BY <2>3, <3>1 DEF Scanned
    <3>3. (Len(body) + 1) - 1 = Len(body)
      BY <1>1
    <3>4. Meaning(body, 1) \in Seq(Byte)
      BY <2>2, Utf8Bytes
    <3>5. << >> \o Meaning(body, 1) = Meaning(body, 1)
      <4> HIDE DEF Byte
      <4> QED
        BY <3>4
    <3> QED
      BY <3>2, <3>3, <3>5 DEF Content
  <2> QED
    BY <1>3, <1>5, <2>2, <2>3, <2>4 DEF Read
<1> QED
  BY <1>4, <1>5

\* A visited character literal holds what was read, and a fault is reported.
CharInv ==
  /\ token \in Tokens
  /\ Visited("CHAR_LITERAL") =>
       \/ value = Default /\ Len(reports) = 1 /\ token.text[1] = Backslash /\ Broken(token.text, 1)
       \/ \E cp \in Units :
            /\ value = << "decoded", cp >>
            /\ token.text[1] # Backslash => cp = token.text[1]
            /\ token.text[1] = Backslash =>
                 ~ Broken(token.text, 1) /\ appendUtf8(cp) = Content(token.text)

LEMMA CharInvInit == Init => CharInv
  BY DEF Init, CharInv, Visited

LEMMA CharInvNext == CharInv /\ [Next]_vars => CharInv'
<1> SUFFICES ASSUME CharInv, [Next]_vars PROVE CharInv'
  OBVIOUS
<1>0. token \in Tokens
  BY DEF CharInv
<1>1. CASE VisitChar
  <2> DEFINE body == token.text
             decoded == decodeCharValue(body)
  <2>1. /\ token.kind = "CHAR_LITERAL" /\ token' = token
        /\ decoded.fault # NoFault => value' = Default /\ reports' = << decoded.fault >>
        /\ decoded.fault = NoFault => value' = << "decoded", decoded.cp >>
    BY <1>1 DEF VisitChar, Visiting, Finish
  <2>2. IsCharBody(body)
    <3>1. body \in CharBodies
      BY <1>0, <2>1 DEF Tokens
    <3> QED
      BY <3>1, TokensAssumption
  <2>3. Read(body, decoded)
    BY <2>2, ByteRead, EscapeRead
  <2>4. \A m : Len(<< m >>) = 1
    OBVIOUS
  <2> HIDE DEF decoded, body
  <2>5. CASE decoded.fault # NoFault
    <3>1. body[1] = Backslash /\ Broken(body, 1)
      BY <2>3, <2>5 DEF Read
    <3>2. value' = Default /\ Len(reports') = 1
      BY <2>1, <2>4, <2>5
    <3> QED
      BY <1>0, <2>1, <3>1, <3>2 DEF CharInv, body
  <2>6. CASE decoded.fault = NoFault
    <3>1. PICK cp \in Units :
            /\ decoded.cp = cp
            /\ body[1] # Backslash => cp = body[1]
            /\ body[1] = Backslash => ~ Broken(body, 1) /\ appendUtf8(cp) = Content(body)
      BY <2>3, <2>6 DEF Read
    <3>2. value' = << "decoded", cp >>
      BY <2>1, <2>6, <3>1
    <3> QED
      BY <1>0, <2>1, <3>1, <3>2 DEF CharInv, body
  <2> QED
    BY <2>5, <2>6
<1>2. CASE token.kind # "CHAR_LITERAL" /\ token' = token
  BY <1>0, <1>2 DEF CharInv, Visited
<1>3. CASE CopyByte \/ DecodeEscape \/ EndString
  <2>1. token.kind # "CHAR_LITERAL" /\ token' = token
    BY <1>3 DEF CopyByte, DecodeEscape, EndString, Visiting, Finish
  <2> QED
    BY <1>2, <2>1
<1>4. CASE VisitInteger
  <2>1. token.kind # "CHAR_LITERAL" /\ token' = token
    BY <1>4 DEF VisitInteger, Visiting, Finish
  <2> QED
    BY <1>2, <2>1
<1>5. CASE VisitFloat
  <2>1. token.kind # "CHAR_LITERAL" /\ token' = token
    BY <1>5 DEF VisitFloat, Visiting, Finish, convertFloatString
  <2> QED
    BY <1>2, <2>1
<1>6. CASE Done \/ UNCHANGED vars
  BY <1>6 DEF Done, vars, CharInv, Visited
<1> QED
  BY <1>1, <1>3, <1>4, <1>5, <1>6 DEF Next

\* Theorem CharAgreesHolds: a character literal with an escape holds the code
\* point the same escape gives a string, and a broken escape is reported
\* (decodeCharValue beside decodeStringBody), for every character literal.
THEOREM CharAgreesHolds == Spec => []CharAgreesWithString
<1>1. CharInv => CharAgreesWithString
  <2> SUFFICES ASSUME CharInv, Visited("CHAR_LITERAL")
               PROVE  IF token.text[1] # Backslash THEN value = << "decoded", token.text[1] >>
                      ELSE IF SimpleAt(token.text, 1) \/ UnicodeAt(token.text, 1)
                      THEN value[1] = "decoded" /\ appendUtf8(value[2]) = Content(token.text)
                      ELSE value = Default /\ Len(reports) = 1
    BY DEF CharAgreesWithString
  <2>1. \A cp : << "decoded", cp >>[1] = "decoded" /\ << "decoded", cp >>[2] = cp
    OBVIOUS
  <2> QED
    BY <2>1 DEF CharInv, Broken
<1> QED
  BY <1>1, CharInvInit, CharInvNext, PTL DEF Spec

\* Theorem CharReadsBackHolds: whatever a character literal holds, the bytes
\* appendUtf8 makes of it are read as it by decodeCharValue, for every
\* character literal.
THEOREM CharReadsBackHolds == Spec => []CharReadsBack
<1>1. CharInv => CharReadsBack
  <2> SUFFICES ASSUME CharInv, Visited("CHAR_LITERAL"), value[1] = "decoded",
                      value[2] # Backslash
               PROVE  ReadsBack(value[2])
    BY DEF CharReadsBack
  <2>1. Default[1] # "decoded" /\ \A cp : << "decoded", cp >>[2] = cp
    BY DEF Default
  <2>2. value[2] \in Units
    BY <2>1 DEF CharInv
  <2> QED
    BY <2>2, EveryUnitReadsBack
<1> QED
  BY <1>1, CharInvInit, CharInvNext, PTL DEF Spec

-----------------------------------------------------------------------------
(* The dump of a string.                                                   *)

LEMMA DumpRec ==
  ASSUME NEW v \in Seq(Byte)
  PROVE  /\ dumpPrefixes(v)[0] = << >>
         /\ \A i \in 1..Len(v) :
              dumpPrefixes(v)[i] = dumpPrefixes(v)[i - 1] \o dumpByte(v[i])
<1> DEFINE n == Len(v)
           R(f) == f = [i \in 0..n |-> IF i = 0 THEN << >> ELSE f[i - 1] \o dumpByte(v[i])]
           g == [i \in 1..n |-> dumpByte(v[i])]
           u == CHOOSE f : R(f)
<1>0. n \in Nat
  OBVIOUS
<1>1. PICK f : Joins(f, n, g)
  BY <1>0, JoinsExist
<1>2. R(f)
  <2>1. \A i \in 0..n : f[i] = IF i = 0 THEN << >> ELSE f[i - 1] \o dumpByte(v[i])
    <3>1. \A i \in 0..n : f[i] = IF i = 0 THEN << >> ELSE f[i - 1] \o g[i]
      BY <1>1 DEF Joins
    <3>2. \A i \in 0..n : i # 0 => g[i] = dumpByte(v[i])
      BY <1>0
    <3> HIDE DEF n, g
    <3> QED
      BY <3>1, <3>2
  <2>2. f = [i \in 0..n |-> f[i]]
    BY <1>1 DEF Joins
  <2> QED
    BY <2>1, <2>2
<1>3. R(u)
  BY <1>2
<1>4. dumpPrefixes(v) = u
  BY DEF dumpPrefixes
<1> HIDE DEF u
<1>5. \A i \in 0..n : u[i] = IF i = 0 THEN << >> ELSE u[i - 1] \o dumpByte(v[i])
  BY <1>3
<1>6. u[0] = << >>
  BY <1>0, <1>5
<1>7. \A i \in 1..n : u[i] = u[i - 1] \o dumpByte(v[i])
  <2> TAKE i \in 1..n
  <2>1. i \in 0..n /\ i # 0
    BY <1>0
  <2> HIDE DEF n
  <2> QED
    BY <1>5, <2>1, Zenon
<1> QED
  BY <1>4, <1>6, <1>7

\* What is read from place i on, given what f says of the places behind it.
ReadAt(f, s, i) ==
  IF i > Len(s) THEN << >>
  ELSE IF s[i] # Backslash THEN << s[i] >> \o f[i + 1]
  ELSE IF i = Len(s) THEN << -1 >>
  ELSE IF s[i + 1] = Backslash THEN << Backslash >> \o f[i + 2]
  ELSE IF s[i + 1] \in {110, 114, 116} THEN << SimpleEscape[s[i + 1]] >> \o f[i + 2]
  ELSE IF s[i + 1] = 120 /\ i + 3 <= Len(s)
  THEN << 16 * HexDigit[s[i + 2]] + HexDigit[s[i + 3]] >> \o f[i + 4]
  ELSE << -1 >>

Reads(f, s, k) == f = [i \in k..(Len(s) + 4) |-> ReadAt(f, s, i)]

LEMMA ReadAtLocal ==
  ASSUME NEW f, NEW h, NEW s, NEW i, f[i + 1] = h[i + 1], f[i + 2] = h[i + 2], f[i + 4] = h[i + 4]
  PROVE  ReadAt(f, s, i) = ReadAt(h, s, i)
  BY DEF ReadAt

LEMMA ReadAtEnd ==
  ASSUME NEW f, NEW h, NEW s, NEW i, i > Len(s)
  PROVE  ReadAt(f, s, i) = ReadAt(h, s, i)
  BY DEF ReadAt

LEMMA ReadsExist ==
  ASSUME NEW s, Len(s) \in Nat
  PROVE  \E f : Reads(f, s, 1)
<1> DEFINE n == Len(s) + 4
           T == {m \in 0..n : ~ \E f : Reads(f, s, n + 1 - m)}
<1>0. n \in Nat /\ n > Len(s)
  OBVIOUS
<1>1. T = {}
  <2> SUFFICES ASSUME T # {} PROVE FALSE
    OBVIOUS
  <2>1. T \subseteq Nat
    BY <1>0
  <2> HIDE DEF T
  <2>2. PICK m \in T : \A k \in T : m <= k
    BY <2>1, Least
  <2>3. m \in 0..n /\ ~ \E f : Reads(f, s, n + 1 - m)
    BY DEF T
  <2>4. CASE m = 0
    <3>1. Reads([i \in (n + 1)..n |-> << >>], s, n + 1)
      <4>1. \A i \in (n + 1)..n : FALSE
        BY <1>0
      <4> QED
        BY <4>1 DEF Reads
    <3>2. n + 1 - m = n + 1
      BY <1>0, <2>4
    <3> QED
      BY <2>3, <3>1, <3>2
  <2>5. CASE m # 0
    <3> DEFINE k == n + 1 - m
    <3>1. /\ m - 1 \in 0..n /\ m - 1 < m /\ n + 1 - (m - 1) = k + 1
          /\ k \in Nat /\ k <= n /\ m - 1 \in Nat /\ m \in Nat
      BY <1>0, <2>3, <2>5
    <3>2. m - 1 \notin T
      BY <2>2, <3>1
    <3>3. PICK f : Reads(f, s, k + 1)
      BY <3>1, <3>2 DEF T
    <3> DEFINE h == [i \in k..n |-> IF i = k THEN ReadAt(f, s, k) ELSE f[i]]
    <3> HIDE DEF k
    <3>4. \A i \in (k + 1)..n : f[i] = ReadAt(f, s, i)
      BY <3>3 DEF Reads
    <3>5. \A i \in (k + 1)..n : h[i] = f[i]
      BY <1>0, <3>1
    <3>6. h[k] = ReadAt(f, s, k)
      BY <1>0, <3>1
    <3> HIDE DEF h
    <3>7. \A i \in k..n : ReadAt(f, s, i) = ReadAt(h, s, i)
      <4> TAKE i \in k..n
      <4>1. CASE i > Len(s)
        BY <4>1, ReadAtEnd
      <4>2. CASE ~ (i > Len(s))
        <5>1. i + 1 \in (k + 1)..n /\ i + 2 \in (k + 1)..n /\ i + 4 \in (k + 1)..n
          BY <1>0, <3>1, <4>2
        <5>2. f[i + 1] = h[i + 1] /\ f[i + 2] = h[i + 2] /\ f[i + 4] = h[i + 4]
          BY <3>5, <5>1
        <5> QED
          BY <5>2, ReadAtLocal
      <4> QED
        BY <4>1, <4>2
    <3>8. \A i \in k..n : h[i] = ReadAt(h, s, i)
      <4> TAKE i \in k..n
      <4>1. i = k \/ i \in (k + 1)..n
        BY <1>0, <3>1
      <4>2. h[i] = ReadAt(f, s, i)
        BY <3>4, <3>5, <3>6, <4>1
      <4> QED
        BY <3>7, <4>2
    <3>9. h = [i \in k..n |-> h[i]]
      BY DEF h
    <3>10. Reads(h, s, k)
      BY <3>8, <3>9 DEF Reads
    <3> QED
      BY <2>3, <3>10 DEF k
  <2> QED
    BY <2>4, <2>5
<1>2. n \in 0..n /\ n + 1 - n = 1
  BY <1>0
<1> HIDE DEF n
<1>3. n \notin T
  BY <1>1
<1> QED
  BY <1>2, <1>3

LEMMA ReadRec ==
  ASSUME NEW s, Len(s) \in Nat
  PROVE  \A i \in 1..(Len(s) + 4) : ReadFrom(s)[i] = ReadAt(ReadFrom(s), s, i)
<1> DEFINE u == CHOOSE f : Reads(f, s, 1)
<1>1. Reads(u, s, 1)
  BY ReadsExist
<1>2. ReadFrom(s) = u
  BY DEF ReadFrom, Reads, ReadAt
<1> HIDE DEF u
<1>3. \A i \in 1..(Len(s) + 4) : u[i] = ReadAt(u, s, i)
  BY <1>1 DEF Reads
<1> QED
  BY <1>2, <1>3

LEMMA HexChars ==
  ASSUME NEW n \in 0..15
  PROVE  HexDigit[HexChar(n)] = n /\ HexChar(n) \in Nat /\ HexChar(n) > 47 /\ HexChar(n) < 103
<1>1. CASE n < 10
  <2>1. HexChar(n) = 48 + n /\ 48 + n \in 48..57
    BY <1>1 DEF HexChar
  <2>2. HexDigit[48 + n] = (48 + n) - 48
    BY <2>1 DEF HexDigit
  <2> QED
    BY <2>1, <2>2
<1>2. CASE ~ (n < 10)
  <2>1. HexChar(n) = 87 + n /\ 87 + n \in 97..102
    BY <1>2 DEF HexChar
  <2>2. HexDigit[87 + n] = (87 + n) - 87
    BY <2>1 DEF HexDigit
  <2> QED
    BY <2>1, <2>2
<1> QED
  BY <1>1, <1>2

\* The four ways a byte is written.
Shown(b, d) ==
  \/ d = << b >> /\ b # Backslash /\ b >= 32 /\ b # 127
  \/ d = << Backslash, Backslash >> /\ b = Backslash
  \/ \E x \in {110, 114, 116} : d = << Backslash, x >> /\ SimpleEscape[x] = b
  \/ \E x, y \in Nat : /\ x > 47 /\ x < 103 /\ y > 47 /\ y < 103
                       /\ d = << Backslash, 120, x, y >> /\ 16 * HexDigit[x] + HexDigit[y] = b

LEMMA ByteShown ==
  ASSUME NEW b \in Byte
  PROVE  Shown(b, dumpByte(b))
<1>0. b \in Nat /\ b < 256
  BY Bytes
<1>1. CASE b = Backslash
  <2>1. dumpByte(b) = << Backslash, Backslash >>
    BY <1>1 DEF dumpByte, Backslash
  <2> QED
    BY <1>1, <2>1 DEF Shown
<1>2. CASE b = 10 \/ b = 13 \/ b = 9
  <2>1. SimpleEscape[110] = 10 /\ SimpleEscape[114] = 13 /\ SimpleEscape[116] = 9
    BY DEF SimpleEscape
  <2>2. b # Backslash
    BY <1>2 DEF Backslash
  <2>3. CASE b = 10
    <3>1. dumpByte(b) = << Backslash, 110 >>
      BY <2>2, <2>3 DEF dumpByte
    <3> QED
      BY <2>1, <2>3, <3>1 DEF Shown
  <2>4. CASE b = 13
    <3>1. dumpByte(b) = << Backslash, 114 >>
      BY <2>2, <2>4 DEF dumpByte
    <3> QED
      BY <2>1, <2>4, <3>1 DEF Shown
  <2>5. CASE b = 9
    <3>1. dumpByte(b) = << Backslash, 116 >>
      BY <2>2, <2>5 DEF dumpByte
    <3> QED
      BY <2>1, <2>5, <3>1 DEF Shown
  <2> QED
    BY <1>2, <2>3, <2>4, <2>5
<1>3. CASE b \in ((0..31) \ {9, 10, 13}) \cup {127}
  <2> DEFINE x == HexChar(b \div 16)
             y == HexChar(b % 16)
  <2>1. dumpByte(b) = << Backslash, 120, x, y >>
    BY <1>3 DEF dumpByte, Backslash
  <2>2. b \div 16 \in 0..15 /\ b % 16 \in 0..15 /\ 16 * (b \div 16) + (b % 16) = b
    BY <1>0
  <2>3. /\ HexDigit[x] = b \div 16 /\ x \in Nat /\ x > 47 /\ x < 103
        /\ HexDigit[y] = b % 16 /\ y \in Nat /\ y > 47 /\ y < 103
    BY <2>2, HexChars
  <2> HIDE DEF x, y
  <2>4. 16 * HexDigit[x] + HexDigit[y] = b
    BY <2>2, <2>3
  <2> QED
    BY <2>1, <2>3, <2>4 DEF Shown
<1>4. CASE b # Backslash /\ b # 10 /\ b # 13 /\ b # 9 /\ b \notin ((0..31) \ {9, 10, 13}) \cup {127}
  <2>1. dumpByte(b) = << b >>
    BY <1>4 DEF dumpByte
  <2>2. b >= 32 /\ b # 127
    BY <1>0, <1>4
  <2> QED
    BY <1>4, <2>1, <2>2 DEF Shown
<1> QED
  BY <1>1, <1>2, <1>3, <1>4 DEF Backslash

\* A word d stands in s at p.
StandsAt(d, s, p) ==
  /\ p + Len(d) - 1 <= Len(s)
  /\ \A j \in 1..Len(d) : s[p + j - 1] = d[j]

LEMMA ByteReads ==
  ASSUME NEW b \in Byte, NEW d, Shown(b, d), NEW s, Len(s) \in Nat, NEW p \in Nat \ {0},
         StandsAt(d, s, p), NEW f
  PROVE  ReadAt(f, s, p) = << b >> \o f[p + Len(d)]
<1>0. Backslash = 92
  BY DEF Backslash
<1>1. CASE d = << b >> /\ b # Backslash
  <2>1. Len(d) = 1 /\ d[1] = b /\ p + 1 - 1 = p
    BY <1>1
  <2>2. s[p] = b /\ ~ (p > Len(s))
    BY <2>1 DEF StandsAt
  <2> QED
    BY <1>1, <2>1, <2>2 DEF ReadAt
<1>2. CASE d = << Backslash, Backslash >> /\ b = Backslash
  <2>1. Len(d) = 2 /\ d[1] = Backslash /\ d[2] = Backslash /\ p + 1 - 1 = p /\ p + 2 - 1 = p + 1
    BY <1>2
  <2>2. s[p] = Backslash /\ s[p + 1] = Backslash /\ ~ (p > Len(s)) /\ p # Len(s)
    BY <2>1 DEF StandsAt
  <2> QED
    BY <1>2, <2>1, <2>2 DEF ReadAt
<1>3. ASSUME NEW x \in {110, 114, 116}, d = << Backslash, x >>, SimpleEscape[x] = b
      PROVE  ReadAt(f, s, p) = << b >> \o f[p + Len(d)]
  <2>1. Len(d) = 2 /\ d[1] = Backslash /\ d[2] = x /\ p + 1 - 1 = p /\ p + 2 - 1 = p + 1
    BY <1>3
  <2>2. s[p] = Backslash /\ s[p + 1] = x /\ ~ (p > Len(s)) /\ p # Len(s)
    BY <2>1 DEF StandsAt
  <2>3. x # Backslash
    BY <1>0
  <2> QED
    BY <1>3, <2>1, <2>2, <2>3 DEF ReadAt
<1>4. ASSUME NEW x \in Nat, NEW y \in Nat, d = << Backslash, 120, x, y >>,
             16 * HexDigit[x] + HexDigit[y] = b
      PROVE  ReadAt(f, s, p) = << b >> \o f[p + Len(d)]
  <2>1. /\ Len(d) = 4 /\ d[1] = Backslash /\ d[2] = 120 /\ d[3] = x /\ d[4] = y
        /\ p + 1 - 1 = p /\ p + 2 - 1 = p + 1 /\ p + 3 - 1 = p + 2 /\ p + 4 - 1 = p + 3
    BY <1>4
  <2>2. /\ s[p] = Backslash /\ s[p + 1] = 120 /\ s[p + 2] = x /\ s[p + 3] = y
        /\ ~ (p > Len(s)) /\ p # Len(s) /\ p + 3 <= Len(s)
    BY <2>1 DEF StandsAt
  <2>3. s[p + 1] # Backslash /\ s[p + 1] \notin {110, 114, 116}
    BY <1>0, <2>2
  <2>4. ReadAt(f, s, p) = << 16 * HexDigit[s[p + 2]] + HexDigit[s[p + 3]] >> \o f[p + 4]
    BY <2>2, <2>3, Zenon DEF ReadAt
  <2> QED
    BY <1>4, <2>1, <2>2, <2>4
<1> QED
  BY <1>1, <1>2, <1>3, <1>4 DEF Shown

\* One line of printable bytes.
Printable(s) == s \in Seq(Nat) /\ \A i \in DOMAIN s : s[i] >= 32 /\ s[i] # 127

LEMMA BytePrintable ==
  ASSUME NEW b \in Byte, NEW d, Shown(b, d)
  PROVE  Printable(d) /\ Len(d) \in Nat
<1>0. b \in Nat /\ Backslash = 92
  BY Bytes DEF Backslash
<1>1. CASE d = << b >> /\ b >= 32 /\ b # 127
  BY <1>0, <1>1 DEF Printable
<1>2. CASE d = << Backslash, Backslash >>
  BY <1>0, <1>2 DEF Printable
<1>3. ASSUME NEW x \in {110, 114, 116}, d = << Backslash, x >> PROVE Printable(d) /\ Len(d) \in Nat
  BY <1>0, <1>3 DEF Printable
<1>4. ASSUME NEW x \in Nat, NEW y \in Nat, x > 47, x < 103, y > 47, y < 103,
             d = << Backslash, 120, x, y >>
      PROVE  Printable(d) /\ Len(d) \in Nat
  <2>1. d \in Seq(Nat) /\ Len(d) = 4
    BY <1>0, <1>4
  <2>2. d[1] = 92 /\ d[2] = 120 /\ d[3] = x /\ d[4] = y
    BY <1>0, <1>4
  <2>3. \A i \in DOMAIN d : i = 1 \/ i = 2 \/ i = 3 \/ i = 4
    BY <2>1
  <2> QED
    BY <1>4, <2>1, <2>2, <2>3 DEF Printable
<1> QED
  BY <1>1, <1>2, <1>3, <1>4 DEF Shown

LEMMA JoinedParts ==
  ASSUME NEW s \in Seq(Nat), NEW d \in Seq(Nat)
  PROVE  /\ s \o d \in Seq(Nat) /\ Len(s \o d) = Len(s) + Len(d)
         /\ \A i \in 1..Len(s) : (s \o d)[i] = s[i]
         /\ \A j \in 1..Len(d) : (s \o d)[Len(s) + j] = d[j]
         /\ Len(s) \in Nat /\ Len(d) \in Nat
  OBVIOUS

LEMMA JoinedPrintable ==
  ASSUME NEW s, NEW d, Printable(s), Printable(d)
  PROVE  Printable(s \o d)
<1>1. s \in Seq(Nat) /\ d \in Seq(Nat)
  BY DEF Printable
<1>2. /\ s \o d \in Seq(Nat) /\ Len(s \o d) = Len(s) + Len(d) /\ Len(s) \in Nat /\ Len(d) \in Nat
      /\ \A i \in 1..Len(s) : (s \o d)[i] = s[i]
      /\ \A j \in 1..Len(d) : (s \o d)[Len(s) + j] = d[j]
  BY <1>1, JoinedParts
<1>3. ASSUME NEW i \in DOMAIN (s \o d) PROVE (s \o d)[i] >= 32 /\ (s \o d)[i] # 127
  <2>1. i \in 1..(Len(s) + Len(d))
    BY <1>2
  <2>2. CASE i \in 1..Len(s)
    BY <1>1, <1>2, <2>2 DEF Printable
  <2>3. CASE i \notin 1..Len(s)
    <3>1. i - Len(s) \in 1..Len(d) /\ Len(s) + (i - Len(s)) = i
      BY <1>2, <2>1, <2>3
    <3>2. (s \o d)[i] = d[i - Len(s)]
      BY <1>2, <3>1
    <3> QED
      BY <1>1, <3>1, <3>2 DEF Printable
  <2> QED
    BY <2>2, <2>3
<1> QED
  BY <1>2, <1>3 DEF Printable

LEMMA PrefixesPrintable ==
  ASSUME NEW v \in Seq(Byte)
  PROVE  \A k \in 0..Len(v) : Printable(dumpPrefixes(v)[k])
<1> DEFINE u == dumpPrefixes(v)
           T == {k \in 0..Len(v) : ~ Printable(u[k])}
<1>0. Len(v) \in Nat /\ \A k \in 1..Len(v) : v[k] \in Byte
  BY SMT
<1>1. u[0] = << >> /\ \A k \in 1..Len(v) : u[k] = u[k - 1] \o dumpByte(v[k])
  BY DumpRec
<1> HIDE DEF u
<1>2. T = {}
  <2> SUFFICES ASSUME T # {} PROVE FALSE
    OBVIOUS
  <2>1. T \subseteq Nat
    BY <1>0
  <2> HIDE DEF T
  <2>2. PICK k \in T : \A m \in T : k <= m
    BY <2>1, Least
  <2>3. k \in 0..Len(v) /\ ~ Printable(u[k])
    BY DEF T
  <2>4. CASE k = 0
    <3>1. Printable(<< >>)
      BY DEF Printable
    <3> QED
      BY <1>1, <2>3, <2>4, <3>1
  <2>5. CASE k # 0
    <3>1. k \in 1..Len(v) /\ k - 1 \in 0..Len(v) /\ k - 1 < k /\ k \in Nat
      BY <1>0, <2>3, <2>5
    <3>2. k - 1 \notin T
      BY <2>2, <3>1
    <3>3. Printable(u[k - 1])
      BY <3>1, <3>2 DEF T
    <3>4. Shown(v[k], dumpByte(v[k]))
      BY <1>0, <3>1, ByteShown
    <3>5. Printable(dumpByte(v[k]))
      BY <1>0, <3>1, <3>4, BytePrintable
    <3>6. Printable(u[k])
      BY <1>1, <3>1, <3>3, <3>5, JoinedPrintable
    <3> QED
      BY <2>3, <3>6
  <2> QED
    BY <2>4, <2>5
<1> QED
  BY <1>2 DEF u

LEMMA SuffixGrows ==
  ASSUME NEW S, NEW v \in Seq(S), NEW k \in 1..Len(v)
  PROVE  << v[k] >> \o SubSeq(v, k + 1, Len(v)) = SubSeq(v, k, Len(v))
  OBVIOUS

\* Behind the dump of the first k bytes the reader reads the others.
ReadsRest(v, k) ==
  LET s == dumpString(v)
      d == dumpPrefixes(v)[k]
  IN  /\ StandsAt(d, s, 1)
      /\ ReadFrom(s)[Len(d) + 1] = SubSeq(v, k + 1, Len(v))

LEMMA ReadsNothing ==
  ASSUME NEW v \in Seq(Byte)
  PROVE  ReadsRest(v, Len(v))
<1> DEFINE s == dumpString(v)
<1>1. s = dumpPrefixes(v)[Len(v)]
  BY DEF dumpString
<1>2. s \in Seq(Nat) /\ Len(s) \in Nat
  <2>1. Len(v) \in 0..Len(v)
    BY SMT
  <2>2. Printable(s)
    BY <1>1, <2>1, PrefixesPrintable
  <2> HIDE DEF s
  <2> QED
    BY <2>2 DEF Printable
<1> HIDE DEF s
<1>3. StandsAt(s, s, 1)
  BY <1>2 DEF StandsAt
<1>4. ReadFrom(s)[Len(s) + 1] = << >>
  <2>1. Len(s) + 1 \in 1..(Len(s) + 4) /\ Len(s) + 1 > Len(s)
    BY <1>2
  <2>2. ReadFrom(s)[Len(s) + 1] = ReadAt(ReadFrom(s), s, Len(s) + 1)
    BY <1>2, <2>1, ReadRec
  <2> QED
    BY <2>1, <2>2 DEF ReadAt
<1>5. SubSeq(v, Len(v) + 1, Len(v)) = << >>
  <2> HIDE DEF Byte
  <2> QED
    BY SMT
<1> QED
  BY <1>1, <1>3, <1>4, <1>5 DEF ReadsRest, s

LEMMA ReadsOneMore ==
  ASSUME NEW v \in Seq(Byte), NEW k \in 1..Len(v), ReadsRest(v, k)
  PROVE  ReadsRest(v, k - 1)
<1> DEFINE s == dumpString(v)
           old == dumpPrefixes(v)[k]
           new == dumpPrefixes(v)[k - 1]
           b == v[k]
           d == dumpByte(b)
           p == Len(new) + 1
<1>0. Len(v) \in Nat /\ k \in Nat /\ k - 1 \in 0..Len(v) /\ k \in 0..Len(v) /\ Len(v) \in 0..Len(v)
  BY SMT
<1>1. b \in Byte
  BY SMT
<1>2. old = new \o d
  BY DumpRec
<1>3. Shown(b, d)
  BY <1>1, ByteShown
<1>4. d \in Seq(Nat)
  BY <1>1, <1>3, BytePrintable DEF Printable
<1>5. new \in Seq(Nat)
  BY <1>0, PrefixesPrintable DEF Printable
<1>6. Len(s) \in Nat
  <2>1. Printable(s)
    BY <1>0, PrefixesPrintable DEF dumpString
  <2> HIDE DEF s
  <2> QED
    BY <2>1 DEF Printable
<1>7. StandsAt(old, s, 1) /\ ReadFrom(s)[Len(old) + 1] = SubSeq(v, k + 1, Len(v))
  BY DEF ReadsRest
<1>8. << b >> \o SubSeq(v, k + 1, Len(v)) = SubSeq(v, k, Len(v))
  <2> HIDE DEF Byte
  <2> QED
    BY SuffixGrows
<1>9. (k - 1) + 1 = k
  BY <1>0
<1> HIDE DEF s, old, new, b, d
<1>10. /\ Len(old) = Len(new) + Len(d) /\ Len(new) \in Nat /\ Len(d) \in Nat
       /\ \A i \in 1..Len(new) : old[i] = new[i]
       /\ \A j \in 1..Len(d) : old[Len(new) + j] = d[j]
  BY <1>2, <1>4, <1>5, JoinedParts
<1>11. /\ Len(old) <= Len(s)
       /\ \A i \in 1..Len(old) : s[i] = old[i]
  <2>1. 1 + Len(old) - 1 = Len(old) /\ \A i \in 1..Len(old) : 1 + i - 1 = i
    BY <1>10
  <2> QED
    BY <1>7, <2>1 DEF StandsAt
<1>12. StandsAt(new, s, 1)
  <2>1. 1 + Len(new) - 1 <= Len(s)
    BY <1>6, <1>10, <1>11
  <2>2. \A i \in 1..Len(new) : i \in 1..Len(old) /\ 1 + i - 1 = i
    BY <1>10
  <2>3. \A i \in 1..Len(new) : s[1 + i - 1] = new[i]
    BY <1>10, <1>11, <2>2
  <2> QED
    BY <2>1, <2>3 DEF StandsAt
<1>13. StandsAt(d, s, p)
  <2>1. p + Len(d) - 1 <= Len(s)
    BY <1>6, <1>10, <1>11
  <2>2. \A j \in 1..Len(d) : Len(new) + j \in 1..Len(old) /\ p + j - 1 = Len(new) + j
    BY <1>10
  <2>3. \A j \in 1..Len(d) : s[p + j - 1] = d[j]
    BY <1>10, <1>11, <2>2
  <2> QED
    BY <2>1, <2>3 DEF StandsAt
<1>14. p \in Nat \ {0} /\ p \in 1..(Len(s) + 4) /\ p + Len(d) = Len(old) + 1
  BY <1>6, <1>10, <1>11
<1> HIDE DEF p
<1>15. ReadFrom(s)[p] = << b >> \o ReadFrom(s)[p + Len(d)]
  <2>1. ReadFrom(s)[p] = ReadAt(ReadFrom(s), s, p)
    BY <1>6, <1>14, ReadRec
  <2>2. ReadAt(ReadFrom(s), s, p) = << b >> \o ReadFrom(s)[p + Len(d)]
    BY <1>1, <1>3, <1>6, <1>13, <1>14, ByteReads
  <2> QED
    BY <2>1, <2>2
<1>16. ReadFrom(s)[p] = SubSeq(v, k, Len(v))
  BY <1>7, <1>8, <1>14, <1>15
<1> QED
  BY <1>9, <1>12, <1>16 DEF ReadsRest, s, new, p

\* Every value reads back from its dump.
LEMMA EveryDumpReadsBack ==
  ASSUME NEW v \in Seq(Byte)
  PROVE  /\ \A i \in DOMAIN dumpString(v) : dumpString(v)[i] >= 32 /\ dumpString(v)[i] # 127
         /\ ReadDump(dumpString(v)) = v
<1> DEFINE n == Len(v)
           T == {m \in 0..n : ~ ReadsRest(v, n - m)}
<1>0. n \in Nat
  BY SMT
<1>1. T = {}
  <2> SUFFICES ASSUME T # {} PROVE FALSE
    OBVIOUS
  <2>1. T \subseteq Nat
    BY <1>0
  <2> HIDE DEF T
  <2>2. PICK m \in T : \A k \in T : m <= k
    BY <2>1, Least
  <2>3. m \in 0..n /\ ~ ReadsRest(v, n - m)
    BY DEF T
  <2>4. CASE m = 0
    <3>1. n - m = n
      BY <1>0, <2>4
    <3> QED
      BY <2>3, <3>1, ReadsNothing
  <2>5. CASE m # 0
    <3>1. /\ m - 1 \in 0..n /\ m - 1 < m /\ n - (m - 1) \in 1..n /\ m \in Nat
          /\ (n - (m - 1)) - 1 = n - m
      BY <1>0, <2>3, <2>5
    <3>2. m - 1 \notin T
      BY <2>2, <3>1
    <3>3. ReadsRest(v, n - (m - 1))
      BY <3>1, <3>2 DEF T
    <3>4. ReadsRest(v, (n - (m - 1)) - 1)
      BY <3>1, <3>3, ReadsOneMore
    <3> QED
      BY <2>3, <3>1, <3>4
  <2> QED
    BY <2>4, <2>5
<1>2. ReadsRest(v, 0)
  <2>1. n \in 0..n /\ n - n = 0
    BY <1>0
  <2> HIDE DEF n
  <2>2. n \notin T
    BY <1>1
  <2> QED
    BY <2>1, <2>2
<1>3. ReadFrom(dumpString(v))[1] = v
  <2>1. dumpPrefixes(v)[0] = << >>
    BY DumpRec
  <2>2. Len(dumpPrefixes(v)[0]) + 1 = 1 /\ 0 + 1 = 1
    BY <2>1
  <2>4. ReadFrom(dumpString(v))[Len(dumpPrefixes(v)[0]) + 1] = SubSeq(v, 0 + 1, Len(v))
    BY <1>2, Zenon DEF ReadsRest
  <2>3. SubSeq(v, 1, Len(v)) = v
    <3> HIDE DEF Byte
    <3> QED
      BY SMT
  <2> QED
    BY <2>2, <2>3, <2>4
<1>4. Printable(dumpString(v))
  <2>1. n \in 0..n
    BY <1>0
  <2> QED
    BY <2>1, PrefixesPrintable DEF dumpString
<1> QED
  BY <1>3, <1>4 DEF Printable, ReadDump

\* Theorem DumpReadsBackHolds: what the dumper shows of a string literal is one
\* line of printable bytes, and tells the value exactly (dumpHeader), for every
\* string, decoded or raw.
THEOREM DumpReadsBackHolds == Spec => []DumpReadsBack
<1>1. StringInv => DumpReadsBack
  <2> SUFFICES ASSUME StringInv, Visited("STRING_LITERAL")
               PROVE  /\ \A i \in DOMAIN dumpString(value[2]) :
                           dumpString(value[2])[i] >= 32 /\ dumpString(value[2])[i] # 127
                      /\ ReadDump(dumpString(value[2])) = value[2]
    BY DEF DumpReadsBack
  <2>1. value[2] \in Seq(Byte)
    BY DEF StringInv
  <2> QED
    BY <2>1, EveryDumpReadsBack
<1> QED
  BY <1>1, StringInvInit, StringInvNext, PTL DEF Spec

-----------------------------------------------------------------------------
(* UTF-8.                                                                  *)

\* Continuation bytes at the n places behind i.
Continued(s, i, n) == \A k \in 1..n : i + k <= Len(s) /\ s[i + k] \in 128..191

\* What is UTF-8 from place i on, given what f says of the places behind it.
Utf8At(f, s, i) ==
  \/ i > Len(s)
  \/ s[i] < 128 /\ f[i + 1]
  \/ s[i] \in 194..223 /\ Continued(s, i, 1) /\ f[i + 2]
  \/ /\ s[i] \in 224..239 /\ Continued(s, i, 2) /\ f[i + 3]
     /\ s[i] = 224 => s[i + 1] >= 160
     /\ s[i] = 237 => s[i + 1] < 160
  \/ /\ s[i] \in 240..244 /\ Continued(s, i, 3) /\ f[i + 4]
     /\ s[i] = 240 => s[i + 1] >= 144
     /\ s[i] = 244 => s[i + 1] < 144

Utf8s(f, s, k) == f = [i \in k..(Len(s) + 4) |-> Utf8At(f, s, i)]

LEMMA Utf8AtLocal ==
  ASSUME NEW f, NEW h, NEW s, NEW i, f[i + 1] = h[i + 1], f[i + 2] = h[i + 2],
         f[i + 3] = h[i + 3], f[i + 4] = h[i + 4]
  PROVE  Utf8At(f, s, i) = Utf8At(h, s, i)
  BY DEF Utf8At

LEMMA Utf8AtEnd ==
  ASSUME NEW f, NEW h, NEW s, NEW i, i > Len(s)
  PROVE  Utf8At(f, s, i) = Utf8At(h, s, i)
  BY DEF Utf8At

LEMMA Utf8sExist ==
  ASSUME NEW s, Len(s) \in Nat
  PROVE  \E f : Utf8s(f, s, 1)
<1> DEFINE n == Len(s) + 4
           T == {m \in 0..n : ~ \E f : Utf8s(f, s, n + 1 - m)}
<1>0. n \in Nat /\ n > Len(s)
  OBVIOUS
<1>1. T = {}
  <2> SUFFICES ASSUME T # {} PROVE FALSE
    OBVIOUS
  <2>1. T \subseteq Nat
    BY <1>0
  <2> HIDE DEF T
  <2>2. PICK m \in T : \A k \in T : m <= k
    BY <2>1, Least
  <2>3. m \in 0..n /\ ~ \E f : Utf8s(f, s, n + 1 - m)
    BY DEF T
  <2>4. CASE m = 0
    <3>1. Utf8s([i \in (n + 1)..n |-> TRUE], s, n + 1)
      <4>1. \A i \in (n + 1)..n : FALSE
        BY <1>0
      <4> QED
        BY <4>1 DEF Utf8s
    <3>2. n + 1 - m = n + 1
      BY <1>0, <2>4
    <3> QED
      BY <2>3, <3>1, <3>2
  <2>5. CASE m # 0
    <3> DEFINE k == n + 1 - m
    <3>1. /\ m - 1 \in 0..n /\ m - 1 < m /\ n + 1 - (m - 1) = k + 1
          /\ k \in Nat /\ k <= n /\ m - 1 \in Nat /\ m \in Nat
      BY <1>0, <2>3, <2>5
    <3>2. m - 1 \notin T
      BY <2>2, <3>1
    <3>3. PICK f : Utf8s(f, s, k + 1)
      BY <3>1, <3>2 DEF T
    <3> DEFINE h == [i \in k..n |-> IF i = k THEN Utf8At(f, s, k) ELSE f[i]]
    <3> HIDE DEF k
    <3>4. \A i \in (k + 1)..n : f[i] = Utf8At(f, s, i)
      BY <3>3 DEF Utf8s
    <3>5. \A i \in (k + 1)..n : h[i] = f[i]
      BY <1>0, <3>1
    <3>6. h[k] = Utf8At(f, s, k)
      BY <1>0, <3>1
    <3> HIDE DEF h
    <3>7. \A i \in k..n : Utf8At(f, s, i) = Utf8At(h, s, i)
      <4> TAKE i \in k..n
      <4>1. CASE i > Len(s)
        BY <4>1, Utf8AtEnd
      <4>2. CASE ~ (i > Len(s))
        <5>1. i + 1 \in (k + 1)..n /\ i + 2 \in (k + 1)..n /\ i + 3 \in (k + 1)..n
              /\ i + 4 \in (k + 1)..n
          BY <1>0, <3>1, <4>2
        <5>2. /\ f[i + 1] = h[i + 1] /\ f[i + 2] = h[i + 2]
              /\ f[i + 3] = h[i + 3] /\ f[i + 4] = h[i + 4]
          BY <3>5, <5>1
        <5> QED
          BY <5>2, Utf8AtLocal
      <4> QED
        BY <4>1, <4>2
    <3>8. \A i \in k..n : h[i] = Utf8At(h, s, i)
      <4> TAKE i \in k..n
      <4>1. i = k \/ i \in (k + 1)..n
        BY <1>0, <3>1
      <4>2. h[i] = Utf8At(f, s, i)
        BY <3>4, <3>5, <3>6, <4>1
      <4> QED
        BY <3>7, <4>2
    <3>9. h = [i \in k..n |-> h[i]]
      BY DEF h
    <3>10. Utf8s(h, s, k)
      BY <3>8, <3>9 DEF Utf8s
    <3> QED
      BY <2>3, <3>10 DEF k
  <2> QED
    BY <2>4, <2>5
<1>2. n \in 0..n /\ n + 1 - n = 1
  BY <1>0
<1> HIDE DEF n
<1>3. n \notin T
  BY <1>1
<1> QED
  BY <1>2, <1>3

LEMMA Utf8Rec ==
  ASSUME NEW s, Len(s) \in Nat
  PROVE  \A i \in 1..(Len(s) + 4) : Utf8From(s)[i] <=> Utf8At(Utf8From(s), s, i)
<1> DEFINE u == CHOOSE f : Utf8s(f, s, 1)
<1>1. Utf8s(u, s, 1)
  BY Utf8sExist
<1>2. Utf8From(s) = u
  BY DEF Utf8From, Utf8s, Utf8At, Continued
<1> HIDE DEF u
<1>3. \A i \in 1..(Len(s) + 4) : u[i] = Utf8At(u, s, i)
  BY <1>1 DEF Utf8s
<1> QED
  BY <1>2, <1>3

\* One character of UTF-8.
Utf8Char(x) ==
  \/ Len(x) = 1 /\ x[1] < 128
  \/ Len(x) = 2 /\ x[1] \in 194..223 /\ x[2] \in 128..191
  \/ /\ Len(x) = 3 /\ x[1] \in 224..239 /\ x[2] \in 128..191 /\ x[3] \in 128..191
     /\ x[1] = 224 => x[2] >= 160
     /\ x[1] = 237 => x[2] < 160
  \/ /\ Len(x) = 4 /\ x[1] \in 240..244
     /\ x[2] \in 128..191 /\ x[3] \in 128..191 /\ x[4] \in 128..191
     /\ x[1] = 240 => x[2] >= 144
     /\ x[1] = 244 => x[2] < 144

LEMMA ContinuedIs ==
  ASSUME NEW s, NEW i \in Nat
  PROVE  /\ Continued(s, i, 1) <=> i + 1 <= Len(s) /\ s[i + 1] \in 128..191
         /\ Continued(s, i, 2) <=> Continued(s, i, 1) /\ i + 2 <= Len(s) /\ s[i + 2] \in 128..191
         /\ Continued(s, i, 3) <=> Continued(s, i, 2) /\ i + 3 <= Len(s) /\ s[i + 3] \in 128..191
<1>1. 1..1 = {1} /\ 1..2 = {1, 2} /\ 1..3 = {1, 2, 3}
  OBVIOUS
<1> QED
  BY <1>1 DEF Continued

LEMMA Leads ==
  ASSUME NEW b, b \in Nat
  PROVE  /\ b < 128 => ~ (b \in 194..223) /\ ~ (b \in 224..239) /\ ~ (b \in 240..244)
         /\ b \in 194..223 => ~ (b \in 224..239) /\ ~ (b \in 240..244) /\ ~ (b < 128)
         /\ b \in 224..239 => ~ (b \in 194..223) /\ ~ (b \in 240..244) /\ ~ (b < 128)
         /\ b \in 240..244 => ~ (b \in 194..223) /\ ~ (b \in 224..239) /\ ~ (b < 128)
  OBVIOUS

\* The text has x at place i.
HasAt(s, i, x) ==
  /\ i + Len(x) <= Len(s) + 1
  /\ \A k \in 1..Len(x) : s[i + k - 1] = x[k]

\* A text as far as its bytes are numbers.
Numbers(s) == Len(s) \in Nat /\ \A k \in 1..Len(s) : s[k] \in Nat

LEMMA NumbersOf == ASSUME NEW s \in Seq(Byte) PROVE Numbers(s)
<1>1. Len(s) \in Nat /\ \A k \in 1..Len(s) : s[k] \in Byte
  <2> HIDE DEF Byte
  <2> QED
    OBVIOUS
<1> QED
  BY <1>1, Bytes DEF Numbers

LEMMA HasSome ==
  ASSUME NEW s, NEW x, NEW i \in Nat \ {0}, Numbers(s), Len(x) \in Nat, HasAt(s, i, x)
  PROVE  /\ Len(x) > 0 => i <= Len(s) /\ s[i] = x[1] /\ s[i] \in Nat
         /\ Len(x) > 1 => i + 1 <= Len(s) /\ s[i + 1] = x[2] /\ s[i + 1] \in Nat
         /\ Len(x) > 2 => i + 2 <= Len(s) /\ s[i + 2] = x[3] /\ s[i + 2] \in Nat
         /\ Len(x) > 3 => i + 3 <= Len(s) /\ s[i + 3] = x[4] /\ s[i + 3] \in Nat
<1>0. PICK n \in Nat : n = Len(s)
  BY DEF Numbers
<1>9. PICK m \in Nat : m = Len(x)
  OBVIOUS
<1>1. i + m <= n + 1 /\ \A k \in 1..m : s[i + k - 1] = x[k]
  BY <1>0, <1>9 DEF HasAt
<1>2. \A k \in 1..n : s[k] \in Nat
  BY <1>0 DEF Numbers
<1>3. CASE m = 0
  BY <1>0, <1>9, <1>3
<1>4. CASE m > 0
  <2>1. 1 \in 1..m /\ i + 1 - 1 = i /\ i \in 1..n
    BY <1>0, <1>9, <1>1, <1>4
  <2>2. s[i] = x[1] /\ s[i] \in Nat
    BY <1>1, <1>2, <2>1
  <2>3. CASE m > 1
    <3>1. 2 \in 1..m /\ i + 2 - 1 = i + 1 /\ i + 1 \in 1..n
      BY <1>0, <1>9, <1>1, <2>3
    <3>2. s[i + 1] = x[2] /\ s[i + 1] \in Nat
      BY <1>1, <1>2, <3>1
    <3>3. CASE m > 2
      <4>1. 3 \in 1..m /\ i + 3 - 1 = i + 2 /\ i + 2 \in 1..n
        BY <1>0, <1>9, <1>1, <3>3
      <4>2. s[i + 2] = x[3] /\ s[i + 2] \in Nat
        BY <1>1, <1>2, <4>1
      <4>3. CASE m > 3
        <5>1. 4 \in 1..m /\ i + 4 - 1 = i + 3 /\ i + 3 \in 1..n
          BY <1>0, <1>9, <1>1, <4>3
        <5>2. s[i + 3] = x[4] /\ s[i + 3] \in Nat
          BY <1>1, <1>2, <5>1
        <5> QED
          BY <1>0, <1>9, <2>1, <2>2, <3>1, <3>2, <4>1, <4>2, <5>1, <5>2
      <4> QED
        BY <1>0, <1>9, <2>1, <2>2, <3>1, <3>2, <4>1, <4>2, <4>3
    <3> QED
      BY <1>0, <1>9, <2>1, <2>2, <3>1, <3>2, <3>3
  <2> QED
    BY <1>0, <1>9, <2>1, <2>2, <2>3
<1> QED
  BY <1>0, <1>9, <1>3, <1>4

\* The character at place i is passed over.
LEMMA PassesChar ==
  ASSUME NEW s, NEW x, NEW i \in Nat \ {0}, Numbers(s), Utf8Char(x), HasAt(s, i, x)
  PROVE  Utf8From(s)[i] <=> Utf8From(s)[i + Len(x)]
<1> DEFINE f == Utf8From(s)
<1>1. Len(s) \in Nat /\ Len(x) \in {1, 2, 3, 4}
  BY DEF Utf8Char, Numbers
<1>2. i <= Len(s) /\ s[i] = x[1] /\ s[i] \in Nat /\ i \in 1..(Len(s) + 4)
  <2>1. Len(x) \in Nat /\ Len(x) > 0
    BY <1>1
  <2>2. i <= Len(s) /\ s[i] = x[1] /\ s[i] \in Nat
    BY <2>1, HasSome
  <2> QED
    BY <1>1, <2>2
<1>3. Utf8From(s)[i] <=> Utf8At(Utf8From(s), s, i)
  BY <1>1, <1>2, Utf8Rec
<1> HIDE DEF f
<1>4. PICK b : b = s[i] /\ b \in Nat
  BY <1>2
<1>5. /\ b < 128 => ~ (b \in 194..223) /\ ~ (b \in 224..239) /\ ~ (b \in 240..244)
      /\ b \in 194..223 => ~ (b \in 224..239) /\ ~ (b \in 240..244) /\ ~ (b < 128)
      /\ b \in 224..239 => ~ (b \in 194..223) /\ ~ (b \in 240..244) /\ ~ (b < 128)
      /\ b \in 240..244 => ~ (b \in 194..223) /\ ~ (b \in 224..239) /\ ~ (b < 128)
  BY <1>4, Leads
<1>6. Utf8At(f, s, i) <=>
        \/ b < 128 /\ f[i + 1]
        \/ b \in 194..223 /\ Continued(s, i, 1) /\ f[i + 2]
        \/ /\ b \in 224..239 /\ Continued(s, i, 2) /\ f[i + 3]
           /\ b = 224 => s[i + 1] >= 160
           /\ b = 237 => s[i + 1] < 160
        \/ /\ b \in 240..244 /\ Continued(s, i, 3) /\ f[i + 4]
           /\ b = 240 => s[i + 1] >= 144
           /\ b = 244 => s[i + 1] < 144
  BY <1>1, <1>2, <1>4 DEF Utf8At
<1>7. CASE Len(x) = 1
  <2>1. b < 128
    BY <1>2, <1>4, <1>7 DEF Utf8Char
  <2>2. Utf8At(f, s, i) <=> f[i + 1]
    BY <1>5, <1>6, <2>1
  <2> QED
    BY <1>3, <1>7, <2>2 DEF f
<1>8. CASE Len(x) = 2
  <2>0. Len(x) \in Nat /\ Len(x) > 1
    BY <1>8
  <2>1. s[i + 1] = x[2] /\ i + 1 <= Len(s)
    BY <2>0, HasSome
  <2>2. b \in 194..223 /\ s[i + 1] \in 128..191
    BY <1>2, <1>4, <1>8, <2>1 DEF Utf8Char
  <2>3. Continued(s, i, 1)
    BY <2>1, <2>2, ContinuedIs
  <2>4. Utf8At(f, s, i) <=> f[i + 2]
    BY <1>5, <1>6, <2>2, <2>3
  <2> QED
    BY <1>3, <1>8, <2>4 DEF f
<1>9. CASE Len(x) = 3
  <2>0. Len(x) \in Nat /\ Len(x) > 1 /\ Len(x) > 2
    BY <1>9
  <2>1. s[i + 1] = x[2] /\ i + 1 <= Len(s)
    BY <2>0, HasSome
  <2>2. s[i + 2] = x[3] /\ i + 2 <= Len(s)
    BY <2>0, HasSome
  <2>3. /\ b \in 224..239 /\ s[i + 1] \in 128..191 /\ s[i + 2] \in 128..191
        /\ b = 224 => s[i + 1] >= 160
        /\ b = 237 => s[i + 1] < 160
    BY <1>2, <1>4, <1>9, <2>1, <2>2 DEF Utf8Char
  <2>4. Continued(s, i, 2)
    BY <2>1, <2>2, <2>3, ContinuedIs
  <2>5. Utf8At(f, s, i) <=> f[i + 3]
    BY <1>5, <1>6, <2>3, <2>4
  <2> QED
    BY <1>3, <1>9, <2>5 DEF f
<1>10. CASE Len(x) = 4
  <2>0. Len(x) \in Nat /\ Len(x) > 1 /\ Len(x) > 2 /\ Len(x) > 3
    BY <1>10
  <2>1. s[i + 1] = x[2] /\ i + 1 <= Len(s)
    BY <2>0, HasSome
  <2>2. s[i + 2] = x[3] /\ i + 2 <= Len(s) /\ s[i + 3] = x[4] /\ i + 3 <= Len(s)
    BY <2>0, HasSome
  <2>3. /\ b \in 240..244 /\ s[i + 1] \in 128..191
        /\ s[i + 2] \in 128..191 /\ s[i + 3] \in 128..191
        /\ b = 240 => s[i + 1] >= 144
        /\ b = 244 => s[i + 1] < 144
    BY <1>2, <1>4, <1>10, <2>1, <2>2 DEF Utf8Char
  <2>4. Continued(s, i, 3)
    BY <2>1, <2>2, <2>3, ContinuedIs
  <2>5. Utf8At(f, s, i) <=> f[i + 4]
    BY <1>5, <1>6, <2>3, <2>4
  <2> QED
    BY <1>3, <1>10, <2>5 DEF f
<1> QED
  BY <1>1, <1>7, <1>8, <1>9, <1>10

\* Where a text is UTF-8 from some place on, a character stands there.
LEMMA CharStands ==
  ASSUME NEW s \in Seq(Byte), NEW i \in Nat \ {0}, i <= Len(s), Utf8From(s)[i]
  PROVE  \E x \in Seq(Byte) : Utf8Char(x) /\ HasAt(s, i, x)
<1> DEFINE f == Utf8From(s)
<1>0. PICK n : n = Len(s) /\ n \in Nat
  OBVIOUS
<1>1. Utf8At(f, s, i)
  BY <1>0, Utf8Rec
<1>2. \A k \in 1..n : s[k] \in Byte
  <2> HIDE DEF Byte
  <2> QED
    BY <1>0
<1> HIDE DEF f
<1>3. CASE s[i] < 128
  <2> DEFINE x == << s[i] >>
  <2>1. x \in Seq(Byte)
    BY <1>0, <1>2, SeqsOf
  <2>2. Utf8Char(x)
    BY <1>3 DEF Utf8Char
  <2>3. HasAt(s, i, x)
    <3>1. Len(x) = 1 /\ x[1] = s[i] /\ i + 1 - 1 = i /\ i + 1 <= n + 1 /\ 1..1 = {1}
      BY <1>0
    <3> HIDE DEF x
    <3> QED
      BY <1>0, <3>1 DEF HasAt
  <2> QED
    BY <2>1, <2>2, <2>3
<1>4. CASE s[i] \in 194..223 /\ Continued(s, i, 1)
  <2> DEFINE x == << s[i], s[i + 1] >>
  <2>1. i + 1 <= Len(s) /\ s[i + 1] \in 128..191
    BY <1>4, ContinuedIs
  <2>2. x \in Seq(Byte)
    <3>1. i \in 1..n /\ i + 1 \in 1..n
      BY <1>0, <2>1
    <3> HIDE DEF Byte
    <3> QED
      BY <1>2, <3>1, SeqsOf
  <2>3. Utf8Char(x)
    BY <1>4, <2>1 DEF Utf8Char
  <2>4. HasAt(s, i, x)
    <3>1. /\ Len(x) = 2 /\ x[1] = s[i] /\ x[2] = s[i + 1] /\ i + 1 - 1 = i /\ i + 2 - 1 = i + 1
          /\ i + 2 <= n + 1 /\ 1..2 = {1, 2}
      BY <1>0, <2>1
    <3> HIDE DEF x
    <3> QED
      BY <1>0, <3>1 DEF HasAt
  <2> QED
    BY <2>2, <2>3, <2>4
<1>5. CASE /\ s[i] \in 224..239 /\ Continued(s, i, 2)
           /\ s[i] = 224 => s[i + 1] >= 160
           /\ s[i] = 237 => s[i + 1] < 160
  <2> DEFINE x == << s[i], s[i + 1], s[i + 2] >>
  <2>1. /\ i + 1 <= Len(s) /\ s[i + 1] \in 128..191
        /\ i + 2 <= Len(s) /\ s[i + 2] \in 128..191
    BY <1>5, ContinuedIs
  <2>2. x \in Seq(Byte)
    <3>1. i \in 1..n /\ i + 1 \in 1..n /\ i + 2 \in 1..n
      BY <1>0, <2>1
    <3> HIDE DEF Byte
    <3> QED
      BY <1>2, <3>1, SeqsOf
  <2>3. Utf8Char(x)
    BY <1>5, <2>1 DEF Utf8Char
  <2>4. HasAt(s, i, x)
    <3>1. /\ Len(x) = 3 /\ x[1] = s[i] /\ x[2] = s[i + 1] /\ x[3] = s[i + 2]
          /\ i + 1 - 1 = i /\ i + 2 - 1 = i + 1 /\ i + 3 - 1 = i + 2
          /\ i + 3 <= n + 1 /\ 1..3 = {1, 2, 3}
      BY <1>0, <2>1
    <3> HIDE DEF x
    <3> QED
      BY <1>0, <3>1 DEF HasAt
  <2> QED
    BY <2>2, <2>3, <2>4
<1>6. CASE /\ s[i] \in 240..244 /\ Continued(s, i, 3)
           /\ s[i] = 240 => s[i + 1] >= 144
           /\ s[i] = 244 => s[i + 1] < 144
  <2> DEFINE x == << s[i], s[i + 1], s[i + 2], s[i + 3] >>
  <2>1. /\ i + 1 <= Len(s) /\ s[i + 1] \in 128..191
        /\ i + 2 <= Len(s) /\ s[i + 2] \in 128..191
        /\ i + 3 <= Len(s) /\ s[i + 3] \in 128..191
    BY <1>6, ContinuedIs
  <2>2. x \in Seq(Byte)
    <3>1. i \in 1..n /\ i + 1 \in 1..n /\ i + 2 \in 1..n /\ i + 3 \in 1..n
      BY <1>0, <2>1
    <3> HIDE DEF Byte
    <3> QED
      BY <1>2, <3>1, SeqOfFour
  <2>3. Utf8Char(x)
    BY <1>6, <2>1 DEF Utf8Char
  <2>4. HasAt(s, i, x)
    <3>1. /\ Len(x) = 4 /\ x[1] = s[i] /\ x[2] = s[i + 1] /\ x[3] = s[i + 2] /\ x[4] = s[i + 3]
          /\ i + 1 - 1 = i /\ i + 2 - 1 = i + 1 /\ i + 3 - 1 = i + 2 /\ i + 4 - 1 = i + 3
          /\ i + 4 <= n + 1 /\ 1..4 = {1, 2, 3, 4}
      BY <1>0, <2>1
    <3> HIDE DEF x
    <3> QED
      BY <1>0, <3>1 DEF HasAt
  <2> QED
    BY <2>2, <2>3, <2>4
<1> QED
  BY <1>1, <1>3, <1>4, <1>5, <1>6 DEF Utf8At

\* out is a beginning of v.
Begins(out, v) == Len(out) <= Len(v) /\ \A k \in 1..Len(out) : v[k] = out[k]

LEMMA JoinBegins ==
  ASSUME NEW S, NEW s \in Seq(S), NEW x \in Seq(S)
  PROVE  /\ Begins(s, s \o x) /\ s \o x \in Seq(S) /\ Len(s \o x) = Len(s) + Len(x)
         /\ \A k \in 1..Len(x) : (s \o x)[Len(s) + k] = x[k]
<1>1. PICK n \in Nat : n = Len(s)
  OBVIOUS
<1>2. PICK m \in Nat : m = Len(x)
  OBVIOUS
<1>3. s \o x \in Seq(S) /\ Len(s \o x) = n + m
  BY <1>1, <1>2
<1>4. \A k \in 1..n : (s \o x)[k] = s[k]
  BY <1>1, <1>2
<1>5. \A k \in 1..m : (s \o x)[n + k] = x[k]
  BY <1>1, <1>2
<1> QED
  BY <1>1, <1>2, <1>3, <1>4, <1>5 DEF Begins

LEMMA BeginsTransitive ==
  ASSUME NEW a, NEW b, NEW c, Len(a) \in Nat, Len(b) \in Nat, Len(c) \in Nat,
         Begins(a, b), Begins(b, c)
  PROVE  Begins(a, c)
<1>1. PICK n \in Nat : n = Len(a)
  OBVIOUS
<1>2. PICK m \in Nat : m = Len(b)
  OBVIOUS
<1>3. n <= m /\ n <= Len(c) /\ \A k \in 1..n : k \in 1..m
  BY <1>1, <1>2 DEF Begins
<1>4. \A k \in 1..n : c[k] = a[k]
  BY <1>1, <1>2, <1>3 DEF Begins
<1> QED
  BY <1>1, <1>3, <1>4 DEF Begins

\* A text without a broken escape.
Sound(body) == IsStringBody(body) /\ \A i \in Escapes(body) : ~ Broken(body, i)

LEMMA PieceBytes ==
  ASSUME NEW body \in Seq(Byte), Sound(body), NEW i \in 1..Len(body)
  PROVE  Piece(body, i) \in Seq(Byte)
<1>1. CASE i \in Escapes(body)
  <2>1. i \in DOMAIN body /\ i < Len(body) /\ ~ Broken(body, i)
    BY <1>1, EscapesAre DEF Sound, IsStringBody
  <2>2. PICK cp \in Units : Means(body, i, cp)
    BY <2>1, DecodesWhole
  <2>3. Meaning(body, i) \in Seq(Byte)
    BY <2>2, Utf8Bytes DEF Means
  <2> QED
    BY <1>1, <2>3 DEF Piece
<1>2. CASE i \notin Escapes(body)
  <2>1. body[i] \in Byte
    <3> HIDE DEF Byte
    <3> QED
      OBVIOUS
  <2>2. << body[i] >> \in Seq(Byte)
    BY <2>1, SeqsOf
  <2>3. << >> \in Seq(Byte)
    OBVIOUS
  <2> QED
    BY <1>2, <2>2, <2>3 DEF Piece
<1> QED
  BY <1>1, <1>2

LEMMA ContentsBytes ==
  ASSUME NEW body \in Seq(Byte), Sound(body)
  PROVE  \A i \in 0..Len(body) : Contents(body)[i] \in Seq(Byte)
<1> DEFINE C == Contents(body)
           T == {i \in 0..Len(body) : C[i] \notin Seq(Byte)}
<1>0. PICK n \in Nat : n = Len(body)
  OBVIOUS
<1>1. C[0] = << >> /\ \A i \in 1..n : C[i] = C[i - 1] \o Piece(body, i)
  BY <1>0, ContentsRec
<1>2. \A i \in 1..n : Piece(body, i) \in Seq(Byte)
  BY <1>0, PieceBytes
<1>3. << >> \in Seq(Byte)
  OBVIOUS
<1> HIDE DEF C
<1> SUFFICES ASSUME T # {} PROVE FALSE
  BY DEF C
<1>4. T \subseteq Nat
  BY <1>0
<1> HIDE DEF T
<1>5. PICK i \in T : \A m \in T : i <= m
  BY <1>4, Least
<1>6. i \in 0..n /\ C[i] \notin Seq(Byte)
  BY <1>0, <1>5 DEF T
<1>7. i # 0
  BY <1>1, <1>3, <1>6
<1>8. i \in 1..n /\ i - 1 \in 0..n /\ ~ (i <= i - 1)
  BY <1>0, <1>6, <1>7
<1>9. C[i - 1] \in Seq(Byte)
  BY <1>0, <1>5, <1>8 DEF T
<1>10. C[i - 1] \o Piece(body, i) \in Seq(Byte)
  BY <1>2, <1>8, <1>9, JoinBegins
<1> QED
  BY <1>1, <1>6, <1>8, <1>10

LEMMA ContentsBegin ==
  ASSUME NEW body \in Seq(Byte), Sound(body)
  PROVE  /\ Content(body) \in Seq(Byte)
         /\ \A i \in 0..Len(body) : Begins(Contents(body)[i], Content(body))
<1> DEFINE C == Contents(body)
           T == {m \in 0..Len(body) : ~ Begins(C[Len(body) - m], C[Len(body)])}
<1>0. PICK n \in Nat : n = Len(body)
  OBVIOUS
<1>1. \A i \in 1..n : C[i] = C[i - 1] \o Piece(body, i)
  BY <1>0, ContentsRec
<1>2. \A i \in 1..n : Piece(body, i) \in Seq(Byte)
  BY <1>0, PieceBytes
<1>3. \A i \in 0..n : C[i] \in Seq(Byte) /\ Len(C[i]) \in Nat
  <2>1. \A i \in 0..n : C[i] \in Seq(Byte)
    BY <1>0, ContentsBytes
  <2> HIDE DEF C
  <2> QED
    BY <2>1, LenProperties
<1>4. Content(body) = C[n]
  BY <1>0 DEF Content
<1> HIDE DEF C
<1>5. T = {}
  <2> SUFFICES ASSUME T # {} PROVE FALSE
    OBVIOUS
  <2>1. T \subseteq Nat
    BY <1>0
  <2> HIDE DEF T
  <2>2. PICK m \in T : \A k \in T : m <= k
    BY <2>1, Least
  <2>3. m \in 0..n /\ ~ Begins(C[n - m], C[n])
    BY <1>0, <2>2 DEF T
  <2>4. m # 0
    <3>1. CASE m = 0
      <4>1. n - m = n
        BY <3>1
      <4>2. Begins(C[n], C[n])
        BY <1>3 DEF Begins
      <4> QED
        BY <2>3, <4>1, <4>2
    <3> QED
      BY <3>1
  <2>5. m - 1 \in 0..n /\ ~ (m <= m - 1) /\ n - (m - 1) = n - m + 1 /\ n - m + 1 \in 1..n
        /\ (n - m + 1) - 1 = n - m /\ n - m \in 0..n /\ n - m + 1 \in 0..n /\ n \in 0..n
    BY <1>0, <2>3, <2>4
  <2>6. Begins(C[n - m + 1], C[n])
    BY <1>0, <2>2, <2>5 DEF T
  <2>7. C[n - m + 1] = C[n - m] \o Piece(body, n - m + 1)
    BY <1>1, <2>5
  <2>8. Begins(C[n - m], C[n - m + 1])
    BY <1>2, <1>3, <2>5, <2>7, JoinBegins
  <2> QED
    BY <1>3, <2>3, <2>5, <2>6, <2>8, BeginsTransitive
<1>6. \A i \in 0..n : Begins(C[i], C[n])
  <2> TAKE i \in 0..n
  <2>1. n - i \in 0..n /\ n - (n - i) = i
    OBVIOUS
  <2> QED
    BY <1>0, <1>5, <2>1
<1> QED
  BY <1>0, <1>3, <1>4, <1>6 DEF C

\* A character of the value is passed over.
LEMMA ValuePasses ==
  ASSUME NEW v \in Seq(Byte), NEW out \in Seq(Byte), NEW x \in Seq(Byte), Utf8Char(x),
         Begins(out \o x, v)
  PROVE  Utf8From(v)[Len(out) + 1] <=> Utf8From(v)[Len(out \o x) + 1]
<1>1. PICK n \in Nat : n = Len(out)
  BY LenProperties
<1>2. PICK m \in Nat : m = Len(x)
  BY LenProperties
<1>3. Len(out \o x) = n + m /\ \A k \in 1..m : (out \o x)[n + k] = x[k]
  BY <1>1, <1>2, JoinBegins
<1>4. n + m <= Len(v) /\ \A k \in 1..(n + m) : v[k] = (out \o x)[k]
  BY <1>3 DEF Begins
<1>5. Numbers(v)
  BY NumbersOf
<1>6. HasAt(v, n + 1, x)
  <2>1. n + 1 + m <= Len(v) + 1
    BY <1>4, <1>5 DEF Numbers
  <2>2. \A k \in 1..m : v[n + 1 + k - 1] = x[k]
    <3> TAKE k \in 1..m
    <3>1. n + 1 + k - 1 = n + k /\ n + k \in 1..(n + m)
      OBVIOUS
    <3> QED
      BY <1>3, <1>4, <3>1
  <2> QED
    BY <1>2, <2>1, <2>2 DEF HasAt
<1>7. n + 1 \in Nat \ {0} /\ n + 1 + m = n + m + 1
  OBVIOUS
<1>8. Utf8From(v)[n + 1] <=> Utf8From(v)[n + 1 + m]
  BY <1>2, <1>5, <1>6, <1>7, PassesChar
<1> QED
  BY <1>1, <1>3, <1>7, <1>8

LEMMA AsciiPasses ==
  ASSUME NEW s, Numbers(s), NEW i \in Nat \ {0}, i <= Len(s), s[i] < 128
  PROVE  Utf8From(s)[i] <=> Utf8From(s)[i + 1]
<1> DEFINE x == << s[i] >>
<1>1. Len(x) = 1 /\ x[1] = s[i]
  OBVIOUS
<1> HIDE DEF x
<1>2. Utf8Char(x)
  BY <1>1 DEF Utf8Char
<1>3. HasAt(s, i, x)
  <2>1. i + 1 - 1 = i /\ i + 1 <= Len(s) + 1 /\ 1..1 = {1}
    BY DEF Numbers
  <2> QED
    BY <1>1, <2>1 DEF HasAt
<1> QED
  BY <1>1, <1>2, <1>3, PassesChar

\* Escapes are ASCII.
LEMMA EscapeAscii ==
  /\ \A b \in DOMAIN SimpleEscape : b < 128
  /\ \A b \in DOMAIN HexDigit : b < 128
  BY DEF SimpleEscape, HexDigit

\* An escape is passed over in the text.
LEMMA EscapePasses ==
  ASSUME NEW body \in Seq(Byte), NEW i \in Escapes(body), i < Len(body), ~ Broken(body, i),
         Utf8From(body)[i]
  PROVE  Utf8From(body)[EndOf(body, i) + 1]
<1>1. Numbers(body)
  BY NumbersOf
<1>2. PICK n \in Nat : n = Len(body)
  BY <1>1 DEF Numbers
<1>3. i \in 1..n /\ i \in DOMAIN body /\ body[i] = Backslash /\ i < n
  BY <1>2, EscapesAre
<1>4. Utf8From(body)[i + 1]
  BY <1>1, <1>2, <1>3, AsciiPasses DEF Backslash
<1>5. CASE UnicodeAt(body, i)
  <2>1. /\ i + 5 <= n /\ body[i + 1] = 117
        /\ \A j \in (i + 2)..(i + 5) : body[j] \in DOMAIN HexDigit
    BY <1>2, <1>3, <1>5, UnicodeBytes
  <2>2. /\ i + 2 \in (i + 2)..(i + 5) /\ i + 3 \in (i + 2)..(i + 5)
        /\ i + 4 \in (i + 2)..(i + 5) /\ i + 5 \in (i + 2)..(i + 5)
    BY <1>3
  <2>3. body[i + 1] < 128
    BY <2>1
  <2>4. body[i + 2] < 128 /\ body[i + 3] < 128 /\ body[i + 4] < 128 /\ body[i + 5] < 128
    BY <2>1, <2>2, EscapeAscii
  <2>5. \A k \in (i + 1)..(i + 5) : k \in Nat \ {0} /\ k <= n
    BY <1>3, <2>1
  <2>6. i + 1 + 1 = i + 2 /\ i + 2 + 1 = i + 3 /\ i + 3 + 1 = i + 4 /\ i + 4 + 1 = i + 5
        /\ i + 5 + 1 = i + 6 /\ i + 1 \in (i + 1)..(i + 5) /\ i + 2 \in (i + 1)..(i + 5)
        /\ i + 3 \in (i + 1)..(i + 5) /\ i + 4 \in (i + 1)..(i + 5) /\ i + 5 \in (i + 1)..(i + 5)
    BY <1>3
  <2>7. Utf8From(body)[i + 2]
    BY <1>1, <1>2, <1>4, <2>3, <2>5, <2>6, AsciiPasses
  <2>8. Utf8From(body)[i + 3]
    BY <1>1, <1>2, <2>4, <2>5, <2>6, <2>7, AsciiPasses
  <2>9. Utf8From(body)[i + 4]
    BY <1>1, <1>2, <2>4, <2>5, <2>6, <2>8, AsciiPasses
  <2>10. Utf8From(body)[i + 5]
    BY <1>1, <1>2, <2>4, <2>5, <2>6, <2>9, AsciiPasses
  <2>11. Utf8From(body)[i + 6]
    BY <1>1, <1>2, <2>4, <2>5, <2>6, <2>10, AsciiPasses
  <2> QED
    BY <1>5, <2>6, <2>11 DEF EndOf
<1>6. CASE ~ UnicodeAt(body, i)
  <2>1. body[i + 1] < 128
    BY <1>6, EscapeAscii DEF Broken, SimpleAt
  <2>2. i + 1 \in Nat \ {0} /\ i + 1 <= n /\ i + 1 + 1 = i + 2
    BY <1>2, <1>3
  <2>3. Utf8From(body)[i + 2]
    BY <1>1, <1>2, <1>4, <2>1, <2>2, AsciiPasses
  <2> QED
    BY <1>6, <2>2, <2>3 DEF EndOf
<1> QED
  BY <1>5, <1>6

Surrogates == 55296..57343

Surrogate(body, i) == UnicodeAt(body, i) /\ Hex4(SubSeq(body, i + 2, i + 5)) \in Surrogates

LEMMA TwoByteForm ==
  ASSUME NEW cp \in Nat, cp >= 128, cp < 2048
  PROVE  192 + cp \div 64 \in 194..223 /\ 128 + (cp % 64) \in 128..191
  OBVIOUS

LEMMA ThreeByteForm ==
  ASSUME NEW cp \in Nat, cp >= 2048, cp < 65536
  PROVE  /\ 224 + cp \div 4096 \in 224..239
         /\ 128 + ((cp \div 64) % 64) \in 128..191 /\ 128 + (cp % 64) \in 128..191
         /\ 224 + cp \div 4096 = 224 => 128 + ((cp \div 64) % 64) >= 160
         /\ 224 + cp \div 4096 = 237 => (128 + ((cp \div 64) % 64) >= 160 <=> cp >= 55296)
         /\ cp >= 55296 /\ cp <= 57343 => 224 + cp \div 4096 = 237
         /\ cp > 57343 => 224 + cp \div 4096 # 237
  OBVIOUS

\* The three bytes of a surrogate.
SurrogateBytes(x) == Len(x) = 3 /\ x[1] = 237 /\ x[2] >= 160

LEMMA NoSurrogate == ASSUME NEW cp \in Nat, cp < 55296 PROVE cp \notin Surrogates
BY SMTT(30) DEF Surrogates

\* What appendUtf8 appends is one character, or else the bytes of a surrogate.
LEMMA AppendsChar ==
  ASSUME NEW cp \in Units
  PROVE  IF cp \in Surrogates
         THEN SurrogateBytes(appendUtf8(cp))
         ELSE Utf8Char(appendUtf8(cp))
<1>0. cp \in Nat /\ cp < 65536
  BY DEF Units
<1>1. CASE cp < 128
  <2>1. appendUtf8(cp) = << cp >> /\ cp \notin Surrogates
    BY <1>0, <1>1, NoSurrogate DEF appendUtf8
  <2>2. Utf8Char(<< cp >>)
    BY <1>1 DEF Utf8Char
  <2> QED
    BY <2>1, <2>2
<1>2. CASE ~ (cp < 128) /\ cp < 2048
  <2> DEFINE a == 192 + cp \div 64
             b == 128 + (cp % 64)
  <2>1. appendUtf8(cp) = << a, b >>
    BY <1>2 DEF appendUtf8
  <2>2. a \in 194..223 /\ b \in 128..191
    BY <1>0, <1>2, TwoByteForm
  <2> HIDE DEF a, b
  <2>3. cp \notin Surrogates
    BY <1>0, <1>2, NoSurrogate
  <2>4. Utf8Char(<< a, b >>)
    BY <2>2 DEF Utf8Char
  <2> QED
    BY <2>1, <2>3, <2>4
<1>3. CASE ~ (cp < 128) /\ ~ (cp < 2048)
  <2> DEFINE a == 224 + cp \div 4096
             b == 128 + ((cp \div 64) % 64)
             c == 128 + (cp % 64)
  <2>1. appendUtf8(cp) = << a, b, c >>
    BY <1>3 DEF appendUtf8
  <2>2. /\ a \in 224..239 /\ b \in 128..191 /\ c \in 128..191
        /\ a = 224 => b >= 160
        /\ a = 237 => (b >= 160 <=> cp >= 55296)
        /\ cp >= 55296 /\ cp <= 57343 => a = 237
        /\ cp > 57343 => a # 237
    BY <1>0, <1>3, ThreeByteForm
  <2> HIDE DEF a, b, c
  <2>3. Len(<< a, b, c >>) = 3 /\ << a, b, c >>[1] = a /\ << a, b, c >>[2] = b /\ << a, b, c >>[3] = c
    OBVIOUS
  <2>4. CASE cp \in Surrogates
    <3>1. cp >= 55296 /\ cp <= 57343
      BY <1>0, <2>4, SMTT(30) DEF Surrogates
    <3>2. a = 237 /\ b >= 160
      BY <2>2, <3>1
    <3> QED
      BY <2>1, <2>3, <2>4, <3>2 DEF SurrogateBytes
  <2>5. CASE cp \notin Surrogates
    <3>1. ~ (cp >= 55296 /\ cp <= 57343)
      BY <1>0, <2>5, SMTT(30) DEF Surrogates
    <3>2. a = 237 => b < 160
      BY <1>0, <2>2, <3>1
    <3>3. Utf8Char(<< a, b, c >>)
      BY <2>2, <2>3, <3>2 DEF Utf8Char
    <3> QED
      BY <2>1, <2>5, <3>3
  <2> QED
    BY <2>4, <2>5
<1> QED
  BY <1>1, <1>2, <1>3

\* So is what an escape means.
LEMMA EscapeAppends ==
  ASSUME NEW body \in Seq(Byte), NEW i \in DOMAIN body, i < Len(body), ~ Broken(body, i)
  PROVE  /\ Meaning(body, i) \in Seq(Byte)
         /\ IF Surrogate(body, i)
            THEN SurrogateBytes(Meaning(body, i))
            ELSE Utf8Char(Meaning(body, i))
<1>1. CASE UnicodeAt(body, i)
  <2> DEFINE cp == Hex4(SubSeq(body, i + 2, i + 5))
  <2>1. cp \in Units /\ body[i + 1] = 117
    BY <1>1, UnicodeBytes
  <2>2. Meaning(body, i) = appendUtf8(cp)
    BY <2>1, HexDigits DEF Meaning, SimpleAt
  <2>3. Surrogate(body, i) <=> cp \in Surrogates
    BY <1>1 DEF Surrogate
  <2> HIDE DEF cp
  <2> QED
    BY <2>1, <2>2, <2>3, AppendsChar, Utf8Bytes
<1>2. CASE ~ UnicodeAt(body, i)
  <2> DEFINE cp == SimpleEscape[body[i + 1]]
  <2>1. SimpleAt(body, i) /\ ~ Surrogate(body, i)
    BY <1>2 DEF Broken, Surrogate
  <2>2. cp \in 0..127
    BY <2>1, HexDigits DEF SimpleAt
  <2>3. Meaning(body, i) = << cp >>
    BY <2>1 DEF Meaning
  <2> HIDE DEF cp
  <2>4. cp < 128 /\ cp \in Nat
    BY <2>2
  <2>5. cp \in Byte
    BY <2>4, Bytes
  <2>6. << cp >> \in Seq(Byte)
    BY <2>5, SeqsOf
  <2>7. Utf8Char(<< cp >>)
    BY <2>4 DEF Utf8Char
  <2> QED
    BY <2>1, <2>3, <2>6, <2>7
<1> QED
  BY <1>1, <1>2

\* A surrogate is not passed over.
LEMMA SurrogateStops ==
  ASSUME NEW v \in Seq(Byte), NEW out \in Seq(Byte), NEW x \in Seq(Byte),
         SurrogateBytes(x), Begins(out \o x, v)
  PROVE  ~ Utf8From(v)[Len(out) + 1]
<1>1. PICK n \in Nat : n = Len(out)
  BY LenProperties
<1>2. Len(out \o x) = n + 3 /\ (out \o x)[n + 1] = 237 /\ (out \o x)[n + 2] = x[2]
  <2>1. PICK m \in Nat : m = Len(x)
    BY LenProperties
  <2>2. Len(out \o x) = n + m /\ \A k \in 1..m : (out \o x)[n + k] = x[k]
    BY <1>1, <2>1, JoinBegins
  <2>3. m = 3 /\ x[1] = 237
    BY <2>1 DEF SurrogateBytes
  <2>4. 1 \in 1..m /\ 2 \in 1..m
    BY <2>3
  <2>5. (out \o x)[n + 1] = x[1] /\ (out \o x)[n + 2] = x[2]
    BY <2>2, <2>4
  <2>6. Len(out \o x) = n + 3
    BY <2>2, <2>3
  <2> QED
    BY <2>3, <2>5, <2>6, Zenon
<1>3. n + 3 <= Len(v) /\ v[n + 1] = 237 /\ v[n + 2] = x[2]
  <2> DEFINE w == out \o x
  <2>1. Len(w) <= Len(v) /\ \A k \in 1..Len(w) : v[k] = w[k]
    BY DEF Begins
  <2>2. Len(w) = n + 3 /\ w[n + 1] = 237 /\ w[n + 2] = x[2]
    BY <1>2
  <2> HIDE DEF w
  <2>3. n + 1 \in 1..(n + 3) /\ n + 2 \in 1..(n + 3)
    OBVIOUS
  <2>4. v[n + 1] = w[n + 1] /\ v[n + 2] = w[n + 2] /\ n + 3 <= Len(v)
    BY <2>1, <2>2, <2>3, Zenon
  <2> QED
    BY <2>2, <2>4, Zenon
<1>4. Len(v) \in Nat
  BY LenProperties
<1>5. n + 1 \in 1..(Len(v) + 4) /\ ~ (n + 1 > Len(v)) /\ n + 1 + 1 = n + 2
  BY <1>3, <1>4
<1>6. Utf8From(v)[n + 1] <=> Utf8At(Utf8From(v), v, n + 1)
  BY <1>4, <1>5, Utf8Rec
<1>7. x[2] \in Nat
  <2>1. 2 \in 1..Len(x) /\ Numbers(x)
    BY NumbersOf DEF SurrogateBytes
  <2> QED
    BY <2>1 DEF Numbers
<1>8. ~ (x[2] < 160)
  BY <1>7 DEF SurrogateBytes
<1>9. ~ Utf8At(Utf8From(v), v, n + 1)
  BY <1>3, <1>5, <1>8 DEF Utf8At
<1> QED
  BY <1>1, <1>6, <1>9

LEMMA CharIs ==
  ASSUME NEW S, NEW x \in Seq(S)
  PROVE  /\ Len(x) = 1 => x = << x[1] >> /\ x[1] \in S
         /\ Len(x) = 2 => x = << x[1], x[2] >> /\ x[1] \in S /\ x[2] \in S
         /\ Len(x) = 3 => x = << x[1], x[2], x[3] >> /\ x[1] \in S /\ x[2] \in S /\ x[3] \in S
  OBVIOUS

LEMMA AppendPair ==
  ASSUME NEW S, NEW s \in Seq(S), NEW a \in S, NEW b \in S
  PROVE  /\ Append(s, a) = s \o << a >>
         /\ Append(Append(s, a), b) = s \o << a, b >>
  OBVIOUS

LEMMA AppendOneTwo ==
  ASSUME NEW S, NEW s \in Seq(S), NEW x \in Seq(S)
  PROVE  /\ Len(x) = 1 => Append(s, x[1]) = s \o x
         /\ Len(x) = 2 => Append(Append(s, x[1]), x[2]) = s \o x
<1>1. ASSUME Len(x) = 1 PROVE Append(s, x[1]) = s \o x
  <2>1. x = << x[1] >> /\ x[1] \in S
    BY <1>1, CharIs
  <2>2. Append(s, x[1]) = s \o << x[1] >>
    BY <2>1, AppendPair
  <2> QED
    BY <2>1, <2>2, Zenon
<1>2. ASSUME Len(x) = 2 PROVE Append(Append(s, x[1]), x[2]) = s \o x
  <2>1. x = << x[1], x[2] >> /\ x[1] \in S /\ x[2] \in S
    BY <1>2, CharIs
  <2>2. Append(Append(s, x[1]), x[2]) = s \o << x[1], x[2] >>
    BY <2>1, AppendPair
  <2> QED
    BY <2>1, <2>2, Zenon
<1> QED
  BY <1>1, <1>2

LEMMA AppendIs ==
  ASSUME NEW S, NEW s \in Seq(S), NEW a \in S
  PROVE  /\ Append(s, a) \in Seq(S) /\ Len(Append(s, a)) = Len(s) + 1
         /\ \A k \in 1..Len(s) : Append(s, a)[k] = s[k]
         /\ Append(s, a)[Len(s) + 1] = a
  OBVIOUS

LEMMA AppendThree ==
  ASSUME NEW S, NEW s \in Seq(S), NEW x \in Seq(S), Len(x) = 3
  PROVE  Append(Append(Append(s, x[1]), x[2]), x[3]) = s \o x
<1> DEFINE p == Append(s, x[1])
           q == Append(p, x[2])
           r == Append(q, x[3])
           t == s \o x
<1>1. PICK n \in Nat : n = Len(s)
  BY LenProperties
<1>2. x[1] \in S /\ x[2] \in S /\ x[3] \in S
  BY CharIs
<1>3. p \in Seq(S) /\ Len(p) = n + 1 /\ (\A k \in 1..n : p[k] = s[k]) /\ p[n + 1] = x[1]
  BY <1>1, <1>2, AppendIs
<1> HIDE DEF p
<1>4. /\ q \in Seq(S) /\ Len(q) = n + 1 + 1 /\ \A k \in 1..(n + 1) : q[k] = p[k]
      /\ q[n + 1 + 1] = x[2]
  BY <1>2, <1>3, AppendIs
<1> HIDE DEF q
<1>5. /\ r \in Seq(S) /\ Len(r) = n + 1 + 1 + 1 /\ \A k \in 1..(n + 1 + 1) : r[k] = q[k]
      /\ r[n + 1 + 1 + 1] = x[3]
  BY <1>2, <1>4, AppendIs
<1> HIDE DEF r
<1>6. /\ t \in Seq(S) /\ Len(t) = n + 3
      /\ \A k \in 1..(n + 3) : t[k] = IF k <= n THEN s[k] ELSE x[k - n]
  <2>1. /\ t \in Seq(S) /\ Len(t) = Len(s) + Len(x)
        /\ \A k \in 1..(Len(s) + Len(x)) : t[k] = IF k <= Len(s) THEN s[k] ELSE x[k - Len(s)]
    BY ConcatProperties
  <2> HIDE DEF t
  <2> QED
    BY <1>1, <2>1
<1> HIDE DEF t
<1>7. \A k \in 1..(n + 3) : r[k] = t[k]
  <2> TAKE k \in 1..(n + 3)
  <2>1. CASE k \in 1..n
    <3>1. k \in 1..(n + 1) /\ k \in 1..(n + 1 + 1) /\ k <= n
      BY <2>1
    <3> QED
      BY <1>3, <1>4, <1>5, <1>6, <2>1, <3>1
  <2>2. CASE k = n + 1
    <3>1. k \in 1..(n + 1) /\ k \in 1..(n + 1 + 1) /\ ~ (k <= n) /\ k - n = 1
      BY <2>2
    <3> QED
      BY <1>3, <1>4, <1>5, <1>6, <2>2, <3>1
  <2>3. CASE k = n + 1 + 1
    <3>1. k \in 1..(n + 1 + 1) /\ ~ (k <= n) /\ k - n = 2
      BY <2>3
    <3> QED
      BY <1>4, <1>5, <1>6, <2>3, <3>1
  <2>4. CASE k = n + 1 + 1 + 1
    <3>1. ~ (k <= n) /\ k - n = 3
      BY <2>4
    <3> QED
      BY <1>5, <1>6, <2>4, <3>1
  <2> QED
    BY <2>1, <2>2, <2>3, <2>4
<1>8. Len(r) = n + 3
  BY <1>5
<1>9. r = t
  BY <1>5, <1>6, <1>7, <1>8, SeqEqual
<1> QED
  BY <1>9 DEF p, q, r, t

LEMMA FourElements ==
  ASSUME NEW S, NEW x \in Seq(S), Len(x) = 4
  PROVE  x[1] \in S /\ x[2] \in S /\ x[3] \in S /\ x[4] \in S
<1>1. 1 \in 1..Len(x) /\ 2 \in 1..Len(x) /\ 3 \in 1..Len(x) /\ 4 \in 1..Len(x)
  OBVIOUS
<1> QED
  BY <1>1, ElementOfSeq

\* One more element than the beginning of x that is already appended.
LEMMA AppendLast ==
  ASSUME NEW S, NEW s \in Seq(S), NEW x \in Seq(S), Len(x) = 4
  PROVE  Append(s \o << x[1], x[2], x[3] >>, x[4]) = s \o x
<1> DEFINE y == << x[1], x[2], x[3] >>
           z == << x[4] >>
<1>1. x[1] \in S /\ x[2] \in S /\ x[3] \in S /\ x[4] \in S
  BY FourElements
<1>2. y \in Seq(S) /\ z \in Seq(S)
  BY <1>1, SeqsOf
<1>3. x = y \o z
  OBVIOUS
<1> HIDE DEF y
<1>4. s \o y \in Seq(S)
  BY <1>2
<1>5. Append(s \o y, x[4]) = (s \o y) \o z
  BY <1>1, <1>4, AppendPair
<1> HIDE DEF z
<1>6. (s \o y) \o z = s \o (y \o z)
  BY <1>2, ConcatAssociative
<1> QED
  BY <1>3, <1>5, <1>6 DEF y

LEMMA AppendFour ==
  ASSUME NEW S, NEW s \in Seq(S), NEW x \in Seq(S), Len(x) = 4
  PROVE  Append(Append(Append(Append(s, x[1]), x[2]), x[3]), x[4]) = s \o x
<1> DEFINE y == << x[1], x[2], x[3] >>
<1>1. x[1] \in S /\ x[2] \in S /\ x[3] \in S
  BY FourElements
<1>2. y \in Seq(S) /\ Len(y) = 3 /\ y[1] = x[1] /\ y[2] = x[2] /\ y[3] = x[3]
  BY <1>1, SeqsOf
<1> HIDE DEF y
<1>3. Append(Append(Append(s, y[1]), y[2]), y[3]) = s \o y
  BY <1>2, AppendThree
<1>4. Append(s \o y, x[4]) = s \o x
  BY AppendLast DEF y
<1> QED
  BY <1>2, <1>3, <1>4

\* The bytes behind the lead of a character are no backslashes.
LEMMA CharRest ==
  ASSUME NEW x, Utf8Char(x)
  PROVE  /\ Len(x) > 1 => x[2] # Backslash
         /\ Len(x) > 2 => x[3] # Backslash
         /\ Len(x) > 3 => x[4] # Backslash
<1>1. \A b \in 128..191 : b # Backslash
  BY DEF Backslash
<1>2. CASE Len(x) = 1
  BY <1>2
<1>3. CASE Len(x) = 2 /\ x[1] \in 194..223 /\ x[2] \in 128..191
  BY <1>1, <1>3
<1>4. CASE Len(x) = 3 /\ x[2] \in 128..191 /\ x[3] \in 128..191
  BY <1>1, <1>4
<1>5. CASE Len(x) = 4 /\ x[2] \in 128..191 /\ x[3] \in 128..191 /\ x[4] \in 128..191
  BY <1>1, <1>5
<1> QED
  BY <1>2, <1>3, <1>4, <1>5 DEF Utf8Char

\* The loop copies a character that is no backslash.
LEMMA ScanCopiesChar ==
  ASSUME NEW body \in Seq(Byte), NEW i, NEW out, Scanned(body, i, out), i <= Len(body),
         body[i] # Backslash, NEW x \in Seq(Byte), Utf8Char(x), HasAt(body, i, x)
  PROVE  /\ Scanned(body, i + Len(x), out \o x)
         /\ \A j \in Escapes(body) : j < i + Len(x) => j < i
<1>1. i \in Nat \ {0} /\ out \in Seq(Byte) /\ Len(x) \in {1, 2, 3, 4}
  BY DEF Scanned, Utf8Char
<1>2. Numbers(body) /\ Numbers(x)
  BY NumbersOf
<1>3. /\ i <= Len(body) /\ body[i] = x[1]
      /\ Len(x) > 1 => i + 1 <= Len(body) /\ body[i + 1] = x[2]
      /\ Len(x) > 2 => i + 2 <= Len(body) /\ body[i + 2] = x[3]
      /\ Len(x) > 3 => i + 3 <= Len(body) /\ body[i + 3] = x[4]
  <2>1. \A n \in {1, 2, 3, 4} : n \in Nat /\ n > 0
    OBVIOUS
  <2>2. Len(x) \in Nat /\ Len(x) > 0
    BY <1>1, <2>1, Zenon
  <2> QED
    BY <1>1, <1>2, <2>2, HasSome
<1>4. /\ Len(x) > 1 => body[i + 1] # Backslash
      /\ Len(x) > 2 => body[i + 2] # Backslash
      /\ Len(x) > 3 => body[i + 3] # Backslash
  BY <1>3, CharRest
<1>5. \A j \in Escapes(body) : j \in Nat /\ body[j] = Backslash
  BY EscapesAre
<1>6. Scanned(body, i + 1, Append(out, body[i]))
  BY ScanCopies
<1>7. CASE Len(x) = 1
  <2>2. Append(out, x[1]) = out \o x
    <3> HIDE DEF Byte
    <3> QED
      BY <1>1, <1>7, AppendOneTwo
  <2>3. \A j \in Nat : j < i + 1 => j < i \/ j = i
    BY <1>1
  <2> QED
    BY <1>3, <1>5, <1>6, <1>7, <2>2, <2>3
<1>8. CASE Len(x) = 2
  <2>2. Append(Append(out, x[1]), x[2]) = out \o x
    <3> HIDE DEF Byte
    <3> QED
      BY <1>1, <1>8, AppendOneTwo
  <2>3. \A j \in Nat : j < i + 2 => j < i \/ j = i \/ j = i + 1
    BY <1>1
  <2>4. i + 1 <= Len(body) /\ body[i + 1] # Backslash /\ body[i + 1] = x[2] /\ i + 1 + 1 = i + 2
    BY <1>1, <1>3, <1>4, <1>8
  <2>5. Scanned(body, i + 2, Append(Append(out, body[i]), body[i + 1]))
    BY <1>6, <2>4, ScanCopies
  <2> QED
    BY <1>3, <1>5, <1>8, <2>2, <2>3, <2>4, <2>5
<1>9. CASE Len(x) = 3
  <2>2. Append(Append(Append(out, x[1]), x[2]), x[3]) = out \o x
    <3> HIDE DEF Byte
    <3> QED
      BY <1>1, <1>9, AppendThree
  <2>3. \A j \in Nat : j < i + 3 => j < i \/ j = i \/ j = i + 1 \/ j = i + 2
    BY <1>1
  <2>4. /\ i + 1 <= Len(body) /\ body[i + 1] # Backslash /\ body[i + 1] = x[2] /\ i + 1 + 1 = i + 2
        /\ i + 2 <= Len(body) /\ body[i + 2] # Backslash /\ body[i + 2] = x[3] /\ i + 2 + 1 = i + 3
    BY <1>1, <1>3, <1>4, <1>9
  <2>5. Scanned(body, i + 2, Append(Append(out, body[i]), body[i + 1]))
    BY <1>6, <2>4, ScanCopies
  <2>6. Scanned(body, i + 3, Append(Append(Append(out, body[i]), body[i + 1]), body[i + 2]))
    BY <2>4, <2>5, ScanCopies
  <2> QED
    BY <1>3, <1>5, <1>9, <2>2, <2>3, <2>4, <2>6
<1>10. CASE Len(x) = 4
  <2>2. Append(Append(Append(Append(out, x[1]), x[2]), x[3]), x[4]) = out \o x
    <3> HIDE DEF Byte
    <3> QED
      BY <1>1, <1>10, AppendFour
  <2>3. \A j \in Nat : j < i + 4 => j < i \/ j = i \/ j = i + 1 \/ j = i + 2 \/ j = i + 3
    BY <1>1
  <2>4. /\ i + 1 <= Len(body) /\ body[i + 1] # Backslash /\ body[i + 1] = x[2] /\ i + 1 + 1 = i + 2
        /\ i + 2 <= Len(body) /\ body[i + 2] # Backslash /\ body[i + 2] = x[3] /\ i + 2 + 1 = i + 3
        /\ i + 3 <= Len(body) /\ body[i + 3] # Backslash /\ body[i + 3] = x[4] /\ i + 3 + 1 = i + 4
    BY <1>1, <1>3, <1>4, <1>10
  <2>5. Scanned(body, i + 2, Append(Append(out, body[i]), body[i + 1]))
    BY <1>6, <2>4, ScanCopies
  <2>6. Scanned(body, i + 3, Append(Append(Append(out, body[i]), body[i + 1]), body[i + 2]))
    BY <2>4, <2>5, ScanCopies
  <2>7. Scanned(body, i + 4,
          Append(Append(Append(Append(out, body[i]), body[i + 1]), body[i + 2]), body[i + 3]))
    BY <2>4, <2>6, ScanCopies
  <2> QED
    BY <1>3, <1>5, <1>10, <2>2, <2>3, <2>4, <2>7
<1> QED
  BY <1>1, <1>7, <1>8, <1>9, <1>10

\* The reader of the text and the reader of the value stand at places that
\* belong together, and no surrogate was met so far.
Together(body, i) ==
  LET out == Contents(body)[i - 1]
  IN  /\ Scanned(body, i, out) /\ Utf8From(body)[i]
      /\ Utf8From(Content(body))[Len(out) + 1] <=> IsUtf8(Content(body))
      /\ \A j \in Escapes(body) : j < i => ~ Surrogate(body, j)

\* From there both pass over one more character or escape.
LEMMA TogetherOn ==
  ASSUME NEW body \in Seq(Byte), Sound(body), NEW i, Together(body, i), i <= Len(body),
         i \in Escapes(body) => ~ Surrogate(body, i)
  PROVE  \E e \in Nat : e > i /\ Together(body, e)
<1> DEFINE out == Contents(body)[i - 1]
           v == Content(body)
<1>1. /\ Scanned(body, i, out) /\ Utf8From(body)[i]
      /\ Utf8From(v)[Len(out) + 1] <=> IsUtf8(v)
      /\ \A j \in Escapes(body) : j < i => ~ Surrogate(body, j)
  BY DEF Together
<1> HIDE DEF out, v
<1>2. i \in Nat \ {0} /\ out \in Seq(Byte) /\ v \in Seq(Byte)
  BY <1>1, ContentsBegin DEF Scanned, v
<1>3. ASSUME NEW x \in Seq(Byte), NEW e \in Nat, e > i, Utf8Char(x),
             Scanned(body, e, out \o x), Utf8From(body)[e],
             \A j \in Escapes(body) : j < e => j < i \/ j = i
      PROVE  Together(body, e)
  <2>1. e \in 1..(Len(body) + 1) /\ out \o x = Contents(body)[e - 1]
    BY <1>3 DEF Scanned
  <2>2. Len(body) \in Nat
    BY LenProperties
  <2>3. e - 1 \in 0..Len(body)
    BY <1>3, <2>1, <2>2
  <2>4. Begins(out \o x, v)
    BY <2>1, <2>3, ContentsBegin DEF v
  <2>5. Utf8From(v)[Len(out) + 1] <=> Utf8From(v)[Len(out \o x) + 1]
    BY <1>2, <1>3, <2>4, ValuePasses
  <2>6. \A j \in Escapes(body) : j < e => ~ Surrogate(body, j)
    BY <1>1, <1>3
  <2> QED
    BY <1>1, <1>3, <2>1, <2>5, <2>6 DEF Together, v
<1>4. CASE body[i] = Backslash
  <2>1. i \in Escapes(body) /\ i \in DOMAIN body /\ i < Len(body) /\ ~ Broken(body, i)
    BY <1>1, <1>4, ScanMeetsEscape DEF Sound
  <2>2. Utf8Char(Meaning(body, i)) /\ Meaning(body, i) \in Seq(Byte)
    BY <2>1, EscapeAppends
  <2>3. Scanned(body, EndOf(body, i) + 1, out \o Meaning(body, i))
    BY <1>1, <2>1, ScanDecodes
  <2>4. Utf8From(body)[EndOf(body, i) + 1]
    BY <1>1, <2>1, EscapePasses
  <2>5. /\ EndOf(body, i) \in (i + 1)..Len(body)
        /\ \A j \in (i + 1)..EndOf(body, i) : j \notin Escapes(body)
    BY <2>1, EscapeSpans
  <2>6. EndOf(body, i) + 1 \in Nat /\ EndOf(body, i) + 1 > i
    BY <1>2, <2>5
  <2>7. \A j \in Escapes(body) : j < EndOf(body, i) + 1 => j < i \/ j = i
    <3> TAKE j \in Escapes(body)
    <3>1. j \in Nat
      BY EscapesAre
    <3> QED
      BY <1>2, <2>5, <2>6, <3>1
  <2> QED
    BY <1>3, <2>2, <2>3, <2>4, <2>6, <2>7
<1>5. CASE body[i] # Backslash
  <2>1. PICK x \in Seq(Byte) : Utf8Char(x) /\ HasAt(body, i, x)
    BY <1>1, <1>2, CharStands
  <2>2. /\ Scanned(body, i + Len(x), out \o x)
        /\ \A j \in Escapes(body) : j < i + Len(x) => j < i
    BY <1>1, <1>5, <2>1, ScanCopiesChar
  <2>3. Utf8From(body)[i + Len(x)]
    BY <1>1, <1>2, <2>1, NumbersOf, PassesChar
  <2>4. i + Len(x) \in Nat /\ i + Len(x) > i
    BY <1>2, <2>1 DEF Utf8Char
  <2> QED
    BY <1>3, <2>1, <2>2, <2>3, <2>4
<1> QED
  BY <1>4, <1>5

\* The greatest element of a set of numbers up to n.
LEMMA Greatest ==
  ASSUME NEW n \in Nat, NEW T, T \subseteq 0..n, T # {}
  PROVE  \E i \in T : \A k \in T : k <= i
<1> DEFINE U == {m \in 0..n : n - m \in T}
<1>1. U \subseteq Nat
  OBVIOUS
<1>2. PICK t : t \in T /\ t \in 0..n
  OBVIOUS
<1>3. n - t \in 0..n /\ n - (n - t) = t
  BY <1>2
<1>4. U # {}
  BY <1>2, <1>3
<1> HIDE DEF U
<1>5. PICK m \in U : \A k \in U : m <= k
  BY <1>1, <1>4, Least
<1>6. m \in 0..n /\ n - m \in T
  BY <1>5 DEF U
<1>7. \A k \in T : k <= n - m
  <2> TAKE k \in T
  <2>1. k \in 0..n /\ n - k \in 0..n /\ n - (n - k) = k
    OBVIOUS
  <2>2. m <= n - k
    BY <1>5, <2>1 DEF U
  <2> QED
    BY <1>6, <2>1, <2>2
<1> QED
  BY <1>6, <1>7

LEMMA ContentUtf8 ==
  ASSUME NEW body \in Seq(Byte), Sound(body), IsUtf8(body)
  PROVE  IsUtf8(Content(body)) <=> \A i \in Escapes(body) : ~ Surrogate(body, i)
<1> DEFINE T == {i \in 1..(Len(body) + 1) : Together(body, i)}
<1>1. PICK n \in Nat : n = Len(body)
  BY LenProperties
<1>2. Content(body) \in Seq(Byte) /\ Len(Content(body)) \in Nat
  BY ContentsBegin, LenProperties
<1>3. Together(body, 1)
  <2>1. Scanned(body, 1, << >>) /\ Contents(body)[0] = << >> /\ 1 - 1 = 0
    BY ScanBegins, ContentsRec
  <2>2. Len(<< >>) + 1 = 1
    OBVIOUS
  <2>3. \A j \in Escapes(body) : ~ (j < 1)
    BY EscapesAre
  <2> QED
    BY <2>1, <2>2, <2>3 DEF Together, IsUtf8
<1>4. T # {} /\ T \subseteq 0..(n + 1) /\ n + 1 \in Nat
  BY <1>1, <1>3
<1> HIDE DEF T
<1>5. PICK i \in T : \A k \in T : k <= i
  BY <1>4, Greatest
<1>6. i \in 1..(n + 1) /\ Together(body, i)
  BY <1>1, <1>5 DEF T
<1> DEFINE out == Contents(body)[i - 1]
           v == Content(body)
<1>7. /\ Scanned(body, i, out) /\ Utf8From(body)[i] /\ out \in Seq(Byte)
      /\ Utf8From(v)[Len(out) + 1] <=> IsUtf8(v)
      /\ \A j \in Escapes(body) : j < i => ~ Surrogate(body, j)
  BY <1>6 DEF Together, Scanned
<1>8. CASE i = n + 1
  <2>1. out = v
    <3>1. i - 1 = n
      BY <1>8
    <3> QED
      BY <1>1, <3>1 DEF Content
  <2>2. Utf8From(v)[Len(v) + 1]
    <3> HIDE DEF v, out
    <3>1. Len(v) + 1 \in 1..(Len(v) + 4) /\ Len(v) + 1 > Len(v) /\ Len(v) \in Nat
      BY <1>2 DEF v
    <3>2. Utf8From(v)[Len(v) + 1] <=> Utf8At(Utf8From(v), v, Len(v) + 1)
      BY <3>1, Utf8Rec
    <3>3. Utf8At(Utf8From(v), v, Len(v) + 1)
      BY <3>1 DEF Utf8At
    <3> QED
      BY <3>2, <3>3
  <2>3. \A j \in Escapes(body) : j < i
    BY <1>1, <1>8, EscapesAre
  <2> HIDE DEF v, out
  <2> QED
    BY <1>7, <2>1, <2>2, <2>3 DEF v
<1>9. CASE i # n + 1
  <2>1. i \in 1..n /\ i \in Nat
    BY <1>6, <1>9
  <2>2. i \in Escapes(body) /\ Surrogate(body, i)
    <3> SUFFICES ASSUME i \in Escapes(body) => ~ Surrogate(body, i) PROVE FALSE
      OBVIOUS
    <3>1. PICK e \in Nat : e > i /\ Together(body, e)
      BY <1>1, <1>6, <2>1, TogetherOn
    <3>2. e \in 1..(n + 1)
      BY <1>1, <3>1 DEF Together, Scanned
    <3>3. e <= i
      BY <1>1, <1>5, <3>1, <3>2 DEF T
    <3> QED
      BY <2>1, <3>1, <3>3
  <2>3. i \in DOMAIN body /\ i < Len(body) /\ ~ Broken(body, i)
    BY <1>1, <2>1, <2>2, EscapesAre DEF Sound, IsStringBody
  <2> DEFINE x == Meaning(body, i)
             e == EndOf(body, i)
  <2>4. x \in Seq(Byte) /\ SurrogateBytes(x)
    BY <2>2, <2>3, EscapeAppends
  <2>5. Scanned(body, e + 1, out \o x)
    BY <1>7, <2>2, <2>3, ScanDecodes
  <2>6. e \in 0..n /\ (e + 1) - 1 = e
    <3>1. e \in (i + 1)..n
      BY <1>1, <2>2, <2>3, EscapeSpans
    <3> HIDE DEF e
    <3> QED
      BY <2>1, <3>1
  <2>7. out \o x = Contents(body)[e]
    BY <2>5, <2>6 DEF Scanned
  <2>8. Begins(out \o x, v)
    BY <1>1, <2>6, <2>7, ContentsBegin
  <2> HIDE DEF v, out, x, e
  <2>9. ~ Utf8From(v)[Len(out) + 1]
    BY <1>2, <1>7, <2>4, <2>8, SurrogateStops DEF v
  <2> QED
    BY <1>7, <2>2, <2>9 DEF v
<1> QED
  BY <1>8, <1>9

\* Theorem DecodesToUtf8Holds: from a text in UTF-8 comes a value in UTF-8,
\* unless an escape that is decoded is a surrogate, and then never
\* (decodeStringBody, appendUtf8), for every text.
THEOREM DecodesToUtf8Holds == Spec => []DecodesToUtf8
<1>1. StringInv => DecodesToUtf8
  <2> SUFFICES ASSUME StringInv, Visited("STRING_LITERAL"), IsUtf8(token.text)
               PROVE  IsUtf8(value[2]) <=>
                        \/ value[1] = "raw"
                        \/ \A i \in Escapes(token.text) : ~ Surrogate(token.text, i)
    <3>1. \A i : Surrogate(token.text, i) <=>
                  UnicodeAt(token.text, i) /\ Hex4(SubSeq(token.text, i + 2, i + 5)) \in Surrogates
      BY Zenon DEF Surrogate
    <3>2. PICK S : S = Surrogates
      OBVIOUS
    <3>3. S = 55296..57343
      BY <3>2, SMTT(30) DEF Surrogates
    <3>4. DecodesToUtf8 <=>
            ((Visited("STRING_LITERAL") /\ IsUtf8(token.text)) =>
               (IsUtf8(value[2]) <=>
                  \/ value[1] = "raw"
                  \/ \A i \in Escapes(token.text) :
                       ~ (UnicodeAt(token.text, i) /\ Hex4(SubSeq(token.text, i + 2, i + 5)) \in S)))
      BY <3>3 DEF DecodesToUtf8
    <3> QED
      BY <3>1, <3>2, <3>4, Zenon
  <2> DEFINE body == token.text
             bad == {i \in Escapes(body) : ~ SimpleAt(body, i) /\ ~ UnicodeAt(body, i)}
  <2>1. token \in Tokens /\ token.kind = "STRING_LITERAL" /\ Exact(body, value, reports)
    BY DEF StringInv, Visited
  <2>2. body \in Seq(Byte) /\ IsStringBody(body)
    BY <2>1, StringTokens
  <2> HIDE DEF body
  <2>3. CASE bad = {}
    <3>1. value = << "decoded", Content(body) >>
      BY <2>1, <2>3 DEF Exact
    <3>2. value[2] = Content(body) /\ value[1] # "raw"
      BY <3>1
    <3>3. Sound(body)
      BY <2>2, <2>3 DEF Sound, Broken
    <3>4. IsUtf8(body)
      BY DEF body
    <3>5. IsUtf8(Content(body)) <=> \A i \in Escapes(body) : ~ Surrogate(body, i)
      BY <2>2, <3>3, <3>4, ContentUtf8
    <3> QED
      BY <3>2, <3>5 DEF body
  <2>4. CASE bad # {}
    <3>1. value = << "raw", body >>
      BY <2>1, <2>4, Zenon DEF Exact
    <3>2. value[1] = "raw" /\ value[2] = body
      BY <3>1
    <3> QED
      BY <3>2 DEF body
  <2> QED
    BY <2>3, <2>4, Zenon
<1> QED
  BY <1>1, StringInvInit, StringInvNext, PTL DEF Spec

-----------------------------------------------------------------------------
(* Powers and numerals.  The recursions are sums of the same kind: each    *)
(* value is b times the one before it, and a digit.                        *)

Grows(f, n, b, d) == f = [k \in 0..n |-> IF k = 0 THEN d[0] ELSE b * f[k - 1] + d[k]]

\* Digits for every place from 0 to n.
Digits(d, n) == \A k \in 0..n : d[k] \in Nat

LEMMA GrowsRec ==
  ASSUME NEW n \in Nat, NEW b \in Nat, NEW d, NEW f, Grows(f, n, b, d)
  PROVE  /\ f[0] = d[0] /\ \A k \in 1..n : f[k] = b * f[k - 1] + d[k]
         /\ f = [k \in 0..n |-> f[k]]
<1>1. \A k \in 0..n : f[k] = IF k = 0 THEN d[0] ELSE b * f[k - 1] + d[k]
  BY DEF Grows
<1>2. f = [k \in 0..n |-> f[k]]
  BY DEF Grows
<1>3. f[0] = d[0]
  BY <1>1
<1>4. \A k \in 1..n : k \in 0..n /\ k # 0
  OBVIOUS
<1>5. \A k \in 1..n : f[k] = b * f[k - 1] + d[k]
  BY <1>1, <1>4, Zenon
<1> QED
  BY <1>2, <1>3, <1>5

LEMMA GrowsBy ==
  ASSUME NEW n \in Nat, NEW b \in Nat, NEW d, NEW f, f = [k \in 0..n |-> f[k]],
         f[0] = d[0], \A k \in 1..n : f[k] = b * f[k - 1] + d[k]
  PROVE  Grows(f, n, b, d)
<1>1. \A k \in 0..n : k # 0 => k \in 1..n
  OBVIOUS
<1>2. \A k \in 0..n : f[k] = IF k = 0 THEN d[0] ELSE b * f[k - 1] + d[k]
  BY <1>1, Zenon
<1> QED
  BY <1>2, Zenon DEF Grows

LEMMA GrowsExist ==
  ASSUME NEW b \in Nat, NEW d, NEW n \in Nat
  PROVE  \E f : Grows(f, n, b, d)
<1> DEFINE T == {k \in Nat : ~ \E f : Grows(f, k, b, d)}
<1> SUFFICES ASSUME T # {} PROVE FALSE
  OBVIOUS
<1>1. PICK k \in T : \A m \in T : k <= m
  BY Least
<1>2. CASE k = 0
  <2>1. PICK f : f = [i \in 0..0 |-> d[0]]
    OBVIOUS
  <2>2. f[0] = d[0] /\ f = [i \in 0..0 |-> f[i]]
    BY <2>1
  <2>3. \A i \in 1..0 : f[i] = b * f[i - 1] + d[i]
    OBVIOUS
  <2>4. Grows(f, 0, b, d)
    BY <2>2, <2>3, GrowsBy
  <2> QED
    BY <1>2, <2>4
<1>3. CASE k # 0
  <2>1. k - 1 \in Nat /\ k - 1 \notin T
    BY <1>1, <1>3
  <2>2. PICK f : Grows(f, k - 1, b, d)
    BY <2>1
  <2>3. PICK h : h = [i \in 0..k |-> IF i = k THEN b * f[k - 1] + d[k] ELSE f[i]]
    OBVIOUS
  <2>4. f[0] = d[0] /\ \A i \in 1..(k - 1) : f[i] = b * f[i - 1] + d[i]
    BY <2>1, <2>2, GrowsRec
  <2>5. h[0] = d[0] /\ h = [i \in 0..k |-> h[i]]
    BY <1>3, <2>3, <2>4
  <2>6. \A i \in 1..k : h[i] = b * h[i - 1] + d[i]
    <3> SUFFICES ASSUME NEW i \in 1..k PROVE h[i] = b * h[i - 1] + d[i]
      OBVIOUS
    <3>1. h[i - 1] = f[i - 1]
      BY <2>1, <2>3
    <3>2. CASE i = k
      BY <2>1, <2>3, <3>1, <3>2
    <3>3. CASE i # k
      <4>1. h[i] = f[i] /\ i \in 1..(k - 1)
        BY <2>1, <2>3, <3>3
      <4> QED
        BY <2>4, <3>1, <4>1
    <3> QED
      BY <3>2, <3>3
  <2>7. Grows(h, k, b, d)
    BY <1>1, <2>5, <2>6, GrowsBy
  <2> QED
    BY <2>7
<1> QED
  BY <1>2, <1>3

\* Such values are naturals, and do not depend on what comes behind them.
LEMMA GrowsNat ==
  ASSUME NEW n \in Nat, NEW b \in Nat, NEW d, Digits(d, n), NEW f, Grows(f, n, b, d)
  PROVE  \A k \in 0..n : f[k] \in Nat
<1> DEFINE T == {k \in 0..n : f[k] \notin Nat}
<1> SUFFICES ASSUME T # {} PROVE FALSE
  OBVIOUS
<1>1. PICK k \in T : \A m \in T : k <= m
  <2>1. T \subseteq Nat
    OBVIOUS
  <2> QED
    BY <2>1, Least
<1>2. f[0] = d[0] /\ \A i \in 1..n : f[i] = b * f[i - 1] + d[i]
  BY GrowsRec
<1>3. d[k] \in Nat /\ k \in 0..n
  BY <1>1 DEF Digits
<1>4. CASE k = 0
  BY <1>1, <1>2, <1>3, <1>4
<1>5. CASE k # 0
  <2>1. k - 1 \in 0..n /\ k - 1 \notin T /\ k \in 1..n
    BY <1>1, <1>3, <1>5
  <2>2. PICK x \in Nat : x = f[k - 1]
    BY <2>1
  <2>3. f[k] = b * x + d[k]
    BY <1>2, <2>1, <2>2
  <2>4. b * x \in Nat
    OBVIOUS
  <2> QED
    BY <1>1, <1>3, <2>3, <2>4
<1> QED
  BY <1>4, <1>5

LEMMA GrowsAgree ==
  ASSUME NEW m \in Nat, NEW n \in Nat, n <= m, NEW b \in Nat, NEW d,
         NEW f, NEW g, Grows(f, n, b, d), Grows(g, m, b, d)
  PROVE  \A k \in 0..n : f[k] = g[k]
<1> DEFINE T == {k \in 0..n : f[k] # g[k]}
<1> SUFFICES ASSUME T # {} PROVE FALSE
  OBVIOUS
<1>1. PICK k \in T : \A i \in T : k <= i
  <2>1. T \subseteq Nat
    OBVIOUS
  <2> QED
    BY <2>1, Least
<1>2. f[0] = d[0] /\ \A i \in 1..n : f[i] = b * f[i - 1] + d[i]
  BY GrowsRec
<1>3. g[0] = d[0] /\ \A i \in 1..m : g[i] = b * g[i - 1] + d[i]
  BY GrowsRec
<1>4. CASE k = 0
  BY <1>1, <1>2, <1>3, <1>4
<1>5. CASE k # 0
  <2>1. k - 1 \in 0..n /\ k - 1 \notin T /\ k \in 1..n /\ k \in 1..m /\ k \in 0..n
    BY <1>1, <1>5
  <2>2. f[k - 1] = g[k - 1]
    BY <2>1
  <2>3. f[k] = g[k]
    BY <1>2, <1>3, <2>1, <2>2
  <2> QED
    BY <1>1, <2>3
<1> QED
  BY <1>4, <1>5

\* The power of b is b times the one below it.
LEMMA PowersGrow ==
  ASSUME NEW b \in Nat, NEW n \in Nat
  PROVE  Grows(Powers(b, n), n, b, [k \in Nat |-> IF k = 0 THEN 1 ELSE 0])
<1> DEFINE R(f) == f = [k \in 0..n |-> IF k = 0 THEN 1 ELSE b * f[k - 1]]
           d == [k \in Nat |-> IF k = 0 THEN 1 ELSE 0]
           u == CHOOSE f : R(f)
<1>1. PICK f : Grows(f, n, b, d)
  BY GrowsExist
<1>2. Digits(d, n) /\ d[0] = 1 /\ \A k \in 1..n : d[k] = 0
  BY DEF Digits
<1> HIDE DEF d
<1>3. \A k \in 0..n : f[k] \in Nat
  BY <1>1, <1>2, GrowsNat
<1>4. /\ f[0] = d[0] /\ \A k \in 1..n : f[k] = b * f[k - 1] + d[k]
      /\ f = [k \in 0..n |-> f[k]]
  BY <1>1, GrowsRec
<1>5. \A k \in 1..n : f[k] = b * f[k - 1]
  <2> SUFFICES ASSUME NEW k \in 1..n PROVE f[k] = b * f[k - 1]
    OBVIOUS
  <2>1. PICK x \in Nat : x = f[k - 1]
    BY <1>3
  <2>2. b * x \in Nat
    OBVIOUS
  <2>3. f[k] = b * x + 0
    BY <1>2, <1>4, <2>1
  <2> QED
    BY <2>1, <2>2, <2>3
<1>6. R(f)
  <2>1. \A k \in 0..n : k # 0 => k \in 1..n
    OBVIOUS
  <2>2. \A k \in 0..n : f[k] = IF k = 0 THEN 1 ELSE b * f[k - 1]
    BY <1>2, <1>4, <1>5, <2>1
  <2> QED
    BY <1>4, <2>2, Zenon
<1>7. R(u)
  BY <1>6
<1>8. Powers(b, n) = u
  BY DEF Powers
<1> HIDE DEF u
<1>9. u = [k \in 0..n |-> u[k]] /\ u[0] = 1 /\ \A k \in 1..n : u[k] = b * u[k - 1]
  <2>1. \A k \in 0..n : u[k] = IF k = 0 THEN 1 ELSE b * u[k - 1]
    BY <1>7
  <2>2. u = [k \in 0..n |-> u[k]]
    BY <1>7
  <2>3. \A k \in 1..n : k \in 0..n /\ k # 0
    OBVIOUS
  <2>4. u[0] = 1
    BY <2>1
  <2> QED
    BY <2>1, <2>2, <2>3, <2>4, Zenon
<1>10. \A k \in 0..n : u[k] \in Nat
  <2> DEFINE T == {k \in 0..n : u[k] \notin Nat}
  <2> SUFFICES ASSUME T # {} PROVE FALSE
    OBVIOUS
  <2>1. PICK k \in T : \A i \in T : k <= i
    <3>1. T \subseteq Nat
      OBVIOUS
    <3> QED
      BY <3>1, Least
  <2>2. k # 0
    BY <1>9, <2>1
  <2>3. k - 1 \in 0..n /\ k - 1 \notin T /\ k \in 1..n
    BY <2>1, <2>2
  <2>4. PICK x \in Nat : x = u[k - 1]
    BY <2>3
  <2>5. b * x \in Nat
    OBVIOUS
  <2>6. u[k] = b * x
    BY <1>9, <2>3, <2>4
  <2> QED
    BY <2>1, <2>5, <2>6
<1>11. \A k \in 1..n : u[k] = b * u[k - 1] + d[k]
  <2> SUFFICES ASSUME NEW k \in 1..n PROVE u[k] = b * u[k - 1] + d[k]
    OBVIOUS
  <2>1. PICK x \in Nat : x = u[k - 1]
    BY <1>10
  <2>2. b * x \in Nat
    OBVIOUS
  <2>3. u[k] = b * x /\ d[k] = 0
    BY <1>2, <1>9, <2>1
  <2> QED
    BY <2>1, <2>2, <2>3
<1>12. Grows(u, n, b, d)
  BY <1>2, <1>9, <1>11, GrowsBy
<1> QED
  BY <1>8, <1>12 DEF d

LEMMA PowerRec ==
  ASSUME NEW b \in Nat, NEW n \in Nat
  PROVE  /\ Power(b, 0) = 1 /\ Power(b, n) \in Nat
         /\ Power(b, n + 1) = b * Power(b, n)
<1> DEFINE d == [k \in Nat |-> IF k = 0 THEN 1 ELSE 0]
<1>1. PICK f, g, h : f = Powers(b, 0) /\ g = Powers(b, n) /\ h = Powers(b, n + 1)
  OBVIOUS
<1>2. Grows(f, 0, b, d) /\ Grows(g, n, b, d) /\ Grows(h, n + 1, b, d)
  BY <1>1, PowersGrow
<1>3. d[0] = 1 /\ d[n + 1] = 0 /\ Digits(d, n)
  BY DEF Digits
<1> HIDE DEF d
<1>4. f[0] = 1
  BY <1>2, <1>3, GrowsRec
<1>5. g[n] \in Nat
  BY <1>2, <1>3, GrowsNat
<1>6. g[n] = h[n]
  <2>1. PICK m \in Nat : m = n + 1
    OBVIOUS
  <2>2. n <= m /\ Grows(h, m, b, d)
    BY <1>2, <2>1
  <2>3. \A k \in 0..n : g[k] = h[k]
    BY <1>2, <2>2, GrowsAgree
  <2> QED
    BY <2>3
<1>7. h[n + 1] = b * h[n] + 0
  <2>1. n + 1 \in Nat /\ n + 1 \in 1..(n + 1) /\ (n + 1) - 1 = n
    OBVIOUS
  <2>2. \A k \in 1..(n + 1) : h[k] = b * h[k - 1] + d[k]
    BY <1>2, <2>1, GrowsRec
  <2> QED
    BY <1>3, <2>1, <2>2
<1>8. PICK x \in Nat : x = g[n]
  BY <1>5
<1>9. b * x \in Nat
  OBVIOUS
<1>10. h[n + 1] = b * x
  BY <1>6, <1>7, <1>8, <1>9
<1> QED
  BY <1>1, <1>4, <1>8, <1>10 DEF Power

\* The powers of two.
LEMMA TwoTo ==
  /\ Power(2, 0) = 1
  /\ \A n \in Nat : Power(2, n) \in Nat \ {0} /\ Power(2, n + 1) = 2 * Power(2, n)
<1>1. Power(2, 0) = 1 /\ \A n \in Nat : Power(2, n) \in Nat /\ Power(2, n + 1) = 2 * Power(2, n)
  BY PowerRec
<1> DEFINE T == {n \in Nat : Power(2, n) = 0}
<1> SUFFICES ASSUME T # {} PROVE FALSE
  BY <1>1
<1>2. PICK n \in T : \A m \in T : n <= m
  BY Least
<1>3. n # 0
  BY <1>1, <1>2
<1>4. PICK m : m = n - 1
  OBVIOUS
<1>5. m \in Nat /\ m + 1 = n /\ m \notin T
  BY <1>2, <1>3, <1>4
<1> QED
  BY <1>1, <1>2, <1>5

LEMMA TwoToUp ==
  ASSUME NEW m \in Nat, NEW n \in Nat, m <= n
  PROVE  Power(2, m) <= Power(2, n)
<1> DEFINE T == {k \in Nat : k >= m /\ ~ (Power(2, m) <= Power(2, k))}
<1> SUFFICES ASSUME T # {} PROVE FALSE
  OBVIOUS
<1>1. PICK k \in T : \A i \in T : k <= i
  BY Least
<1>2. k # m
  BY <1>1, TwoTo
<1>3. PICK j : j = k - 1
  OBVIOUS
<1>4. j \in Nat /\ j + 1 = k /\ j >= m /\ j \notin T
  BY <1>1, <1>2, <1>3
<1>5. Power(2, m) <= Power(2, j)
  BY <1>4
<1>6. Power(2, k) = 2 * Power(2, j) /\ Power(2, j) \in Nat /\ Power(2, m) \in Nat
  BY <1>4, TwoTo
<1> QED
  BY <1>1, <1>5, <1>6

\* The digits of the radixes take one, three and four bits each.
LEMMA TwoToMore ==
  ASSUME NEW n \in Nat
  PROVE  /\ Power(2, n + 1) = 2 * Power(2, n) /\ Power(2, n + 3) = 8 * Power(2, n)
         /\ Power(2, n + 4) = 16 * Power(2, n)
<1>1. PICK i, j, k : i = n + 1 /\ j = i + 1 /\ k = j + 1
  OBVIOUS
<1>2. i \in Nat /\ j \in Nat /\ k \in Nat /\ k = n + 3 /\ k + 1 = n + 4
  BY <1>1
<1>3. /\ Power(2, i) = 2 * Power(2, n) /\ Power(2, j) = 2 * Power(2, i)
      /\ Power(2, k) = 2 * Power(2, j) /\ Power(2, k + 1) = 2 * Power(2, k)
  BY <1>1, <1>2, TwoTo
<1>4. Power(2, n) \in Nat
  BY TwoTo
<1> QED
  BY <1>1, <1>2, <1>3, <1>4

\* The bits of a value, and whether they are too many.
LEMMA ActiveBitsExact ==
  ASSUME NEW raw, raw.width \in Nat, raw.value \in Nat, raw.value < Power(2, raw.width)
  PROVE  /\ ActiveBits(raw) \in Nat /\ raw.value < Power(2, ActiveBits(raw))
         /\ ActiveBits(raw) > 0 => raw.value >= Power(2, ActiveBits(raw) - 1)
<1>1. PICK w, v : w = raw.width /\ v = raw.value
  OBVIOUS
<1> DEFINE T == {n \in 0..w : v < Power(2, n)}
           A(n) == v < Power(2, n) /\ (n > 0 => v >= Power(2, n - 1))
<1>2. PICK n \in T : \A m \in T : n <= m
  <2>1. w \in T /\ T \subseteq Nat
    BY <1>1
  <2> QED
    BY <2>1, Least
<1>3. n > 0 => v >= Power(2, n - 1)
  <2> SUFFICES ASSUME n > 0 PROVE v >= Power(2, n - 1)
    OBVIOUS
  <2>1. PICK m : m = n - 1
    OBVIOUS
  <2>2. m \in 0..w /\ m \in Nat /\ m \notin T
    BY <1>1, <1>2, <2>1
  <2>3. Power(2, m) \in Nat
    BY <2>2, TwoTo
  <2>4. ~ (v < Power(2, m))
    BY <2>2
  <2> QED
    BY <1>1, <2>1, <2>3, <2>4
<1>4. n \in 0..w /\ A(n)
  BY <1>2, <1>3
<1>5. ActiveBits(raw) = CHOOSE k \in 0..w : A(k)
  BY <1>1, Zenon DEF ActiveBits
<1>6. PICK x : x = ActiveBits(raw)
  OBVIOUS
<1> HIDE DEF A
<1>7. x \in 0..w /\ A(x)
  BY <1>4, <1>5, <1>6, Zenon
<1> QED
  BY <1>1, <1>6, <1>7 DEF A

LEMMA TooLargeExact ==
  ASSUME NEW raw, raw.width \in Nat, raw.value \in Nat, raw.value < Power(2, raw.width)
  PROVE  TooLarge(raw) <=> raw.value >= Power(2, LongBits)
<1>1. PICK n, v : n = ActiveBits(raw) /\ v = raw.value
  OBVIOUS
<1>2. /\ n \in Nat /\ v \in Nat /\ v < Power(2, n) /\ (n > 0 => v >= Power(2, n - 1))
      /\ LongBits \in Nat
  BY <1>1, ActiveBitsExact, LongBitsAssumption
<1>3. ASSUME n > LongBits PROVE v >= Power(2, LongBits)
  <2>1. PICK m : m = n - 1
    OBVIOUS
  <2>2. m \in Nat /\ LongBits <= m /\ v >= Power(2, m)
    BY <1>2, <1>3, <2>1
  <2>3. Power(2, LongBits) <= Power(2, m) /\ Power(2, m) \in Nat /\ Power(2, LongBits) \in Nat
    BY <1>2, <2>2, TwoTo, TwoToUp
  <2> QED
    BY <1>2, <2>2, <2>3
<1>4. ASSUME n <= LongBits PROVE v < Power(2, LongBits)
  <2>1. Power(2, n) <= Power(2, LongBits) /\ Power(2, n) \in Nat /\ Power(2, LongBits) \in Nat
    BY <1>2, <1>4, TwoTo, TwoToUp
  <2> QED
    BY <1>2, <2>1
<1>5. Power(2, LongBits) \in Nat
  BY <1>2, TwoTo
<1> QED
  BY <1>1, <1>2, <1>3, <1>4, <1>5 DEF TooLarge

LEMMA LowRemainder == ASSUME NEW n \in Nat, NEW m \in Nat, n < m PROVE n % m = n
  OBVIOUS

\* A value that fits in the magnitude is read as itself.
LEMMA AsLongExact ==
  ASSUME NEW raw, raw.value \in Nat, raw.value < Power(2, LongBits)
  PROVE  AsLong(raw) = raw.value
<1>1. PICK v, p, q : v = raw.value /\ p = Power(2, LongBits) /\ q = Power(2, LongBits + 1)
  OBVIOUS
<1>2. p \in Nat /\ q = 2 * p /\ v \in Nat /\ v < p
  BY <1>1, LongBitsAssumption, TwoTo
<1>3. q \in Nat /\ v < q
  BY <1>2
<1>4. v % q = v
  BY <1>2, <1>3, LowRemainder
<1> QED
  BY <1>1, <1>2, <1>4 DEF AsLong


\* The digits put together one by one, each value the radix times the one
\* before it and a digit.
LEMMA AccumulatedRec ==
  ASSUME NEW r \in Nat, NEW ds \in Seq(Nat)
  PROVE  /\ Accumulated(r, ds)[0] = 0
         /\ \A k \in 1..Len(ds) : Accumulated(r, ds)[k] = r * Accumulated(r, ds)[k - 1] + ds[k]
         /\ \A k \in 0..Len(ds) : Accumulated(r, ds)[k] \in Nat
<1>1. PICK n \in Nat : n = Len(ds)
  OBVIOUS
<1> DEFINE R(f) == f = [k \in 0..n |-> IF k = 0 THEN 0 ELSE r * f[k - 1] + ds[k]]
           d == [k \in 0..n |-> IF k = 0 THEN 0 ELSE ds[k]]
           u == CHOOSE f : R(f)
<1>2. PICK f : Grows(f, n, r, d)
  BY GrowsExist
<1>3. Digits(d, n) /\ d[0] = 0 /\ \A k \in 1..n : d[k] = ds[k]
  BY <1>1 DEF Digits
<1> HIDE DEF d
<1>4. /\ f[0] = d[0] /\ \A k \in 1..n : f[k] = r * f[k - 1] + d[k]
      /\ f = [k \in 0..n |-> f[k]]
  BY <1>2, GrowsRec
<1>5. R(f)
  <2>1. \A k \in 0..n : k # 0 => k \in 1..n
    OBVIOUS
  <2>2. \A k \in 0..n : f[k] = IF k = 0 THEN 0 ELSE r * f[k - 1] + ds[k]
    BY <1>3, <1>4, <2>1, Zenon
  <2> QED
    BY <1>4, <2>2, Zenon
<1>6. R(u)
  BY <1>5
<1>7. Accumulated(r, ds) = u
  BY <1>1 DEF Accumulated
<1> HIDE DEF u
<1>8. u = [k \in 0..n |-> u[k]] /\ u[0] = 0 /\ \A k \in 1..n : u[k] = r * u[k - 1] + ds[k]
  <2>1. \A k \in 0..n : u[k] = IF k = 0 THEN 0 ELSE r * u[k - 1] + ds[k]
    BY <1>6
  <2>2. u = [k \in 0..n |-> u[k]]
    BY <1>6
  <2>3. \A k \in 1..n : k \in 0..n /\ k # 0
    OBVIOUS
  <2>4. u[0] = 0
    BY <2>1
  <2> QED
    BY <2>1, <2>2, <2>3, <2>4, Zenon
<1>9. \A k \in 1..n : u[k] = r * u[k - 1] + d[k]
  BY <1>3, <1>8, Zenon
<1>10. Grows(u, n, r, d)
  BY <1>3, <1>8, <1>9, GrowsBy
<1>11. \A k \in 0..n : u[k] \in Nat
  BY <1>3, <1>10, GrowsNat
<1> QED
  BY <1>1, <1>7, <1>8, <1>11

\* The place values summed up.
LEMMA NumeralsRec ==
  ASSUME NEW n, Len(n.digits) \in Nat, \A k \in 1..Len(n.digits) : PlaceValue(n, k) \in Nat
  PROVE  /\ Numerals(n)[0] = 0
         /\ \A k \in 1..Len(n.digits) : Numerals(n)[k] = Numerals(n)[k - 1] + PlaceValue(n, k)
         /\ \A k \in 0..Len(n.digits) : Numerals(n)[k] \in Nat
<1>1. PICK m \in Nat : m = Len(n.digits)
  OBVIOUS
<1> DEFINE R(f) == f = [k \in 0..m |-> IF k = 0 THEN 0 ELSE f[k - 1] + PlaceValue(n, k)]
           d == [k \in 0..m |-> IF k = 0 THEN 0 ELSE PlaceValue(n, k)]
           u == CHOOSE f : R(f)
<1>2. PICK f : Grows(f, m, 1, d)
  BY GrowsExist
<1>3. Digits(d, m) /\ d[0] = 0 /\ \A k \in 1..m : d[k] = PlaceValue(n, k) /\ d[k] \in Nat
  BY <1>1 DEF Digits
<1> HIDE DEF d
<1>4. /\ f[0] = d[0] /\ \A k \in 1..m : f[k] = 1 * f[k - 1] + d[k]
      /\ f = [k \in 0..m |-> f[k]] /\ \A k \in 0..m : f[k] \in Nat
  BY <1>2, <1>3, GrowsRec, GrowsNat
<1>5. \A k \in 1..m : f[k] = f[k - 1] + PlaceValue(n, k)
  <2> SUFFICES ASSUME NEW k \in 1..m PROVE f[k] = f[k - 1] + PlaceValue(n, k)
    OBVIOUS
  <2>1. PICK x \in Nat, y \in Nat : x = f[k - 1] /\ y = PlaceValue(n, k)
    <3>1. k - 1 \in 0..m /\ k \in 1..Len(n.digits)
      BY <1>1
    <3> QED
      BY <1>4, <3>1
  <2>2. f[k] = 1 * x + y
    BY <1>3, <1>4, <2>1
  <2> QED
    BY <2>1, <2>2
<1>6. R(f)
  <2>1. \A k \in 0..m : k # 0 => k \in 1..m
    OBVIOUS
  <2>2. \A k \in 0..m : f[k] = IF k = 0 THEN 0 ELSE f[k - 1] + PlaceValue(n, k)
    BY <1>3, <1>4, <1>5, <2>1, Zenon
  <2> QED
    BY <1>4, <2>2, Zenon
<1>7. R(u)
  BY <1>6
<1>8. Numerals(n) = u
  BY <1>1 DEF Numerals
<1> HIDE DEF u
<1>9. u[0] = 0 /\ \A k \in 1..m : u[k] = u[k - 1] + PlaceValue(n, k)
  <2>1. \A k \in 0..m : u[k] = IF k = 0 THEN 0 ELSE u[k - 1] + PlaceValue(n, k)
    BY <1>7
  <2>2. \A k \in 1..m : k \in 0..m /\ k # 0
    OBVIOUS
  <2> QED
    BY <2>1, <2>2
<1>10. \A k \in 0..m : u[k] \in Nat
  <2> DEFINE T == {k \in 0..m : u[k] \notin Nat}
  <2> SUFFICES ASSUME T # {} PROVE FALSE
    OBVIOUS
  <2>1. PICK k \in T : \A i \in T : k <= i
    <3>1. T \subseteq Nat
      OBVIOUS
    <3> QED
      BY <3>1, Least
  <2>2. k # 0
    BY <1>9, <2>1
  <2>3. k - 1 \in 0..m /\ k - 1 \notin T /\ k \in 1..m
    BY <2>1, <2>2
  <2>4. u[k - 1] \in Nat /\ u[k] = u[k - 1] + PlaceValue(n, k) /\ PlaceValue(n, k) \in Nat
    BY <1>1, <1>9, <2>3
  <2> QED
    BY <2>1, <2>4
<1> QED
  BY <1>1, <1>8, <1>9, <1>10

LEMMA Distributes ==
  ASSUME NEW a \in Nat, NEW r \in Nat, NEW d \in Nat, NEW p \in Nat
  PROVE  a * (r * p) + d * p = (r * a + d) * p
  OBVIOUS

\* Reading digit by digit gives the value by place.
LEMMA Horner ==
  ASSUME NEW n, Radix(n.prefix) \in Nat, n.digits \in Seq(Nat)
  PROVE  Numeral(n) = Accumulated(Radix(n.prefix), n.digits)[Len(n.digits)]
<1>1. PICK r, ds, L, A, S : /\ r = Radix(n.prefix) /\ ds = n.digits /\ L = Len(n.digits)
                            /\ A = Accumulated(r, ds) /\ S = Numerals(n)
  OBVIOUS
<1>2. r \in Nat /\ L \in Nat /\ ds \in Seq(Nat) /\ L = Len(ds) /\ \A k \in 1..L : ds[k] \in Nat
  BY <1>1
<1>3. A[0] = 0 /\ (\A k \in 1..L : A[k] = r * A[k - 1] + ds[k]) /\ \A k \in 0..L : A[k] \in Nat
  BY <1>1, <1>2, AccumulatedRec
<1>4. \A k \in 1..L : PlaceValue(n, k) = ds[k] * Power(r, L - k)
  BY <1>1 DEF PlaceValue
<1>5. \A k \in 0..L : L - k \in Nat /\ Power(r, L - k) \in Nat
  <2>1. \A k \in 0..L : L - k \in Nat
    BY <1>2
  <2> QED
    BY <1>2, <2>1, PowerRec
<1>6. \A k \in 1..L : PlaceValue(n, k) \in Nat
  <2> SUFFICES ASSUME NEW k \in 1..L PROVE PlaceValue(n, k) \in Nat
    OBVIOUS
  <2>1. PICK x \in Nat, y \in Nat : x = ds[k] /\ y = Power(r, L - k)
    BY <1>2, <1>5
  <2>2. x * y \in Nat
    OBVIOUS
  <2> QED
    BY <1>4, <2>1, <2>2
<1>7. /\ S[0] = 0 /\ \A k \in 1..L : S[k] = S[k - 1] + PlaceValue(n, k)
      /\ \A k \in 0..L : S[k] \in Nat
  BY <1>1, <1>2, <1>6, NumeralsRec
<1>8. \A k \in 0..L : S[k] = A[k] * Power(r, L - k)
  <2> DEFINE T == {k \in 0..L : S[k] # A[k] * Power(r, L - k)}
  <2> SUFFICES ASSUME T # {} PROVE FALSE
    OBVIOUS
  <2>1. PICK k \in T : \A i \in T : k <= i
    <3>1. T \subseteq Nat
      BY <1>2
    <3> QED
      BY <3>1, Least
  <2>2. k # 0
    <3> SUFFICES ASSUME k = 0 PROVE FALSE
      OBVIOUS
    <3>1. PICK y \in Nat : y = Power(r, L - 0)
      BY <1>2, <1>5
    <3>2. 0 * y = 0
      OBVIOUS
    <3>3. S[0] = A[0] * Power(r, L - 0)
      BY <1>3, <1>7, <3>1, <3>2
    <3> QED
      BY <2>1, <3>3
  <2>3. PICK j, i : j = k - 1 /\ i = L - k
    OBVIOUS
  <2>4. j \in 0..L /\ j \notin T /\ k \in 1..L /\ i \in Nat /\ L - j = i + 1
    BY <1>2, <2>1, <2>2, <2>3
  <2>5. S[j] = A[j] * Power(r, i + 1) /\ Power(r, i + 1) = r * Power(r, i)
    BY <1>2, <2>4, PowerRec
  <2>6. PICK a \in Nat, d \in Nat, p \in Nat : a = A[j] /\ d = ds[k] /\ p = Power(r, i)
    BY <1>2, <1>3, <2>4, PowerRec
  <2>7. S[k] = a * (r * p) + d * p
    BY <1>4, <1>7, <2>3, <2>4, <2>5, <2>6
  <2>8. A[k] = r * a + d
    BY <1>3, <2>3, <2>4, <2>6
  <2>9. S[k] = A[k] * Power(r, L - k)
    <3>1. a * (r * p) + d * p = (r * a + d) * p
      BY <1>2, Distributes
    <3>2. S[k] = (r * a + d) * p
      BY <2>7, <3>1, Zenon
    <3> QED
      BY <2>3, <2>6, <2>8, <3>2, Zenon
  <2> QED
    BY <2>1, <2>9
<1>9. S[L] = A[L]
  <2>1. L \in 0..L /\ L - L = 0 /\ A[L] \in Nat
    BY <1>2, <1>3
  <2>2. Power(r, 0) = 1
    BY <1>2, PowerRec
  <2>3. S[L] = A[L] * 1
    BY <1>8, <2>1, <2>2
  <2> QED
    BY <2>1, <2>3
<1> QED
  BY <1>1, <1>9 DEF Numeral

\* The bits getAsInteger gives a digit of each radix.
RadixBits == {<< 2, 1 >>, << 8, 3 >>, << 10, 4 >>, << 16, 4 >>}

LEMMA RadixHasBits == ASSUME NEW prefix PROVE \E p \in 1..4 : << Radix(prefix), p >> \in RadixBits
<1>1. Radix(prefix) \in {2, 8, 10, 16}
  BY DEF Radix
<1>2. PICK r : r = Radix(prefix)
  OBVIOUS
<1>3. CASE r = 2
  BY <1>2, <1>3 DEF RadixBits
<1>4. CASE r = 8
  BY <1>2, <1>4 DEF RadixBits
<1>5. CASE r = 10
  BY <1>2, <1>5 DEF RadixBits
<1>6. CASE r = 16
  BY <1>2, <1>6 DEF RadixBits
<1> QED
  BY <1>1, <1>2, <1>3, <1>4, <1>5, <1>6

LEMMA BitsCases ==
  ASSUME NEW r, NEW p, << r, p >> \in RadixBits
  PROVE  (r = 2 /\ p = 1) \/ (r = 8 /\ p = 3) \/ (r = 10 /\ p = 4) \/ (r = 16 /\ p = 4)
BY DEF RadixBits

\* There is one such number of bits, the one that is chosen.
LEMMA BitsChosen ==
  ASSUME NEW r, NEW p, << r, p >> \in RadixBits
  PROVE  (CHOOSE b \in 1..4 : Power(2, b) >= r /\ Power(2, b - 1) < r) = p
<1>1. /\ Power(2, 0) = 1 /\ Power(2, 1) = 2 /\ Power(2, 2) = 4
      /\ Power(2, 3) = 8 /\ Power(2, 4) = 16
  <2>1. Power(2, 0) = 1
    BY TwoTo
  <2>2. Power(2, 0 + 1) = 2 * Power(2, 0) /\ Power(2, 1 + 1) = 2 * Power(2, 1)
    BY TwoTo
  <2>3. Power(2, 2 + 1) = 2 * Power(2, 2) /\ Power(2, 3 + 1) = 2 * Power(2, 3)
    BY TwoTo
  <2>4. 0 + 1 = 1 /\ 1 + 1 = 2 /\ 2 + 1 = 3 /\ 3 + 1 = 4
    OBVIOUS
  <2> QED
    BY <2>1, <2>2, <2>3, <2>4
<1> DEFINE C(b) == Power(2, b) >= r /\ Power(2, b - 1) < r
<1>2. \A b \in 1..4 : C(b) <=> b = p
  <2> SUFFICES ASSUME NEW b \in 1..4 PROVE C(b) <=> b = p
    OBVIOUS
  <2>1. b \in {1, 2, 3, 4} /\ 1 - 1 = 0 /\ 2 - 1 = 1 /\ 3 - 1 = 2 /\ 4 - 1 = 3
    OBVIOUS
  <2>2. PICK x, y : x = Power(2, b) /\ y = Power(2, b - 1)
    OBVIOUS
  <2>3. \/ (b = 1 /\ x = 2 /\ y = 1) \/ (b = 2 /\ x = 4 /\ y = 2)
        \/ (b = 3 /\ x = 8 /\ y = 4) \/ (b = 4 /\ x = 16 /\ y = 8)
    BY <1>1, <2>1, <2>2
  <2>4. (x >= r /\ y < r) <=> b = p
    BY <2>3, BitsCases
  <2> QED
    BY <2>2, <2>4
<1>3. p \in 1..4
  BY BitsCases
<1> HIDE DEF C
<1>4. (CHOOSE b \in 1..4 : C(b)) = p
  BY <1>2, <1>3
<1> QED
  BY <1>4 DEF C

\* Nothing but zeros is worth nothing.
LEMMA ZeroDigits ==
  ASSUME NEW r \in Nat, NEW ds \in Seq(Nat), NEW m \in 0..Len(ds), \A k \in 1..m : ds[k] = 0
  PROVE  Accumulated(r, ds)[m] = 0
<1>1. PICK A : A = Accumulated(r, ds)
  OBVIOUS
<1>2. A[0] = 0 /\ \A k \in 1..Len(ds) : A[k] = r * A[k - 1] + ds[k]
  BY <1>1, AccumulatedRec
<1> DEFINE T == {k \in 0..m : A[k] # 0}
<1> SUFFICES ASSUME T # {} PROVE FALSE
  BY <1>1
<1>3. PICK k \in T : \A i \in T : k <= i
  <2>1. T \subseteq Nat
    OBVIOUS
  <2> QED
    BY <2>1, Least
<1>4. PICK j : j = k - 1
  OBVIOUS
<1>5. k # 0 /\ k \in 1..m /\ k \in 1..Len(ds) /\ j \in 0..m /\ j \notin T
  BY <1>2, <1>3, <1>4
<1>6. A[k] = r * 0 + 0
  BY <1>2, <1>4, <1>5
<1>7. r * 0 = 0
  OBVIOUS
<1> QED
  BY <1>3, <1>6, <1>7

LEMMA BitsSuffice ==
  ASSUME NEW r, NEW p, << r, p >> \in RadixBits, NEW n \in Nat
  PROVE  Power(2, n + p) >= r * Power(2, n)
<1>1. PICK x \in Nat : x = Power(2, n)
  BY TwoTo
<1>2. Power(2, n + 1) = 2 * x /\ Power(2, n + 3) = 8 * x /\ Power(2, n + 4) = 16 * x
  BY <1>1, TwoToMore
<1>3. CASE r = 2 /\ p = 1
  BY <1>1, <1>2, <1>3
<1>4. CASE r = 8 /\ p = 3
  BY <1>1, <1>2, <1>4
<1>5. CASE r = 10 /\ p = 4
  BY <1>1, <1>2, <1>5
<1>6. CASE r = 16 /\ p = 4
  BY <1>1, <1>2, <1>6
<1> QED
  BY <1>3, <1>4, <1>5, <1>6, BitsCases

LEMMA OneMoreDigit ==
  ASSUME NEW r, NEW p, << r, p >> \in RadixBits,
         NEW a \in Nat, NEW x \in Nat, a < x, NEW d \in Nat, d < r
  PROVE  r * a + d < r * x
<1>1. CASE r = 2
  BY <1>1
<1>2. CASE r = 8
  BY <1>2
<1>3. CASE r = 10
  BY <1>3
<1>4. CASE r = 16
  BY <1>4
<1> QED
  BY <1>1, <1>2, <1>3, <1>4, BitsCases

\* From the first digit on, every digit fits in its bits.
LEMMA DigitsFit ==
  ASSUME NEW r \in Nat, NEW p \in 1..4, << r, p >> \in RadixBits,
         NEW ds \in Seq(0..(r - 1)), NEW first \in 1..Len(ds),
         \A k \in 1..(first - 1) : ds[k] = 0
  PROVE  Accumulated(r, ds)[Len(ds)] < Power(2, p * (Len(ds) + 1 - first))
<1>1. PICK A, L : A = Accumulated(r, ds) /\ L = Len(ds)
  OBVIOUS
<1>2. /\ L \in Nat /\ first \in 1..L /\ ds \in Seq(Nat)
      /\ \A k \in 1..L : ds[k] \in Nat /\ ds[k] < r
  BY <1>1
<1>3. (\A k \in 1..L : A[k] = r * A[k - 1] + ds[k]) /\ \A k \in 0..L : A[k] \in Nat
  BY <1>1, <1>2, AccumulatedRec
<1>4. A[first - 1] = 0
  <2>1. first - 1 \in 0..Len(ds)
    BY <1>1, <1>2
  <2> QED
    BY <1>1, <1>2, <2>1, ZeroDigits
<1> DEFINE T == {k \in (first - 1)..L : ~ (A[k] < Power(2, p * (k + 1 - first)))}
<1>5. T = {}
  <2> SUFFICES ASSUME T # {} PROVE FALSE
    OBVIOUS
  <2>1. PICK k \in T : \A i \in T : k <= i
    <3>1. T \subseteq Nat
      BY <1>2
    <3> QED
      BY <3>1, Least
  <2>2. k # first - 1
    <3> SUFFICES ASSUME k = first - 1 PROVE FALSE
      OBVIOUS
    <3>1. k + 1 - first = 0 /\ p * 0 = 0
      BY <1>2
    <3>2. Power(2, p * (k + 1 - first)) = 1
      BY <3>1, TwoTo
    <3> QED
      BY <1>4, <2>1, <3>2
  <2>3. PICK j, n : j = k - 1 /\ n = j + 1 - first
    OBVIOUS
  <2>4. /\ j \in (first - 1)..L /\ j \in 0..L /\ j \notin T /\ k \in 1..L
        /\ n \in Nat /\ k + 1 - first = n + 1
    BY <1>2, <2>1, <2>2, <2>3
  <2>5. PICK i : i = p * n
    OBVIOUS
  <2>6. i \in Nat /\ p * (n + 1) = i + p
    BY <2>4, <2>5, BitsCases
  <2>7. A[j] < Power(2, i)
    BY <2>3, <2>4, <2>5
  <2>8. Power(2, i + p) >= r * Power(2, i)
    BY <2>6, BitsSuffice
  <2>9. PICK a \in Nat, d \in Nat, x \in Nat : a = A[j] /\ d = ds[k] /\ x = Power(2, i)
    BY <1>2, <1>3, <2>4, <2>6, TwoTo
  <2>10. PICK y \in Nat : y = Power(2, i + p)
    <3>1. i + p \in Nat
      BY <2>6
    <3> QED
      BY <3>1, TwoTo
  <2>11. A[k] = r * a + d
    BY <1>3, <2>3, <2>4, <2>9
  <2>12. a < x /\ d < r /\ y >= r * x
    BY <1>2, <2>4, <2>7, <2>8, <2>9, <2>10
  <2>13. r * a + d < y
    <3>1. r * a \in Nat /\ r * x \in Nat
      OBVIOUS
    <3>2. PICK z, w : z = r * a /\ w = r * x
      OBVIOUS
    <3>3. z + d < w
      BY <2>12, <3>2, OneMoreDigit
    <3>4. z \in Nat /\ w \in Nat /\ w <= y
      BY <2>12, <3>1, <3>2
    <3>5. z + d < y
      BY <3>3, <3>4
    <3> QED
      BY <3>2, <3>5
  <2>14. A[k] < Power(2, p * (k + 1 - first))
    BY <2>4, <2>6, <2>10, <2>11, <2>13
  <2> QED
    BY <2>1, <2>14
<1>6. L \in (first - 1)..L
  BY <1>2
<1> QED
  BY <1>1, <1>5, <1>6

\* The width that getAsInteger gives is enough, and the value is the numeral's.
LEMMA IntegerParsed ==
  ASSUME NEW n, IsInteger(n), NEW raw, raw = getAsInteger(Radix(n.prefix), n.digits)
  PROVE  /\ raw.width \in Nat /\ raw.value \in Nat /\ raw.value < Power(2, raw.width)
         /\ raw.value = Numeral(n)
<1>1. PICK r, ds, L : r = Radix(n.prefix) /\ ds = n.digits /\ L = Len(n.digits)
  OBVIOUS
<1>2. PICK p \in 1..4 : << r, p >> \in RadixBits
  BY <1>1, RadixHasBits
<1>3. r \in Nat /\ ds \in Seq(0..(r - 1)) /\ L = Len(ds) /\ L \in Nat
  <2>1. r \in Nat
    BY <1>2, BitsCases
  <2>2. ds \in Seq(0..(r - 1))
    BY <1>1 DEF IsInteger
  <2> QED
    BY <1>1, <2>1, <2>2
<1>4. ds \in Seq(Nat)
  BY <1>3
<1>5. Accumulated(r, ds)[L] \in Nat
  BY <1>3, <1>4, AccumulatedRec
<1>6. Numeral(n) = Accumulated(r, ds)[L]
  BY <1>1, <1>3, <1>4, Horner
<1> DEFINE nonzero == {k \in DOMAIN ds : ds[k] # 0}
           first == CHOOSE k \in nonzero : \A j \in nonzero : k <= j
           perDigit == CHOOSE b \in 1..4 : Power(2, b) >= r /\ Power(2, b - 1) < r
<1>7. raw = IF nonzero = {} THEN [width |-> LongBits + 1, value |-> 0]
            ELSE [width |-> perDigit * (L + 1 - first), value |-> Accumulated(r, ds)[L]]
  BY <1>1 DEF getAsInteger
<1>8. perDigit = p
  BY <1>2, BitsChosen
<1> HIDE DEF perDigit
<1>9. CASE nonzero = {}
  <2>1. raw.width = LongBits + 1 /\ raw.value = 0
    BY <1>7, <1>9
  <2>2. \A k \in 1..L : ds[k] = 0
    BY <1>3, <1>9
  <2>3. Accumulated(r, ds)[L] = 0
    BY <1>3, <1>4, <2>2, ZeroDigits
  <2>4. LongBits + 1 \in Nat
    BY LongBitsAssumption
  <2>5. Power(2, LongBits + 1) \in Nat \ {0}
    BY <2>4, TwoTo
  <2> QED
    BY <1>6, <2>1, <2>3, <2>4, <2>5
<1>10. CASE nonzero # {}
  <2>1. nonzero \subseteq Nat /\ nonzero \subseteq 1..L
    BY <1>3
  <2>2. PICK k \in nonzero : \A j \in nonzero : k <= j
    BY <1>10, <2>1, Least
  <2> HIDE DEF nonzero
  <2>3. first \in nonzero /\ \A j \in nonzero : first <= j
    BY <2>2
  <2> HIDE DEF first
  <2>4. PICK f \in 1..L : f = first
    BY <2>1, <2>3
  <2>5. \A j \in 1..(f - 1) : ds[j] = 0
    BY <1>3, <2>1, <2>3, <2>4 DEF nonzero
  <2>6. raw.width = p * (L + 1 - f) /\ raw.value = Accumulated(r, ds)[L]
    BY <1>7, <1>8, <1>10, <2>4
  <2>7. Accumulated(r, ds)[L] < Power(2, p * (L + 1 - f))
    BY <1>2, <1>3, <2>4, <2>5, DigitsFit
  <2>8. p * (L + 1 - f) \in Nat
    <3>1. PICK w \in Nat : w = L + 1 - f
      <4>1. L + 1 - f \in Nat
        BY <1>3
      <4> QED
        BY <4>1
    <3>2. p * w \in Nat
      BY <1>2
    <3> QED
      BY <3>1, <3>2
  <2> QED
    BY <1>5, <1>6, <2>6, <2>7, <2>8
<1> QED
  BY <1>9, <1>10

IntegerInv == token \in Tokens /\ IntegerExact

LEMMA IntegerTokens ==
  ASSUME token \in Tokens, token.kind = "INTEGER_LITERAL"
  PROVE  IsInteger(token.text)
BY TokensAssumption DEF Tokens

\* An integer literal that fits in a long gets exactly its value, and any
\* other is reported and gets none: for every radix, every number of digits
\* and every width of a long, whatever width getAsInteger parses it with
\* (visitLiteralConstant).
THEOREM IntegerExactHolds == Spec => []IntegerExact
<1>1. Init => IntegerInv
  BY DEF Init, IntegerInv, IntegerExact, Visited
<1>2. IntegerInv /\ [Next]_vars => IntegerInv'
  <2> SUFFICES ASSUME IntegerInv, [Next]_vars PROVE IntegerInv'
    OBVIOUS
  <2>1. token \in Tokens
    BY DEF IntegerInv
  <2>2. CASE token.kind # "INTEGER_LITERAL"
    <3>1. token' = token
      BY DEF Next, CopyByte, DecodeEscape, EndString, VisitChar, VisitInteger, VisitFloat,
             Done, vars, Finish
    <3> QED
      BY <2>1, <2>2, <3>1 DEF IntegerInv, IntegerExact, Visited
  <2>3. CASE token.kind = "INTEGER_LITERAL" /\ VisitInteger
    <3>1. PICK n : n = token.text
      OBVIOUS
    <3>2. PICK raw : raw = getAsInteger(Radix(n.prefix), n.digits)
      OBVIOUS
    <3>3. IsInteger(n)
      BY <2>1, <2>3, <3>1, IntegerTokens
    <3>4. /\ raw.width \in Nat /\ raw.value \in Nat /\ raw.value < Power(2, raw.width)
          /\ raw.value = Numeral(n)
      BY <3>2, <3>3, IntegerParsed
    <3>5. TooLarge(raw) <=> raw.value >= Power(2, LongBits)
      BY <3>4, TooLargeExact
    <3>6. Power(2, LongBits) \in Nat
      BY TwoTo, LongBitsAssumption
    <3>7. /\ token' = token
          /\ IF TooLarge(raw)
             THEN value' = Default /\ reports' = << "integer literal is too large for long" >>
             ELSE value' = << "decoded", AsLong(raw) >> /\ reports' = << >>
      BY <2>3, <3>1, <3>2 DEF VisitInteger, Finish
    <3>8. CASE raw.value >= Power(2, LongBits)
      <4>1. value' = Default /\ Len(reports') = 1
        <5>1. \A m : Len(<< m >>) = 1
          OBVIOUS
        <5> QED
          BY <3>5, <3>7, <3>8, <5>1
      <4>2. ~ (Numeral(n) < Power(2, LongBits))
        BY <3>4, <3>6, <3>8
      <4> QED
        BY <2>1, <3>1, <3>7, <4>1, <4>2 DEF IntegerInv, IntegerExact, Visited
    <3>9. CASE ~ (raw.value >= Power(2, LongBits))
      <4>1. raw.value < Power(2, LongBits)
        BY <3>4, <3>6, <3>9
      <4>2. AsLong(raw) = raw.value
        BY <3>4, <4>1, AsLongExact
      <4>3. value' = << "decoded", Numeral(n) >> /\ reports' = << >>
        BY <3>4, <3>5, <3>7, <3>9, <4>2
      <4>4. Numeral(n) < Power(2, LongBits)
        BY <3>4, <4>1
      <4> QED
        BY <2>1, <3>1, <3>7, <4>3, <4>4 DEF IntegerInv, IntegerExact, Visited
    <3> QED
      BY <3>8, <3>9
  <2>4. CASE token.kind = "INTEGER_LITERAL" /\ ~ VisitInteger
    <3>1. token' = token /\ value' = value /\ reports' = reports
      BY <2>4 DEF Next, CopyByte, DecodeEscape, EndString, VisitChar, VisitFloat, Visiting,
                  Done, vars
    <3> QED
      BY <3>1 DEF IntegerInv, IntegerExact, Visited
  <2> QED
    BY <2>2, <2>3, <2>4
<1> QED
  BY <1>1, <1>2, PTL DEF Spec, IntegerInv
=============================================================================
