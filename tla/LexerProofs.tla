----------------------------- MODULE LexerProofs -----------------------------
(***************************************************************************)
(* The stream and the lexer that reads it.  SourceMgrCharStream implements *)
(* the CharStream contract, for every set of buffers, look-aheads and      *)
(* indices.  The lexer accounts for every byte, for every set of buffers:  *)
(* the stretches it emits lie end to end over the whole file (Tiles) and   *)
(* lead back to their bytes (LocExact), whatever the rules match.  What    *)
(* they do match makes each token the longest one (LongestMatch), and what *)
(* none of them matches is reported (DropsReported).                       *)
(***************************************************************************)
EXTENDS Lexer, SequenceTheorems, FiniteSetTheorems, TLAPS

Past == SubSeq(Buffer, 1, CurrentIndex)
Future == SubSeq(Buffer, CurrentIndex + 1, size)

\* What is known of a buffer and an index into it.
LEMMA Typed ==
  ASSUME StreamTypeOK
  PROVE  /\ Buffer \in Seq(Symbols) /\ size \in Nat /\ size < SizeMod
         /\ CurrentIndex \in Nat /\ CurrentIndex <= size
         /\ SizeMod \in Nat
  BY StreamAssumption, LenProperties DEF StreamTypeOK, size

\* Remainders of small numbers.
LEMMA SmallMod ==
  ASSUME NEW m \in Nat, NEW k \in 0..(m - 1)
  PROVE  k % m = k
  OBVIOUS

\* A sequence is what lies before a position and what lies from it on.
LEMMA SplitAt ==
  ASSUME NEW b \in Seq(Symbols), NEW k \in 0..Len(b)
  PROVE  /\ SubSeq(b, 1, k) \in Seq(Symbols) /\ Len(SubSeq(b, 1, k)) = k
         /\ SubSeq(b, k + 1, Len(b)) \in Seq(Symbols)
         /\ Len(SubSeq(b, k + 1, Len(b))) = Len(b) - k
         /\ \A i \in 1..(Len(b) - k) : SubSeq(b, k + 1, Len(b))[i] = b[k + i]
         /\ SubSeq(b, 1, k) \o SubSeq(b, k + 1, Len(b)) = b
<1>1. Len(b) \in Nat /\ \A i \in 1..Len(b) : b[i] \in Symbols
  BY LenProperties, ElementOfSeq
<1>2. SubSeq(b, 1, k) \in Seq(Symbols) /\ Len(SubSeq(b, 1, k)) = k
  BY <1>1, SubSeqProperties
<1>3. /\ SubSeq(b, k + 1, Len(b)) \in Seq(Symbols)
      /\ Len(SubSeq(b, k + 1, Len(b))) = Len(b) - k
      /\ \A i \in 1..(Len(b) - k) : SubSeq(b, k + 1, Len(b))[i] = b[k + i]
  <2>1. \A i \in (k + 1)..Len(b) : b[i] \in Symbols
    BY <1>1
  <2>2. /\ SubSeq(b, k + 1, Len(b)) \in Seq(Symbols)
        /\ Len(SubSeq(b, k + 1, Len(b))) =
             IF k + 1 <= Len(b) THEN Len(b) - (k + 1) + 1 ELSE 0
        /\ \A i \in 1..(Len(b) - (k + 1) + 1) :
             SubSeq(b, k + 1, Len(b))[i] = b[k + 1 + i - 1]
    BY <1>1, <2>1, SubSeqProperties
  <2>3. \A i \in 1..(Len(b) - k) : k + 1 + i - 1 = k + i
    BY <1>1
  <2>4. Len(b) - (k + 1) + 1 = Len(b) - k
    BY <1>1
  <2>5. Len(SubSeq(b, k + 1, Len(b))) = Len(b) - k
    <3>1. CASE k + 1 <= Len(b)
      BY <2>2, <2>4, <3>1
    <3>2. CASE ~ k + 1 <= Len(b)
      <4>1. Len(b) - k = 0
        BY <1>1, <3>2
      <4> QED
        BY <2>2, <3>2, <4>1
    <3> QED
      BY <3>1, <3>2
  <2>6. \A i \in 1..(Len(b) - k) : SubSeq(b, k + 1, Len(b))[i] = b[k + i]
    <3>1. TAKE i \in 1..(Len(b) - k)
    <3>2. i \in 1..(Len(b) - (k + 1) + 1) /\ k + 1 + i - 1 = k + i
      BY <2>3, <2>4
    <3>3. SubSeq(b, k + 1, Len(b))[i] = b[k + 1 + i - 1]
      BY <2>2, <3>2
    <3> QED
      BY <3>2, <3>3
  <2> QED
    BY <2>2, <2>5, <2>6
<1>4. SubSeq(b, 1, k) \o SubSeq(b, k + 1, Len(b)) = SubSeq(b, 1, Len(b))
  <2>1. 1 \in 1..(Len(b) + 1) /\ k \in (1 - 1)..Len(b) /\ Len(b) \in k..Len(b)
    BY <1>1
  <2> QED
    BY <2>1, ConcatAdjacentSubSeq
<1>5. SubSeq(b, 1, Len(b)) = b
  BY SubSeqFull
<1> QED
  BY <1>2, <1>3, <1>4, <1>5

\* A prefix is the one before it and its last symbol.
LEMMA Longer ==
  ASSUME NEW b \in Seq(Symbols), NEW k \in Nat, k + 1 <= Len(b)
  PROVE  SubSeq(b, 1, k + 1) = SubSeq(b, 1, k) \o << b[k + 1] >>
<1> DEFINE n == k + 1
<1>1. Len(b) \in Nat
  BY LenProperties
<1>2. 1 \in 1..Len(b) /\ n \in 1..Len(b) /\ n - 1 = k
  BY <1>1
<1> HIDE DEF n
<1>3. SubSeq(b, 1, n) = SubSeq(b, 1, n - 1) \o << b[n] >>
  BY ONLY <1>2, b \in Seq(Symbols), SubSeqRecursiveSecond
<1> QED
  BY <1>2, <1>3 DEF n

\* The index splits the buffer.
LEMMA Split ==
  ASSUME StreamTypeOK
  PROVE  /\ Past \in Seq(Symbols) /\ Len(Past) = CurrentIndex
         /\ Future \in Seq(Symbols) /\ Len(Future) = size - CurrentIndex
         /\ \A i \in 1..(size - CurrentIndex) : Future[i] = Buffer[CurrentIndex + i]
         /\ Past \o Future = Buffer
<1>1. Buffer \in Seq(Symbols) /\ CurrentIndex \in 0..Len(Buffer)
  BY Typed DEF size
<1> QED
  BY <1>1, SplitAt DEF Past, Future, size

\* The index stays inside the buffer, one behind its last byte included.
LEMMA TypeStep ==
  ASSUME StreamTypeOK, [StreamNext]_streamVars
  PROVE  StreamTypeOK'
<1> USE DEF StreamTypeOK
<1>1. CASE Consume
  BY <1>1, Typed DEF Consume, consume, size
<1>2. CASE LookAhead
  BY <1>2, Typed DEF LookAhead, size
<1>3. CASE Seek
  BY <1>3, Typed, StreamAssumption DEF Seek, seek, size
<1>4. CASE Text
  BY <1>4, Typed DEF Text, size
<1>5. CASE UNCHANGED streamVars
  BY <1>5 DEF streamVars, size
<1> QED
  BY <1>1, <1>2, <1>3, <1>4, <1>5 DEF StreamNext

-----------------------------------------------------------------------------
(* Each operation is the operation of the contract.                        *)

LEMMA ConsumeImplements ==
  ASSUME StreamTypeOK, Consume
  PROVE  Abstract!Consume
<1> USE DEF Consume
<1>1. CASE CurrentIndex < size
  <2>1. CurrentIndex' = CurrentIndex + 1 /\ Buffer' = Buffer /\ size' = size
    BY <1>1 DEF consume, size
  <2>2. CurrentIndex + 1 \in 1..Len(Buffer) /\ size \in (CurrentIndex + 1)..Len(Buffer)
    BY <1>1, Typed DEF size
  <2>3. /\ Head(Future) = Buffer[CurrentIndex + 1]
        /\ Tail(Future) = SubSeq(Buffer, CurrentIndex + 1 + 1, size)
    BY <2>2, Typed, HeadTailOfSubSeq DEF Future
  <2>4. Append(Past, Buffer[CurrentIndex + 1]) = SubSeq(Buffer, 1, CurrentIndex + 1)
    <3>1. SubSeq(Buffer, 1, CurrentIndex + 1) = SubSeq(Buffer, 1, CurrentIndex) \o << Buffer[CurrentIndex + 1] >>
      <4>1. Buffer \in Seq(Symbols) /\ CurrentIndex \in Nat /\ CurrentIndex + 1 <= Len(Buffer)
        BY <2>2, Typed
      <4> QED
        BY <4>1, Longer
    <3>2. Buffer[CurrentIndex + 1] \in Symbols
      BY <2>2, Typed, ElementOfSeq
    <3>3. Append(Past, Buffer[CurrentIndex + 1]) = Past \o << Buffer[CurrentIndex + 1] >>
      BY <3>2, Split, AppendIsConcat
    <3> QED
      BY <3>1, <3>3 DEF Past
  <2>5. Future # << >>
    BY <1>1, Split, Typed, EmptySeq
  <2> QED
    BY <2>1, <2>3, <2>4, <2>5 DEF Abstract!Consume, Past, Future
<1>2. CASE ~ CurrentIndex < size
  <2>1. UNCHANGED << Buffer, CurrentIndex >>
    BY <1>2 DEF consume
  <2>2. Future = << >>
    BY <1>2, Typed, SubSeqEmpty DEF Future
  <2> QED
    BY <2>1, <2>2 DEF Abstract!Consume, Future, size
<1> QED
  BY <1>1, <1>2

LEMMA LookAheadImplements ==
  ASSUME StreamTypeOK, LookAhead
  PROVE  \E I \in Lookaheads : Abstract!LookAhead(I)
<1>1. PICK I \in Lookaheads : I # 0 /\ call' = << "LA", I, LA(I) >> /\ UNCHANGED << Buffer, CurrentIndex >>
  BY DEF LookAhead
<1>2. I \in Int
  BY StreamAssumption
<1>3. ASSUME I > 0
      PROVE  LA(I) = IF I \in DOMAIN Future THEN Future[I] ELSE EOF
  <2>1. DOMAIN Future = 1..(size - CurrentIndex)
    BY Split, LenProperties
  <2>2. CASE I <= size - CurrentIndex
    <3>1. I \in 1..(size - CurrentIndex) /\ Future[I] = Buffer[CurrentIndex + I]
      BY <1>2, <1>3, <2>2, Typed, Split
    <3>2. /\ ~ CurrentIndex + I - 1 < 0 /\ ~ CurrentIndex + I - 1 >= size
          /\ CurrentIndex + I - 1 + 1 = CurrentIndex + I
      BY <1>2, <1>3, <2>2, Typed
    <3> QED
      BY <1>3, <2>1, <3>1, <3>2 DEF LA
  <2>3. CASE ~ I <= size - CurrentIndex
    <3>1. I \notin 1..(size - CurrentIndex) /\ CurrentIndex + I - 1 >= size /\ I # 0
      BY <1>2, <1>3, <2>3, Typed
    <3> QED
      BY <2>1, <3>1 DEF LA
  <2> QED
    BY <2>2, <2>3
<1>4. Abstract!LookAhead(I)
  BY <1>1, <1>3 DEF Abstract!LookAhead, Future, size
<1> QED
  BY <1>4

LEMMA SeekImplements ==
  ASSUME StreamTypeOK, Seek
  PROVE  \E Index \in Indices : Abstract!Seek(Index)
<1>1. PICK Index \in Indices : seek(Index) /\ call' = << "seek", Index >> /\ UNCHANGED Buffer
  BY DEF Seek
<1>2. StreamTypeOK'
  BY TypeStep DEF StreamNext
<1>3. Past' \o Future' = Buffer /\ Len(Past') = CurrentIndex'
  <2>1. Buffer \in Seq(Symbols) /\ CurrentIndex' \in 0..Len(Buffer)
    BY <1>1, <1>2, Typed DEF StreamTypeOK, size
  <2>2. /\ SubSeq(Buffer, 1, CurrentIndex') \o SubSeq(Buffer, CurrentIndex' + 1, Len(Buffer))
             = Buffer
        /\ Len(SubSeq(Buffer, 1, CurrentIndex')) = CurrentIndex'
    BY <2>1, SplitAt
  <2> QED
    BY <1>1, <2>2 DEF Past, Future, size
<1>4. Past \o Future = Buffer /\ size = Len(Buffer) /\ size' = Len(Buffer)
  BY <1>1, Split DEF size
<1>5. CurrentIndex' = IF Index <= Len(Buffer) THEN Index ELSE Len(Buffer)
  <2>1. Index \in Nat
    BY StreamAssumption
  <2> QED
    BY <1>1, <1>4, <2>1, Typed DEF seek
<1>6. Abstract!Seek(Index)
  BY <1>1, <1>3, <1>4, <1>5 DEF Abstract!Seek, Abstract!Content, Past, Future
<1> QED
  BY <1>6

\* getText never wraps on an interval of the buffer.
LEMMA GetText ==
  ASSUME StreamTypeOK, NEW a \in Nat, NEW b \in Nat, a <= b + 1, a <= size, b + 1 < SizeMod
  PROVE  getText(a, b) = SubSeq(Buffer, a + 1, IF b < size THEN b + 1 ELSE size)
<1>1. a % SizeMod = a /\ (b - a + 1) % SizeMod = b - a + 1
  <2>1. b - a + 1 \in 0..(SizeMod - 1) /\ a \in 0..(SizeMod - 1)
    BY Typed
  <2> QED
    BY <2>1, SmallMod, Typed
<1>2. CASE a >= size
  <2>1. getText(a, b) = << >>
    BY <1>1, <1>2 DEF getText
  <2>2. SubSeq(Buffer, a + 1, IF b < size THEN b + 1 ELSE size) = << >>
    <3>1. (IF b < size THEN b + 1 ELSE size) \in Int
          /\ (IF b < size THEN b + 1 ELSE size) < a + 1 /\ a + 1 \in Int
      <4>1. CASE b < size
        BY <1>2, <4>1, Typed
      <4>2. CASE ~ b < size
        BY <1>2, <4>2, Typed
      <4> QED
        BY <4>1, <4>2
    <3> QED
      BY <3>1, SubSeqEmpty
  <2> QED
    BY <2>1, <2>2
<1>3. CASE ~ a >= size
  <2>1. a + (b - a + 1) = b + 1 /\ (b + 1) % SizeMod = b + 1
    <3>1. b + 1 \in 0..(SizeMod - 1)
      BY Typed
    <3> QED
      BY <3>1, SmallMod, Typed
  <2>2. getText(a, b) = substr(a, IF b + 1 > size THEN size - a ELSE b - a + 1)
    BY <1>1, <1>3, <2>1 DEF getText
  <2>3. CASE b + 1 > size
    <3>1. getText(a, b) = substr(a, size - a)
      BY <2>2, <2>3
    <3>2. ~ size - a < size - a /\ ~ b < size
      BY <2>3, Typed
    <3> QED
      BY <3>1, <3>2 DEF substr
  <2>4. CASE ~ b + 1 > size
    <3>1. getText(a, b) = substr(a, b - a + 1)
      BY <2>2, <2>4
    <3>2. b < size /\ a + (b - a + 1) = b + 1
      BY <2>4, Typed
    <3>3. ~ (b - a + 1 < size - a) => size = b + 1
      BY <2>4, Typed
    <3> QED
      BY <3>1, <3>2, <3>3 DEF substr
  <2> QED
    BY <2>3, <2>4
<1> QED
  BY <1>2, <1>3

\* So it answers for the intervals a lexer asks for.
LEMMA TextImplements ==
  ASSUME StreamTypeOK, Text
  PROVE  \E i \in Abstract!Intervals : Abstract!Text(i[1], i[2])
<1>1. PICK a \in Indices, b \in Indices :
         a <= b + 1 /\ a <= size /\ call' = << "getText", a, b, getText(a, b) >> /\ UNCHANGED << Buffer, CurrentIndex >>
  BY DEF Text
<1>2. a \in Nat /\ b \in Nat /\ a + 1 < SizeMod /\ b + 1 < SizeMod
  BY StreamAssumption
<1>3. Past \o Future = Buffer
  BY Split
<1>4. << a, b >> \in Abstract!Intervals
  BY <1>1, <1>3 DEF Abstract!Intervals, Abstract!Content, Past, Future, size
<1>5. a \in Nat /\ b \in Nat /\ a <= b + 1 /\ a <= size /\ b + 1 < SizeMod
  BY <1>1, <1>2
<1>6. getText(a, b) = SubSeq(Buffer, a + 1, IF b < size THEN b + 1 ELSE size)
  BY <1>5, GetText
<1>7. Abstract!Text(a, b)
  BY <1>1, <1>3, <1>6 DEF Abstract!Text, Abstract!Content, Past, Future, size
<1> QED
  BY <1>4, <1>7

-----------------------------------------------------------------------------

\* A fresh stream has consumed nothing and has the whole buffer to come.
LEMMA InitImplements ==
  ASSUME StreamInit
  PROVE  StreamTypeOK /\ Abstract!Start
<1>1. Buffer \in Seq(Symbols) /\ CurrentIndex = 0 /\ Len(Buffer) \in Nat
  BY StreamAssumption, LenProperties DEF StreamInit
<1>2. StreamTypeOK
  BY <1>1 DEF StreamTypeOK, StreamInit, size
<1>3. SubSeq(Buffer, 1, 0) = << >>
  BY SubSeqEmpty
<1>4. SubSeq(Buffer, 1, Len(Buffer)) = Buffer
  BY <1>1, SubSeqFull
<1>5. SubSeq(Buffer, CurrentIndex + 1, Len(Buffer)) = Buffer
  <2>1. CurrentIndex + 1 = 1
    BY <1>1
  <2> QED
    BY <1>4, <2>1
<1> QED
  BY <1>1, <1>2, <1>3, <1>5 DEF StreamInit, Abstract!Start, size

\* Every step of the stream is a step of the contract, or changes nothing it
\* can see.
LEMMA StepImplements ==
  ASSUME StreamTypeOK, [StreamNext]_streamVars
  PROVE  [Abstract!Step]_Abstract!vars
<1>1. CASE Consume
  BY <1>1, ConsumeImplements DEF Abstract!Step
<1>2. CASE LookAhead
  BY <1>2, LookAheadImplements DEF Abstract!Step
<1>3. CASE Seek
  BY <1>3, SeekImplements DEF Abstract!Step
<1>4. CASE Text
  BY <1>4, TextImplements DEF Abstract!Step
<1>5. CASE UNCHANGED streamVars
  BY <1>5 DEF streamVars, Abstract!vars, size
<1> QED
  BY <1>1, <1>2, <1>3, <1>4, <1>5 DEF StreamNext

\* The index of a stream stays inside its buffer, whatever a lexer does
\* (consume, seek).
THEOREM IndexInBuffer == StreamSpec => []StreamTypeOK
<1>1. StreamInit => StreamTypeOK
  BY InitImplements
<1>2. StreamTypeOK /\ [StreamNext]_streamVars => StreamTypeOK'
  BY TypeStep
<1> QED
  BY <1>1, <1>2, PTL DEF StreamSpec

\* SourceMgrCharStream behaves as a CharStream: an index into a buffer, with
\* its clamps and its modular arithmetic, never lets a lexer see anything
\* but what it has consumed and what is to come.
THEOREM StreamImplementsContract == StreamSpec => StreamContract
<1>1. StreamInit => Abstract!Start
  BY InitImplements
<1>2. StreamTypeOK /\ [StreamNext]_streamVars => [Abstract!Step]_Abstract!vars
  BY StepImplements
<1> QED
  BY <1>1, <1>2, IndexInBuffer, PTL DEF StreamSpec, StreamContract, Abstract!Contract

------------------------------------------------------------------------------
Types ==
  {"operator", "keyword", "INTEGER_LITERAL", "FLOAT_LITERAL", "DOUBLE_LITERAL", "STRING_LITERAL",
   "CHAR_LITERAL", "RAW_STRING_START", "IDENTIFIER", "WS", "COMMENT", "LINE_COMMENT"}

Stretches ==
  [type : Types \cup {"EOF", "error"}, index : Nat, line : Nat, pos : Nat, end : Nat]

LexTypeOK ==
  /\ Buffer \in Buffers /\ CurrentIndex \in 0..size
  /\ phase \in {"next", "match", "end"} /\ hitEOF \in BOOLEAN
  /\ line \in Nat /\ pos \in Nat
  /\ start \in [index : Nat, line : Nat, pos : Nat]
  /\ accepted \in [index : Nat, line : Nat, pos : Nat, type : Types \cup {"none"}]
  /\ lexed \in Seq(Stretches)

\* Where stretch k begins, and where the one after the last would.
EndBefore(k) == IF k = 1 THEN 0 ELSE lexed[k - 1].end
Covered == EndBefore(Len(lexed) + 1)

Chained ==
  \A k \in DOMAIN lexed :
    /\ lexed[k].index = EndBefore(k)
    /\ lexed[k].type = "EOF" <=> lexed[k].index = lexed[k].end

\* Between tokens the lexer stands where the last one ended; in a token it
\* is further on, with the longest match in between.
Placed ==
  /\ phase = "next" => CurrentIndex = Covered /\ (hitEOF => CurrentIndex = size)
  /\ phase = "match" =>
       /\ start.index = Covered /\ start.index <= CurrentIndex
       /\ accepted.type # "none" => accepted.index \in (start.index + 1)..CurrentIndex
  /\ phase = "end" => lexed # << >> /\ Last(lexed).type = "EOF" /\ Last(lexed).end = size

LexInv == LexTypeOK /\ Chained /\ Placed

\* A rule gives one of the types, if any rule matches.
LEMMA TokenTypes ==
  ASSUME NEW s
  PROVE  TokenType(s) \in Types \cup {"none"}
BY DEF TokenType, Types

\* What is known of the buffer, and when the lexer sees its end.
LEMMA AtEnd ==
  ASSUME LexTypeOK
  PROVE  /\ size \in Nat /\ CurrentIndex \in Nat /\ CurrentIndex <= size
         /\ (LA(1) = EOF) <=> (CurrentIndex = size)
<1>1. Buffer \in Seq(Symbols) /\ size \in Nat
  BY StreamAssumption, LenProperties DEF LexTypeOK, size
<1>2. CurrentIndex \in Nat /\ CurrentIndex <= size
  BY <1>1 DEF LexTypeOK
<1>3. CASE CurrentIndex = size
  BY <1>1, <1>2, <1>3 DEF LA
<1>4. CASE CurrentIndex # size
  <2>1. CurrentIndex + 1 \in 1..Len(Buffer)
    BY <1>1, <1>2, <1>4 DEF size
  <2>2. Buffer[CurrentIndex + 1] \in Symbols
    BY <1>1, <2>1, ElementOfSeq
  <2>3. LA(1) = Buffer[CurrentIndex + 1]
    BY <1>1, <1>2, <1>4 DEF LA
  <2> QED
    BY <1>1, <1>2, <1>4, <2>2, <2>3, StreamAssumption
<1> QED
  BY <1>1, <1>2, <1>3, <1>4

\* The end of the last stretch, read off the list.
LEMMA CoveredIs ==
  ASSUME LexTypeOK
  PROVE  /\ Covered = IF lexed = << >> THEN 0 ELSE Last(lexed).end
         /\ Covered \in Nat
<1>1. Len(lexed) \in Nat /\ (lexed = << >> <=> Len(lexed) = 0)
  BY LenProperties, EmptySeq DEF LexTypeOK
<1>2. CASE lexed = << >>
  BY <1>1, <1>2 DEF Covered, EndBefore
<1>3. CASE lexed # << >>
  <2>1. Len(lexed) \in 1..Len(lexed) /\ Len(lexed) + 1 # 1 /\ Len(lexed) + 1 - 1 = Len(lexed)
    BY <1>1, <1>3
  <2>2. lexed[Len(lexed)] \in Stretches
    BY <2>1, ElementOfSeq DEF LexTypeOK
  <2> QED
    BY <1>3, <2>1, <2>2 DEF Covered, EndBefore, Last, Stretches
<1> QED
  BY <1>2, <1>3

\* Adding the stretch that begins where the last one ended.
LEMMA Extends ==
  ASSUME LexTypeOK, Chained, NEW l \in Stretches, lexed' = Append(lexed, l),
         l.index = Covered, l.type = "EOF" <=> l.index = l.end
  PROVE  /\ lexed' \in Seq(Stretches) /\ Chained'
         /\ lexed' # << >> /\ Last(lexed') = l /\ Covered' = l.end
<1> DEFINE n == Len(lexed)
<1>1. lexed \in Seq(Stretches) /\ n \in Nat /\ DOMAIN lexed = 1..n
  BY LenProperties DEF LexTypeOK
<1>2. /\ lexed' \in Seq(Stretches) /\ Len(lexed') = n + 1
      /\ \A k \in 1..n : lexed'[k] = lexed[k]
      /\ lexed'[n + 1] = l
  BY <1>1, AppendProperties
<1>3. DOMAIN lexed' = 1..(n + 1)
  BY <1>2, LenProperties
<1>4. lexed' # << >> /\ Last(lexed') = l
  BY <1>1, <1>2, EmptySeq DEF Last
<1>5. \A k \in 1..(n + 1) : EndBefore(k)' = EndBefore(k)
  BY <1>1, <1>2 DEF EndBefore
<1>6. Covered' = l.end
  BY <1>1, <1>2 DEF Covered, EndBefore
<1>7. Chained'
  <2>1. SUFFICES ASSUME NEW k \in 1..(n + 1)
                 PROVE  /\ lexed'[k].index = EndBefore(k)
                        /\ lexed'[k].type = "EOF" <=> lexed'[k].index = lexed'[k].end
    BY <1>3, <1>5 DEF Chained
  <2>2. CASE k \in 1..n
    BY <1>1, <1>2, <2>2 DEF Chained
  <2>3. CASE k = n + 1
    BY <1>2, <2>3 DEF Covered
  <2> QED
    BY <1>1, <2>2, <2>3
<1> QED
  BY <1>2, <1>4, <1>6, <1>7

\* Nothing added, nothing lost.
LEMMA Keeps ==
  ASSUME Chained, lexed' = lexed
  PROVE  Chained' /\ Covered' = Covered
BY DEF Chained, Covered, EndBefore

-----------------------------------------------------------------------------
(* One lemma per step.                                                     *)

LEMMA InvInit ==
  ASSUME LexInit
  PROVE  LexInv
<1>1. Len(Buffer) \in Nat
  BY StreamAssumption, LenProperties DEF LexInit, StreamInit
<1>2. lexed = << >> /\ lexed \in Seq(Stretches)
  BY EmptySeq DEF LexInit
<1>3. LexTypeOK
  <2>1. start = [index |-> 0, line |-> 1, pos |-> 0]
    BY DEF LexInit, StreamInit, Here
  <2>2. accepted = [index |-> 0, line |-> 1, pos |-> 0, type |-> "none"]
    BY DEF LexInit, None
  <2>3. Buffer \in Buffers /\ CurrentIndex \in 0..size
    BY <1>1 DEF LexInit, StreamInit, size
  <2>4. start \in [index : Nat, line : Nat, pos : Nat]
    BY <2>1
  <2>5. accepted \in [index : Nat, line : Nat, pos : Nat, type : Types \cup {"none"}]
    BY <2>2
  <2>6. phase = "next" /\ line \in Nat /\ pos \in Nat
    BY DEF LexInit
  <2>7. hitEOF \in BOOLEAN
    BY DEF LexInit
  <2> QED
    BY <1>2, <2>3, <2>4, <2>5, <2>6, <2>7 DEF LexTypeOK
<1>4. Chained
  BY <1>2 DEF Chained
<1>5. Covered = 0
  BY <1>2, <1>3, CoveredIs
<1> QED
  BY <1>3, <1>4, <1>5 DEF LexInv, Placed, LexInit, StreamInit

LEMMA StartTokenKeeps ==
  ASSUME LexInv, StartToken
  PROVE  LexInv'
<1> USE DEF LexInv, StartToken, streamVars
<1>1. Chained' /\ Covered' = Covered
  BY Keeps
<1>2. size' = size
  BY DEF size
<1>3. LexTypeOK'
  BY <1>2, AtEnd DEF LexTypeOK, Here, None
<1>4. start'.index = CurrentIndex /\ accepted'.type = "none"
  BY DEF Here, None
<1> QED
  BY <1>1, <1>3, <1>4, AtEnd DEF Placed

\* The two steps that end the file.
LEMMA EmitEOFKeeps ==
  ASSUME LexInv, EmitEOF, CurrentIndex = size, Covered = CurrentIndex
  PROVE  LexInv'
<1> DEFINE l == Stretch("EOF", Here, CurrentIndex)
<1>1. /\ l \in Stretches /\ l.index = CurrentIndex /\ l.type = "EOF" /\ l.end = CurrentIndex
  BY AtEnd DEF LexInv, LexTypeOK, Stretch, Here, Stretches
<1>2. lexed' = Append(lexed, l)
  BY DEF EmitEOF
<1> HIDE DEF l
<1>3. lexed' \in Seq(Stretches) /\ Chained' /\ lexed' # << >> /\ Last(lexed') = l
  BY <1>1, <1>2, Extends DEF LexInv
<1>4. size' = size
  BY DEF EmitEOF, streamVars, size
<1>5. LexTypeOK'
  BY <1>3, <1>4 DEF LexInv, LexTypeOK, EmitEOF, streamVars
<1>6. Placed'
  BY <1>1, <1>3, <1>4 DEF Placed, EmitEOF
<1> QED
  BY <1>3, <1>5, <1>6 DEF LexInv

LEMMA ShiftKeeps ==
  ASSUME LexInv, Shift
  PROVE  LexInv'
<1> USE DEF LexInv
<1>1. Chained' /\ Covered' = Covered
  BY Keeps DEF Shift
<1>2. size' = size /\ size \in Nat
  BY AtEnd DEF Shift, size
<1>3. CurrentIndex < size /\ CurrentIndex' = CurrentIndex + 1
  BY AtEnd DEF Shift, MayShift, simConsume, consume
<1>4. line' \in Nat /\ pos' \in Nat
  BY DEF Shift, simConsume, LexTypeOK
<1> DEFINE type == TokenType(Append(Consumed, LA(1)))
           new == [index |-> CurrentIndex', line |-> line', pos |-> pos', type |-> type]
<1>5. type \in Types \cup {"none"}
  BY TokenTypes
<1>6. accepted' = IF type = "none" THEN accepted ELSE new
  BY DEF Shift, Capture
<1> HIDE DEF type
<1>7. new \in [index : Nat, line : Nat, pos : Nat, type : Types \cup {"none"}]
  BY <1>3, <1>4, <1>5, AtEnd
<1>8. LexTypeOK'
  BY <1>2, <1>3, <1>4, <1>6, <1>7, AtEnd DEF LexTypeOK, Shift
<1>9. accepted'.type # "none" => accepted'.index \in (start.index + 1)..CurrentIndex'
  <2>1. CASE type = "none"
    BY <1>3, <1>6, <2>1, AtEnd DEF Placed, Shift, LexTypeOK
  <2>2. CASE type # "none"
    BY <1>3, <1>6, <2>2, AtEnd DEF Placed, Shift, LexTypeOK
  <2> QED
    BY <2>1, <2>2
<1>10. Placed'
  BY <1>1, <1>3, <1>9, AtEnd DEF Placed, Shift, LexTypeOK
<1> QED
  BY <1>1, <1>8, <1>10

LEMMA AcceptKeeps ==
  ASSUME LexInv, Accept
  PROVE  LexInv'
<1> USE DEF LexInv
<1> DEFINE l == Stretch(accepted.type, start, accepted.index)
<1>1. /\ start.index = Covered /\ accepted.type \in Types
      /\ accepted.index \in Nat /\ accepted.index > start.index /\ accepted.index <= size
  BY AtEnd DEF Accept, Placed, LexTypeOK
<1>2. /\ l \in Stretches /\ l.index = Covered /\ l.type # "EOF"
      /\ l.end = accepted.index /\ l.index # l.end
  BY <1>1 DEF Stretch, Stretches, LexTypeOK, Types
<1>3. lexed' = Append(lexed, l)
  BY DEF Accept
<1> HIDE DEF l
<1>4. lexed' \in Seq(Stretches) /\ Chained' /\ Covered' = accepted.index
  BY <1>2, <1>3, Extends
<1>5. size' = size /\ CurrentIndex' = accepted.index
  BY <1>1, AtEnd DEF Accept, seek, size
<1>6. LexTypeOK'
  BY <1>1, <1>4, <1>5, AtEnd DEF LexTypeOK, Accept
<1>7. Placed'
  BY <1>4, <1>5 DEF Placed, Accept
<1> QED
  BY <1>4, <1>6, <1>7

LEMMA FailKeeps ==
  ASSUME LexInv, Fail
  PROVE  LexInv'
<1> USE DEF LexInv
<1> DEFINE l == Stretch("error", start, CurrentIndex')
<1>1. start.index = Covered /\ start.index <= CurrentIndex
  BY DEF Fail, NoToken, Placed
<1>2. /\ CurrentIndex' \in Nat /\ CurrentIndex' <= size /\ start.index < CurrentIndex'
      /\ line' \in Nat /\ pos' \in Nat
  <2>1. CASE LA(1) = EOF
    BY <1>1, <2>1, AtEnd DEF Fail, recover, LexTypeOK
  <2>2. CASE LA(1) # EOF
    <3>1. simConsume /\ CurrentIndex < size
      BY <2>2, AtEnd DEF Fail, recover
    <3>2. CurrentIndex' = CurrentIndex + 1
      BY <3>1 DEF simConsume, consume
    <3>3. line' \in Nat /\ pos' \in Nat
      BY <3>1 DEF simConsume, LexTypeOK
    <3> QED
      BY <1>1, <3>1, <3>2, <3>3, AtEnd DEF LexTypeOK
  <2> QED
    BY <2>1, <2>2
<1>3. /\ l \in Stretches /\ l.index = Covered /\ l.type # "EOF"
      /\ l.end = CurrentIndex' /\ l.index # l.end
  BY <1>1, <1>2 DEF Stretch, Stretches, LexTypeOK
<1>4. lexed' = Append(lexed, l)
  BY DEF Fail
<1> HIDE DEF l
<1>5. lexed' \in Seq(Stretches) /\ Chained' /\ Covered' = CurrentIndex'
  BY <1>3, <1>4, Extends
<1>6. size' = size /\ size \in Nat
  BY AtEnd DEF Fail, size
<1>7. LexTypeOK'
  BY <1>2, <1>5, <1>6 DEF LexTypeOK, Fail
<1>8. Placed'
  BY <1>5, <1>6 DEF Placed, Fail
<1> QED
  BY <1>5, <1>7, <1>8

LEMMA StutterKeeps ==
  ASSUME LexInv, UNCHANGED allVars
  PROVE  LexInv'
BY DEF LexInv, LexTypeOK, Chained, Placed, Covered, EndBefore, size,
       allVars, streamVars, lexVars

LEMMA InvStep ==
  ASSUME LexInv, [LexNext]_allVars
  PROVE  LexInv'
<1>1. CASE StartToken
  BY <1>1, StartTokenKeeps
<1>2. CASE EndOfFile
  <2>1. EmitEOF /\ CurrentIndex = size /\ Covered = CurrentIndex
    BY <1>2 DEF EndOfFile, LexInv, Placed
  <2> QED
    BY <2>1, EmitEOFKeeps
<1>3. CASE Shift
  BY <1>3, ShiftKeeps
<1>4. CASE Accept
  BY <1>4, AcceptKeeps
<1>5. CASE EmptyRest
  <2>1. EmitEOF /\ CurrentIndex = size /\ Covered = CurrentIndex
    BY <1>5, AtEnd DEF EmptyRest, NoToken, LexInv, Placed
  <2> QED
    BY <2>1, EmitEOFKeeps
<1>6. CASE Fail
  BY <1>6, FailKeeps
<1>7. CASE UNCHANGED allVars
  BY <1>7, StutterKeeps
<1> QED
  BY <1>1, <1>2, <1>3, <1>4, <1>5, <1>6, <1>7 DEF LexNext, Lexed

\* No byte of a file is lost or lexed twice, however far the simulator ran
\* ahead before Accept went back to the longest match, or Fail gave up.
THEOREM TilesHolds == LexSpec => []Tiles
<1>1. LexInit => LexInv
  BY InvInit
<1>2. LexInv /\ [LexNext]_allVars => LexInv'
  BY InvStep
<1>3. LexInv => Tiles
  BY DEF LexInv, Chained, Placed, EndBefore, Tiles
<1> QED
  BY <1>1, <1>2, <1>3, PTL DEF LexSpec

-----------------------------------------------------------------------------
(* Lines and columns: what the simulator counts is what SourceMgr finds.   *)

\* The offsets at which SourceMgr begins a line, and those before one.
LineStarts == {0} \cup {k \in DOMAIN Buffer : Buffer[k] = "\n"}
Below(k) == {j \in LineStarts : j < k}

\* Line l, column p is where an offset stands, as the simulator counts.
Marked(index, l, p) ==
  /\ index \in 0..size /\ p \in 0..index /\ l \in Nat
  /\ index - p \in LineStarts
  /\ \A k \in (index - p + 1)..index : Buffer[k] # "\n"
  /\ Cardinality(Below(index - p)) = l - 1

LEMMA LinesFinite ==
  ASSUME LexTypeOK, NEW k
  PROVE  /\ LineStarts \subseteq 0..size /\ DOMAIN Buffer = 1..size /\ size \in Nat
         /\ IsFiniteSet(Below(k)) /\ Cardinality(Below(k)) \in Nat
<1>1. size \in Nat /\ DOMAIN Buffer = 1..size
  BY AtEnd, StreamAssumption, LenProperties DEF LexTypeOK, size
<1>2. LineStarts \subseteq 0..size
  BY <1>1 DEF LineStarts
<1>3. Below(k) \in SUBSET (0..size)
  BY <1>2 DEF Below
<1>4. IsFiniteSet(Below(k))
  <2>1. IsFiniteSet(0..size)
    BY <1>1, FS_Interval
  <2> QED
    BY <1>3, <2>1, FS_Subset
<1> QED
  BY <1>1, <1>2, <1>4, FS_CardinalityType

\* No two lines have the same number.
LEMMA LineNumbersDiffer ==
  ASSUME LexTypeOK, NEW j \in LineStarts, NEW k \in LineStarts, j < k
  PROVE  Cardinality(Below(j)) # Cardinality(Below(k))
<1>1. j \in Nat /\ k \in Nat
  BY LinesFinite
<1>2. Below(j) \in SUBSET Below(k)
  <2>1. \A i \in LineStarts : i \in Nat
    BY LinesFinite
  <2>2. \A i \in LineStarts : i < j => i < k
    BY <1>1, <2>1
  <2> QED
    BY <2>2 DEF Below
<1>3. j \in Below(k) /\ j \notin Below(j)
  BY <1>1 DEF Below
<1> QED
  BY <1>2, <1>3, LinesFinite, FS_Subset

\* FindLocForLineAndColumn in parts: the way into the line, and the starts
\* of the lines, one at most, that have that number and are long enough.
Ahead(colNo) == IF colNo = 0 THEN 0 ELSE colNo - 1
InLine(l, a) ==
  {k \in {i \in LineStarts : Cardinality(Below(i)) = l - 1} :
     k + a <= size /\ All(SubSeq(Buffer, k + 1, k + a), Symbols \ LineEnd)}

LEMMA FindLoc ==
  ASSUME NEW l, NEW colNo
  PROVE  FindLocForLineAndColumn(l, colNo) =
           IF InLine(l, Ahead(colNo)) = {} THEN NoLoc
           ELSE Ahead(colNo) + CHOOSE k \in InLine(l, Ahead(colNo)) : TRUE
BY DEF FindLocForLineAndColumn, Ahead, InLine, LineStarts, Below

\* SourceMgr finds what the simulator has marked.
LEMMA Found ==
  ASSUME LexTypeOK, NEW index, NEW l, NEW p, Marked(index, l, p), ~ AfterLoneReturn(index)
  PROVE  syntaxErrorLoc(l, p) = index
<1> DEFINE s == index - p
           first == {k \in LineStarts : Cardinality(Below(k)) = l - 1}
<1>1. /\ index \in Nat /\ p \in Nat /\ s \in Nat /\ s + p = index /\ index <= size
      /\ size \in Nat /\ l \in Nat /\ s \in LineStarts /\ Cardinality(Below(s)) = l - 1
      /\ \A k \in (s + 1)..index : Buffer[k] # "\n"
  BY LinesFinite DEF Marked
<1>2. first = {s}
  <2>1. s \in first
    BY <1>1
  <2>2. ASSUME NEW k \in first
        PROVE  k = s
    <3>1. k \in Nat
      BY LinesFinite
    <3>2. ~ k < s
      BY <1>1, LineNumbersDiffer
    <3>3. ~ s < k
      BY <1>1, LineNumbersDiffer
    <3> QED
      BY <1>1, <3>1, <3>2, <3>3
  <2> QED
    BY <2>1, <2>2
<1>3. All(SubSeq(Buffer, s + 1, s + p), Symbols \ LineEnd)
  <2>1. Buffer \in Seq(Symbols) /\ Len(Buffer) = size
    BY StreamAssumption DEF LexTypeOK, size
  <2>2. \A k \in (s + 1)..(s + p) : Buffer[k] \in Symbols
    BY <1>1, <2>1, ElementOfSeq
  <2>3. /\ SubSeq(Buffer, s + 1, s + p) \in Seq(Symbols)
        /\ Len(SubSeq(Buffer, s + 1, s + p)) = IF s + 1 <= s + p THEN s + p - (s + 1) + 1 ELSE 0
        /\ \A i \in 1..(s + p - (s + 1) + 1) : SubSeq(Buffer, s + 1, s + p)[i] = Buffer[s + 1 + i - 1]
    BY <1>1, <2>1, <2>2, SubSeqProperties
  <2>4. DOMAIN SubSeq(Buffer, s + 1, s + p) = 1..Len(SubSeq(Buffer, s + 1, s + p))
    BY <2>3, LenProperties
  <2>5. Len(SubSeq(Buffer, s + 1, s + p)) = p
    <3>1. s + p - (s + 1) + 1 = p /\ (s + 1 <= s + p <=> p # 0)
      BY <1>1
    <3> QED
      BY <2>3, <3>1
  <2>6. ASSUME NEW i \in 1..p
        PROVE  SubSeq(Buffer, s + 1, s + p)[i] \in Symbols \ LineEnd
    <3>1. s + 1 + i - 1 = s + i /\ s + p - (s + 1) + 1 = p /\ s + i \in (s + 1)..(s + p)
      BY <1>1
    <3>2. SubSeq(Buffer, s + 1, s + p)[i] = Buffer[s + i]
      BY <2>3, <3>1
    <3>3. Buffer[s + i] \in Symbols /\ Buffer[s + i] # "\n"
      BY <1>1, <2>2, <3>1
    <3>4. Buffer[s + i] # "\r"
      <4>1. s + i \in 1..index /\ \A j \in (s + i)..index : Buffer[j] # "\n"
        BY <1>1, <3>1
      <4> QED
        BY <4>1 DEF AfterLoneReturn
    <3> QED
      BY <3>2, <3>3, <3>4 DEF LineEnd
  <2> QED
    BY <2>4, <2>5, <2>6 DEF All
<1>4. syntaxErrorLoc(l, p) = IF InLine(l, p) = {} THEN NoLoc ELSE p + CHOOSE k \in InLine(l, p) : TRUE
  <2>1. Ahead(p + 1) = p
    BY <1>1 DEF Ahead
  <2>2. syntaxErrorLoc(l, p) = FindLocForLineAndColumn(l, p + 1)
    BY DEF syntaxErrorLoc
  <2> QED
    BY <2>1, <2>2, FindLoc
<1>5. InLine(l, p) = {s}
  BY <1>1, <1>2, <1>3 DEF InLine
<1>6. (CHOOSE k \in InLine(l, p) : TRUE) = s
  BY <1>5
<1> QED
  BY <1>1, <1>4, <1>5, <1>6

\* consume moves line and column on as the text does.
LEMMA ConsumeMarks ==
  ASSUME LexTypeOK, Marked(CurrentIndex, line, pos), simConsume, LA(1) # EOF
  PROVE  Marked(CurrentIndex + 1, line', pos')
<1> DEFINE i == CurrentIndex
<1>1. i \in Nat /\ size \in Nat /\ i + 1 <= size /\ i + 1 \in 1..size
  BY AtEnd
<1>2. LA(1) = Buffer[i + 1]
  BY <1>1 DEF LA
<1>3. /\ pos \in 0..i /\ line \in Nat /\ i - pos \in LineStarts
      /\ \A k \in (i - pos + 1)..i : Buffer[k] # "\n"
      /\ Cardinality(Below(i - pos)) = line - 1
  BY DEF Marked
<1>4. CASE Buffer[i + 1] = "\n"
  <2>1. line' = line + 1 /\ pos' = 0
    BY <1>2, <1>4 DEF simConsume
  <2>2. i + 1 \in LineStarts
    BY <1>1, <1>4, LinesFinite DEF LineStarts
  <2>3. Below(i + 1) = Below(i - pos) \cup {i - pos}
    <3>1. ASSUME NEW k \in LineStarts, k < i + 1
          PROVE  k <= i - pos
      <4>1. k \in Nat
        BY LinesFinite
      <4>2. CASE k = 0
        BY <1>1, <1>3, <4>2
      <4>3. CASE k # 0
        <5>1. Buffer[k] = "\n"
          BY <4>3 DEF LineStarts
        <5>2. k \notin (i - pos + 1)..i
          BY <1>3, <5>1
        <5> QED
          BY <1>1, <1>3, <3>1, <4>1, <5>2
      <4> QED
        BY <4>2, <4>3
    <3>2. \A k \in LineStarts : k \in Nat
      BY LinesFinite
    <3>3. \A k \in LineStarts : k < i + 1 <=> (k < i - pos \/ k = i - pos)
      BY <1>1, <1>3, <3>1, <3>2
    <3> QED
      BY <1>3, <3>3 DEF Below
  <2>4. i - pos \notin Below(i - pos)
    BY <1>1, <1>3 DEF Below
  <2>5. Cardinality(Below(i + 1)) = Cardinality(Below(i - pos)) + 1
    BY <2>3, <2>4, LinesFinite, FS_AddElement
  <2>6. Cardinality(Below(i + 1)) = line + 1 - 1
    BY <1>3, <2>5
  <2>7. i + 1 - 0 = i + 1
    BY <1>1
  <2> QED
    BY <1>1, <1>3, <2>1, <2>2, <2>6, <2>7 DEF Marked
<1>5. CASE Buffer[i + 1] # "\n"
  <2>1. line' = line /\ pos' = pos + 1
    BY <1>2, <1>5 DEF simConsume
  <2>2. i + 1 - (pos + 1) = i - pos /\ pos + 1 \in 0..(i + 1)
    BY <1>1, <1>3
  <2>3. \A k \in (i - pos + 1)..(i + 1) : Buffer[k] # "\n"
    BY <1>1, <1>3, <1>5
  <2> QED
    BY <1>1, <1>3, <2>1, <2>2, <2>3 DEF Marked
<1> QED
  BY <1>4, <1>5

\* The places whose line and column are what SourceMgr would count.
Marks == {m \in Nat \X Nat \X Nat : Marked(m[1], m[2], m[3])}

\* The stretch added last is where it says, and so is the error reported
\* for it.
LastLocated ==
  lexed # << >> =>
    /\ << Last(lexed).index, Last(lexed).line, Last(lexed).pos >> \in Marks
    /\ Last(lexed).type = "error" =>
         reports[Len(reports)].loc = syntaxErrorLoc(Last(lexed).line, Last(lexed).pos)

Reported == \E S : reports \in Seq(S)

\* The simulator knows where it is, where the token began, and where to go
\* back to.
Located ==
  /\ << CurrentIndex, line, pos >> \in Marks
  /\ phase = "match" =>
       /\ << start.index, start.line, start.pos >> \in Marks
       /\ accepted.type # "none" => << accepted.index, accepted.line, accepted.pos >> \in Marks
  /\ LastLocated /\ Reported

LEMMA InMarks ==
  ASSUME LexTypeOK, NEW index, NEW l, NEW p
  PROVE  << index, l, p >> \in Marks <=> Marked(index, l, p)
<1>1. Marked(index, l, p) => index \in Nat /\ l \in Nat /\ p \in Nat
  BY LinesFinite DEF Marked
<1> QED
  BY <1>1 DEF Marks

LEMMA MarksStay ==
  ASSUME Buffer' = Buffer
  PROVE  Marks' = Marks
BY DEF Marks, Marked, LineStarts, Below, size

LEMMA LastStays ==
  ASSUME LastLocated, UNCHANGED << Buffer, lexed, reports >>
  PROVE  LastLocated'
<1>1. Marks' = Marks
  BY MarksStay
<1>2. \A l, p : syntaxErrorLoc(l, p)' = syntaxErrorLoc(l, p)
  BY DEF syntaxErrorLoc, FindLocForLineAndColumn, size
<1> QED
  BY <1>1, <1>2 DEF LastLocated

LEMMA LocInit ==
  ASSUME LexInit, LexInv
  PROVE  Located
<1>1. LexTypeOK /\ CurrentIndex = 0 /\ line = 1 /\ pos = 0 /\ phase = "next" /\ lexed = << >>
  BY DEF LexInv, LexInit, StreamInit
<1>2. Below(0) = {}
  <2>1. \A j \in LineStarts : ~ j < 0
    BY <1>1, LinesFinite
  <2> QED
    BY <2>1 DEF Below
<1>3. Marked(0, 1, 0)
  BY <1>1, <1>2, FS_EmptySet, LinesFinite DEF Marked, LineStarts
<1>4. Reported
  BY EmptySeq DEF Reported, LexInit
<1> QED
  BY <1>1, <1>3, <1>4, InMarks DEF Located, LastLocated

\* consume, as the marks see it.
LEMMA ConsumeLocated ==
  ASSUME LexTypeOK, << CurrentIndex, line, pos >> \in Marks, Buffer' = Buffer,
         simConsume, LA(1) # EOF
  PROVE  << CurrentIndex', line', pos' >> \in Marks'
<1>1. CurrentIndex' = CurrentIndex + 1
  BY AtEnd DEF simConsume, consume
<1>2. Marked(CurrentIndex + 1, line', pos')
  BY InMarks, ConsumeMarks
<1> QED
  BY <1>1, <1>2, InMarks, MarksStay

LEMMA StartTokenLocated ==
  ASSUME Located, StartToken
  PROVE  Located'
<1>1. UNCHANGED << Buffer, CurrentIndex, line, pos, lexed, reports >>
  BY DEF StartToken, streamVars
<1>2. LastLocated' /\ Marks' = Marks
  BY <1>1, LastStays, MarksStay DEF Located
<1>3. /\ start'.index = CurrentIndex /\ start'.line = line /\ start'.pos = pos
      /\ accepted'.type = "none"
  BY DEF StartToken, Here, None
<1>4. Reported'
  BY <1>1 DEF Located, Reported
<1> QED
  BY <1>1, <1>2, <1>3, <1>4 DEF Located

\* A stretch that is no error is located by its line and column.
LEMMA AddLocated ==
  ASSUME LexInv, NEW type, type \in Types \cup {"EOF"}, NEW place, NEW end,
         Buffer' = Buffer, reports' = reports, Reported,
         << place.index, place.line, place.pos >> \in Marks,
         Stretch(type, place, end) \in Stretches,
         lexed' = Append(lexed, Stretch(type, place, end))
  PROVE  LastLocated' /\ Reported'
<1> DEFINE l == Stretch(type, place, end)
<1>1. l.index = place.index /\ l.line = place.line /\ l.pos = place.pos /\ l.type # "error"
  BY DEF Stretch, Types
<1> HIDE DEF l
<1>2. lexed \in Seq(Stretches) /\ Len(lexed) \in Nat
  BY LenProperties DEF LexInv, LexTypeOK
<1>3. Last(lexed') = l
  BY <1>2, AppendProperties DEF Last, l
<1>4. Marks' = Marks
  BY MarksStay
<1> QED
  BY <1>1, <1>3, <1>4 DEF LastLocated, Reported

LEMMA EmitEOFLocated ==
  ASSUME LexInv, Located, EmitEOF
  PROVE  Located'
<1>1. /\ Stretch("EOF", Here, CurrentIndex) \in Stretches
      /\ Here.index = CurrentIndex /\ Here.line = line /\ Here.pos = pos
  BY AtEnd DEF LexInv, LexTypeOK, Stretch, Here, Stretches
<1>2. /\ lexed' = Append(lexed, Stretch("EOF", Here, CurrentIndex)) /\ phase' = "end"
      /\ UNCHANGED << Buffer, CurrentIndex, line, pos, reports >>
  BY DEF EmitEOF, streamVars
<1>3. LastLocated' /\ Reported'
  BY <1>1, <1>2, AddLocated DEF Located
<1>4. Marks' = Marks
  BY <1>2, MarksStay
<1> QED
  BY <1>2, <1>3, <1>4 DEF Located

LEMMA ShiftLocated ==
  ASSUME LexInv, Located, Shift
  PROVE  Located'
<1> DEFINE type == TokenType(Append(Consumed, LA(1)))
<1>1. /\ phase = "match" /\ phase' = "match" /\ LA(1) # EOF /\ simConsume
      /\ UNCHANGED << Buffer, start, lexed, reports >> /\ Capture(type)
  BY DEF Shift, MayShift
<1> HIDE DEF type
<1>2. << CurrentIndex', line', pos' >> \in Marks'
  BY <1>1, ConsumeLocated DEF Located, LexInv
<1>3. LastLocated' /\ Marks' = Marks /\ Reported'
  BY <1>1, LastStays, MarksStay DEF Located, Reported
<1>4. accepted'.type # "none" => << accepted'.index, accepted'.line, accepted'.pos >> \in Marks'
  <2>1. CASE type = "none"
    BY <1>1, <1>3, <2>1 DEF Capture, Located
  <2>2. CASE type # "none"
    <3>1. accepted' = [index |-> CurrentIndex', line |-> line', pos |-> pos', type |-> type]
      BY <1>1, <2>2 DEF Capture
    <3> QED
      BY <1>2, <3>1
  <2> QED
    BY <2>1, <2>2
<1> QED
  BY <1>1, <1>2, <1>3, <1>4 DEF Located

LEMMA AcceptLocated ==
  ASSUME LexInv, Located, Accept
  PROVE  Located'
<1>1. /\ phase = "match" /\ accepted.type # "none" /\ accepted.type \in Types
      /\ accepted.index \in Nat /\ accepted.index <= size
  BY AtEnd DEF Accept, LexInv, Placed, LexTypeOK
<1>2. Stretch(accepted.type, start, accepted.index) \in Stretches
  BY <1>1 DEF LexInv, LexTypeOK, Stretch, Stretches
<1>3. /\ UNCHANGED << Buffer, reports >> /\ phase' = "next"
      /\ CurrentIndex' = accepted.index /\ line' = accepted.line /\ pos' = accepted.pos
      /\ lexed' = Append(lexed, Stretch(accepted.type, start, accepted.index))
  BY <1>1, AtEnd DEF LexInv, Accept, seek
<1>4. LastLocated' /\ Reported'
  BY <1>1, <1>2, <1>3, AddLocated DEF Located
<1>5. Marks' = Marks
  BY <1>3, MarksStay
<1> QED
  BY <1>1, <1>3, <1>4, <1>5 DEF Located

LEMMA FailLocated ==
  ASSUME LexInv, Located, Fail
  PROVE  Located'
<1> DEFINE l == Stretch("error", start, CurrentIndex')
           r == [loc |-> syntaxErrorLoc(start.line, start.pos), text |-> getText(start.index, CurrentIndex)]
<1>1. phase = "match" /\ phase' = "next" /\ Buffer' = Buffer
      /\ lexed' = Append(lexed, l) /\ reports' = Append(reports, r) /\ recover
  BY DEF Fail, NoToken
<1>2. Marks' = Marks /\ << start.index, start.line, start.pos >> \in Marks
  BY <1>1, MarksStay DEF Located
<1>3. l.index = start.index /\ l.line = start.line /\ l.pos = start.pos
  BY DEF Stretch
<1>4. r.loc = syntaxErrorLoc(start.line, start.pos)
  OBVIOUS
<1> HIDE DEF r
<1>5. Reported' /\ reports'[Len(reports')] = r
  <2>1. PICK S : reports \in Seq(S)
    BY DEF Located, Reported
  <2>2. reports \in Seq(S \cup {r})
    BY <2>1, SeqMonotonic
  <2>3. reports' \in Seq(S \cup {r}) /\ Len(reports') = Len(reports) + 1 /\ reports'[Len(reports) + 1] = r
    BY <1>1, <2>2, AppendProperties
  <2> QED
    BY <2>3 DEF Reported
<1>6. l \in Stretches
  <2>1. CurrentIndex' \in Nat
    <3>1. Len(Buffer') \in Nat /\ CurrentIndex' \in 0..Len(Buffer')
      BY FailKeeps, StreamAssumption, LenProperties DEF LexInv, LexTypeOK, size
    <3> QED
      BY <3>1
  <2> QED
    BY <2>1 DEF LexInv, LexTypeOK, Stretch, Stretches
<1> HIDE DEF l
<1>7. Last(lexed') = l
  BY <1>1, <1>6, LenProperties, AppendProperties DEF LexInv, LexTypeOK, Last
<1>8. \A ln, p : syntaxErrorLoc(ln, p)' = syntaxErrorLoc(ln, p)
  BY <1>1 DEF syntaxErrorLoc, FindLocForLineAndColumn, size
<1>9. LastLocated'
  BY <1>2, <1>3, <1>4, <1>5, <1>7, <1>8 DEF LastLocated
<1>10. << CurrentIndex', line', pos' >> \in Marks'
  <2>1. CASE LA(1) = EOF
    BY <1>1, <1>2, <2>1 DEF recover, Located
  <2>2. CASE LA(1) # EOF
    BY <1>1, <2>2, ConsumeLocated DEF recover, Located, LexInv
  <2> QED
    BY <2>1, <2>2
<1> QED
  BY <1>1, <1>5, <1>9, <1>10 DEF Located

LEMMA LocStep ==
  ASSUME LexInv, Located, [LexNext]_allVars
  PROVE  Located'
<1>1. CASE StartToken
  BY <1>1, StartTokenLocated
<1>2. CASE EndOfFile \/ EmptyRest
  BY <1>2, EmitEOFLocated DEF EndOfFile, EmptyRest
<1>3. CASE Shift
  BY <1>3, ShiftLocated
<1>4. CASE Accept
  BY <1>4, AcceptLocated
<1>5. CASE Fail
  BY <1>5, FailLocated
<1>6. CASE UNCHANGED allVars
  <2>1. UNCHANGED << Buffer, CurrentIndex, phase, line, pos, start, accepted, lexed, reports >>
    BY <1>6 DEF allVars, streamVars, lexVars
  <2>2. LastLocated' /\ Marks' = Marks /\ Reported'
    BY <2>1, LastStays, MarksStay DEF Located, Reported
  <2> QED
    BY <2>1, <2>2 DEF Located
<1> QED
  BY <1>1, <1>2, <1>3, <1>4, <1>5, <1>6 DEF LexNext, Lexed

\* The place of a token or an error, passed through SourceMgr, is its first
\* byte again, whatever the simulator shifted and took back, unless a lone
\* carriage return stands before it on its line.
THEOREM LocExactHolds == LexSpec => []LocExact
<1>1. LexInit => LexInv /\ Located
  BY InvInit, LocInit
<1>2. LexInv /\ Located /\ [LexNext]_allVars => (LexInv /\ Located)'
  BY InvStep, LocStep
<1>3. LexInv /\ Located => LocExact
  <2>1. ASSUME LexInv, Located, Added, ~ AfterLoneReturn(Last(lexed).index)
        PROVE  syntaxErrorLoc(Last(lexed).line, Last(lexed).pos) = Last(lexed).index
    <3>1. << Last(lexed).index, Last(lexed).line, Last(lexed).pos >> \in Marks
      BY <2>1 DEF Located, LastLocated, Added
    <3> QED
      BY <2>1, <3>1, InMarks, Found DEF LexInv
  <2> QED
    BY <2>1 DEF LocExact, Located, LastLocated, Added
<1> QED
  BY <1>1, <1>2, <1>3, PTL DEF LexSpec

-----------------------------------------------------------------------------
(* The texts of tokens: what each rule says of the places of a text, and     *)
(* that every beginning of a token can be completed to one.                 *)

\* The symbols of a text, and those a token may be completed with.
Chars == Symbols \cup {"=", "0", Quote, "n", "/", "*", "'", "&"}

\* Some rule matches all of s.
Matches(s) ==
  \/ s \in Operators \/ s \in Keywords
  \/ INTEGER_LITERAL(s) \/ FLOAT_LITERAL(s) \/ DOUBLE_LITERAL(s)
  \/ STRING_LITERAL(s) \/ CHAR_LITERAL(s) \/ s = << Quote, Quote, Quote >>
  \/ IDENTIFIER(s) \/ WS(s) \/ COMMENT(s) \/ LINE_COMMENT(s)

LEMMA MatchesIs == ASSUME NEW s PROVE TokenType(s) # "none" <=> Matches(s)
  BY DEF TokenType, Matches

\* The first k symbols of s, completed by c.
LEMMA Completed ==
  ASSUME NEW s \in Seq(Chars), NEW k \in 1..Len(s), NEW c \in Seq(Chars), NEW t, t = SubSeq(s, 1, k) \o c
  PROVE  /\ t \in Seq(Chars) /\ Len(t) = k + Len(c) /\ \A i \in 1..k : t[i] = s[i]
         /\ \A i \in 1..Len(c) : t[k + i] = c[i]
<1>1. Len(s) \in Nat /\ Len(c) \in Nat /\ k \in Nat /\ \A i \in 1..k : s[i] \in Chars
  BY ElementOfSeq
<1> DEFINE p == SubSeq(s, 1, k)
<1>2. p \in Seq(Chars) /\ Len(p) = k /\ \A i \in 1..k : p[i] = s[i]
  BY <1>1, SubSeqProperties
<1> HIDE DEF p
<1>3. t = p \o c
  BY DEF p
<1>4. t \in Seq(Chars) /\ Len(t) = k + Len(c)
  BY <1>1, <1>2, <1>3, ConcatProperties
<1>5. \A i \in 1..Len(t) : t[i] = IF i <= k THEN p[i] ELSE c[i - k]
  BY <1>1, <1>2, <1>3, ConcatProperties
<1>6. \A i \in 1..k : t[i] = s[i]
  BY <1>1, <1>2, <1>4, <1>5
<1>7. \A i \in 1..Len(c) : t[k + i] = c[i]
  <2> TAKE i \in 1..Len(c)
  <2>1. k + i \in 1..Len(t) /\ ~ (k + i <= k) /\ k + i - k = i
    BY <1>1, <1>4
  <2> QED
    BY <1>5, <2>1
<1> QED
  BY <1>1, <1>4, <1>6, <1>7

\* The first k symbols of s can be completed to a token.
CanEnd(s, k) == \E c \in Completions : Matches(SubSeq(s, 1, k) \o c)

LEMMA CompletionSeqs == ASSUME NEW c \in Completions PROVE c \in Seq(Chars)
<1>1. /\ "=" \in Chars /\ "0" \in Chars /\ Quote \in Chars /\ "n" \in Chars /\ "/" \in Chars
      /\ "*" \in Chars /\ "'" \in Chars /\ "&" \in Chars
  BY DEF Chars
<1>2. /\ << >> \in Seq(Chars) /\ << "=" >> \in Seq(Chars) /\ << "0" >> \in Seq(Chars)
      /\ << Quote >> \in Seq(Chars) /\ << "n", Quote >> \in Seq(Chars) /\ << "/" >> \in Seq(Chars)
      /\ << "*", "/" >> \in Seq(Chars) /\ << "'" >> \in Seq(Chars) /\ << "n", "'" >> \in Seq(Chars)
      /\ << "&" >> \in Seq(Chars) /\ << "0", "'" >> \in Seq(Chars) /\ << "0", "0", "'" >> \in Seq(Chars)
      /\ << "0", "0", "0", "'" >> \in Seq(Chars)
  BY <1>1
<1> QED
  BY <1>2, Zenon DEF Completions

\* Elements of a text from a place on.
LEMMA AllFrom ==
  ASSUME NEW C, NEW s \in Seq(C), NEW k \in 1..(Len(s) + 1), NEW S
  PROVE  All(From(s, k), S) <=> \A i \in k..Len(s) : s[i] \in S
<1>1. Len(s) \in Nat /\ k \in Nat /\ \A i \in k..Len(s) : s[i] \in C
  BY ElementOfSeq
<1> DEFINE f == From(s, k)
<1>2. /\ f \in Seq(C) /\ Len(f) = IF k <= Len(s) THEN Len(s) - k + 1 ELSE 0
      /\ \A i \in 1..(Len(s) - k + 1) : f[i] = s[k + i - 1]
  BY <1>1, SubSeqProperties DEF From
<1> HIDE DEF f
<1>3. DOMAIN f = 1..(Len(s) - k + 1)
  BY <1>1, <1>2
<1>4. ASSUME \A j \in DOMAIN f : f[j] \in S, NEW i \in k..Len(s)
      PROVE  s[i] \in S
  <2>1. i - k + 1 \in 1..(Len(s) - k + 1) /\ k + (i - k + 1) - 1 = i
    BY <1>1
  <2> QED
    BY <1>2, <1>3, <1>4, <2>1
<1>5. ASSUME \A i \in k..Len(s) : s[i] \in S, NEW j \in 1..(Len(s) - k + 1)
      PROVE  f[j] \in S
  <2>1. k + j - 1 \in k..Len(s)
    BY <1>1
  <2> QED
    BY <1>2, <1>5, <2>1
<1> QED
  BY <1>3, <1>4, <1>5 DEF All, f

\* Texts from a place on, and those from a place in these.
LEMMA FromIs ==
  ASSUME NEW C, NEW s \in Seq(C), NEW k \in 1..(Len(s) + 1)
  PROVE  /\ From(s, k) \in Seq(C) /\ Len(From(s, k)) = Len(s) - k + 1
         /\ \A i \in 1..(Len(s) - k + 1) : From(s, k)[i] = s[k + i - 1]
<1>1. Len(s) \in Nat /\ k \in Nat /\ \A i \in k..Len(s) : s[i] \in C
  BY ElementOfSeq
<1>2. /\ From(s, k) \in Seq(C) /\ Len(From(s, k)) = IF k <= Len(s) THEN Len(s) - k + 1 ELSE 0
      /\ \A i \in 1..(Len(s) - k + 1) : From(s, k)[i] = s[k + i - 1]
  BY <1>1, SubSeqProperties DEF From
<1> QED
  BY <1>1, <1>2

LEMMA FromFrom ==
  ASSUME NEW C, NEW s \in Seq(C), NEW k \in 1..(Len(s) + 1), NEW j \in 1..(Len(s) - k + 2)
  PROVE  From(From(s, k), j) = From(s, k + j - 1)
<1>1. Len(s) \in Nat /\ k \in Nat /\ j \in Nat /\ k + j - 1 \in 1..(Len(s) + 1)
  OBVIOUS
<1> DEFINE f == From(s, k)
           g == From(f, j)
           h == From(s, k + j - 1)
<1>2. f \in Seq(C) /\ Len(f) = Len(s) - k + 1 /\ \A i \in 1..(Len(s) - k + 1) : f[i] = s[k + i - 1]
  BY FromIs
<1> HIDE DEF f
<1>3. j \in 1..(Len(f) + 1)
  BY <1>1, <1>2
<1>4. g \in Seq(C) /\ Len(g) = Len(f) - j + 1 /\ \A i \in 1..(Len(f) - j + 1) : g[i] = f[j + i - 1]
  BY <1>2, <1>3, FromIs
<1>5. /\ h \in Seq(C) /\ Len(h) = Len(s) - (k + j - 1) + 1
      /\ \A i \in 1..(Len(s) - (k + j - 1) + 1) : h[i] = s[(k + j - 1) + i - 1]
  BY <1>1, FromIs
<1> HIDE DEF g, h
<1>6. Len(g) = Len(h)
  BY <1>1, <1>2, <1>4, <1>5
<1>7. \A i \in 1..Len(g) : g[i] = h[i]
  <2> TAKE i \in 1..Len(g)
  <2>1. /\ i \in 1..(Len(f) - j + 1) /\ j + i - 1 \in 1..(Len(s) - k + 1)
        /\ i \in 1..(Len(s) - (k + j - 1) + 1) /\ k + (j + i - 1) - 1 = (k + j - 1) + i - 1
    BY <1>1, <1>2, <1>4
  <2> QED
    BY <1>2, <1>4, <1>5, <2>1
<1> QED
  BY <1>4, <1>5, <1>6, <1>7, SeqEqual DEF f, g, h

LEMMA AllPrefix ==
  ASSUME NEW C, NEW s \in Seq(C), NEW m \in 1..(Len(s) + 1), NEW k \in 0..Len(s), NEW S
  PROVE  All(SubSeq(s, m, k), S) <=> \A i \in m..k : s[i] \in S
<1>1. Len(s) \in Nat /\ k \in Nat /\ m \in Nat /\ \A i \in m..k : s[i] \in C
  BY ElementOfSeq
<1> DEFINE f == SubSeq(s, m, k)
<1>2. /\ f \in Seq(C) /\ Len(f) = IF m <= k THEN k - m + 1 ELSE 0
      /\ \A i \in 1..(k - m + 1) : f[i] = s[m + i - 1]
  BY <1>1, SubSeqProperties
<1> HIDE DEF f
<1>3. DOMAIN f = 1..(k - m + 1)
  BY <1>1, <1>2
<1>4. ASSUME \A j \in DOMAIN f : f[j] \in S, NEW i \in m..k
      PROVE  s[i] \in S
  <2>1. i - m + 1 \in 1..(k - m + 1) /\ m + (i - m + 1) - 1 = i
    BY <1>1
  <2> QED
    BY <1>2, <1>3, <1>4, <2>1
<1>5. ASSUME \A i \in m..k : s[i] \in S, NEW j \in 1..(k - m + 1)
      PROVE  f[j] \in S
  <2>1. m + j - 1 \in m..k
    BY <1>1
  <2> QED
    BY <1>2, <1>5, <2>1
<1> QED
  BY <1>3, <1>4, <1>5 DEF All, f

\* The rules of numbers, read off the places of a text of n symbols.
Digits(s, a, b) == \A i \in a..b : s[i] \in DEC_DIGIT
Dec(s, k) == (s[1] = "0" /\ k = 1) \/ (s[1] \in DEC_DIGIT \ {"0"} /\ Digits(s, 1, k))
ExpAt(s, k, n) ==
  /\ k < n /\ s[k] \in {"e", "E"}
  /\ IF s[k + 1] \in {"+", "-"} THEN k + 2 <= n /\ Digits(s, k + 2, n) ELSE Digits(s, k + 1, n)
FracAt(s, k, n) ==
  /\ k < n /\ s[k] = "."
  /\ \E j \in (k + 1)..n : Digits(s, k + 1, j) /\ (j = n \/ ExpAt(s, j + 1, n))
Double(s, n) ==
  \E k \in 1..(n - 1) : Dec(s, k) /\ (FracAt(s, k + 1, n) \/ (s[1] # "0" /\ ExpAt(s, k + 1, n)))

LEMMA DecIs ==
  ASSUME NEW C, NEW s \in Seq(C), NEW k \in 1..Len(s)
  PROVE  DEC_INTEGER_LITERAL(SubSeq(s, 1, k)) <=> Dec(s, k)
<1> DEFINE p == SubSeq(s, 1, k)
<1>1. Len(s) \in Nat /\ \A i \in 1..k : s[i] \in C
  BY ElementOfSeq
<1>2. p \in Seq(C) /\ Len(p) = k /\ \A i \in 1..k : p[i] = s[i]
  BY <1>1, SubSeqProperties
<1>3. All(p, DEC_DIGIT) <=> \A i \in 1..k : s[i] \in DEC_DIGIT
  BY AllPrefix
<1> HIDE DEF p
<1>4. p # << >> /\ p[1] = s[1]
  BY <1>2
<1>5. p = << "0" >> <=> (s[1] = "0" /\ k = 1)
  BY <1>2, SMTT(30)
<1> QED
  BY <1>3, <1>4, <1>5 DEF DEC_INTEGER_LITERAL, Dec, Digits, p

LEMMA ExpIs ==
  ASSUME NEW C, NEW s \in Seq(C), NEW k \in 1..(Len(s) + 1)
  PROVE  DOUBLE_EXPONENT(From(s, k)) <=> ExpAt(s, k, Len(s))
<1> DEFINE f == From(s, k)
           n == Len(s)
<1>1. n \in Nat /\ k \in Nat
  OBVIOUS
<1>2. f \in Seq(C) /\ Len(f) = n - k + 1 /\ \A i \in 1..(n - k + 1) : f[i] = s[k + i - 1]
  BY FromIs
<1>3. CASE ~ (k < n)
  <2>1. ~ (Len(f) > 1)
    BY <1>1, <1>2, <1>3
  <2> QED
    BY <1>3, <2>1 DEF DOUBLE_EXPONENT, ExpAt
<1>4. CASE k < n
  <2>1. Len(f) > 1 /\ f[1] = s[k] /\ f[2] = s[k + 1]
    <3> HIDE DEF f
    <3>1. 1 \in 1..(n - k + 1) /\ 2 \in 1..(n - k + 1) /\ k + 1 - 1 = k /\ k + 2 - 1 = k + 1
      BY <1>1, <1>4
    <3> HIDE DEF n
    <3>2. f[1] = s[k + 1 - 1] /\ f[2] = s[k + 2 - 1]
      BY <1>2, <3>1
    <3>3. Len(f) > 1
      BY <1>1, <1>2, <1>4
    <3> QED
      BY <3>1, <3>2, <3>3
  <2>2. /\ From(f, 3) = From(s, k + 2) /\ From(f, 2) = From(s, k + 1)
    <3>1. 3 \in 1..(Len(s) - k + 2) /\ 2 \in 1..(Len(s) - k + 2) /\ k + 3 - 1 = k + 2 /\ k + 2 - 1 = k + 1
      BY <1>1, <1>4
    <3> QED
      BY <3>1, FromFrom
  <2> HIDE DEF f
  <2>3. k + 2 \in 1..(Len(s) + 1) /\ k + 1 \in 1..(Len(s) + 1)
    BY <1>1, <1>4
  <2>4. /\ All(From(s, k + 2), DEC_DIGIT) <=> Digits(s, k + 2, n)
        /\ All(From(s, k + 1), DEC_DIGIT) <=> Digits(s, k + 1, n)
    BY <2>3, AllFrom DEF Digits
  <2>5. Len(From(s, k + 2)) = n - (k + 2) + 1 /\ Len(From(s, k + 1)) = n - (k + 1) + 1
        /\ From(s, k + 2) \in Seq(C) /\ From(s, k + 1) \in Seq(C)
    BY <2>3, FromIs
  <2>6. (From(s, k + 2) # << >> <=> k + 2 <= n) /\ From(s, k + 1) # << >>
    BY <1>1, <1>4, <2>5
  <2>7. DOUBLE_EXPONENT(f) <=>
          /\ f[1] \in {"e", "E"}
          /\ IF f[2] \in {"+", "-"} THEN From(f, 3) # << >> /\ All(From(f, 3), DEC_DIGIT)
             ELSE From(f, 2) # << >> /\ All(From(f, 2), DEC_DIGIT)
    BY <2>1 DEF DOUBLE_EXPONENT
  <2> QED
    BY <1>4, <2>1, <2>2, <2>4, <2>6, <2>7 DEF ExpAt, f
<1> QED
  BY <1>3, <1>4

LEMMA FracIs ==
  ASSUME NEW C, NEW s \in Seq(C), NEW k \in 1..Len(s)
  PROVE  Fraction(From(s, k)) <=> FracAt(s, k, Len(s))
<1> DEFINE f == From(s, k)
           n == Len(s)
<1>1. n \in Nat /\ k \in Nat
  OBVIOUS
<1>2. f \in Seq(C) /\ Len(f) = n - k + 1 /\ \A i \in 1..(n - k + 1) : f[i] = s[k + i - 1]
  <2>1. k \in 1..(Len(s) + 1)
    BY <1>1
  <2> QED
    BY <2>1, FromIs
<1>3. f[1] = s[k] /\ (Len(f) > 1 <=> k < n)
  BY <1>1, <1>2
<1>4. ASSUME NEW i \in 2..Len(f)
      PROVE  /\ k + i - 1 \in (k + 1)..n
             /\ i = Len(f) <=> k + i - 1 = n
             /\ All(SubSeq(f, 2, i), DEC_DIGIT) <=> Digits(s, k + 1, k + i - 1)
             /\ DOUBLE_EXPONENT(From(f, i + 1)) <=> ExpAt(s, k + i - 1 + 1, n)
  <2>1. k + i - 1 \in (k + 1)..n /\ (i = Len(f) <=> k + i - 1 = n)
    BY <1>1, <1>2
  <2>2. All(SubSeq(f, 2, i), DEC_DIGIT) <=> \A j \in 2..i : f[j] \in DEC_DIGIT
    <3>1. 2 \in 1..(Len(f) + 1) /\ i \in 0..Len(f)
      BY <1>1, <1>2
    <3> HIDE DEF f
    <3> QED
      BY <1>2, <3>1, AllPrefix
  <2>3. (\A j \in 2..i : f[j] \in DEC_DIGIT) <=> Digits(s, k + 1, k + i - 1)
    <3> HIDE DEF f
    <3>1. ASSUME \A j \in 2..i : f[j] \in DEC_DIGIT, NEW m \in (k + 1)..(k + i - 1)
          PROVE  s[m] \in DEC_DIGIT
      <4>1. m - k + 1 \in 2..i /\ m - k + 1 \in 1..(n - k + 1) /\ k + (m - k + 1) - 1 = m
        BY <1>1, <1>2
      <4> QED
        BY <1>2, <3>1, <4>1
    <3>2. ASSUME Digits(s, k + 1, k + i - 1), NEW j \in 2..i
          PROVE  f[j] \in DEC_DIGIT
      <4>1. k + j - 1 \in (k + 1)..(k + i - 1) /\ j \in 1..(n - k + 1)
        BY <1>1, <1>2
      <4> QED
        BY <1>2, <3>2, <4>1 DEF Digits
    <3> QED
      BY <3>1, <3>2 DEF Digits
  <2>4. From(f, i + 1) = From(s, k + i - 1 + 1)
    <3>1. i + 1 \in 1..(Len(s) - k + 2) /\ k + (i + 1) - 1 = k + i - 1 + 1
      BY <1>1, <1>2
    <3> QED
      BY <3>1, FromFrom
  <2>5. k + i - 1 + 1 \in 1..(Len(s) + 1)
    BY <1>1, <1>2
  <2>6. DOUBLE_EXPONENT(From(s, k + i - 1 + 1)) <=> ExpAt(s, k + i - 1 + 1, n)
    BY <2>5, ExpIs
  <2> QED
    BY <2>1, <2>2, <2>3, <2>4, <2>6, Zenon
<1> DEFINE Goes(j) == Digits(s, k + 1, j) /\ (j = n \/ ExpAt(s, j + 1, n))
           Went(i) == All(SubSeq(f, 2, i), DEC_DIGIT) /\ (i = Len(f) \/ DOUBLE_EXPONENT(From(f, i + 1)))
<1>5. ASSUME NEW i \in 2..Len(f)
      PROVE  k + i - 1 \in (k + 1)..n /\ (Went(i) <=> Goes(k + i - 1))
  <2>1. k + i - 1 \in (k + 1)..n /\ (i = Len(f) <=> k + i - 1 = n)
    BY <1>4
  <2>2. All(SubSeq(f, 2, i), DEC_DIGIT) <=> Digits(s, k + 1, k + i - 1)
    BY <1>4
  <2>3. DOUBLE_EXPONENT(From(f, i + 1)) <=> ExpAt(s, k + i - 1 + 1, n)
    BY <1>4
  <2>4. Went(i) <=> Goes(k + i - 1)
    BY <2>1, <2>2, <2>3, Zenon
  <2> HIDE DEF Went, Goes
  <2> QED
    BY <2>1, <2>4, Zenon
<1>6. ASSUME NEW j \in (k + 1)..n
      PROVE  j - k + 1 \in 2..Len(f) /\ k + (j - k + 1) - 1 = j
  BY <1>1, <1>2
<1> HIDE DEF f, Goes, Went
<1>7. (\E i \in 2..Len(f) : Went(i)) <=> (\E j \in (k + 1)..n : Goes(j))
  <2>1. ASSUME NEW i \in 2..Len(f), Went(i) PROVE \E j \in (k + 1)..n : Goes(j)
    BY <1>5, <2>1, Zenon
  <2>2. ASSUME NEW j \in (k + 1)..n, Goes(j) PROVE \E i \in 2..Len(f) : Went(i)
    <3>1. PICK i \in 2..Len(f) : k + i - 1 = j
      BY <1>6
    <3>2. Went(i) <=> Goes(j)
      BY <1>5, <3>1
    <3> QED
      BY <2>2, <3>2, Zenon
  <2> QED
    BY <2>1, <2>2, Zenon
<1>8. Fraction(f) <=> Len(f) > 1 /\ f[1] = "." /\ \E i \in 2..Len(f) : Went(i)
  BY Zenon DEF Fraction, Went
<1>9. FracAt(s, k, n) <=> k < n /\ s[k] = "." /\ \E j \in (k + 1)..n : Goes(j)
  BY Zenon DEF FracAt, Goes
<1> QED
  BY <1>3, <1>7, <1>8, <1>9 DEF f

LEMMA DoubleIs ==
  ASSUME NEW C, NEW s \in Seq(C)
  PROVE  DOUBLE_LITERAL(s) <=> Double(s, Len(s))
<1> DEFINE n == Len(s)
           At(k) == /\ DEC_INTEGER_LITERAL(SubSeq(s, 1, k))
                    /\ Fraction(From(s, k + 1)) \/ (s[1] # "0" /\ DOUBLE_EXPONENT(From(s, k + 1)))
           Is(k) == Dec(s, k) /\ (FracAt(s, k + 1, n) \/ (s[1] # "0" /\ ExpAt(s, k + 1, n)))
<1>1. ASSUME NEW k \in 1..(n - 1) PROVE At(k) <=> Is(k)
  <2>1. k \in 1..n /\ k + 1 \in 1..n /\ k + 1 \in 1..(n + 1)
    OBVIOUS
  <2>2. DEC_INTEGER_LITERAL(SubSeq(s, 1, k)) <=> Dec(s, k)
    BY <2>1, DecIs
  <2>3. Fraction(From(s, k + 1)) <=> FracAt(s, k + 1, n)
    BY <2>1, FracIs
  <2>4. DOUBLE_EXPONENT(From(s, k + 1)) <=> ExpAt(s, k + 1, n)
    BY <2>1, ExpIs
  <2> QED
    BY <2>2, <2>3, <2>4, Zenon
<1>2. DOUBLE_LITERAL(s) <=> \E k \in 1..(n - 1) : At(k)
  BY Zenon DEF DOUBLE_LITERAL
<1>3. Double(s, n) <=> \E k \in 1..(n - 1) : Is(k)
  BY Zenon DEF Double
<1> HIDE DEF At, Is
<1> QED
  BY <1>1, <1>2, <1>3, Zenon

LEMMA EndsBare ==
  ASSUME NEW s \in Seq(Chars), NEW k \in 1..Len(s),
         ASSUME NEW t \in Seq(Chars), Len(t) = k, \A i \in 1..k : t[i] = s[i] PROVE Matches(t)
  PROVE  CanEnd(s, k)
<1>1. Len(s) \in Nat /\ \A i \in 1..k : s[i] \in Chars
  BY ElementOfSeq
<1>2. PICK t : t = SubSeq(s, 1, k)
  OBVIOUS
<1>3. t \in Seq(Chars) /\ Len(t) = k /\ \A i \in 1..k : t[i] = s[i]
  BY <1>1, <1>2, SubSeqProperties
<1>4. Matches(t)
  BY <1>3
<1>5. t \o << >> = t
  BY <1>3, ConcatEmptySeq
<1>6. << >> \in Completions
  BY Zenon DEF Completions
<1> QED
  BY <1>2, <1>4, <1>5, <1>6, Zenon DEF CanEnd

LEMMA EndsWith ==
  ASSUME NEW s \in Seq(Chars), NEW k \in 1..Len(s), NEW c \in Completions,
         ASSUME NEW t \in Seq(Chars), Len(t) = k + Len(c), \A i \in 1..k : t[i] = s[i],
                \A i \in 1..Len(c) : t[k + i] = c[i]
         PROVE  Matches(t)
  PROVE  CanEnd(s, k)
<1>1. PICK t : t = SubSeq(s, 1, k) \o c
  OBVIOUS
<1>2. c \in Seq(Chars)
  BY CompletionSeqs
<1>3. /\ t \in Seq(Chars) /\ Len(t) = k + Len(c) /\ \A i \in 1..k : t[i] = s[i]
      /\ \A i \in 1..Len(c) : t[k + i] = c[i]
  BY <1>1, <1>2, Completed
<1>4. Matches(t)
  BY <1>3
<1> QED
  BY <1>1, <1>4, Zenon DEF CanEnd

Completes(x) == << x >> \in Completions
CompletesTwo(x, y) == << x, y >> \in Completions

LEMMA EndsWithOne ==
  ASSUME NEW s \in Seq(Chars), NEW k \in 1..Len(s), NEW x, Completes(x),
         ASSUME NEW t \in Seq(Chars), Len(t) = k + 1, \A i \in 1..k : t[i] = s[i], t[k + 1] = x
         PROVE  Matches(t)
  PROVE  CanEnd(s, k)
<1>1. PICK c : c = << x >>
  OBVIOUS
<1>2. Len(c) = 1 /\ 1 \in 1..1 /\ c[1] = x /\ c \in Completions
  BY <1>1 DEF Completes
<1>3. ASSUME NEW t \in Seq(Chars), Len(t) = k + Len(c), \A i \in 1..k : t[i] = s[i],
             \A i \in 1..Len(c) : t[k + i] = c[i]
      PROVE  Matches(t)
  <2>1. Len(t) = k + 1 /\ t[k + 1] = x
    BY <1>2, <1>3
  <2> QED
    BY <1>3, <2>1
<1> QED
  BY <1>2, <1>3, EndsWith

\* The first k symbols of s, followed by x and y, are a token.
Closed(s, k, x, y) ==
  \A t \in Seq(Chars) :
    (Len(t) = k + 2 /\ (\A i \in 1..k : t[i] = s[i]) /\ t[k + 1] = x /\ t[k + 2] = y) => Matches(t)

LEMMA EndsWithTwo ==
  ASSUME NEW s \in Seq(Chars), NEW k \in 1..Len(s), NEW x, NEW y, CompletesTwo(x, y), Closed(s, k, x, y)
  PROVE  CanEnd(s, k)
<1>1. PICK c : c = << x, y >>
  OBVIOUS
<1>2. Len(c) = 2 /\ 1 \in 1..2 /\ 2 \in 1..2 /\ c[1] = x /\ c[2] = y /\ c \in Completions
  BY <1>1 DEF CompletesTwo
<1>3. ASSUME NEW t \in Seq(Chars), Len(t) = k + Len(c), \A i \in 1..k : t[i] = s[i],
             \A i \in 1..Len(c) : t[k + i] = c[i]
      PROVE  Matches(t)
  <2>1. Len(t) = k + 2 /\ t[k + 1] = x /\ t[k + 2] = y
    BY <1>2, <1>3
  <2> QED
    BY <1>3, <2>1 DEF Closed
<1> QED
  BY <1>2, <1>3, EndsWith

LEMMA Ends ==
  /\ Completes("=") /\ Completes("0") /\ Completes(Quote) /\ CompletesTwo("n", Quote) /\ Completes("/")
  /\ CompletesTwo("*", "/") /\ Completes("'") /\ CompletesTwo("n", "'") /\ CompletesTwo("0", "'")
  BY Zenon DEF Completions, Completes, CompletesTwo

LEMMA Elements ==
  ASSUME NEW s \in Seq(Chars)
  PROVE  Len(s) \in Nat /\ DOMAIN s = 1..Len(s) /\ \A i \in 1..Len(s) : s[i] \in Chars
  BY ElementOfSeq, LenProperties

\* A whole token needs nothing.
LEMMA WholeCanEnd ==
  ASSUME NEW s \in Seq(Chars), Len(s) > 0, Matches(s)
  PROVE  CanEnd(s, Len(s))
<1>1. Len(s) \in 1..Len(s)
  BY Elements
<1>2. ASSUME NEW t \in Seq(Chars), Len(t) = Len(s), \A i \in 1..Len(s) : t[i] = s[i]
      PROVE  Matches(t)
  <2>1. t = s
    BY <1>2, SeqEqual
  <2> QED
    BY <2>1
<1> QED
  BY <1>1, <1>2, EndsBare

-----------------------------------------------------------------------------
(* The beginnings of operators, names and blanks.                          *)

LEMMA OneLong ==
  ASSUME NEW t \in Seq(Chars), Len(t) = 1
  PROVE  t = << t[1] >>
  OBVIOUS

LEMMA TwoLong ==
  ASSUME NEW t \in Seq(Chars), Len(t) = 2
  PROVE  t = << t[1], t[2] >>
  OBVIOUS

LEMMA ThreeLong ==
  ASSUME NEW t \in Seq(Chars), Len(t) = 3
  PROVE  t = << t[1], t[2], t[3] >>
  OBVIOUS

Single == {"@", ".", ",", ";", ":", "?", "(", ")", "[", "]", "{", "}", "+", "-", "*", "/",
           "%", "!", "=", "<", ">", "&", "|", "^", "~"}

LEMMA SingleCanEnd ==
  ASSUME NEW s \in Seq(Chars), Len(s) > 0, s[1] \in Single
  PROVE  CanEnd(s, 1)
<1>1. 1 \in 1..Len(s)
  BY Elements
<1>2. ASSUME NEW t \in Seq(Chars), Len(t) = 1, \A i \in 1..1 : t[i] = s[i]
      PROVE  Matches(t)
  <2>1. t = << t[1] >> /\ t[1] \in Single
    BY <1>2, OneLong
  <2>2. t \in Operators
    BY <2>1 DEF Operators, Single
  <2> QED
    BY <2>2 DEF Matches
<1> QED
  BY <1>1, <1>2, EndsBare

\* An operator, read off its places.
LEMMA OperatorIs ==
  ASSUME NEW s, s \in Operators
  PROVE  /\ Len(s) \in 1..3 /\ s[1] \in Single
         /\ Len(s) = 3 => s[1] = s[2] /\ s[1] \in {"<", ">"}
<1>1. CASE s \in {<< c >> : c \in Single}
  <2>1. PICK c \in Single : s = << c >>
    BY <1>1
  <2> QED
    BY <2>1
<1>2. CASE \E c, d : c \in Single /\ s = << c, d >>
  <2>1. PICK c, d : c \in Single /\ s = << c, d >>
    BY <1>2
  <2> QED
    BY <2>1
<1>3. CASE \E c \in {"<", ">"} : s = << c, c, "=" >>
  <2>1. PICK c \in {"<", ">"} : s = << c, c, "=" >>
    BY <1>3
  <2>2. c \in Single
    BY DEF Single
  <2> QED
    BY <2>1, <2>2
<1> QED
  BY <1>1, <1>2, <1>3, Zenon DEF Operators, Single

LEMMA OperatorCanEnd ==
  ASSUME NEW s \in Seq(Chars), s \in Operators, NEW k \in 1..Len(s)
  PROVE  CanEnd(s, k)
<1>1. CASE k = Len(s)
  BY <1>1, WholeCanEnd DEF Matches
<1>2. CASE k = 1
  <2>1. s[1] \in Single
    BY OperatorIs
  <2> QED
    BY <1>2, <2>1, SingleCanEnd
<1>3. CASE k # 1 /\ k # Len(s)
  <2>1. k = 2 /\ s[1] = s[2] /\ s[1] \in {"<", ">"}
    <3>1. /\ Len(s) \in 1..3 /\ s[1] \in Single
          /\ Len(s) = 3 => s[1] = s[2] /\ s[1] \in {"<", ">"}
      BY OperatorIs
    <3>2. Len(s) \in 1..3
      BY <3>1, Zenon
    <3>3. k = 2 /\ Len(s) = 3
      <4>1. PICK n : n = Len(s)
        OBVIOUS
      <4> QED
        BY <1>3, <3>2, <4>1
    <3> QED
      BY <3>1, <3>3
  <2>2. ASSUME NEW t \in Seq(Chars), Len(t) = k + 1, \A i \in 1..k : t[i] = s[i], t[k + 1] = "="
        PROVE  Matches(t)
    <3>1. t = << s[1], s[1], "=" >>
      BY <2>1, <2>2, ThreeLong
    <3>2. t \in Operators
      BY <2>1, <3>1 DEF Operators
    <3> QED
      BY <3>2 DEF Matches
  <2> QED
    BY <2>2, Ends, EndsWithOne
<1> QED
  BY <1>1, <1>2, <1>3

LEMMA IdentifierCanEnd ==
  ASSUME NEW s \in Seq(Chars), IDENTIFIER(s), NEW k \in 1..Len(s)
  PROVE  CanEnd(s, k)
<1>1. ASSUME NEW t \in Seq(Chars), Len(t) = k, \A i \in 1..k : t[i] = s[i]
      PROVE  Matches(t)
  <2>1. DOMAIN t = 1..k /\ DOMAIN s = 1..Len(s) /\ Len(s) \in Nat
    BY <1>1, Elements
  <2>2. All(t, Letter)
    BY <1>1, <2>1 DEF IDENTIFIER, All
  <2>3. t # << >> /\ t[1] \in Letter \ DEC_DIGIT
    BY <1>1, <2>1 DEF IDENTIFIER
  <2> QED
    BY <2>2, <2>3 DEF IDENTIFIER, Matches
<1> QED
  BY <1>1, EndsBare

LEMMA WSCanEnd ==
  ASSUME NEW s \in Seq(Chars), WS(s), NEW k \in 1..Len(s)
  PROVE  CanEnd(s, k)
<1>1. ASSUME NEW t \in Seq(Chars), Len(t) = k, \A i \in 1..k : t[i] = s[i]
      PROVE  Matches(t)
  <2>1. DOMAIN t = 1..k /\ DOMAIN s = 1..Len(s) /\ Len(s) \in Nat
    BY <1>1, Elements
  <2>2. All(t, Blank)
    BY <1>1, <2>1 DEF WS, All
  <2>3. t # << >>
    BY <1>1
  <2> QED
    BY <2>2, <2>3 DEF WS, Matches
<1> QED
  BY <1>1, EndsBare

LEMMA KeywordCanEnd ==
  ASSUME NEW s \in Seq(Chars), s \in Keywords, NEW k \in 1..Len(s)
  PROVE  CanEnd(s, k)
<1>1. IDENTIFIER(s)
  <2>1. Len(s) = 2 /\ s[1] = "i" /\ s[2] \in {"f", "n"} /\ DOMAIN s = 1..2 /\ s # << >>
    BY DEF Keywords
  <2>2. "i" \in Letter \ DEC_DIGIT /\ "f" \in Letter /\ "n" \in Letter
    BY DEF Letter, HEX_DIGIT, DEC_DIGIT
  <2> QED
    BY <2>1, <2>2 DEF IDENTIFIER, All
<1> QED
  BY <1>1, IdentifierCanEnd

-----------------------------------------------------------------------------
(* The beginnings of comments.                                             *)

LEMMA FirstTwo ==
  ASSUME NEW s \in Seq(Chars), Len(s) > 1, NEW x, NEW y
  PROVE  SubSeq(s, 1, 2) = << x, y >> <=> (s[1] = x /\ s[2] = y)
<1>1. Len(s) \in Nat /\ \A i \in 1..2 : s[i] \in Chars
  BY Elements
<1>2. PICK p : p = SubSeq(s, 1, 2)
  OBVIOUS
<1>3. p \in Seq(Chars) /\ Len(p) = 2 /\ p[1] = s[1] /\ p[2] = s[2]
  BY <1>1, <1>2, SubSeqProperties
<1>4. p = << s[1], s[2] >>
  BY <1>3, TwoLong
<1>5. << s[1], s[2] >> = << x, y >> <=> (s[1] = x /\ s[2] = y)
  OBVIOUS
<1> QED
  BY <1>2, <1>4, <1>5, Zenon

IsPair(p, x, y) == p = << x, y >>

LEMMA TwoAt ==
  ASSUME NEW s \in Seq(Chars), NEW k \in 1..(Len(s) - 1), NEW x, NEW y
  PROVE  IsPair(SubSeq(s, k, k + 1), x, y) <=> (s[k] = x /\ s[k + 1] = y)
<1>1. Len(s) \in Nat /\ k \in Nat /\ \A i \in k..(k + 1) : s[i] \in Chars
  BY Elements
<1>2. PICK p : p = SubSeq(s, k, k + 1)
  OBVIOUS
<1>3. /\ p \in Seq(Chars) /\ Len(p) = IF k <= k + 1 THEN k + 1 - k + 1 ELSE 0
      /\ \A i \in 1..(k + 1 - k + 1) : p[i] = s[k + i - 1]
  BY <1>1, <1>2, SubSeqProperties
<1>4. Len(p) = 2 /\ p[1] = s[k] /\ p[2] = s[k + 1]
  <2>1. k + 1 - k + 1 = 2 /\ k + 1 - 1 = k /\ k + 2 - 1 = k + 1 /\ 1 \in 1..2 /\ 2 \in 1..2
    BY <1>1
  <2>2. p[1] = s[k + 1 - 1] /\ p[2] = s[k + 2 - 1]
    BY <1>3, <2>1
  <2> QED
    BY <1>1, <1>3, <2>1, <2>2
<1>5. p = << s[k], s[k + 1] >>
  BY <1>3, <1>4, TwoLong
<1>6. << s[k], s[k + 1] >> = << x, y >> <=> (s[k] = x /\ s[k + 1] = y)
  OBVIOUS
<1> QED
  BY <1>2, <1>5, <1>6, Zenon DEF IsPair

\* A comment, read off its places.
Comment(s, n) ==
  /\ n > 3 /\ s[1] = "/" /\ s[2] = "*" /\ s[n - 1] = "*" /\ s[n] = "/"
  /\ \A i \in 3..(n - 2) : ~ (s[i] = "*" /\ s[i + 1] = "/")

LEMMA CommentIs ==
  ASSUME NEW s \in Seq(Chars)
  PROVE  COMMENT(s) <=> Comment(s, Len(s))
<1>1. CASE Len(s) > 3
  <2>1. Len(s) \in Nat /\ Len(s) - 1 \in 1..(Len(s) - 1) /\ Len(s) - 1 + 1 = Len(s) /\ Len(s) > 1
    BY <1>1, Elements
  <2>2. SubSeq(s, 1, 2) = << "/", "*" >> <=> (s[1] = "/" /\ s[2] = "*")
    BY <2>1, FirstTwo
  <2>3. From(s, Len(s) - 1) = << "*", "/" >> <=> (s[Len(s) - 1] = "*" /\ s[Len(s)] = "/")
    <3>1. IsPair(SubSeq(s, Len(s) - 1, Len(s) - 1 + 1), "*", "/") <=>
            (s[Len(s) - 1] = "*" /\ s[Len(s) - 1 + 1] = "/")
      BY <2>1, TwoAt
    <3>2. IsPair(SubSeq(s, Len(s) - 1, Len(s)), "*", "/") <=> (s[Len(s) - 1] = "*" /\ s[Len(s)] = "/")
      BY <2>1, <3>1
    <3> QED
      BY <3>2, Zenon DEF From, IsPair
  <2>4. ASSUME NEW i \in 3..(Len(s) - 2)
        PROVE  SubSeq(s, i, i + 1) # << "*", "/" >> <=> ~ (s[i] = "*" /\ s[i + 1] = "/")
    <3>1. i \in 1..(Len(s) - 1)
      BY <2>1
    <3>2. IsPair(SubSeq(s, i, i + 1), "*", "/") <=> (s[i] = "*" /\ s[i + 1] = "/")
      BY <3>1, TwoAt
    <3> QED
      BY <3>2, Zenon DEF IsPair
  <2> QED
    BY <1>1, <2>2, <2>3, <2>4, Zenon DEF COMMENT, Comment
<1>2. CASE ~ (Len(s) > 3)
  BY <1>2 DEF COMMENT, Comment
<1> QED
  BY <1>1, <1>2

LEMMA CommentCanEnd ==
  ASSUME NEW s \in Seq(Chars), COMMENT(s), NEW k \in 1..Len(s)
  PROVE  CanEnd(s, k)
<1>1. Comment(s, Len(s)) /\ Len(s) \in Nat
  BY CommentIs, Elements
<1>2. CASE k = Len(s)
  BY <1>1, <1>2, WholeCanEnd DEF Matches
<1>3. CASE k = 1
  <2>1. Len(s) > 0 /\ s[1] \in Single
    BY <1>1 DEF Comment, Single
  <2> QED
    BY <1>3, <2>1, SingleCanEnd
<1>4. CASE k # 1 /\ k # Len(s)
  <2>1. ASSUME NEW t \in Seq(Chars), Len(t) = k + 2, \A i \in 1..k : t[i] = s[i],
               t[k + 1] = "*", t[k + 2] = "/"
        PROVE  Matches(t)
    <3>1. k > 1 /\ k < Len(s) /\ t[1] = s[1] /\ t[2] = s[2]
      BY <1>1, <1>4, <2>1
    <3>2. ASSUME NEW i \in 3..k PROVE ~ (t[i] = "*" /\ t[i + 1] = "/")
      <4>1. CASE i = k
        BY <2>1, <4>1
      <4>2. CASE i # k
        <5>1. i \in 3..(Len(s) - 2) /\ t[i] = s[i] /\ t[i + 1] = s[i + 1]
          BY <2>1, <3>1, <4>2
        <5> QED
          BY <1>1, <5>1 DEF Comment
      <4> QED
        BY <4>1, <4>2
    <3>3. Comment(t, Len(t))
      BY <1>1, <2>1, <3>1, <3>2 DEF Comment
    <3>4. COMMENT(t)
      BY <3>3, CommentIs
    <3> QED
      BY <3>4 DEF Matches
  <2>2. CompletesTwo("*", "/")
    BY Ends, Zenon
  <2>3. Closed(s, k, "*", "/")
    BY <2>1 DEF Closed
  <2> QED
    BY <2>2, <2>3, EndsWithTwo
<1> QED
  BY <1>2, <1>3, <1>4

LEMMA LineCommentCanEnd ==
  ASSUME NEW s \in Seq(Chars), LINE_COMMENT(s), NEW k \in 1..Len(s)
  PROVE  CanEnd(s, k)
<1>1. Len(s) \in Nat /\ Len(s) > 1 /\ s[1] = "/" /\ s[2] = "/" /\ DOMAIN s = 1..Len(s)
  BY FirstTwo, Elements DEF LINE_COMMENT
<1>2. CASE k = 1
  <2>1. Len(s) > 0 /\ s[1] \in Single
    BY <1>1 DEF Single
  <2> QED
    BY <1>2, <2>1, SingleCanEnd
<1>3. CASE k # 1
  <2>1. ASSUME NEW t \in Seq(Chars), Len(t) = k, \A i \in 1..k : t[i] = s[i]
        PROVE  Matches(t)
    <3>1. Len(t) > 1 /\ t[1] = "/" /\ t[2] = "/" /\ DOMAIN t = 1..k
      BY <1>1, <1>3, <2>1, Elements
    <3>2. \A i \in DOMAIN t : t[i] \notin LineEnd
      BY <1>1, <2>1, <3>1 DEF LINE_COMMENT
    <3>3. LINE_COMMENT(t)
      BY <3>1, <3>2, FirstTwo DEF LINE_COMMENT
    <3> QED
      BY <3>3 DEF Matches
  <2> QED
    BY <2>1, EndsBare
<1> QED
  BY <1>2, <1>3

LEMMA PrefixIs ==
  ASSUME NEW s \in Seq(Chars), NEW k \in 1..Len(s), NEW t, t = SubSeq(s, 1, k)
  PROVE  t \in Seq(Chars) /\ Len(t) = k /\ \A i \in 1..k : t[i] = s[i]
<1>1. Len(s) \in Nat /\ \A i \in 1..k : s[i] \in Chars
  BY ElementOfSeq
<1> QED
  BY <1>1, SubSeqProperties

LEMMA WholeIs ==
  ASSUME NEW s \in Seq(Chars)
  PROVE  SubSeq(s, 1, Len(s)) = s
  BY SubSeqFull

-----------------------------------------------------------------------------
(* Numbers.                                                                *)

LEMMA Zero == "0" \in DEC_DIGIT /\ "0" \in HEX_DIGIT /\ "0" \notin {"+", "-"}
  BY DEF DEC_DIGIT, HEX_DIGIT

LEMMA ExpEnds ==
  ASSUME NEW s, NEW n \in Nat, NEW k \in Nat, NEW e \in 1..k, k <= n, ExpAt(s, e, n),
         NEW t, \A i \in 1..k : t[i] = s[i], t[k + 1] = "0"
  PROVE  ExpAt(s, e, k) \/ ExpAt(t, e, k + 1)
<1>1. e \in Nat /\ e < n /\ s[e] \in {"e", "E"} /\ t[e] = s[e]
  BY DEF ExpAt
<1>2. CASE k = e
  <2>1. t[e + 1] = "0" /\ Digits(t, e + 1, k + 1)
    BY <1>1, <1>2, Zero DEF Digits
  <2> QED
    BY <1>1, <1>2, <2>1, Zero DEF ExpAt
<1>3. CASE k = e + 1 /\ s[e + 1] \in {"+", "-"}
  <2>1. t[e + 1] = s[e + 1] /\ e + 2 <= k + 1 /\ Digits(t, e + 2, k + 1)
    BY <1>1, <1>3, Zero DEF Digits
  <2> QED
    BY <1>1, <1>3, <2>1 DEF ExpAt
<1>4. CASE k > e /\ ~ (k = e + 1 /\ s[e + 1] \in {"+", "-"})
  <2>1. Digits(s, e + 2, n) => Digits(s, e + 2, k)
    BY <1>1 DEF Digits
  <2>2. Digits(s, e + 1, n) => Digits(s, e + 1, k)
    BY <1>1 DEF Digits
  <2> QED
    BY <1>1, <1>4, <2>1, <2>2 DEF ExpAt
<1> QED
  BY <1>2, <1>3, <1>4

LEMMA DecShorter ==
  ASSUME NEW s, NEW m \in Nat, NEW k \in 1..m, Dec(s, m)
  PROVE  Dec(s, k)
  BY DEF Dec, Digits

LEMMA DecSame ==
  ASSUME NEW s, NEW m \in Nat \ {0}, NEW t, \A i \in 1..m : t[i] = s[i], Dec(s, m)
  PROVE  Dec(t, m)
  BY DEF Dec, Digits

LEMMA DoubleEnds ==
  ASSUME NEW s, NEW n \in Nat, NEW k \in 1..n, Double(s, n),
         NEW t, \A i \in 1..k : t[i] = s[i], t[k + 1] = "0"
  PROVE  Dec(s, k) \/ Double(s, k) \/ Double(t, k + 1)
<1>1. PICK m \in 1..(n - 1) :
        Dec(s, m) /\ (FracAt(s, m + 1, n) \/ (s[1] # "0" /\ ExpAt(s, m + 1, n)))
  BY DEF Double
<1>2. CASE k <= m
  BY <1>1, <1>2, DecShorter
<1>3. CASE k > m
  <2>1. /\ m + 1 \in 1..k /\ m \in 1..(k - 1) /\ m \in 1..(k + 1 - 1) /\ k \in Nat /\ k <= n
        /\ m \in Nat \ {0} /\ t[1] = s[1]
    BY <1>3
  <2>2. Dec(t, m)
    BY <1>1, <2>1, DecSame
  <2>3. CASE s[1] # "0" /\ ExpAt(s, m + 1, n)
    <3>1. ExpAt(s, m + 1, k) \/ ExpAt(t, m + 1, k + 1)
      BY <2>1, <2>3, ExpEnds
    <3> QED
      BY <1>1, <2>1, <2>2, <2>3, <3>1 DEF Double
  <2>4. CASE FracAt(s, m + 1, n)
    <3>1. s[m + 1] = "." /\ t[m + 1] = "."
      BY <2>1, <2>4 DEF FracAt
    <3>2. PICK j \in (m + 1 + 1)..n : Digits(s, m + 1 + 1, j) /\ (j = n \/ ExpAt(s, j + 1, n))
      BY <2>4 DEF FracAt
    <3>3. CASE k = m + 1
      <4>1. Digits(t, m + 1 + 1, k + 1) /\ k + 1 \in (m + 1 + 1)..(k + 1)
        BY <2>1, <3>3, Zero DEF Digits
      <4>2. FracAt(t, m + 1, k + 1)
        BY <2>1, <3>1, <4>1 DEF FracAt
      <4> QED
        BY <2>1, <2>2, <4>2 DEF Double
    <3>4. CASE k > m + 1 /\ k <= j
      <4>1. Digits(s, m + 1 + 1, k) /\ k \in (m + 1 + 1)..k
        BY <2>1, <3>2, <3>4 DEF Digits
      <4>2. FracAt(s, m + 1, k)
        BY <2>1, <3>1, <3>4, <4>1 DEF FracAt
      <4> QED
        BY <1>1, <2>1, <4>2 DEF Double
    <3>5. CASE k > j
      <4>1. /\ j \in Nat /\ j + 1 \in 1..k /\ j # n /\ j \in (m + 1 + 1)..k /\ j \in (m + 1 + 1)..(k + 1)
        BY <2>1, <3>2, <3>5
      <4>2. ExpAt(s, j + 1, k) \/ ExpAt(t, j + 1, k + 1)
        BY <2>1, <3>2, <4>1, ExpEnds
      <4>3. Digits(t, m + 1 + 1, j)
        BY <2>1, <3>2, <4>1 DEF Digits
      <4>4. FracAt(s, m + 1, k) \/ FracAt(t, m + 1, k + 1)
        BY <2>1, <3>1, <3>2, <4>1, <4>2, <4>3 DEF FracAt
      <4> QED
        BY <1>1, <2>1, <2>2, <4>4 DEF Double
    <3> QED
      BY <2>1, <3>2, <3>3, <3>4, <3>5
  <2> QED
    BY <1>1, <2>3, <2>4
<1> QED
  BY <1>2, <1>3

\* The beginnings of a decimal number.
LEMMA DecCanEnd ==
  ASSUME NEW s \in Seq(Chars), NEW k \in 1..Len(s), Dec(s, k)
  PROVE  CanEnd(s, k)
<1>1. ASSUME NEW t \in Seq(Chars), Len(t) = k, \A i \in 1..k : t[i] = s[i]
      PROVE  Matches(t)
  <2>1. Len(t) \in 1..Len(t) /\ Len(t) \in Nat \ {0} /\ SubSeq(t, 1, Len(t)) = t
    BY <1>1, WholeIs
  <2>2. Dec(t, Len(t))
    BY <1>1, <2>1, DecSame
  <2>3. DEC_INTEGER_LITERAL(t)
    BY <2>1, <2>2, DecIs
  <2> QED
    BY <2>3 DEF Matches, INTEGER_LITERAL
<1> QED
  BY <1>1, EndsBare

LEMMA ExpSame ==
  ASSUME NEW s, NEW n \in Nat, NEW e \in 1..n, NEW t, \A i \in 1..n : t[i] = s[i], ExpAt(s, e, n)
  PROVE  ExpAt(t, e, n)
<1>1. e + 1 \in 1..n /\ t[e] = s[e] /\ t[e + 1] = s[e + 1]
  BY DEF ExpAt
<1>2. /\ Digits(s, e + 1, n) => Digits(t, e + 1, n)
      /\ Digits(s, e + 2, n) => Digits(t, e + 2, n)
  BY DEF Digits
<1> QED
  BY <1>1, <1>2 DEF ExpAt

LEMMA FracSame ==
  ASSUME NEW s, NEW n \in Nat, NEW e \in 1..n, NEW t, \A i \in 1..n : t[i] = s[i], FracAt(s, e, n)
  PROVE  FracAt(t, e, n)
<1>1. e < n /\ s[e] = "." /\ t[e] = s[e]
  BY DEF FracAt
<1>2. PICK j \in (e + 1)..n : Digits(s, e + 1, j) /\ (j = n \/ ExpAt(s, j + 1, n))
  BY DEF FracAt
<1>3. Digits(t, e + 1, j)
  BY <1>2 DEF Digits
<1>4. j = n \/ ExpAt(t, j + 1, n)
  <2>1. CASE j # n
    <3>1. j + 1 \in 1..n
      BY <1>2, <2>1
    <3> QED
      BY <1>2, <2>1, <3>1, ExpSame
  <2> QED
    BY <2>1
<1> QED
  BY <1>1, <1>2, <1>3, <1>4 DEF FracAt

LEMMA DoubleSame ==
  ASSUME NEW s, NEW n \in Nat, NEW t, \A i \in 1..n : t[i] = s[i], Double(s, n)
  PROVE  Double(t, n)
<1>1. PICK m \in 1..(n - 1) :
        Dec(s, m) /\ (FracAt(s, m + 1, n) \/ (s[1] # "0" /\ ExpAt(s, m + 1, n)))
  BY DEF Double
<1>2. m \in Nat \ {0} /\ m + 1 \in 1..n /\ \A i \in 1..m : t[i] = s[i]
  BY <1>1
<1>3. Dec(t, m) /\ t[1] = s[1]
  BY <1>1, <1>2, DecSame
<1>4. FracAt(s, m + 1, n) => FracAt(t, m + 1, n)
  BY <1>2, FracSame
<1>5. ExpAt(s, m + 1, n) => ExpAt(t, m + 1, n)
  BY <1>2, ExpSame
<1> QED
  BY <1>1, <1>3, <1>4, <1>5 DEF Double

LEMMA DoubleCanEnd ==
  ASSUME NEW s \in Seq(Chars), NEW k \in 1..Len(s), DOUBLE_LITERAL(s)
  PROVE  CanEnd(s, k)
<1>1. Double(s, Len(s)) /\ Len(s) \in Nat /\ k \in Nat
  BY DoubleIs
<1>2. CASE Dec(s, k)
  BY <1>2, DecCanEnd
<1>3. CASE Double(s, k)
  <2>1. ASSUME NEW t \in Seq(Chars), Len(t) = k, \A i \in 1..k : t[i] = s[i]
        PROVE  Matches(t)
    <3>1. Double(t, Len(t))
      BY <1>1, <1>3, <2>1, DoubleSame
    <3>2. DOUBLE_LITERAL(t)
      BY <3>1, DoubleIs
    <3> QED
      BY <3>2 DEF Matches
  <2> QED
    BY <2>1, EndsBare
<1>4. CASE ~ Dec(s, k) /\ ~ Double(s, k)
  <2>1. ASSUME NEW t \in Seq(Chars), Len(t) = k + 1, \A i \in 1..k : t[i] = s[i], t[k + 1] = "0"
        PROVE  Matches(t)
    <3>1. Double(t, Len(t))
      BY <1>1, <1>4, <2>1, DoubleEnds
    <3>2. DOUBLE_LITERAL(t)
      BY <3>1, DoubleIs
    <3> QED
      BY <3>2 DEF Matches
  <2>2. Completes("0")
    BY Ends, Zenon
  <2> QED
    BY <2>1, <2>2, EndsWithOne
<1> QED
  BY <1>2, <1>3, <1>4

\* Hexadecimal, octal and binary numbers.
Based(s, n) ==
  /\ n > 2 /\ s[1] = "0"
  /\ \/ s[2] \in {"x", "X"} /\ \A i \in 3..n : s[i] \in HEX_DIGIT
     \/ s[2] \in {"o", "O"} /\ \A i \in 3..n : s[i] \in DEC_DIGIT \ {"8", "9"}
     \/ s[2] \in {"b", "B"} /\ \A i \in 3..n : s[i] \in {"0", "1"}

LEMMA IntegerIs ==
  ASSUME NEW s \in Seq(Chars)
  PROVE  INTEGER_LITERAL(s) <=> DEC_INTEGER_LITERAL(s) \/ Based(s, Len(s))
<1>1. CASE Len(s) > 2
  <2>1. 3 \in 1..(Len(s) + 1)
    BY <1>1
  <2>2. /\ All(From(s, 3), HEX_DIGIT) <=> \A i \in 3..Len(s) : s[i] \in HEX_DIGIT
        /\ All(From(s, 3), DEC_DIGIT \ {"8", "9"}) <=> \A i \in 3..Len(s) : s[i] \in DEC_DIGIT \ {"8", "9"}
        /\ All(From(s, 3), {"0", "1"}) <=> \A i \in 3..Len(s) : s[i] \in {"0", "1"}
    BY <2>1, AllFrom
  <2> QED
    BY <1>1, <2>2, Zenon DEF INTEGER_LITERAL, Based
<1>2. CASE ~ (Len(s) > 2)
  BY <1>2 DEF INTEGER_LITERAL, Based
<1> QED
  BY <1>1, <1>2

LEMMA IntegerCanEnd ==
  ASSUME NEW s \in Seq(Chars), NEW k \in 1..Len(s), INTEGER_LITERAL(s)
  PROVE  CanEnd(s, k)
<1>1. Len(s) \in Nat /\ Len(s) \in 1..Len(s)
  OBVIOUS
<1>2. CASE DEC_INTEGER_LITERAL(s)
  <2>1. Dec(s, Len(s))
    BY <1>1, <1>2, WholeIs, DecIs
  <2> QED
    BY <1>1, <2>1, DecShorter, DecCanEnd
<1>3. CASE Based(s, Len(s))
  <2>1. CASE k = 1
    <3>1. Dec(s, 1)
      BY <1>3 DEF Based, Dec
    <3> QED
      BY <2>1, <3>1, DecCanEnd
  <2>2. CASE k = 2
    <3>1. ASSUME NEW t \in Seq(Chars), Len(t) = k + 1, \A i \in 1..k : t[i] = s[i], t[k + 1] = "0"
          PROVE  Matches(t)
      <4>1. Len(t) = 3 /\ t[1] = s[1] /\ t[2] = s[2] /\ t[3] = "0"
        BY <2>2, <3>1
      <4>2. "0" \in DEC_DIGIT \ {"8", "9"} /\ "0" \in {"0", "1"} /\ "0" \in HEX_DIGIT
        BY Zero
      <4>3. Based(t, Len(t))
        BY <1>3, <4>1, <4>2 DEF Based
      <4>4. INTEGER_LITERAL(t)
        BY <4>3, IntegerIs
      <4> QED
        BY <4>4 DEF Matches
    <3>2. Completes("0")
      BY Ends, Zenon
    <3> QED
      BY <3>1, <3>2, EndsWithOne
  <2>3. CASE k > 2
    <3>1. ASSUME NEW t \in Seq(Chars), Len(t) = k, \A i \in 1..k : t[i] = s[i]
          PROVE  Matches(t)
      <4>1. Based(t, Len(t))
        BY <1>3, <2>3, <3>1 DEF Based
      <4>2. INTEGER_LITERAL(t)
        BY <4>1, IntegerIs
      <4> QED
        BY <4>2 DEF Matches
    <3> QED
      BY <3>1, EndsBare
  <2> QED
    BY <2>1, <2>2, <2>3
<1> QED
  BY <1>2, <1>3, IntegerIs

LEMMA FloatCanEnd ==
  ASSUME NEW s \in Seq(Chars), NEW k \in 1..Len(s), k < Len(s), FLOAT_LITERAL(s)
  PROVE  CanEnd(s, k)
<1>1. Len(s) \in Nat /\ Len(s) - 1 \in 1..Len(s) /\ k \in 1..(Len(s) - 1)
  OBVIOUS
<1>2. PICK f : f = Front(s)
  OBVIOUS
<1>3. f \in Seq(Chars) /\ Len(f) = Len(s) - 1 /\ \A i \in 1..(Len(s) - 1) : f[i] = s[i]
  BY <1>1, <1>2, PrefixIs DEF Front
<1>4. CanEnd(f, k)
  <2>1. k \in 1..Len(f)
    BY <1>1, <1>3
  <2>2. DOUBLE_LITERAL(f) \/ INTEGER_LITERAL(f)
    BY <1>2 DEF FLOAT_LITERAL, INTEGER_LITERAL
  <2> QED
    BY <1>3, <2>1, <2>2, DoubleCanEnd, IntegerCanEnd
<1>5. SubSeq(f, 1, k) = SubSeq(s, 1, k)
  <2>1. PICK p, q : p = SubSeq(f, 1, k) /\ q = SubSeq(s, 1, k)
    OBVIOUS
  <2>2. k \in 1..Len(f)
    BY <1>1, <1>3
  <2>3. p \in Seq(Chars) /\ Len(p) = k /\ \A i \in 1..k : p[i] = f[i]
    BY <1>3, <2>1, <2>2, PrefixIs
  <2>4. q \in Seq(Chars) /\ Len(q) = k /\ \A i \in 1..k : q[i] = s[i]
    BY <2>1, PrefixIs
  <2>5. \A i \in 1..Len(p) : p[i] = q[i]
    BY <1>1, <1>3, <2>3, <2>4, SMTT(30)
  <2> QED
    BY <2>1, <2>3, <2>4, <2>5, SeqEqual
<1> QED
  BY <1>4, <1>5 DEF CanEnd

-----------------------------------------------------------------------------
(* The beginnings of strings.                                              *)

\* The rule of strings, read off the places of a text of n symbols.
EscapeAt(s, k) ==
  /\ s[k] = Backslash
  /\ \E n \in 0..(k - 2) :
       /\ n % 2 = 0 /\ \A j \in (k - n)..(k - 1) : s[j] = Backslash
       /\ k - n > 2 => s[k - n - 1] # Backslash

StringAt(s, n) ==
  /\ n > 1 /\ s[1] = Quote /\ s[n] = Quote
  /\ \A k \in 2..(n - 1) :
       /\ s[k] \notin LineEnd
       /\ s[k] = Quote => k > 2 /\ EscapeAt(s, k - 1)
       /\ k = n - 1 => ~ EscapeAt(s, k)

LEMMA BodyIs ==
  ASSUME NEW s \in Seq(Chars), Len(s) > 1
  PROVE  /\ Body(s) \in Seq(Chars) /\ Len(Body(s)) = Len(s) - 2 /\ DOMAIN Body(s) = 1..(Len(s) - 2)
         /\ \A i \in 1..(Len(s) - 2) : Body(s)[i] = s[i + 1]
<1>1. Len(s) \in Nat /\ \A i \in 2..(Len(s) - 1) : s[i] \in Chars
  BY Elements
<1>2. PICK b : b = Body(s)
  OBVIOUS
<1>3. /\ b \in Seq(Chars) /\ Len(b) = IF 2 <= Len(s) - 1 THEN Len(s) - 1 - 2 + 1 ELSE 0
      /\ \A i \in 1..(Len(s) - 1 - 2 + 1) : b[i] = s[2 + i - 1]
  BY <1>1, <1>2, SubSeqProperties DEF Body
<1>4. Len(b) = Len(s) - 2 /\ Len(s) - 1 - 2 + 1 = Len(s) - 2
  <2>1. Len(s) - 1 - 2 + 1 = Len(s) - 2 /\ (2 <= Len(s) - 1 \/ Len(s) - 2 = 0)
    <3>1. PICK n \in Nat : n = Len(s) /\ n > 1
      BY <1>1
    <3> QED
      BY <3>1
  <2> QED
    BY <1>3, <2>1
<1>5. ASSUME NEW i \in 1..(Len(s) - 2) PROVE b[i] = s[i + 1]
  <2>1. 2 + i - 1 = i + 1
    BY <1>1
  <2>2. b[i] = s[2 + i - 1]
    BY <1>3, <1>4
  <2> QED
    BY <2>1, <2>2
<1>6. DOMAIN b = 1..(Len(s) - 2)
  BY <1>3, <1>4
<1> QED
  BY <1>2, <1>3, <1>4, <1>5, <1>6

LEMMA EscapeIs ==
  ASSUME NEW s, NEW b, NEW m \in Nat, \A i \in 1..m : b[i] = s[i + 1], NEW k \in 1..m
  PROVE  BeginsEscape(b, k) <=> EscapeAt(s, k + 1)
<1>1. b[k] = s[k + 1] /\ k + 1 - 2 = k - 1
  OBVIOUS
<1>2. ASSUME NEW n \in 0..(k - 1)
      PROVE  /\ (\A j \in (k - n)..(k - 1) : b[j] = Backslash) <=>
                  (\A j \in (k + 1 - n)..(k + 1 - 1) : s[j] = Backslash)
             /\ (k - n > 1 => b[k - n - 1] # Backslash) <=>
                  (k + 1 - n > 2 => s[k + 1 - n - 1] # Backslash)
  <2>1. ASSUME \A j \in (k - n)..(k - 1) : b[j] = Backslash, NEW j \in (k + 1 - n)..(k + 1 - 1)
        PROVE  s[j] = Backslash
    <3>1. j - 1 \in (k - n)..(k - 1) /\ j - 1 \in 1..m /\ j - 1 + 1 = j
      OBVIOUS
    <3> QED
      BY <2>1, <3>1
  <2>2. ASSUME \A j \in (k + 1 - n)..(k + 1 - 1) : s[j] = Backslash, NEW j \in (k - n)..(k - 1)
        PROVE  b[j] = Backslash
    <3>1. j + 1 \in (k + 1 - n)..(k + 1 - 1) /\ j \in 1..m
      OBVIOUS
    <3> QED
      BY <2>2, <3>1
  <2>3. k - n > 1 => b[k - n - 1] = s[k + 1 - n - 1]
    <3>1. k - n > 1 => k - n - 1 \in 1..m /\ k - n - 1 + 1 = k + 1 - n - 1
      OBVIOUS
    <3> QED
      BY <3>1
  <2>4. k - n > 1 <=> k + 1 - n > 2
    OBVIOUS
  <2> QED
    BY <2>1, <2>2, <2>3, <2>4
<1> QED
  BY <1>1, <1>2 DEF BeginsEscape, EscapeAt

LEMMA StringIs ==
  ASSUME NEW s \in Seq(Chars)
  PROVE  STRING_LITERAL(s) <=> StringAt(s, Len(s))
<1>1. Len(s) \in Nat
  BY Elements
<1>2. CASE Len(s) > 1
  <2>1. PICK b : b = Body(s)
    OBVIOUS
  <2>2. Len(b) = Len(s) - 2 /\ DOMAIN b = 1..(Len(s) - 2) /\ \A i \in 1..(Len(s) - 2) : b[i] = s[i + 1]
    BY <1>2, <2>1, BodyIs
  <2>3. Len(s) - 2 \in Nat
    BY <1>1, <1>2
  <2> DEFINE In(k) == /\ b[k] \notin LineEnd
                      /\ b[k] = Quote => k > 1 /\ BeginsEscape(b, k - 1)
                      /\ k = Len(b) => ~ BeginsEscape(b, k)
             At(k) == /\ s[k] \notin LineEnd
                      /\ s[k] = Quote => k > 2 /\ EscapeAt(s, k - 1)
                      /\ k = Len(s) - 1 => ~ EscapeAt(s, k)
  <2>4. ASSUME NEW k \in 1..(Len(s) - 2) PROVE In(k) <=> At(k + 1)
    <3>1. b[k] = s[k + 1] /\ (k > 1 <=> k + 1 > 2) /\ (k = Len(b) <=> k + 1 = Len(s) - 1) /\ k + 1 - 1 = k
      BY <1>1, <2>2
    <3>2. BeginsEscape(b, k) <=> EscapeAt(s, k + 1)
      BY <2>2, <2>3, EscapeIs
    <3>3. k > 1 => (BeginsEscape(b, k - 1) <=> EscapeAt(s, k))
      <4>1. ASSUME k > 1 PROVE BeginsEscape(b, k - 1) <=> EscapeAt(s, k)
        <5>1. k - 1 \in 1..(Len(s) - 2) /\ k - 1 + 1 = k
          BY <1>1, <4>1
        <5>2. BeginsEscape(b, k - 1) <=> EscapeAt(s, k - 1 + 1)
          BY <2>2, <2>3, <5>1, EscapeIs
        <5> QED
          BY <5>1, <5>2
      <4> QED
        BY <4>1
    <3> QED
      BY <3>1, <3>2, <3>3
  <2> HIDE DEF In, At
  <2>5. (\A k \in 1..(Len(s) - 2) : In(k)) <=> (\A k \in 2..(Len(s) - 1) : At(k))
    <3>1. ASSUME \A k \in 1..(Len(s) - 2) : In(k), NEW k \in 2..(Len(s) - 1) PROVE At(k)
      <4>1. k - 1 \in 1..(Len(s) - 2) /\ k - 1 + 1 = k
        BY <1>1
      <4>2. In(k - 1) /\ (In(k - 1) <=> At(k - 1 + 1))
        BY <2>4, <3>1, <4>1
      <4> QED
        BY <4>1, <4>2
    <3>2. ASSUME \A k \in 2..(Len(s) - 1) : At(k), NEW k \in 1..(Len(s) - 2) PROVE In(k)
      <4>1. k + 1 \in 2..(Len(s) - 1)
        BY <1>1
      <4> QED
        BY <2>4, <3>2, <4>1
    <3> QED
      BY <3>1, <3>2
  <2>6. STRING_LITERAL(s) <=> s[1] = Quote /\ s[Len(s)] = Quote /\ \A k \in 1..(Len(s) - 2) : In(k)
    BY <1>2, <2>1, <2>2, Zenon DEF STRING_LITERAL, Quoted, Last, In
  <2>7. StringAt(s, Len(s)) <=> s[1] = Quote /\ s[Len(s)] = Quote /\ \A k \in 2..(Len(s) - 1) : At(k)
    BY <1>2, Zenon DEF StringAt, At
  <2> QED
    BY <2>5, <2>6, <2>7, Zenon
<1>3. CASE ~ (Len(s) > 1)
  BY <1>3, Zenon DEF STRING_LITERAL, Quoted, StringAt
<1> QED
  BY <1>2, <1>3

LEMMA EscapeSame ==
  ASSUME NEW s, NEW t, NEW k \in Nat \ {0, 1}, \A i \in 1..k : t[i] = s[i]
  PROVE  EscapeAt(t, k) <=> EscapeAt(s, k)
<1>1. t[k] = s[k]
  OBVIOUS
<1>2. ASSUME NEW n \in 0..(k - 2)
      PROVE  /\ \A j \in (k - n)..(k - 1) : t[j] = s[j]
             /\ k - n > 2 => t[k - n - 1] = s[k - n - 1]
  OBVIOUS
<1> QED
  BY <1>1, <1>2 DEF EscapeAt

\* "n" is a plain symbol.
LEMMA PlainN == "n" # Quote /\ "n" # Backslash /\ "n" \notin LineEnd
<1>1. "n" # Quote /\ "n" # Backslash
  BY Zenon DEF Quote, Backslash
<1>2. "n" \notin LineEnd
  BY Zenon DEF LineEnd
<1> QED
  BY <1>1, <1>2, Zenon

LEMMA StringCanEnd ==
  ASSUME NEW s \in Seq(Chars), STRING_LITERAL(s), NEW k \in 1..Len(s)
  PROVE  CanEnd(s, k)
<1>1. StringAt(s, Len(s)) /\ Len(s) \in Nat
  BY StringIs, Elements
<1>2. CASE k = Len(s)
  <2>1. Matches(s)
    BY Zenon DEF Matches
  <2> QED
    BY <1>1, <1>2, <2>1, WholeCanEnd
<1>3. ASSUME k < Len(s), k = 1 \/ ~ EscapeAt(s, k)
      PROVE  CanEnd(s, k)
  <2>1. ASSUME NEW t \in Seq(Chars), Len(t) = k + 1, \A i \in 1..k : t[i] = s[i], t[k + 1] = Quote
        PROVE  Matches(t)
    <3>1. t[1] = Quote /\ k + 1 > 1
      BY <1>1, <2>1 DEF StringAt
    <3>2. ASSUME NEW i \in 2..k
          PROVE  /\ t[i] \notin LineEnd
                 /\ t[i] = Quote => i > 2 /\ EscapeAt(t, i - 1)
                 /\ i = k + 1 - 1 => ~ EscapeAt(t, i)
      <4>1. i \in 2..(Len(s) - 1) /\ t[i] = s[i] /\ i \in Nat \ {0, 1}
            /\ \A j \in 1..i : t[j] = s[j]
        BY <1>1, <1>3, <2>1
      <4>2. s[i] \notin LineEnd /\ (s[i] = Quote => i > 2 /\ EscapeAt(s, i - 1))
        BY <1>1, <4>1 DEF StringAt
      <4>3. i > 2 => (EscapeAt(t, i - 1) <=> EscapeAt(s, i - 1))
        <5>1. i > 2 => i - 1 \in Nat \ {0, 1} /\ \A j \in 1..(i - 1) : t[j] = s[j]
          BY <4>1
        <5> QED
          BY <5>1, EscapeSame
      <4>4. EscapeAt(t, i) <=> EscapeAt(s, i)
        BY <4>1, EscapeSame
      <4>5. i = k + 1 - 1 => i = k /\ k # 1
        OBVIOUS
      <4> QED
        BY <1>3, <4>1, <4>2, <4>3, <4>4, <4>5
    <3>3. StringAt(t, Len(t))
      <4>1. Len(t) - 1 = k
        BY <2>1
      <4> QED
        BY <2>1, <3>1, <3>2, <4>1 DEF StringAt
    <3>4. STRING_LITERAL(t)
      BY <3>3, StringIs
    <3> QED
      BY <3>4, Zenon DEF Matches
  <2>2. Completes(Quote)
    BY Ends, Zenon
  <2> QED
    BY <2>1, <2>2, EndsWithOne
<1>4. ASSUME k < Len(s), k # 1
      PROVE  CanEnd(s, k)
  <2>1. ASSUME NEW t \in Seq(Chars), Len(t) = k + 2, \A i \in 1..k : t[i] = s[i],
               t[k + 1] = "n", t[k + 2] = Quote
        PROVE  Matches(t)
    <3>1. t[1] = Quote /\ k + 2 > 1
      BY <1>1, <2>1 DEF StringAt
    <3>2. ASSUME NEW i \in 2..(k + 1)
          PROVE  /\ t[i] \notin LineEnd
                 /\ t[i] = Quote => i > 2 /\ EscapeAt(t, i - 1)
                 /\ i = k + 2 - 1 => ~ EscapeAt(t, i)
      <4>1. CASE i = k + 1
        <5>1. t[i] = "n"
          BY <2>1, <4>1
        <5> QED
          BY <5>1, PlainN DEF EscapeAt
      <4>2. CASE i # k + 1
        <5>1. i \in 2..(Len(s) - 1) /\ t[i] = s[i] /\ i # k + 2 - 1
          BY <1>1, <1>4, <2>1, <4>2
        <5>2. s[i] \notin LineEnd /\ (s[i] = Quote => i > 2 /\ EscapeAt(s, i - 1))
          BY <1>1, <5>1 DEF StringAt
        <5>3. i > 2 => (EscapeAt(t, i - 1) <=> EscapeAt(s, i - 1))
          <6>1. i > 2 => i - 1 \in Nat \ {0, 1} /\ \A j \in 1..(i - 1) : t[j] = s[j]
            BY <2>1, <4>2
          <6> QED
            BY <6>1, EscapeSame
        <5> QED
          BY <5>1, <5>2, <5>3
      <4> QED
        BY <4>1, <4>2
    <3>3. StringAt(t, Len(t))
      <4>1. Len(t) - 1 = k + 1 /\ k + 2 - 1 = k + 1
        BY <2>1
      <4> QED
        BY <2>1, <3>1, <3>2, <4>1 DEF StringAt
    <3>4. STRING_LITERAL(t)
      BY <3>3, StringIs
    <3> QED
      BY <3>4, Zenon DEF Matches
  <2>2. Closed(s, k, "n", Quote)
    BY <2>1 DEF Closed
  <2>3. CompletesTwo("n", Quote)
    BY Ends, Zenon
  <2> QED
    BY <2>2, <2>3, EndsWithTwo
<1> QED
  BY <1>1, <1>2, <1>3, <1>4

\* Three quotes: two of them are a string.
LEMMA RawCanEnd ==
  ASSUME NEW s \in Seq(Chars), Matches(s), Len(s) = 3, s[1] = Quote, s[2] = Quote, NEW k \in 1..Len(s)
  PROVE  CanEnd(s, k)
<1>1. Len(s) = 3 /\ s[1] = Quote /\ s[2] = Quote
  OBVIOUS
<1>2. CASE k = 3
  <2>1. Len(s) > 0 /\ k = Len(s)
    BY <1>2
  <2> QED
    BY <2>1, WholeCanEnd
<1>3. ASSUME NEW t \in Seq(Chars), Len(t) = 2, t[1] = Quote, t[2] = Quote
      PROVE  Matches(t)
  <2>1. StringAt(t, Len(t))
    BY <1>3 DEF StringAt
  <2>2. STRING_LITERAL(t)
    BY <2>1, StringIs
  <2> QED
    BY <2>2, Zenon DEF Matches
<1>4. CASE k = 2
  <2>1. ASSUME NEW t \in Seq(Chars), Len(t) = k, \A i \in 1..k : t[i] = s[i]
        PROVE  Matches(t)
    <3>1. Len(t) = 2 /\ t[1] = Quote /\ t[2] = Quote
      BY <1>1, <1>4, <2>1
    <3> QED
      BY <1>3, <3>1
  <2> QED
    BY <2>1, EndsBare
<1>5. CASE k = 1
  <2>1. ASSUME NEW t \in Seq(Chars), Len(t) = k + 1, \A i \in 1..k : t[i] = s[i], t[k + 1] = Quote
        PROVE  Matches(t)
    <3>1. Len(t) = 2 /\ t[1] = Quote /\ t[2] = Quote
      BY <1>1, <1>5, <2>1
    <3> QED
      BY <1>3, <3>1
  <2>2. Completes(Quote)
    BY Ends, Zenon
  <2> QED
    BY <2>1, <2>2, EndsWithOne
<1> QED
  BY <1>1, <1>2, <1>4, <1>5

-----------------------------------------------------------------------------
(* The beginnings of characters.                                           *)

CharAt(s, n) ==
  /\ n > 1 /\ s[1] = "'" /\ s[n] = "'"
  /\ \/ n = 8 /\ s[2] = Backslash /\ s[3] = "u" /\ \A i \in 4..7 : s[i] \in HEX_DIGIT
     \/ n = 4 /\ s[2] = Backslash /\ s[3] \notin LineEnd
     \/ n = 3 /\ s[2] \notin {"'", Backslash} \cup LineEnd

LEMMA CharIs ==
  ASSUME NEW s \in Seq(Chars)
  PROVE  CHAR_LITERAL(s) <=> CharAt(s, Len(s))
<1>1. Len(s) \in Nat
  BY Elements
<1>2. CASE Len(s) > 1
  <2>1. PICK b : b = Body(s)
    OBVIOUS
  <2>2. b \in Seq(Chars) /\ Len(b) = Len(s) - 2 /\ \A i \in 1..(Len(s) - 2) : b[i] = s[i + 1]
    BY <1>2, <2>1, BodyIs
  <2>3. UNICODE_ESCAPE(b) <=>
          Len(s) = 8 /\ s[2] = Backslash /\ s[3] = "u" /\ \A i \in 4..7 : s[i] \in HEX_DIGIT
    <3>1. CASE Len(s) = 8
      <4>1. Len(b) = 6 /\ b[1] = s[2] /\ b[2] = s[3] /\ 3 \in 1..(Len(b) + 1)
        BY <2>2, <3>1
      <4>2. All(From(b, 3), HEX_DIGIT) <=> \A i \in 3..6 : b[i] \in HEX_DIGIT
        <5>1. All(From(b, 3), HEX_DIGIT) <=> \A i \in 3..Len(b) : b[i] \in HEX_DIGIT
          BY <2>2, <4>1, AllFrom
        <5> QED
          BY <4>1, <5>1
      <4>3. (\A i \in 3..6 : b[i] \in HEX_DIGIT) <=> \A i \in 4..7 : s[i] \in HEX_DIGIT
        <5>1. \A i \in 4..7 : i - 1 \in 3..6 /\ i - 1 + 1 = i /\ b[i - 1] = s[i]
          BY <2>2, <3>1
        <5>2. \A i \in 3..6 : i + 1 \in 4..7 /\ b[i] = s[i + 1]
          BY <2>2, <3>1
        <5> QED
          BY <5>1, <5>2
      <4> QED
        BY <3>1, <4>1, <4>2, <4>3 DEF UNICODE_ESCAPE
    <3>2. CASE Len(s) # 8
      BY <1>1, <2>2, <3>2 DEF UNICODE_ESCAPE
    <3> QED
      BY <3>1, <3>2
  <2>4. ESCAPE_SEQUENCE(b) <=> Len(s) = 4 /\ s[2] = Backslash /\ s[3] \notin LineEnd
    <3>1. CASE Len(s) = 4
      <4>1. Len(b) = 2 /\ b[1] = s[2] /\ b[2] = s[3]
        BY <2>2, <3>1
      <4> QED
        BY <3>1, <4>1 DEF ESCAPE_SEQUENCE
    <3>2. CASE Len(s) # 4
      BY <1>1, <2>2, <3>2 DEF ESCAPE_SEQUENCE
    <3> QED
      BY <3>1, <3>2
  <2>5. Len(b) = 1 /\ b[1] \notin {"'", Backslash} \cup LineEnd <=>
          Len(s) = 3 /\ s[2] \notin {"'", Backslash} \cup LineEnd
    BY <1>1, <2>2
  <2>6. CHAR_LITERAL(s) <=>
          /\ s[1] = "'" /\ s[Len(s)] = "'"
          /\ \/ UNICODE_ESCAPE(b) \/ ESCAPE_SEQUENCE(b)
             \/ Len(b) = 1 /\ b[1] \notin {"'", Backslash} \cup LineEnd
    BY <1>2, <2>1, Zenon DEF CHAR_LITERAL, Quoted, Last
  <2> QED
    BY <1>2, <2>3, <2>4, <2>5, <2>6, Zenon DEF CharAt
<1>3. CASE ~ (Len(s) > 1)
  BY <1>3, Zenon DEF CHAR_LITERAL, Quoted, CharAt
<1> QED
  BY <1>2, <1>3

LEMMA CharMatches ==
  ASSUME NEW t \in Seq(Chars), CharAt(t, Len(t))
  PROVE  Matches(t)
<1>1. CHAR_LITERAL(t)
  BY CharIs
<1> QED
  BY <1>1, Zenon DEF Matches

\* What the places of a \u escape may be filled with.
LEMMA PlainZero == "0" # "'" /\ "0" # Backslash /\ "0" \notin LineEnd /\ "0" \in HEX_DIGIT
<1>1. "0" # "'" /\ "0" # Backslash
  BY Zenon DEF Backslash
<1>2. "0" \notin LineEnd
  BY Zenon DEF LineEnd
<1> QED
  BY <1>1, <1>2, Zero, Zenon

LEMMA PlainLetters == "n" # "'" /\ "u" \notin LineEnd
<1>1. "n" # "'"
  BY Zenon
<1>2. "u" \notin LineEnd
  BY Zenon DEF LineEnd
<1> QED
  BY <1>1, <1>2, Zenon

\* An opening quote, alone or with a backslash.
LEMMA OpenCanEnd ==
  ASSUME NEW s \in Seq(Chars), NEW k \in 1..Len(s), s[1] = "'", k = 1 \/ (k = 2 /\ s[2] = Backslash)
  PROVE  CanEnd(s, k)
<1>1. ASSUME NEW t \in Seq(Chars), Len(t) = k + 2, \A i \in 1..k : t[i] = s[i],
             t[k + 1] = "n", t[k + 2] = "'"
      PROVE  Matches(t)
  <2>1. CASE k = 1
    <3>1. Len(t) = 3 /\ t[1] = "'" /\ t[2] = "n" /\ t[3] = "'"
      BY <1>1, <2>1
    <3>2. t[2] \notin {"'", Backslash} \cup LineEnd
      BY <3>1, PlainN, PlainLetters
    <3>3. CharAt(t, Len(t))
      BY <3>1, <3>2 DEF CharAt
    <3> QED
      BY <3>3, CharMatches
  <2>2. CASE k = 2 /\ s[2] = Backslash
    <3>1. Len(t) = 4 /\ t[1] = "'" /\ t[2] = Backslash /\ t[3] = "n" /\ t[4] = "'"
      BY <1>1, <2>2
    <3>2. CharAt(t, Len(t))
      BY <3>1, PlainN DEF CharAt
    <3> QED
      BY <3>2, CharMatches
  <2> QED
    BY <2>1, <2>2
<1>2. Closed(s, k, "n", "'")
  BY <1>1 DEF Closed
<1>3. CompletesTwo("n", "'")
  BY Ends, Zenon
<1> QED
  BY <1>2, <1>3, EndsWithTwo

\* All but the closing quote.
LEMMA QuoteCanEnd ==
  ASSUME NEW s \in Seq(Chars), NEW k \in 1..Len(s),
         ASSUME NEW t \in Seq(Chars), Len(t) = k + 1, \A i \in 1..k : t[i] = s[i], t[k + 1] = "'"
         PROVE  CharAt(t, Len(t))
  PROVE  CanEnd(s, k)
<1>1. ASSUME NEW t \in Seq(Chars), Len(t) = k + 1, \A i \in 1..k : t[i] = s[i], t[k + 1] = "'"
      PROVE  Matches(t)
  BY <1>1, CharMatches
<1>2. Completes("'")
  BY Ends, Zenon
<1> QED
  BY <1>1, <1>2, EndsWithOne

\* The digits of a \u escape that are still to come.
Zeros(m) == IF m = 0 THEN << "'" >> ELSE IF m = 1 THEN << "0", "'" >>
            ELSE IF m = 2 THEN << "0", "0", "'" >> ELSE << "0", "0", "0", "'" >>

LEMMA ZerosAre ==
  ASSUME NEW m \in 0..3
  PROVE  /\ Zeros(m) \in Completions /\ Len(Zeros(m)) = m + 1
         /\ (\A i \in 1..m : Zeros(m)[i] = "0") /\ Zeros(m)[m + 1] = "'"
<1>1. Zeros(m) \in Completions
  BY Zenon DEF Completions, Zeros
<1>2. Len(Zeros(m)) = m + 1 /\ (\A i \in 1..m : Zeros(m)[i] = "0") /\ Zeros(m)[m + 1] = "'"
  BY DEF Zeros
<1> QED
  BY <1>1, <1>2

LEMMA UnicodeCanEnd ==
  ASSUME NEW s \in Seq(Chars), Len(s) = 8, s[1] = "'", s[2] = Backslash, s[3] = "u",
         \A i \in 4..7 : s[i] \in HEX_DIGIT, NEW k \in 4..7
  PROVE  CanEnd(s, k)
<1> DEFINE c == Zeros(7 - k)
<1>1. /\ c \in Completions /\ Len(c) = 8 - k /\ (\A i \in 1..(7 - k) : c[i] = "0") /\ c[8 - k] = "'"
  <2>1. 7 - k \in 0..3 /\ 7 - k + 1 = 8 - k
    OBVIOUS
  <2> QED
    BY <2>1, ZerosAre, ZenonT(40)
<1> HIDE DEF c
<1>2. ASSUME NEW t \in Seq(Chars), Len(t) = k + Len(c), \A i \in 1..k : t[i] = s[i],
             \A i \in 1..Len(c) : t[k + i] = c[i]
      PROVE  Matches(t)
  <2>1. Len(t) = 8 /\ t[1] = "'" /\ t[2] = Backslash /\ t[3] = "u"
    BY <1>1, <1>2
  <2>2. t[8] = "'"
    <3>1. 8 - k \in 1..Len(c) /\ k + (8 - k) = 8
      BY <1>1
    <3> QED
      BY <1>1, <1>2, <3>1
  <2>3. ASSUME NEW i \in 4..7 PROVE t[i] \in HEX_DIGIT
    <3>1. CASE i <= k
      BY <1>2, <3>1
    <3>2. CASE i > k
      <4>1. i - k \in 1..(7 - k) /\ i - k \in 1..Len(c) /\ k + (i - k) = i
        BY <1>1, <3>2
      <4>2. t[i] = "0"
        BY <1>1, <1>2, <4>1
      <4> QED
        BY <4>2, PlainZero
    <3> QED
      BY <3>1, <3>2
  <2>4. CharAt(t, Len(t))
    BY <2>1, <2>2, <2>3 DEF CharAt
  <2> QED
    BY <2>4, CharMatches
<1>3. k \in 1..Len(s)
  OBVIOUS
<1> QED
  BY <1>1, <1>2, <1>3, EndsWith

LEMMA CharCanEnd ==
  ASSUME NEW s \in Seq(Chars), CHAR_LITERAL(s), NEW k \in 1..Len(s)
  PROVE  CanEnd(s, k)
<1>1. CharAt(s, Len(s)) /\ Len(s) \in Nat
  BY CharIs, Elements
<1>2. CASE k = Len(s)
  <2>1. Matches(s) /\ Len(s) > 0
    BY <1>1, CharMatches DEF CharAt
  <2> QED
    BY <1>2, <2>1, WholeCanEnd
<1>3. CASE k = 1 \/ (k = 2 /\ s[2] = Backslash)
  BY <1>1, <1>3, OpenCanEnd DEF CharAt
<1>4. CASE Len(s) = 3 /\ k = 2 /\ s[2] \notin {"'", Backslash} \cup LineEnd
  <2>1. ASSUME NEW t \in Seq(Chars), Len(t) = k + 1, \A i \in 1..k : t[i] = s[i], t[k + 1] = "'"
        PROVE  CharAt(t, Len(t))
    <3>1. Len(t) = 3 /\ t[1] = s[1] /\ t[2] = s[2] /\ t[3] = "'"
      BY <1>4, <2>1
    <3> QED
      BY <1>1, <1>4, <3>1 DEF CharAt
  <2> QED
    BY <2>1, QuoteCanEnd
<1>5. CASE k = 3 /\ s[2] = Backslash /\ s[3] \notin LineEnd
  <2>1. ASSUME NEW t \in Seq(Chars), Len(t) = k + 1, \A i \in 1..k : t[i] = s[i], t[k + 1] = "'"
        PROVE  CharAt(t, Len(t))
    <3>1. Len(t) = 4 /\ t[1] = s[1] /\ t[2] = s[2] /\ t[3] = s[3] /\ t[4] = "'"
      BY <1>5, <2>1
    <3> QED
      BY <1>1, <1>5, <3>1 DEF CharAt
  <2> QED
    BY <2>1, QuoteCanEnd
<1>6. CASE Len(s) = 8 /\ s[2] = Backslash /\ s[3] = "u" /\ \A i \in 4..7 : s[i] \in HEX_DIGIT
  <2>1. CASE k \in 4..7
    BY <1>1, <1>6, <2>1, UnicodeCanEnd DEF CharAt
  <2>2. CASE k = 3
    BY <1>5, <1>6, <2>2, PlainLetters
  <2>3. k \in {1, 2, 3, 4, 5, 6, 7, 8}
    BY <1>6
  <2> QED
    BY <1>2, <1>3, <1>6, <2>1, <2>2, <2>3
<1> QED
  <2>1. CASE Len(s) = 4
    <3>1. k \in {1, 2, 3, 4}
      BY <2>1
    <3> QED
      BY <1>1, <1>2, <1>3, <1>5, <2>1, <3>1 DEF CharAt
  <2>2. CASE Len(s) = 3
    <3>1. k \in {1, 2, 3}
      BY <2>2
    <3> QED
      BY <1>1, <1>2, <1>3, <1>4, <2>2, <3>1 DEF CharAt
  <2> QED
    BY <1>1, <1>6, <2>1, <2>2 DEF CharAt

-----------------------------------------------------------------------------
(* The longest match.                                                      *)

LEMMA TokenCanEnd ==
  ASSUME NEW s \in Seq(Chars), Matches(s), NEW k \in 1..Len(s)
  PROVE  CanEnd(s, k)
<1>1. CASE s \in Operators
  BY <1>1, OperatorCanEnd
<1>2. CASE s \in Keywords
  BY <1>2, KeywordCanEnd
<1>3. CASE INTEGER_LITERAL(s)
  BY <1>3, IntegerCanEnd
<1>4. CASE FLOAT_LITERAL(s)
  <2>1. CASE k = Len(s)
    <3>1. Len(s) > 0 /\ k = Len(s)
      BY <2>1
    <3> QED
      BY <3>1, WholeCanEnd
  <2>2. CASE k # Len(s)
    <3>1. k < Len(s)
      BY <2>2, Elements
    <3> QED
      BY <1>4, <3>1, FloatCanEnd
  <2> QED
    BY <2>1, <2>2
<1>5. CASE DOUBLE_LITERAL(s)
  BY <1>5, DoubleCanEnd
<1>6. CASE STRING_LITERAL(s)
  BY <1>6, StringCanEnd
<1>7. CASE CHAR_LITERAL(s)
  BY <1>7, CharCanEnd
<1>8. CASE s = << Quote, Quote, Quote >>
  <2>1. Len(s) = 3 /\ s[1] = Quote /\ s[2] = Quote
    BY <1>8
  <2> QED
    BY <2>1, RawCanEnd
<1>9. CASE IDENTIFIER(s)
  BY <1>9, IdentifierCanEnd
<1>10. CASE WS(s)
  BY <1>10, WSCanEnd
<1>11. CASE COMMENT(s)
  BY <1>11, CommentCanEnd
<1>12. CASE LINE_COMMENT(s)
  BY <1>12, LineCommentCanEnd
<1> QED
  BY <1>1, <1>2, <1>3, <1>4, <1>5, <1>6, <1>7, <1>8, <1>9, <1>10, <1>11, <1>12, Zenon DEF Matches

\* While a token is not finished, the simulation has a configuration left.
LEMMA PrefixViable ==
  ASSUME NEW s \in Seq(Symbols), TokenType(s) # "none", NEW k \in 1..Len(s)
  PROVE  Viable(SubSeq(s, 1, k))
<1>1. s \in Seq(Chars)
  <2>1. Symbols \subseteq Chars
    BY Zenon DEF Chars
  <2> QED
    BY <2>1, SeqMonotonic
<1>2. CanEnd(s, k)
  BY <1>1, MatchesIs, TokenCanEnd
<1>3. PICK c \in Completions : Matches(SubSeq(s, 1, k) \o c)
  BY <1>2, Zenon DEF CanEnd
<1>4. TokenType(SubSeq(s, 1, k) \o c) # "none"
  BY <1>3, MatchesIs, Zenon
<1> QED
  BY <1>4, Zenon DEF Viable

\* Prefixes of what is left of the buffer.
LEMMA PrefixOf ==
  ASSUME NEW b \in Seq(Symbols), NEW a \in 0..Len(b), NEW m \in a..Len(b)
  PROVE  /\ SubSeq(b, a + 1, m) \in Seq(Symbols) /\ Len(SubSeq(b, a + 1, m)) = m - a
         /\ \A i \in 1..(m - a) : SubSeq(b, a + 1, m)[i] = b[a + i]
<1>1. Len(b) \in Nat /\ a \in Nat /\ m \in Nat /\ \A i \in (a + 1)..m : b[i] \in Symbols
  BY LenProperties, ElementOfSeq
<1>2. PICK p : p = SubSeq(b, a + 1, m)
  OBVIOUS
<1>3. /\ p \in Seq(Symbols) /\ Len(p) = IF a + 1 <= m THEN m - (a + 1) + 1 ELSE 0
      /\ \A i \in 1..(m - (a + 1) + 1) : p[i] = b[a + 1 + i - 1]
  BY <1>1, <1>2, SubSeqProperties
<1>4. Len(p) = m - a
  BY <1>1, <1>3
<1>5. ASSUME NEW i \in 1..(m - a) PROVE p[i] = b[a + i]
  <2>1. i \in 1..(m - (a + 1) + 1) /\ a + 1 + i - 1 = a + i
    BY <1>1
  <2> QED
    BY <1>3, <2>1
<1> QED
  BY <1>2, <1>3, <1>4, <1>5

LEMMA PrefixOfPrefix ==
  ASSUME NEW b \in Seq(Symbols), NEW a \in 0..Len(b), NEW m \in a..Len(b), NEW j \in a..m
  PROVE  SubSeq(SubSeq(b, a + 1, m), 1, j - a) = SubSeq(b, a + 1, j)
<1>1. PICK p, q : p = SubSeq(b, a + 1, m) /\ q = SubSeq(b, a + 1, j)
  OBVIOUS
<1>2. /\ p \in Seq(Symbols) /\ Len(p) = m - a /\ \A i \in 1..(m - a) : p[i] = b[a + i]
  BY <1>1, PrefixOf
<1>3. j \in a..Len(b)
  OBVIOUS
<1>4. /\ q \in Seq(Symbols) /\ Len(q) = j - a /\ \A i \in 1..(j - a) : q[i] = b[a + i]
  BY <1>1, <1>3, PrefixOf
<1>5. PICK r : r = SubSeq(p, 1, j - a)
  OBVIOUS
<1>6. j - a \in 0..Len(p) /\ Len(p) \in Nat
  BY <1>2
<1>7. r \in Seq(Symbols) /\ Len(r) = j - a /\ \A i \in 1..(j - a) : r[i] = p[i]
  <2>1. \A i \in 1..(j - a) : p[i] \in Symbols
    BY <1>2, <1>6, ElementOfSeq
  <2>2. /\ r \in Seq(Symbols) /\ Len(r) = IF 1 <= j - a THEN j - a - 1 + 1 ELSE 0
        /\ \A i \in 1..(j - a - 1 + 1) : r[i] = p[1 + i - 1]
    BY <1>5, <1>6, <2>1, SubSeqProperties
  <2>3. Len(r) = j - a /\ j - a - 1 + 1 = j - a
    BY <1>6, <2>2
  <2>4. ASSUME NEW i \in 1..(j - a) PROVE r[i] = p[i]
    <3>1. 1 + i - 1 = i
      OBVIOUS
    <3> QED
      BY <2>2, <2>3, <3>1
  <2> QED
    BY <2>2, <2>3, <2>4
<1>8. \A i \in 1..Len(r) : r[i] = q[i]
  <2> TAKE i \in 1..Len(r)
  <2>1. i \in 1..(j - a) /\ i \in 1..(m - a)
    BY <1>7
  <2> QED
    BY <1>2, <1>4, <1>7, <2>1
<1>9. r = q
  BY <1>4, <1>7, <1>8, SeqEqual
<1> QED
  BY <1>1, <1>5, <1>9

\* What the simulator has consumed, and the symbol it looks at.
LEMMA ConsumedIs ==
  ASSUME LexTypeOK, start.index <= CurrentIndex
  PROVE  /\ Consumed = Prefix(start.index, CurrentIndex)
         /\ LA(1) # EOF =>
              /\ CurrentIndex + 1 <= size
              /\ Append(Consumed, LA(1)) = Prefix(start.index, CurrentIndex + 1)
<1> DEFINE a == start.index
           m == CurrentIndex
<1>1. Buffer \in Seq(Symbols) /\ a \in 0..Len(Buffer) /\ m \in a..Len(Buffer) /\ Len(Buffer) \in Nat
  BY AtEnd, StreamAssumption DEF LexTypeOK, size
<1>2. Consumed = Prefix(a, m)
  BY DEF Consumed, Prefix
<1>3. ASSUME LA(1) # EOF
      PROVE  m + 1 <= Len(Buffer) /\ Append(Consumed, LA(1)) = Prefix(a, m + 1)
  <2>1. m + 1 \in a..Len(Buffer) /\ m + 1 \in 1..Len(Buffer)
    BY <1>1, <1>3, AtEnd DEF size
  <2>2. LA(1) = Buffer[m + 1]
    <3>1. ~ (m + 1 - 1 < 0) /\ ~ (m + 1 - 1 >= Len(Buffer)) /\ m + 1 - 1 + 1 = m + 1
      BY <1>1, <2>1
    <3> QED
      BY <3>1 DEF LA, size
  <2>3. PICK p, q : p = Prefix(a, m) /\ q = Prefix(a, m + 1)
    OBVIOUS
  <2>4. /\ p \in Seq(Symbols) /\ Len(p) = m - a /\ \A i \in 1..(m - a) : p[i] = Buffer[a + i]
    BY <1>1, <2>3, PrefixOf DEF Prefix
  <2>5. /\ q \in Seq(Symbols) /\ Len(q) = m + 1 - a /\ \A i \in 1..(m + 1 - a) : q[i] = Buffer[a + i]
    BY <1>1, <2>1, <2>3, PrefixOf, SMTT(30) DEF Prefix
  <2>6. Buffer[m + 1] \in Symbols
    BY <1>1, <2>1, ElementOfSeq
  <2>7. PICK r : r = Append(p, Buffer[m + 1])
    OBVIOUS
  <2>8. /\ r \in Seq(Symbols) /\ Len(r) = m - a + 1 /\ (\A i \in 1..(m - a) : r[i] = p[i])
        /\ r[m - a + 1] = Buffer[m + 1]
    BY <2>4, <2>6, <2>7, AppendProperties
  <2>9. \A i \in 1..Len(r) : r[i] = q[i]
    <3> TAKE i \in 1..Len(r)
    <3>1. i \in 1..(m + 1 - a) /\ (i \in 1..(m - a) \/ (i = m - a + 1 /\ a + i = m + 1))
      BY <1>1, <2>8
    <3> QED
      BY <2>4, <2>5, <2>8, <3>1
  <2>10. Len(r) = Len(q)
    BY <1>1, <2>5, <2>8
  <2>11. r = q
    BY <2>5, <2>8, <2>9, <2>10, SeqEqual
  <2>12. Append(Consumed, LA(1)) = Prefix(a, m + 1)
    BY <1>2, <2>2, <2>3, <2>7, <2>11, Zenon
  <2> QED
    BY <2>1, <2>12
<1> QED
  BY <1>2, <1>3 DEF size

\* Where the simulator gives up, no longer prefix is a token.
LEMMA NoneBeyond ==
  ASSUME LexTypeOK, start.index <= CurrentIndex, ~ MayShift, NEW k \in (CurrentIndex + 1)..size
  PROVE  TokenType(Prefix(start.index, k)) = "none"
<1> DEFINE a == start.index
           m == CurrentIndex
<1>1. Buffer \in Seq(Symbols) /\ a \in 0..Len(Buffer) /\ m \in a..Len(Buffer) /\ Len(Buffer) \in Nat
  BY AtEnd, StreamAssumption DEF LexTypeOK, size
<1>2. k \in a..Len(Buffer) /\ m + 1 \in a..k /\ m < size
  BY <1>1 DEF size
<1>3. LA(1) # EOF
  BY <1>2, AtEnd
<1>4. PICK j : j = m + 1
  OBVIOUS
<1>5. ~ Viable(Prefix(a, j))
  BY <1>3, <1>4, ConsumedIs DEF MayShift
<1>6. SUFFICES ASSUME TokenType(Prefix(a, k)) # "none" PROVE FALSE
  OBVIOUS
<1>7. PICK p : p = Prefix(a, k)
  OBVIOUS
<1>8. p \in Seq(Symbols) /\ Len(p) = k - a
  BY <1>1, <1>2, <1>7, PrefixOf DEF Prefix
<1>9. j \in a..k /\ j - a \in 1..Len(p)
  BY <1>1, <1>2, <1>4, <1>8
<1>10. SubSeq(SubSeq(Buffer, a + 1, k), 1, j - a) = SubSeq(Buffer, a + 1, j)
  BY <1>1, <1>2, <1>9, PrefixOfPrefix
<1>11. SubSeq(p, 1, j - a) = Prefix(a, j)
  BY <1>7, <1>10, Zenon DEF Prefix
<1>12. Viable(SubSeq(p, 1, j - a))
  BY <1>6, <1>7, <1>8, <1>9, PrefixViable
<1> QED
  BY <1>5, <1>11, <1>12

\* accepted is the longest match so far.
Longest ==
  phase = "match" =>
    /\ accepted.type # "none" => accepted.type = TokenType(Prefix(start.index, accepted.index))
    /\ \A k \in (start.index + 1)..CurrentIndex :
         TokenType(Prefix(start.index, k)) # "none" => accepted.type # "none" /\ k <= accepted.index

LEMMA ShiftLongest ==
  ASSUME LexInv, Longest, Shift
  PROVE  Longest'
<1> DEFINE type == TokenType(Append(Consumed, LA(1)))
           a == start.index
           m == CurrentIndex
<1>1. /\ phase = "match" /\ phase' = "match" /\ start' = start /\ Buffer' = Buffer
      /\ LA(1) # EOF /\ Capture(type) /\ simConsume
  BY DEF Shift, MayShift
<1>2. a <= m /\ a \in Nat /\ m \in Nat /\ m' = m + 1 /\ LexTypeOK
      /\ (accepted.type # "none" => accepted.index \in (a + 1)..m)
  BY <1>1, AtEnd DEF LexInv, Placed, LexTypeOK, simConsume, consume
<1>3. type = TokenType(Prefix(a, m + 1))
  BY <1>1, <1>2, ConsumedIs
<1> HIDE DEF type
<1>4. CASE type = "none"
  <2>1. accepted' = accepted
    BY <1>1, <1>4 DEF Capture
  <2>2. \A k \in (a + 1)..(m + 1) : TokenType(Prefix(a, k)) # "none" => k \in (a + 1)..m
    BY <1>2, <1>3, <1>4
  <2> QED
    BY <1>1, <1>2, <2>1, <2>2 DEF Longest, Prefix
<1>5. CASE type # "none"
  <2>1. accepted'.index = m + 1 /\ accepted'.type = type
    BY <1>1, <1>2, <1>5 DEF Capture
  <2> QED
    BY <1>1, <1>2, <1>3, <1>5, <2>1 DEF Longest, Prefix
<1> QED
  BY <1>4, <1>5

\* The stretch added last.
LEMMA LastAdded ==
  ASSUME LexTypeOK, NEW l \in Stretches, lexed' = Append(lexed, l)
  PROVE  Last(lexed') = l
<1>1. lexed \in Seq(Stretches) /\ Len(lexed) \in Nat
  BY LenProperties DEF LexTypeOK
<1> QED
  BY <1>1, AppendProperties DEF Last

LEMMA AcceptLongest ==
  ASSUME LexInv, Longest, Accept
  PROVE  Longest' /\ LongestMatch'
<1> DEFINE l == Stretch(accepted.type, start, accepted.index)
           a == start.index
           m == CurrentIndex
<1>1. /\ phase = "match" /\ phase' = "next" /\ Buffer' = Buffer /\ size' = size /\ ~ MayShift
      /\ start' = start /\ lexed' = Append(lexed, l) /\ accepted.type # "none" /\ LexTypeOK
      /\ accepted.type = TokenType(Prefix(a, accepted.index))
  BY DEF Accept, Longest, LexInv, size
<1>2. a <= m /\ a \in Nat /\ m \in Nat /\ size \in Nat /\ m <= size /\ accepted.index \in (a + 1)..m
      /\ accepted.type \in Types
  BY <1>1, AtEnd DEF LexInv, Placed, LexTypeOK
<1>3. l.index = a /\ l.end = accepted.index /\ l.type = accepted.type /\ l \in Stretches
  BY <1>2 DEF LexInv, LexTypeOK, Stretch, Stretches
<1> HIDE DEF l
<1>4. Last(lexed') = l
  BY <1>1, <1>3, LastAdded
<1>5. ASSUME NEW k \in (a + 1)..size, TokenType(Prefix(a, k)) # "none"
      PROVE  k <= accepted.index
  <2>1. CASE k \in (a + 1)..m
    BY <1>1, <1>5, <2>1 DEF Longest
  <2>2. CASE k \in (m + 1)..size
    BY <1>1, <1>2, <1>5, <2>2, NoneBeyond
  <2> QED
    BY <1>2, <2>1, <2>2
<1>6. accepted.index \in (a + 1)..size
  BY <1>2
<1>7. l.type # "error"
  BY <1>2, <1>3 DEF Types
<1>8. \A k : Prefix(a, k)' = Prefix(a, k)
  BY <1>1 DEF Prefix
<1> DEFINE ends == {k \in (a + 1)..size : TokenType(Prefix(a, k)) # "none"}
<1>9. l.end \in ends /\ (\A k \in ends : k <= l.end) /\ l.type = TokenType(Prefix(a, l.end))
  BY <1>1, <1>3, <1>5, <1>6
<1>10. LongestMatch'
  BY <1>1, <1>3, <1>4, <1>7, <1>8, <1>9 DEF LongestMatch, Prefix
<1> QED
  BY <1>1, <1>10 DEF Longest

LEMMA FailLongest ==
  ASSUME LexInv, Longest, Fail
  PROVE  Longest' /\ LongestMatch'
<1> DEFINE l == Stretch("error", start, CurrentIndex')
           a == start.index
           m == CurrentIndex
<1>1. /\ phase = "match" /\ phase' = "next" /\ Buffer' = Buffer /\ size' = size /\ ~ MayShift
      /\ lexed' = Append(lexed, l) /\ accepted.type = "none" /\ LexTypeOK
  BY DEF Fail, NoToken, LexInv, size
<1>2. a <= m /\ a \in Nat /\ m \in Nat /\ size \in Nat /\ m <= size
  BY <1>1, AtEnd DEF LexInv, Placed, LexTypeOK
<1>3. l.index = a /\ l.type = "error" /\ l \in Stretches
  <2>1. CurrentIndex' \in Nat
    <3>1. Len(Buffer') \in Nat /\ CurrentIndex' \in 0..Len(Buffer')
      BY FailKeeps, StreamAssumption, LenProperties DEF LexInv, LexTypeOK, size
    <3> QED
      BY <3>1
  <2> QED
    BY <2>1 DEF LexInv, LexTypeOK, Stretch, Stretches
<1> HIDE DEF l
<1>4. Last(lexed') = l
  BY <1>1, <1>3, LastAdded
<1>5. ASSUME NEW k \in (a + 1)..size
      PROVE  TokenType(Prefix(a, k)) = "none"
  <2>1. CASE k \in (a + 1)..m
    BY <1>1, <1>5, <2>1 DEF Longest
  <2>2. CASE k \in (m + 1)..size
    BY <1>1, <1>2, <1>5, <2>2, NoneBeyond
  <2> QED
    BY <1>2, <2>1, <2>2
<1>6. LongestMatch'
  BY <1>1, <1>3, <1>4, <1>5 DEF LongestMatch, Prefix
<1> QED
  BY <1>1, <1>6 DEF Longest

LEMMA EmitEOFLongest ==
  ASSUME LexInv, EmitEOF
  PROVE  Longest' /\ LongestMatch'
<1>1. /\ Stretch("EOF", Here, CurrentIndex) \in Stretches /\ LexTypeOK
      /\ Stretch("EOF", Here, CurrentIndex).type = "EOF"
  BY AtEnd DEF LexInv, LexTypeOK, Stretch, Here, Stretches
<1>2. lexed' = Append(lexed, Stretch("EOF", Here, CurrentIndex)) /\ phase' = "end"
  BY DEF EmitEOF
<1>3. Last(lexed').type = "EOF"
  BY <1>1, <1>2, LastAdded
<1> QED
  BY <1>2, <1>3 DEF Longest, LongestMatch

LEMMA LongestStep ==
  ASSUME LexInv, Longest, LongestMatch, [LexNext]_allVars
  PROVE  Longest' /\ LongestMatch'
<1>1. CASE StartToken
  <2>1. phase' = "match" /\ start'.index = CurrentIndex /\ CurrentIndex' = CurrentIndex /\ accepted'.type = "none"
        /\ CurrentIndex \in Nat
    BY <1>1, AtEnd DEF StartToken, Here, None, streamVars, LexInv
  <2>2. ~ Added'
    BY <2>1 DEF Added
  <2> QED
    BY <2>1, <2>2 DEF Longest, LongestMatch
<1>2. CASE EndOfFile \/ EmptyRest
  BY <1>2, EmitEOFLongest DEF EndOfFile, EmptyRest
<1>3. CASE Shift
  <2>1. phase' = "match"
    BY <1>3 DEF Shift
  <2> QED
    BY <1>3, <2>1, ShiftLongest DEF LongestMatch, Added
<1>4. CASE Accept
  BY <1>4, AcceptLongest
<1>5. CASE Fail
  BY <1>5, FailLongest
<1>6. CASE UNCHANGED allVars
  <2>1. UNCHANGED << Buffer, CurrentIndex, phase, start, accepted, lexed >>
    BY <1>6 DEF allVars, streamVars, lexVars
  <2> QED
    BY <2>1 DEF Longest, LongestMatch, Added, Prefix, size
<1> QED
  BY <1>1, <1>2, <1>3, <1>4, <1>5, <1>6 DEF LexNext, Lexed

\* Every token is the longest prefix of what is left that a rule matches,
\* although the simulator only keeps the last match and gives up at the first
\* symbol it cannot shift: a token's beginnings never leave it without a
\* configuration.
THEOREM LongestMatchHolds == LexSpec => []LongestMatch
<1>1. LexInit => LexInv /\ Longest /\ LongestMatch
  BY InvInit DEF LexInit, Longest, LongestMatch, Added
<1>2. LexInv /\ Longest /\ LongestMatch /\ [LexNext]_allVars => (LexInv /\ Longest /\ LongestMatch)'
  BY InvStep, LongestStep
<1> QED
  BY <1>1, <1>2, PTL DEF LexSpec

-----------------------------------------------------------------------------
(* What is dropped is reported.                                            *)

Errors == {k \in DOMAIN lexed : lexed[k].type = "error"}
UpTo(E, k) == {j \in E : j <= k}

\* Each error has its report, in order.
Told ==
  /\ Len(reports) = Cardinality(Errors)
  /\ \A k \in Errors : reports[Cardinality(UpTo(Errors, k))].text = Prefix(lexed[k].index, lexed[k].end)

DropInv == Told /\ Reported

LEMMA ToldIs == DropsReported <=> Told
BY DEF DropsReported, Told, Errors, UpTo

LEMMA ErrorsFinite ==
  ASSUME LexTypeOK, NEW k \in Nat
  PROVE  /\ Len(lexed) \in Nat /\ DOMAIN lexed = 1..Len(lexed)
         /\ IsFiniteSet(Errors) /\ Cardinality(Errors) \in Nat
         /\ IsFiniteSet(UpTo(Errors, k)) /\ Cardinality(UpTo(Errors, k)) <= Cardinality(Errors)
         /\ Cardinality(UpTo(Errors, k)) \in Nat
         /\ k \in Errors => Cardinality(UpTo(Errors, k)) > 0
<1>1. Len(lexed) \in Nat /\ DOMAIN lexed = 1..Len(lexed)
  BY LenProperties DEF LexTypeOK
<1>2. IsFiniteSet(Errors) /\ Cardinality(Errors) \in Nat
  <2>1. IsFiniteSet(1..Len(lexed)) /\ Errors \in SUBSET (1..Len(lexed))
    BY <1>1, FS_Interval DEF Errors
  <2>2. IsFiniteSet(Errors)
    BY <2>1, FS_Subset
  <2> QED
    BY <2>2, FS_CardinalityType
<1>3. UpTo(Errors, k) \in SUBSET Errors
  BY DEF UpTo
<1>4. IsFiniteSet(UpTo(Errors, k)) /\ Cardinality(UpTo(Errors, k)) <= Cardinality(Errors) /\ Cardinality(UpTo(Errors, k)) \in Nat
  BY <1>2, <1>3, FS_Subset, FS_CardinalityType
<1>5. k \in Errors => Cardinality(UpTo(Errors, k)) > 0
  <2>1. k \in Errors => UpTo(Errors, k) # {}
    BY DEF UpTo
  <2>2. Cardinality(UpTo(Errors, k)) = 0 <=> UpTo(Errors, k) = {}
    BY <1>4, FS_EmptySet
  <2> QED
    BY <1>4, <2>1, <2>2
<1> QED
  BY <1>1, <1>2, <1>4, <1>5

LEMMA DropInit ==
  ASSUME LexInit, LexInv
  PROVE  DropInv
<1>1. lexed = << >> /\ reports = << >> /\ Len(reports) = 0
  BY DEF LexInit
<1>2. Errors = {}
  BY <1>1 DEF Errors
<1>3. Reported
  BY <1>1, EmptySeq DEF Reported
<1> QED
  BY <1>1, <1>2, <1>3, FS_EmptySet DEF DropInv, Told

LEMMA Appended ==
  ASSUME NEW S, NEW s \in Seq(S), NEW l \in S, NEW t, t = Append(s, l), NEW n, n = Len(s)
  PROVE  /\ t \in Seq(S) /\ Len(t) = n + 1 /\ n \in Nat /\ DOMAIN t = 1..(n + 1) /\ DOMAIN s = 1..n
         /\ t[n + 1] = l /\ \A k \in 1..n : t[k] = s[k]
<1>1. t \in Seq(S) /\ Len(t) = n + 1 /\ n \in Nat /\ t[n + 1] = l /\ \A k \in 1..n : t[k] = s[k]
  BY AppendProperties
<1> QED
  BY <1>1, LenProperties

\* Steps that report nothing.
LEMMA QuietDrop ==
  ASSUME LexInv, DropInv, Buffer' = Buffer, reports' = reports,
         lexed' = lexed \/ \E l \in Stretches : l.type # "error" /\ lexed' = Append(lexed, l)
  PROVE  DropInv'
<1>1. lexed \in Seq(Stretches) /\ Len(lexed) \in Nat /\ DOMAIN lexed = 1..Len(lexed)
  BY LenProperties DEF LexInv, LexTypeOK
<1>2. Errors' = Errors /\ \A k \in Errors : lexed'[k] = lexed[k]
  <2>1. CASE lexed' = lexed
    BY <2>1 DEF Errors
  <2>2. CASE \E l \in Stretches : l.type # "error" /\ lexed' = Append(lexed, l)
    <3>1. PICK l \in Stretches : l.type # "error" /\ lexed' = Append(lexed, l)
      BY <2>2
    <3>2. PICK n : n = Len(lexed)
      OBVIOUS
    <3>3. lexed' = Append(lexed, l) /\ l \in Stretches /\ lexed \in Seq(Stretches) /\ l.type # "error"
      BY <1>1, <3>1
    <3>4. /\ n \in Nat /\ DOMAIN lexed' = 1..(n + 1) /\ DOMAIN lexed = 1..n
          /\ lexed'[n + 1] = l /\ \A k \in 1..n : lexed'[k] = lexed[k]
      BY <3>2, <3>3, Appended
    <3>9. ASSUME NEW k PROVE k \in Errors' <=> k \in Errors
      <4>1. k \in 1..(n + 1) <=> k \in 1..n \/ k = n + 1
        BY <3>4
      <4>2. n + 1 \notin 1..n
        BY <3>4
      <4> QED
        BY <3>3, <3>4, <4>1, <4>2 DEF Errors
    <3>5. \A k \in Errors : k \in 1..n
      BY <1>1, <3>2 DEF Errors
    <3> QED
      BY <3>4, <3>5, <3>9
  <2> QED
    BY <2>1, <2>2
<1>3. \A k : UpTo(Errors', k) = UpTo(Errors, k)
  BY <1>2
<1>4. Told'
  BY <1>2, <1>3 DEF DropInv, Told, Prefix
<1> QED
  BY <1>4 DEF DropInv, Reported

LEMMA FailDrop ==
  ASSUME LexInv, DropInv, Fail
  PROVE  DropInv'
<1> DEFINE l == Stretch("error", start, CurrentIndex')
           r == [loc |-> syntaxErrorLoc(start.line, start.pos), text |-> getText(start.index, CurrentIndex)]
<1> PICK n : n = Len(lexed)
  OBVIOUS
<1>1. /\ phase = "match" /\ Buffer' = Buffer /\ lexed' = Append(lexed, l) /\ reports' = Append(reports, r)
      /\ recover /\ LexTypeOK
  BY DEF Fail, NoToken, LexInv
<1>2. l.index = start.index /\ l.end = CurrentIndex' /\ l.type = "error" /\ l \in Stretches
  <2>1. CurrentIndex' \in Nat
    <3>1. Len(Buffer') \in Nat /\ CurrentIndex' \in 0..Len(Buffer')
      BY FailKeeps, StreamAssumption, LenProperties DEF LexInv, LexTypeOK, size
    <3> QED
      BY <3>1
  <2> QED
    BY <2>1 DEF LexInv, LexTypeOK, Stretch, Stretches
<1>3. r.text = Prefix(start.index, CurrentIndex')
  <2>1. /\ StreamTypeOK /\ start.index \in Nat /\ start.index <= CurrentIndex
        /\ CurrentIndex \in Nat /\ size \in Nat /\ CurrentIndex <= size
    BY <1>1, AtEnd DEF LexInv, Placed, LexTypeOK, StreamTypeOK
  <2>2. CurrentIndex + 1 < SizeMod
    BY <1>1, <2>1, StreamAssumption DEF LexTypeOK, size
  <2>3. getText(start.index, CurrentIndex)
          = SubSeq(Buffer, start.index + 1, IF CurrentIndex < size THEN CurrentIndex + 1 ELSE size)
    <3>1. start.index <= CurrentIndex + 1 /\ start.index <= size
      BY <2>1
    <3> QED
      BY <2>1, <2>2, <3>1, GetText
  <2>4. CurrentIndex' = IF CurrentIndex < size THEN CurrentIndex + 1 ELSE size
    <3>1. CASE LA(1) = EOF
      BY <1>1, <2>1, <3>1, AtEnd DEF recover
    <3>2. CASE LA(1) # EOF
      BY <1>1, <2>1, <3>2, AtEnd DEF recover, simConsume, consume
    <3> QED
      BY <3>1, <3>2
  <2> QED
    BY <2>3, <2>4 DEF Prefix
<1> HIDE DEF r, l
<1>4. /\ lexed \in Seq(Stretches) /\ n \in Nat /\ DOMAIN lexed = 1..n
      /\ lexed' \in Seq(Stretches) /\ DOMAIN lexed' = 1..(n + 1)
      /\ lexed'[n + 1] = l /\ \A k \in 1..n : lexed'[k] = lexed[k]
  BY <1>1, <1>2, AppendProperties, LenProperties DEF LexTypeOK
<1>5. /\ Len(reports) \in Nat /\ Len(reports') = Len(reports) + 1
      /\ reports'[Len(reports) + 1] = r /\ \A k \in 1..Len(reports) : reports'[k] = reports[k]
      /\ Reported'
  <2>1. PICK S : reports \in Seq(S)
    BY DEF DropInv, Reported
  <2>2. reports \in Seq(S \cup {r}) /\ Len(reports) \in Nat
    BY <2>1, SeqMonotonic, LenProperties
  <2>3. /\ reports' \in Seq(S \cup {r}) /\ Len(reports') = Len(reports) + 1 /\ reports'[Len(reports) + 1] = r
        /\ \A k \in 1..Len(reports) : reports'[k] = reports[k]
    BY <1>1, <2>2, AppendProperties
  <2> QED
    BY <2>2, <2>3 DEF Reported
<1>6. Errors' = Errors \cup {n + 1} /\ n + 1 \notin Errors /\ Errors \subseteq 1..n
  <2>1. ASSUME NEW k PROVE k \in Errors' <=> (k \in Errors \/ k = n + 1)
    BY <1>2, <1>4 DEF Errors
  <2>2. Errors \subseteq 1..n
    BY <1>4 DEF Errors
  <2> QED
    BY <1>4, <2>1, <2>2
<1>7. IsFiniteSet(Errors) /\ Cardinality(Errors') = Cardinality(Errors) + 1
  <2>1. IsFiniteSet(Errors)
    BY <1>1, <1>4, ErrorsFinite
  <2> QED
    BY <1>6, <2>1, FS_AddElement
<1>8. Len(reports) = Cardinality(Errors)
  BY DEF DropInv, Told
<1>9. UpTo(Errors', n + 1) = Errors'
  <2>1. \A j \in Errors' : j <= n + 1
    BY <1>4, <1>6
  <2> QED
    BY <2>1 DEF UpTo
<1>10. ASSUME NEW k \in Errors
       PROVE  /\ UpTo(Errors', k) = UpTo(Errors, k) /\ Cardinality(UpTo(Errors, k)) \in 1..Len(reports)
  <2>1. k \in 1..n /\ k \in Nat /\ ~ (n + 1 <= k)
    BY <1>4, <1>6
  <2>2. UpTo(Errors', k) = UpTo(Errors, k)
    BY <1>6, <2>1 DEF UpTo
  <2>3. Cardinality(UpTo(Errors, k)) \in 1..Len(reports)
    BY <1>1, <1>8, <2>1, ErrorsFinite
  <2> QED
    BY <2>2, <2>3
<1>11. ASSUME NEW k \in Errors'
       PROVE  reports'[Cardinality(UpTo(Errors', k))].text = Prefix(lexed'[k].index, lexed'[k].end)
  <2>1. CASE k = n + 1
    <3>1. Cardinality(UpTo(Errors', k)) = Len(reports) + 1
      BY <1>7, <1>8, <1>9, <2>1
    <3>2. lexed'[k].index = start.index /\ lexed'[k].end = CurrentIndex'
      BY <1>2, <1>4, <2>1
    <3> QED
      BY <1>3, <1>5, <3>1, <3>2
  <2>2. CASE k \in Errors
    <3>1. k \in 1..n
      BY <1>6, <2>2
    <3>2. reports[Cardinality(UpTo(Errors, k))].text = Prefix(lexed[k].index, lexed[k].end)
      BY <2>2 DEF DropInv, Told
    <3> QED
      BY <1>4, <1>5, <1>10, <2>2, <3>1, <3>2
  <2> QED
    BY <1>6, <2>1, <2>2
<1>12. Told'
  BY <1>1, <1>5, <1>7, <1>8, <1>11 DEF Told, Prefix
<1> QED
  BY <1>5, <1>12 DEF DropInv

LEMMA DropStep ==
  ASSUME LexInv, DropInv, [LexNext]_allVars
  PROVE  DropInv'
<1>1. CASE StartToken
  BY <1>1, QuietDrop DEF StartToken, streamVars
<1>2. CASE EndOfFile \/ EmptyRest
  <2>1. /\ Stretch("EOF", Here, CurrentIndex) \in Stretches
        /\ Stretch("EOF", Here, CurrentIndex).type # "error"
    BY AtEnd DEF LexInv, LexTypeOK, Stretch, Here, Stretches
  <2>2. /\ lexed' = Append(lexed, Stretch("EOF", Here, CurrentIndex))
        /\ reports' = reports /\ Buffer' = Buffer
    BY <1>2 DEF EndOfFile, EmptyRest, EmitEOF, streamVars
  <2> QED
    BY <2>1, <2>2, QuietDrop
<1>3. CASE Shift
  BY <1>3, QuietDrop DEF Shift
<1>4. CASE Accept
  <2> DEFINE l == Stretch(accepted.type, start, accepted.index)
  <2>1. accepted.type \in Types /\ accepted.index \in Nat
    BY <1>4, AtEnd DEF Accept, LexInv, Placed, LexTypeOK
  <2>2. l \in Stretches /\ l.type # "error"
    BY <2>1 DEF LexInv, LexTypeOK, Stretch, Stretches, Types
  <2>3. lexed' = Append(lexed, l) /\ reports' = reports /\ Buffer' = Buffer
    BY <1>4 DEF Accept
  <2> HIDE DEF l
  <2> QED
    BY <2>2, <2>3, QuietDrop
<1>5. CASE Fail
  BY <1>5, FailDrop
<1>6. CASE UNCHANGED allVars
  BY <1>6, QuietDrop DEF allVars, streamVars, lexVars
<1> QED
  BY <1>1, <1>2, <1>3, <1>4, <1>5, <1>6 DEF LexNext, Lexed

\* Nothing is dropped in silence: each stretch no rule could take has one
\* report with its bytes, in the order of the file.
THEOREM DropsReportedHolds == LexSpec => []DropsReported
<1>1. LexInit => LexInv /\ DropInv
  BY InvInit, DropInit
<1>2. LexInv /\ DropInv /\ [LexNext]_allVars => (LexInv /\ DropInv)'
  BY InvStep, DropStep
<1>3. DropInv => DropsReported
  BY ToldIs DEF DropInv
<1> QED
  BY <1>1, <1>2, <1>3, PTL DEF LexSpec
==============================================================================
