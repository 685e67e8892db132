------------------------- MODULE SourceMgrCharStream -------------------------
(***************************************************************************)
(* The stream the lexer reads a file through: an index into the buffer of  *)
(* SourceMgr.  Offsets count bytes from 0 and are size_t.                  *)
(***************************************************************************)
EXTENDS Integers, Sequences

CONSTANTS
  Symbols,      \* the values of a byte
  Buffers,      \* the contents explored
  Lookaheads,   \* the arguments of LA
  Indices,      \* the arguments of seek, and the ends of intervals
  EOF,          \* IntStream::EOF, no symbol
  SizeMod       \* how many values a size_t has

\* Lengths and indices are size_t; a NUL byte follows the last one of a buffer.
ASSUME StreamAssumption ==
  /\ SizeMod \in Nat /\ Indices \subseteq Nat /\ Lookaheads \subseteq Int
  /\ Buffers \subseteq Seq(Symbols) /\ EOF \notin Symbols
  /\ \A b \in Buffers : Len(b) + 1 < SizeMod
  /\ \A k \in Indices : k + 1 < SizeMod

VARIABLES
  Buffer,
  CurrentIndex,
  call            \* the last call, with its arguments and result

streamVars == << Buffer, CurrentIndex, call >>

size == Len(Buffer)

StreamInit == Buffer \in Buffers /\ CurrentIndex = 0 /\ call = << >>

consume == CurrentIndex' = IF CurrentIndex < size THEN CurrentIndex + 1 ELSE CurrentIndex

\* Mutant: the symbol after the one asked for.
LA_Next(I) ==
  LET Pos == CurrentIndex + I
  IN  IF I = 0 THEN 0 ELSE IF Pos < 0 \/ Pos >= size THEN EOF ELSE Buffer[Pos + 1]

LA(I) ==
  LET Pos == CurrentIndex + I - 1
  IN  IF I = 0 THEN 0 ELSE IF Pos < 0 \/ Pos >= size THEN EOF ELSE Buffer[Pos + 1]

seek(Index) == CurrentIndex' = IF Index < size THEN Index ELSE size

\* StringRef::substr clamps the length to what is there.
substr(Start, Length) ==
  SubSeq(Buffer, Start + 1, IF Length < size - Start THEN Start + Length ELSE size)

\* Mutant: the end of the interval is taken to be exclusive.
getText_Exclusive(a, b) ==
  LET Start == a % SizeMod
      Length == (b - a) % SizeMod
  IN  IF Start >= size THEN << >>
      ELSE substr(Start, IF (Start + Length) % SizeMod > size THEN size - Start ELSE Length)

\* The bytes of the interval [a, b], clamped to the buffer.
getText(a, b) ==
  LET Start == a % SizeMod
      Length == (b - a + 1) % SizeMod
  IN  IF Start >= size THEN << >>
      ELSE substr(Start, IF (Start + Length) % SizeMod > size THEN size - Start ELSE Length)

Consume == consume /\ call' = << "consume" >> /\ UNCHANGED Buffer

LookAhead == \E I \in Lookaheads :
  /\ I # 0 /\ call' = << "LA", I, LA(I) >>
  /\ UNCHANGED << Buffer, CurrentIndex >>

Seek == \E Index \in Indices :
  seek(Index) /\ call' = << "seek", Index >> /\ UNCHANGED Buffer

Text == \E a \in Indices, b \in Indices :
  /\ a <= b + 1 /\ a <= size
  /\ call' = << "getText", a, b, getText(a, b) >>
  /\ UNCHANGED << Buffer, CurrentIndex >>

StreamNext == Consume \/ LookAhead \/ Seek \/ Text

StreamSpec == StreamInit /\ [][StreamNext]_streamVars

-----------------------------------------------------------------------------
(* The stream implements what a lexer expects.                             *)

Abstract == INSTANCE CharStream WITH
  past <- SubSeq(Buffer, 1, CurrentIndex),
  future <- SubSeq(Buffer, CurrentIndex + 1, size)

\* The index splits the buffer into what is consumed and what is to come,
\* and every call answers for that split, at both ends and beyond the last;
\* what LA answers behind the index is left open.
StreamContract == Abstract!Contract

StreamTypeOK == Buffer \in Buffers /\ CurrentIndex \in 0..size
=============================================================================
