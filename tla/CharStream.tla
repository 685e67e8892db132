----------------------------- MODULE CharStream ------------------------------
(***************************************************************************)
(* What ANTLR's lexer expects of a CharStream: symbols it has consumed and *)
(* symbols to come, with no index.  The operations are those of IntStream  *)
(* and CharStream; call is the last one, with its arguments and result.    *)
(***************************************************************************)
EXTENDS Integers, Sequences

CONSTANTS
  Buffers,      \* the contents explored
  Lookaheads,   \* the arguments of LA
  Indices,      \* the arguments of seek
  EOF           \* IntStream::EOF, no symbol

VARIABLES
  past,     \* the symbols consumed
  future,   \* the symbols to come
  call

vars == << past, future, call >>

Content == past \o future

Start == past = << >> /\ future \in Buffers /\ call = << >>

\* The first symbol to come, if there is one, is now the last one consumed.
Consume ==
  /\ IF future = << >> THEN UNCHANGED << past, future >>
     ELSE past' = Append(past, Head(future)) /\ future' = Tail(future)
  /\ call' = << "consume" >>

\* The I-th symbol to come; LA(0) is undefined, and looking back is left open.
LookAhead(I) ==
  /\ I > 0 => call' = << "LA", I, IF I \in DOMAIN future THEN future[I] ELSE EOF >>
  /\ UNCHANGED << past, future >>

\* The symbols consumed become the first Index ones, or all there are.
Seek(Index) ==
  /\ past' \o future' = Content
  /\ Len(past') = IF Index <= Len(Content) THEN Index ELSE Len(Content)
  /\ call' = << "seek", Index >>

\* The symbols from a to b, the end of the content cutting them off.
Text(a, b) ==
  /\ call' = << "getText", a, b,
                SubSeq(Content, a + 1, IF b < Len(Content) THEN b + 1 ELSE Len(Content)) >>
  /\ UNCHANGED << past, future >>

\* The intervals a lexer asks for: of a token, of the empty token at the end
\* of the file, and of text that no token matches.
Intervals == {i \in Indices \X Indices : i[1] <= i[2] + 1 /\ i[1] <= Len(Content)}

Step ==
  \/ Consume
  \/ \E I \in Lookaheads : LookAhead(I)
  \/ \E Index \in Indices : Seek(Index)
  \/ \E i \in Intervals : Text(i[1], i[2])

Contract == Start /\ [][Step]_vars
=============================================================================
