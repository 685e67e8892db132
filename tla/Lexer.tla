-------------------------------- MODULE Lexer --------------------------------
(***************************************************************************)
(* The lexer ANTLR makes of grammars/AstraLexer.g4, on top of the stream,  *)
(* and the ErrorListener of Parse.cpp its errors go to.  A symbol is a     *)
(* string of one character, or the name of a byte above 127: the stream    *)
(* hands out bytes, never characters.                                      *)
(***************************************************************************)
EXTENDS SourceMgrCharStream, FiniteSets

Last(s) == s[Len(s)]
Front(s) == SubSeq(s, 1, Len(s) - 1)
From(s, k) == SubSeq(s, k, Len(s))
All(s, set) == \A k \in DOMAIN s : s[k] \in set

-----------------------------------------------------------------------------
(* The rules, as the texts each one matches.                               *)

LineEnd == {"\n", "\r"}
DEC_DIGIT == {"0", "1", "2", "3", "4", "5", "6", "7", "8", "9"}
HEX_DIGIT == DEC_DIGIT \cup {"a", "b", "c", "d", "e", "f", "A", "B", "C", "D", "E", "F"}

\* The letters that occur; the ones left out lex like "n".
Letter == HEX_DIGIT \cup {"i", "n", "o", "u", "x", "_"}

\* The literals of more than one character, and those of one.
Operators ==
  {<< c >> : c \in {"@", ".", ",", ";", ":", "?", "(", ")", "[", "]", "{", "}", "+", "-", "*", "/",
                    "%", "!", "=", "<", ">", "&", "|", "^", "~"}} \cup
  {<< c, "=" >> : c \in {"+", "-", "*", "/", "%", "=", "!", "<", ">", "&", "|", "^"}} \cup
  {<< "-", ">" >>, << ":", ":" >>, << "?", ":" >>, << "?", "." >>, << "&", "&" >>,
   << "|", "|" >>, << "<", "<" >>, << "<", "<", "=" >>, << ">", ">", "=" >>}

\* The keywords all lex alike; these are the ones that begin one another.
Keywords == {<< "i", "f" >>, << "i", "n" >>}

DEC_INTEGER_LITERAL(s) ==
  s = << "0" >> \/ (s # << >> /\ s[1] \in DEC_DIGIT \ {"0"} /\ All(s, DEC_DIGIT))

INTEGER_LITERAL(s) ==
  \/ DEC_INTEGER_LITERAL(s)
  \/ /\ Len(s) > 2 /\ s[1] = "0"
     /\ \/ s[2] \in {"x", "X"} /\ All(From(s, 3), HEX_DIGIT)
        \/ s[2] \in {"o", "O"} /\ All(From(s, 3), DEC_DIGIT \ {"8", "9"})
        \/ s[2] \in {"b", "B"} /\ All(From(s, 3), {"0", "1"})

DOUBLE_EXPONENT(s) ==
  /\ Len(s) > 1 /\ s[1] \in {"e", "E"}
  /\ LET digits == IF s[2] \in {"+", "-"} THEN From(s, 3) ELSE From(s, 2)
     IN  digits # << >> /\ All(digits, DEC_DIGIT)

Fraction(s) ==
  /\ Len(s) > 1 /\ s[1] = "."
  /\ \E k \in 2..Len(s) :
       All(SubSeq(s, 2, k), DEC_DIGIT) /\ (k = Len(s) \/ DOUBLE_EXPONENT(From(s, k + 1)))

DOUBLE_LITERAL(s) ==
  \E k \in 1..(Len(s) - 1) :
    /\ DEC_INTEGER_LITERAL(SubSeq(s, 1, k))
    /\ Fraction(From(s, k + 1)) \/ (s[1] # "0" /\ DOUBLE_EXPONENT(From(s, k + 1)))

FLOAT_LITERAL(s) ==
  s # << >> /\ Last(s) \in {"f", "F"} /\ (DOUBLE_LITERAL(Front(s)) \/ DEC_INTEGER_LITERAL(Front(s)))

Quote == "\""
Backslash == "\\"
ESCAPE_SEQUENCE(s) == Len(s) = 2 /\ s[1] = Backslash /\ s[2] \notin LineEnd
UNICODE_ESCAPE(s) == Len(s) = 6 /\ s[1] = Backslash /\ s[2] = "u" /\ All(From(s, 3), HEX_DIGIT)

\* What lies between two quotes, if anything does.
Quoted(s, quote) == Len(s) > 1 /\ s[1] = quote /\ Last(s) = quote
Body(s) == SubSeq(s, 2, Len(s) - 1)

\* The symbol at k begins an escape: an even number of backslashes precede it.
BeginsEscape(s, k) ==
  /\ s[k] = Backslash
  /\ \E n \in 0..(k - 1) :
       /\ n % 2 = 0 /\ \A j \in (k - n)..(k - 1) : s[j] = Backslash
       /\ k - n > 1 => s[k - n - 1] # Backslash

\* A \u escape is also an escape sequence and plain symbols.
STRING_LITERAL(s) ==
  /\ Quoted(s, Quote)
  /\ LET body == Body(s)
     IN  \A k \in DOMAIN body :
           /\ body[k] \notin LineEnd
           /\ body[k] = Quote => k > 1 /\ BeginsEscape(body, k - 1)
           /\ k = Len(body) => ~ BeginsEscape(body, k)

CHAR_LITERAL(s) ==
  /\ Quoted(s, "'")
  /\ LET body == Body(s)
     IN  \/ UNICODE_ESCAPE(body) \/ ESCAPE_SEQUENCE(body)
         \/ Len(body) = 1 /\ body[1] \notin {"'", Backslash} \cup LineEnd

\* No byte is in \u4E00-\u9FFF.
IDENTIFIER(s) == s # << >> /\ s[1] \in Letter \ DEC_DIGIT /\ All(s, Letter)

Blank == {" ", "\t", "\f"} \cup LineEnd
WS(s) == s # << >> /\ All(s, Blank)

\* The loop in a comment is not greedy: the first end ends it.
COMMENT(s) ==
  /\ Len(s) > 3 /\ SubSeq(s, 1, 2) = << "/", "*" >> /\ From(s, Len(s) - 1) = << "*", "/" >>
  /\ \A k \in 3..(Len(s) - 2) : SubSeq(s, k, k + 1) # << "*", "/" >>

LINE_COMMENT(s) == Len(s) > 1 /\ SubSeq(s, 1, 2) = << "/", "/" >> /\ \A k \in DOMAIN s : s[k] \notin LineEnd

\* The first rule that matches all of s.
TokenType(s) ==
  CASE s \in Operators -> "operator"
    [] s \in Keywords -> "keyword"
    [] INTEGER_LITERAL(s) -> "INTEGER_LITERAL"
    [] FLOAT_LITERAL(s) -> "FLOAT_LITERAL"
    [] DOUBLE_LITERAL(s) -> "DOUBLE_LITERAL"
    [] STRING_LITERAL(s) -> "STRING_LITERAL"
    [] CHAR_LITERAL(s) -> "CHAR_LITERAL"
    [] s = << Quote, Quote, Quote >> -> "RAW_STRING_START"
    [] IDENTIFIER(s) -> "IDENTIFIER"
    [] WS(s) -> "WS"
    [] COMMENT(s) -> "COMMENT"
    [] LINE_COMMENT(s) -> "LINE_COMMENT"
    [] OTHER -> "none"

\* What an unfinished token may still need.
Completions ==
  {<< >>, << "=" >>, << "0" >>, << Quote >>, << "n", Quote >>, << "/" >>, << "*", "/" >>, << "'" >>,
   << "n", "'" >>, << "&" >>, << "0", "'" >>, << "0", "0", "'" >>, << "0", "0", "0", "'" >>}

\* Some rule can still match: the simulation has a configuration left.
Viable(s) == \E c \in Completions : TokenType(s \o c) # "none"

-----------------------------------------------------------------------------
(* ErrorListener::syntaxError.                                             *)

NoLoc == -1

\* llvm::SourceMgr::FindLocForLineAndColumn, an offset: no location for a
\* line that is not there, or a column past a line's end.
FindLocForLineAndColumn(lineNo, colNo) ==
  LET lineStarts == {0} \cup {k \in DOMAIN Buffer : Buffer[k] = "\n"}
      first == {k \in lineStarts : Cardinality({j \in lineStarts : j < k}) = lineNo - 1}
      ahead == IF colNo = 0 THEN 0 ELSE colNo - 1
      inLine == {k \in first : k + ahead <= size /\ All(SubSeq(Buffer, k + 1, k + ahead), Symbols \ LineEnd)}
  IN  IF inLine = {} THEN NoLoc ELSE ahead + CHOOSE k \in inLine : TRUE

\* Mutant: the column is passed on as it is.
syntaxErrorLoc_Column(lineNo, pos) == FindLocForLineAndColumn(lineNo, pos)

\* "ANTLR columns are 0-based; LLVM's are 1-based."
syntaxErrorLoc(lineNo, pos) == FindLocForLineAndColumn(lineNo, pos + 1)

-----------------------------------------------------------------------------
(* antlr4::Lexer::nextToken and its simulator.                             *)

VARIABLES
  phase,      \* "next", "match" or "end"
  line, pos,  \* of the simulator: where the next symbol stands
  start,      \* the start of the token: index, line, pos
  accepted,   \* the last place where a rule matched, none at first
  hitEOF,
  lexed,      \* every stretch of the buffer: its type, place, and end
  reports     \* what the listener passed on: location and text

lexVars == << phase, line, pos, start, accepted, hitEOF, lexed, reports >>
allVars == << streamVars, lexVars >>

None == [index |-> 0, line |-> 1, pos |-> 0, type |-> "none"]
Here == [index |-> CurrentIndex, line |-> line, pos |-> pos]
Stretch(type, place, end) ==
  [type |-> type, index |-> place.index, line |-> place.line, pos |-> place.pos, end |-> end]

LexInit ==
  /\ StreamInit /\ phase = "next" /\ line = 1 /\ pos = 0 /\ start = Here /\ accepted = None
  /\ hitEOF = FALSE /\ lexed = << >> /\ reports = << >>

\* LexerATNSimulator::consume.
simConsume ==
  /\ consume
  /\ IF LA(1) = "\n" THEN line' = line + 1 /\ pos' = 0 ELSE line' = line /\ pos' = pos + 1

Consumed == SubSeq(Buffer, start.index + 1, CurrentIndex)
MayShift == LA(1) # EOF /\ Viable(Append(Consumed, LA(1)))

EmitEOF ==
  /\ lexed' = Append(lexed, Stretch("EOF", Here, CurrentIndex)) /\ phase' = "end"
  /\ UNCHANGED << streamVars, line, pos, start, accepted, hitEOF, reports >>

StartToken ==
  /\ phase = "next" /\ ~ hitEOF
  /\ start' = Here /\ accepted' = None /\ phase' = "match"
  /\ UNCHANGED << streamVars, line, pos, hitEOF, lexed, reports >>

EndOfFile == phase = "next" /\ hitEOF /\ EmitEOF

\* Mutant: a longer prefix that no rule matches erases the shorter one.
Capture_Forgets(type) == accepted' = [index |-> CurrentIndex', line |-> line', pos |-> pos', type |-> type]

\* captureSimState, when some rule matches what has been consumed.
Capture(type) ==
  accepted' = IF type = "none" THEN accepted
              ELSE [index |-> CurrentIndex', line |-> line', pos |-> pos', type |-> type]

Shift ==
  /\ phase = "match" /\ MayShift
  /\ simConsume /\ Capture(TokenType(Append(Consumed, LA(1))))
  /\ UNCHANGED << Buffer, call, phase, start, hitEOF, lexed, reports >>

\* Back to where a rule last matched, and emit, or skip, the token.
Accept ==
  /\ phase = "match" /\ ~ MayShift /\ accepted.type # "none"
  /\ seek(accepted.index) /\ line' = accepted.line /\ pos' = accepted.pos
  /\ lexed' = Append(lexed, Stretch(accepted.type, start, accepted.index))
  /\ hitEOF' = (accepted.index = size) /\ phase' = "next"
  /\ UNCHANGED << Buffer, call, start, accepted, reports >>

NoToken == phase = "match" /\ ~ MayShift /\ accepted.type = "none"

EmptyRest == NoToken /\ LA(1) = EOF /\ CurrentIndex = start.index /\ EmitEOF

\* Mutant: the symbol no rule can take is looked at again.
recover_Stays == UNCHANGED << CurrentIndex, line, pos >>

\* Lexer::recover drops the symbol no rule can take.
recover == IF LA(1) = EOF THEN UNCHANGED << CurrentIndex, line, pos >> ELSE simConsume

\* No rule matches any prefix: report all of it, at its start.
Fail ==
  /\ NoToken /\ ~ (LA(1) = EOF /\ CurrentIndex = start.index)
  /\ reports' = Append(reports, [loc |-> syntaxErrorLoc(start.line, start.pos),
                                 text |-> getText(start.index, CurrentIndex)])
  /\ recover
  /\ lexed' = Append(lexed, Stretch("error", start, CurrentIndex'))
  /\ hitEOF' = (CurrentIndex' = size) /\ phase' = "next"
  /\ UNCHANGED << Buffer, call, start, accepted >>

Lexed == phase = "end" /\ UNCHANGED allVars

LexNext == StartToken \/ EndOfFile \/ Shift \/ Accept \/ EmptyRest \/ Fail \/ Lexed

LexSpec == LexInit /\ [][LexNext]_allVars
-----------------------------------------------------------------------------

Prefix(from, to) == SubSeq(Buffer, from + 1, to)

\* A stretch has been added since the last token was begun.
Added == lexed # << >> /\ phase # "match"

\* Tokens, skipped text and errors follow one another without gap or overlap
\* from the first byte to the last, however far the simulator ran ahead
\* before it went back; only the end of the file is empty.
Tiles ==
  /\ \A k \in DOMAIN lexed :
       /\ lexed[k].index = IF k = 1 THEN 0 ELSE lexed[k - 1].end
       /\ lexed[k].type = "EOF" <=> lexed[k].index = lexed[k].end
  /\ phase = "end" => Last(lexed).type = "EOF" /\ Last(lexed).end = size

\* A token is the longest prefix of what is left that any rule matches, even
\* one that ends far before the place where the simulator gave up; an error
\* only stands where no rule matches any prefix.
LongestMatch ==
  (Added /\ Last(lexed).type # "EOF") =>
    LET l == Last(lexed)
        ends == {k \in (l.index + 1)..size : TokenType(Prefix(l.index, k)) # "none"}
    IN  IF l.type = "error" THEN ends = {}
        ELSE /\ l.end \in ends /\ \A k \in ends : k <= l.end
             /\ l.type = TokenType(Prefix(l.index, l.end))

\* The lexer reports every stretch it drops, with its text, in order
\* (Lexer::notifyListeners before recover).
DropsReported ==
  LET errors == {k \in DOMAIN lexed : lexed[k].type = "error"}
      upTo(k) == {j \in errors : j <= k}
  IN  /\ Len(reports) = Cardinality(errors)
      /\ \A k \in errors :
           reports[Cardinality(upTo(k))].text = Prefix(lexed[k].index, lexed[k].end)

\* A carriage return without a line feed, on the line of the offset.
AfterLoneReturn(index) ==
  \E k \in 1..index : Buffer[k] = "\r" /\ \A j \in k..index : Buffer[j] # "\n"

\* Line and column of a token or an error lead the ErrorListener back to its
\* first byte: lexer errors are located by their own, parser errors by those
\* of the offending token.
LocExact ==
  (Added /\ ~ AfterLoneReturn(Last(lexed).index)) =>
    LET l == Last(lexed)
    IN  IF l.type = "error" THEN reports[Len(reports)].loc = l.index
        ELSE syntaxErrorLoc(l.line, l.pos) = l.index

\* decodeCharValue: a character literal holds "a raw byte, or a single UTF-8
\* sequence"; e9 in UTF-8 is C3 A9.
CharTakesUtf8 ==
  (phase = "end" /\ Buffer = << "'", "C3", "A9", "'" >>) => lexed[1].type = "CHAR_LITERAL"
=============================================================================
