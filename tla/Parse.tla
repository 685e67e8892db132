-------------------------------- MODULE Parse --------------------------------
(***************************************************************************)
(* frontend::parse(): the parser runs over a file, and unless the engine   *)
(* holds errors the builder turns its tree into a Program.  A caller may   *)
(* parse several files with one ASTContext and one DiagnosticsEngine, and  *)
(* may print the diagnostics between two calls.                            *)
(***************************************************************************)
EXTENDS AstraParser, ASTBuilder

CONSTANTS
  MaxCalls,      \* bound on the calls of parse()
  SyntaxErrors   \* whether a file may have a syntax error

ASSUME CallsAssumption == MaxCalls \in Nat /\ SyntaxErrors \in BOOLEAN

VARIABLES
  phase,     \* "idle", "parsing" or "building"
  calls,     \* calls made
  erred,     \* whether a syntax error was reported in the last call
  program    \* what the last call returned, Null before the first

callVars == << calls, erred, program >>
vars == << parserVars, astVars, diagVars, phase, callVars >>

Init ==
  /\ NoTree /\ NoDiagnostics
  /\ arena = << >> /\ stack = << >> /\ crash = "none"
  /\ phase = "idle" /\ calls = 0 /\ erred = FALSE /\ program = Null

\* A lexer, a token stream and a parser are made for the file.
StartParse ==
  /\ phase = "idle" /\ calls < MaxCalls
  /\ StartFile
  /\ phase' = "parsing" /\ calls' = calls + 1 /\ erred' = FALSE
  /\ UNCHANGED << astVars, diagVars, program >>

RunParser ==
  /\ phase = "parsing"
  /\ ParserStep
  /\ UNCHANGED << astVars, diagVars, phase, callVars >>

\* ErrorListener::syntaxError reports a point, in place of what comes next.
SyntaxError ==
  /\ phase = "parsing" /\ SyntaxErrors
  /\ Recover
  /\ report(offset, offset, "error", "syntax error")
  /\ erred' = TRUE
  /\ UNCHANGED << astVars, phase, calls, program >>

\* Mutant: the last Program is returned again.
RefuseTree_Keeps ==
  /\ phase = "parsing" /\ Parsed /\ HasErrors
  /\ phase' = "idle"
  /\ UNCHANGED << parserVars, astVars, diagVars, callVars >>

\* Error recovery may have polluted the parse tree.
RefuseTree ==
  /\ phase = "parsing" /\ Parsed /\ HasErrors
  /\ phase' = "idle" /\ program' = Null
  /\ UNCHANGED << parserVars, astVars, diagVars, calls, erred >>

AcceptTree ==
  /\ phase = "parsing" /\ Parsed /\ ~ HasErrors
  /\ StartBuild
  /\ phase' = "building"
  /\ UNCHANGED << parserVars, diagVars, callVars >>

RunBuilder ==
  /\ phase = "building"
  /\ BuilderStep
  /\ UNCHANGED << parserVars, phase, callVars >>

ReturnProgram ==
  /\ phase = "building"
  /\ EndBuild
  /\ program' = Top.res /\ phase' = "idle"
  /\ UNCHANGED << parserVars, calls, erred >>

\* The caller prints what was reported, which clears the engine.
PrintDiagnostics ==
  /\ phase = "idle" /\ Diagnostics # << >>
  /\ print
  /\ UNCHANGED << parserVars, astVars, phase, callVars >>

Terminated ==
  /\ phase = "idle" /\ calls = MaxCalls
  /\ UNCHANGED vars

Next ==
  \/ StartParse \/ RunParser \/ SyntaxError \/ RefuseTree \/ AcceptTree
  \/ RunBuilder \/ ReturnProgram \/ PrintDiagnostics \/ Terminated

Spec == Init /\ [][Next]_vars

\* parse() is a plain call: it takes its next step for as long as it has one.
FairSpec == Spec /\ WF_vars(Next)
=============================================================================
