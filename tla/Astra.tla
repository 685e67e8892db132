-------------------------------- MODULE Astra --------------------------------
(***************************************************************************)
(* main() of the astra driver: one file is opened, parsed and, if nothing  *)
(* was reported, dumped.  The parser, the builder, the engine and the      *)
(* dumper run as they do in their own modules.                             *)
(***************************************************************************)
EXTENDS ASTDumper

CONSTANT DumpAST   \* the values --dump-ast is run with

ASSUME DumpASTAssumption == DumpAST \subseteq BOOLEAN

VARIABLES
  stage,     \* "start", "opened", "parsing", "dumping" or "exited"
  dumpAST,   \* the option
  printed,   \* what was printed to stderr
  exitCode   \* 0 until main returns something else

driverVars == << stage, dumpAST, printed, exitCode >>
allVars == << vars, dumpVars, driverVars >>

AstraInit ==
  /\ Init /\ NotDumping
  /\ stage = "start" /\ printed = << >> /\ exitCode = 0 /\ dumpAST \in DumpAST

exit(code) == stage' = "exited" /\ exitCode' = code

\* MemoryBuffer::getFile fails: the message does not go through the engine.
CannotOpen ==
  /\ stage = "start"
  /\ exit(1) /\ printed' = << "cannot open" >>
  /\ UNCHANGED << vars, dumpVars, dumpAST >>

Open ==
  /\ stage = "start" /\ stage' = "opened"
  /\ UNCHANGED << vars, dumpVars, dumpAST, printed, exitCode >>

CallParse ==
  /\ stage = "opened" /\ stage' = "parsing" /\ StartParse
  /\ UNCHANGED << dumpVars, dumpAST, printed, exitCode >>

InParse ==
  /\ stage = "parsing"
  /\ \/ RunParser \/ SyntaxError \/ RefuseTree \/ AcceptTree \/ RunBuilder \/ ReturnProgram
  /\ UNCHANGED << dumpVars, driverVars >>

Returned == stage = "parsing" /\ phase = "idle"

\* Mutant: only a null program counts as a failure.
Failed_NullOnly == program = Null

Failed == program = Null \/ HasErrors

\* Mutant: the engine is cleared before its diagnostics are written.
ReportErrors_Cleared ==
  /\ Returned /\ Failed
  /\ print /\ printed' = Diagnostics'
  /\ exit(1)
  /\ UNCHANGED << parserVars, astVars, phase, callVars, dumpVars, dumpAST >>

ReportErrors ==
  /\ Returned /\ Failed
  /\ print /\ printed' = Diagnostics
  /\ exit(1)
  /\ UNCHANGED << parserVars, astVars, phase, callVars, dumpVars, dumpAST >>

DumpProgram ==
  /\ Returned /\ ~ Failed /\ dumpAST
  /\ StartDump(program) /\ stage' = "dumping"
  /\ UNCHANGED << vars, dumpAST, printed, exitCode >>

SkipDump ==
  /\ Returned /\ ~ Failed /\ ~ dumpAST
  /\ exit(0)
  /\ UNCHANGED << vars, dumpVars, dumpAST, printed >>

InDump ==
  /\ stage = "dumping" /\ crash = "none"
  /\ dumpChild
  /\ UNCHANGED << parserVars, arena, stack, diagVars, phase, callVars, driverVars >>

EndDump ==
  /\ stage = "dumping" /\ todo = << >>
  /\ exit(0)
  /\ UNCHANGED << vars, dumpVars, dumpAST, printed >>

Exited == stage = "exited" /\ UNCHANGED allVars

AstraNext ==
  \/ CannotOpen \/ Open \/ CallParse \/ InParse \/ ReportErrors
  \/ DumpProgram \/ SkipDump \/ InDump \/ EndDump \/ Exited

AstraSpec == AstraInit /\ [][AstraNext]_allVars

-----------------------------------------------------------------------------
(* The dump against the AST.                                               *)

Dumped == stage = "exited" /\ OS # << >>

IsLabel(i) == OS[i].text.label # ""
Depth(i) == IF i = 1 THEN 0 ELSE Len(OS[i].prefix) + 1

\* The line a reader takes for the parent of line i: the nearest line above
\* with less indentation.
Above(i) ==
  CHOOSE j \in 1..(i - 1) :
    /\ Depth(j) < Depth(i)
    /\ \A k \in (j + 1)..(i - 1) : Depth(k) >= Depth(i)

\* The member a child is dumped under, and the line of the node it is in.
Under(i) == IF IsLabel(Above(i)) THEN Above(Above(i)) ELSE Above(i)

\* Whoever reads the indentation and the labels of a dump reads off the AST:
\* each node has one line, except the labels of jumps, which are on the line
\* of the jump; the line above it is its parent, or a label that names the
\* pointer of the parent that holds it; elements of lists have no label; and
\* lines come in the order of the source.
DumpIsAST ==
  Dumped =>
    LET lines == {i \in DOMAIN OS : ~ IsLabel(i)}
        node(i) == OS[i].text.node
        below == {e \in Edges : e[2] # "Pos"}
    IN  /\ Cardinality(lines) = Cardinality(below) + 1
        /\ node(1) = program
        /\ \A e \in below :
             \E i \in lines \ {1} :
               /\ node(i) = e[4] /\ node(Under(i)) = e[1]
               /\ IF e[2] \in ListMembers THEN Above(i) = Under(i)
                  ELSE OS[Above(i)].text.label = e[2]
        /\ \A i \in lines \ {1}, j \in lines \ {1} :
             (i < j /\ Under(i) = Under(j) /\ arena[node(Under(i))].kind # "CatchClause")
               => Before(node(i), node(j))

\* Line j continues at the level of the connector of line i, or of the bar
\* in column k of its prefix.
Continues(i, k) ==
  \E j \in (i + 1)..Len(OS) :
    /\ Len(OS[j].prefix) = k
    /\ \A m \in (i + 1)..j : Len(OS[m].prefix) >= k

\* The tree is drawn without gaps or loose ends: a line has the connector of
\* a last child exactly if no sibling follows it, and a bar in a column
\* exactly if a later line hangs from that column.
BarsConnect ==
  Dumped =>
    \A i \in 2..Len(OS) :
      /\ OS[i].last <=> ~ Continues(i, Len(OS[i].prefix))
      /\ \A k \in DOMAIN OS[i].prefix : OS[i].prefix[k] <=> Continues(i, k - 1)

\* Nodes whose lines differ in nothing but names agree in kind, operators,
\* visibility, mutability, null safety and explicit type arguments: the dump
\* tells apart what the tests compare dumps for.
HeadersTell ==
  Dumped =>
    LET held(n) == << arena[n].kind, arena[n].ops,
                      arena[n].flags \ {"decoded", "default", "raw"}, arena[n].vis >>
    IN  \A n, m \in DOMAIN arena :
          (arena[n].kind = arena[m].kind /\ Marks(n) = Marks(m)) => held(n) = held(m)

\* The dumper follows no null name: what the headers take for granted, the
\* builder has set, in programs without errors.
NoNullName == crash # "null_name"

-----------------------------------------------------------------------------
(* The driver.                                                             *)

\* The exit status is 0 exactly if the file was opened, has no syntax error
\* and none of the errors the builder must find.
ExitStatus ==
  stage = "exited" =>
    (exitCode = 0 <=> calls = 1 /\ ~ erred /\ Expected = {})

\* A run writes diagnostics or a dump, never both and never neither: a
\* failure has printed the error that caused it, a success the whole dump.
SaysWhy ==
  stage = "exited" =>
    /\ exitCode = 1 <=> printed # << >>
    /\ OS # << >> <=> exitCode = 0 /\ dumpAST
=============================================================================
