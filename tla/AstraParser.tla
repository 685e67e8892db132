----------------------------- MODULE AstraParser -----------------------------
(***************************************************************************)
(* The grammar of AstraParser.g4 and the run of the generated parser over  *)
(* a file that has no syntax error: rules are entered, tokens matched and  *)
(* rules left from left to right, and the parse tree grows as ANTLR grows  *)
(* it (start offset on entry, stop offset on exit).  The run invents the   *)
(* file as it goes: wherever the grammar has alternatives it takes         *)
(* Default[rule], or one of Choices[rule] at the price of one unit of      *)
(* fuel, so that MaxChoices bounds the files that are explored.  A run     *)
(* explores several parts of the language, each by a table of its own.     *)
(***************************************************************************)
EXTENDS ParseTree

CONSTANTS
  MaxRep,      \* bound on the repetitions of a starred group
  Tables       \* name -> the record of the five bounds below

VARIABLES
  table,       \* the name of the table in use
  work,        \* what is left to derive: symbols, and rules to leave
  offset,      \* offset of the next token
  lastStop,    \* stop offset of the last token, EOF included
  fuel         \* choices left

parserVars == << table, tree, bufferSize, work, offset, lastStop, fuel >>

Default == Tables[table].Default        \* rule -> the production taken for nothing
Choices == Tables[table].Choices        \* rule -> the productions taken for one unit of fuel
MaxChoices == Tables[table].MaxChoices  \* bound on the choices that differ from the default
Texts == Tables[table].Texts            \* literal token -> the texts it may have, "ok" or "bad"
Blanks == Tables[table].Blanks          \* how many bytes may precede the first token

-----------------------------------------------------------------------------
(* The productions of a rule: a set of sequences of symbols.               *)

One(sym) == {<< sym >>}
OneOf(syms) == {<< s >> : s \in syms}
A ** B == {a \o b : a \in A, b \in B}
Opt(A) == {<< >>} \cup A
Rep(A) ==
  LET exactly[n \in 0..MaxRep] ==
        IF n = 0 THEN {<< >>} ELSE exactly[n - 1] ** A
  IN  UNION {exactly[n] : n \in 0..MaxRep}
List(A, sep) == A ** Rep(One(sep) ** A)
Group(open, A, close) == One(open) ** A ** One(close)

DeclRules == [
  file |-> Rep(One("topLevelObject")) ** One("EOF"),
  topLevelObject |-> One("declaration"),
  declaration |-> Opt(One("visibilityModifier")) **
    (OneOf({"functionDecl", "classDecl"}) \cup {<< "variableDecl", "SEMICOLON" >>}),
  visibilityModifier |-> OneOf({"PUBLIC", "PRIVATE", "PROTECTED"}),
  functionDecl |-> {<< "FUN", "IDENTIFIER" >>} **
    Group("LPAREN", Opt(List(One("parameter"), "COMMA")), "RPAREN") **
    {<< "ARROW", "type", "block" >>},
  classDecl |-> {<< "CLASS", "IDENTIFIER" >>} ** Opt(One("typeParameters")) **
    Opt(One("classBody")),
  classBody |-> Group("LBRACE", Rep(One("declaration")), "RBRACE"),
  parameter |-> {<< "IDENTIFIER", "COLON", "type" >>} **
    Opt({<< "ASSIGNMENT", "expression" >>}),
  typeParameters |-> Group("LT", List(One("typeParameter"), "COMMA"), "GT"),
  typeParameter |-> One("IDENTIFIER") ** Opt({<< "ASSIGNMENT", "type" >>}),
  variableDecls |-> List(One("variableDecl"), "COMMA"),
  variableDecl |->
    {<< "VAR", "IDENTIFIER", "COLON", "type" >>} \cup
    (OneOf({"VAR", "VAL"}) ** One("IDENTIFIER") ** Opt({<< "COLON", "type" >>}) **
      {<< "ASSIGNMENT", "expression" >>}) ]

TypeRules == [
  type |-> One("functionType") \cup
    (OneOf({"parenType", "typeRef", "builtinType"}) **
      Rep(Group("LBRACKET", One("expression"), "RBRACKET"))),
  parenType |-> Group("LPAREN", One("type"), "RPAREN"),
  typeRef |-> One("IDENTIFIER") ** Opt(One("typeArguments")),
  functionType |-> One("FUN") ** Group("LPAREN", Opt(One("paramTypeList")), "RPAREN") **
    {<< "ARROW", "type" >>},
  paramTypeList |-> List(One("type"), "COMMA"),
  typeArguments |-> Group("LT", Opt(One("typeArgument")), "GT"),
  typeArgument |-> List(One("type"), "COMMA"),
  builtinType |->
    OneOf({"VOID", "BOOL", "INT", "LONG", "FLOAT", "DOUBLE", "CHAR", "STRING"}) ]

AssignmentTokens ==
  {"ASSIGNMENT", "ADD_ASSIGNMENT", "SUB_ASSIGNMENT", "MULT_ASSIGNMENT",
   "DIV_ASSIGNMENT", "MOD_ASSIGNMENT", "BIT_AND_ASSIGNMENT", "BIT_OR_ASSIGNMENT",
   "BIT_XOR_ASSIGNMENT", "LSHIFT_ASSIGNMENT", "RSHIFT_ASSIGNMENT"}

StmtRules ==
  LET Cond == Group("LPAREN", One("expression"), "RPAREN")
      Finally == {<< "FINALLY", "block" >>}
  IN [
  block |-> Group("LBRACE", Rep(One("statement")), "RBRACE"),
  statement |-> OneOf({"declStatement", "controlStatement", "exprStmt"}) \cup
    {<< "assignment", "SEMICOLON" >>},
  declStatement |-> One("declaration"),
  assignment |-> {<< "postfixUnaryExpr", "assignmentOperator", "expression" >>},
  assignmentOperator |-> OneOf(AssignmentTokens),
  controlStatement |->
    OneOf({"forStmt", "forEachStmt", "whileStmt", "doWhileStmt", "ifStmt", "tryStatement"}),
  forStmt |-> One("FOR") **
    Group("LPAREN", Opt(One("variableDecls")) ** One("SEMICOLON") **
      Opt(One("expression")) ** One("SEMICOLON") ** Opt(One("forUpdate")), "RPAREN") **
    One("block"),
  forUpdate |-> OneOf({"assignment", "expression"}),
  forEachStmt |->
    {<< "FOR", "LPAREN", "IDENTIFIER", "IN", "expression", "RPAREN", "block" >>},
  whileStmt |-> One("WHILE") ** Cond ** One("block"),
  doWhileStmt |-> {<< "DO", "block", "WHILE" >>} ** Cond,
  ifStmt |-> One("IF") ** Cond ** One("block") **
    Opt(One("ELSE") ** OneOf({"ifStmt", "block"})),
  tryStatement |-> {<< "TRY", "block" >>} **
    (Finally \cup (One("catchClause") ** Rep(One("catchClause")) ** Opt(Finally))),
  catchClause |->
    {<< "CATCH", "LPAREN", "IDENTIFIER", "COLON", "type", "RPAREN", "block" >>},
  exprStmt |-> {<< "expression", "SEMICOLON" >>} ]

LiteralTokens ==
  {"BOOLEAN_LITERAL", "INTEGER_LITERAL", "FLOAT_LITERAL", "DOUBLE_LITERAL",
   "NULL_LITERAL", "STRING_LITERAL", "CHAR_LITERAL"}

ExprRules == [
  expression |-> One("disjunction"),
  disjunction |-> List(One("conjunction"), "DISJ"),
  conjunction |-> List(One("equality"), "CONJ"),
  equalityOperator |-> OneOf({"EQ", "NEQ"}),
  equality |-> One("comparison") ** Opt({<< "equalityOperator", "comparison" >>}),
  comparisonOperator |-> OneOf({"LT", "GT", "LE", "GE"}),
  comparison |-> List(One("infixExpr"), "comparisonOperator") \cup
    ({<< "infixExpr", "typeArguments", "GT" >>} **
      Group("LPAREN", Opt(One("valueArguments")), "RPAREN")),
  inOperator |-> One("IN"),
  isOperator |-> One("IS"),
  infixExpr |-> One("elvisExpr") **
    Rep({<< "inOperator", "elvisExpr" >>, << "isOperator", "type" >>}),
  elvisOperator |-> One("ELVIS"),
  elvisExpr |-> List(One("bitwiseOr"), "elvisOperator"),
  bitwiseOr |-> List(One("bitwiseXor"), "BIT_OR"),
  bitwiseXor |-> List(One("bitwiseAnd"), "BIT_XOR"),
  bitwiseAnd |-> List(One("bitwiseShift"), "BIT_AND"),
  bitwiseShiftOperator |-> {<< "LSHIFT" >>, << "GT", "GT" >>},
  bitwiseShift |-> List(One("addition"), "bitwiseShiftOperator"),
  additionOperator |-> OneOf({"ADD", "SUB"}),
  addition |-> List(One("multiplication"), "additionOperator"),
  multiplicationOperator |-> OneOf({"MULT", "DIV", "MOD"}),
  multiplication |-> List(One("asExpr"), "multiplicationOperator"),
  asOperator |-> {<< "AS" >>, << "AS", "QUEST" >>},
  asExpr |-> One("prefixUnaryExpr") ** Opt({<< "asOperator", "type" >>}),
  unaryPrefix |-> One("prefixUnaryOperator"),
  prefixUnaryOperator |-> OneOf({"ADD", "SUB", "NOT", "BIT_NOT"}),
  prefixUnaryExpr |-> Rep(One("unaryPrefix")) ** One("postfixUnaryExpr"),
  unaryPostfix |-> OneOf({"callSuffix", "indexingSuffix", "navigationSuffix"}),
  callSuffix |-> Opt(One("typeArguments")) **
    Group("LPAREN", Opt(One("valueArguments")), "RPAREN"),
  valueArguments |-> List(One("valueArgument"), "COMMA"),
  valueArgument |-> Opt({<< "IDENTIFIER", "ASSIGNMENT" >>, << "MULT" >>}) **
    One("expression"),
  indexingSuffix |-> Group("LBRACKET", One("expression"), "RBRACKET"),
  navigationSuffix |-> {<< "memberAccessOperator", "IDENTIFIER" >>},
  memberAccessOperator |-> OneOf({"QUEST_DOT", "DOT", "DOUBLE_COLON"}),
  postfixUnaryExpr |-> One("primaryExpr") ** Rep(One("unaryPostfix")),
  primaryExpr |-> OneOf({"IDENTIFIER", "parenExpr", "literalConstant",
    "collectionLiteral", "thisLiteral", "ifExpression", "jumpExpression"}),
  parenExpr |-> Group("LPAREN", One("expression"), "RPAREN"),
  literalConstant |-> OneOf(LiteralTokens),
  collectionLiteral |-> Group("LBRACKET", Opt(List(One("expression"), "COMMA")), "RBRACKET"),
  thisLiteral |-> One("THIS"),
  ifExpression |-> {<< "IF", "LPAREN", "expression", "RPAREN", "expression" >>} **
    Opt({<< "ELSE", "expression" >>}),
  jumpExpression |-> {<< "THROW", "expression" >>, << "RETURN" >>,
    << "RETURN", "expression" >>} \cup (OneOf({"CONTINUE", "BREAK"}) ** Opt(One("label"))),
  label |-> {<< "AT", "IDENTIFIER" >>} ]

Rules == DOMAIN DeclRules \cup DOMAIN TypeRules \cup DOMAIN StmtRules \cup DOMAIN ExprRules

Productions(rule) ==
  IF rule \in DOMAIN DeclRules THEN DeclRules[rule]
  ELSE IF rule \in DOMAIN TypeRules THEN TypeRules[rule]
  ELSE IF rule \in DOMAIN StmtRules THEN StmtRules[rule]
  ELSE ExprRules[rule]

ASSUME TablesAssumption ==
  \A t \in DOMAIN Tables :
    /\ DOMAIN Tables[t].Default = Rules
    /\ \A r \in Rules : /\ Tables[t].Default[r] \in Productions(r)
                        /\ Tables[t].Choices[r] \subseteq Productions(r)
ASSUME SymbolsAssumption ==
  \A t \in DOMAIN Tables : \A r \in DOMAIN Tables[t].Default :
    /\ Tables[t].Default[r] \in Seq(STRING)
    /\ \A p \in Tables[t].Choices[r] : p \in Seq(STRING)
ASSUME BoundsAssumption ==
  /\ MaxRep \in Nat
  /\ \A t \in DOMAIN Tables : Tables[t].MaxChoices \in Nat /\ Tables[t].Blanks \subseteq Offset

-----------------------------------------------------------------------------
(* The run of the parser.                                                  *)

Item(sym, parent) == [sym |-> sym, parent |-> parent]
Exit == "exit"     \* an item that leaves the rule of its parent

NoTree ==
  /\ table \in DOMAIN Tables
  /\ tree = << >> /\ bufferSize = 0
  /\ work = << >> /\ offset = 0 /\ lastStop = 0 /\ fuel = 0

\* AstraParser::file() is called on a fresh token stream.
StartFile ==
  /\ \E b \in Blanks : offset' = b
  /\ tree' = << >> /\ bufferSize' = 0 /\ lastStop' = 0 /\ fuel' = MaxChoices
  /\ work' = << Item("file", Null) >>
  /\ UNCHANGED table

\* The tree after a node is created under the parent of the item at hand.
Grown(node, parent) ==
  LET id == Len(tree) + 1
  IN  [i \in 1..id |-> IF i = id THEN node
                       ELSE IF i = parent 
                         THEN [tree[i] EXCEPT !.kids = AppendAt(@, node.sym, id)]
                       ELSE tree[i]]

EnterRule ==
  /\ work # << >>
  /\ LET it == Head(work)
         id == Len(tree) + 1
     IN  /\ it.sym \in DOMAIN Default
         /\ \E p \in {Default[it.sym]} \cup (IF fuel > 0 THEN Choices[it.sym] ELSE {}) :
              /\ fuel' = IF p = Default[it.sym] THEN fuel ELSE fuel - 1
              /\ work' = [i \in 1..Len(p) |-> Item(p[i], id)] \o
                           << Item(Exit, id) >> \o Tail(work)
         /\ tree' = Grown(NewTreeNode(it.sym, offset, offset, "ok"), it.parent)
  /\ UNCHANGED << table, bufferSize, offset, lastStop >>

\* Every token is one byte long and followed by one blank, except that a
\* `>` may touch a `>` that comes right after it.  A buffer has fewer bytes
\* than a size_t can count.
MatchToken ==
  /\ work # << >> /\ offset + 2 \in Offset
  /\ LET it == Head(work)
         gaps == IF it.sym = "GT" /\ work[2].sym = "GT" THEN {0, 1} ELSE {1}
         texts == IF it.sym \in DOMAIN Texts THEN Texts[it.sym] ELSE {"ok"}
     IN  /\ it.sym \notin DOMAIN Default \cup {Exit, "EOF"}
         /\ \E text \in texts :
              tree' = Grown(NewTreeNode(it.sym, offset, offset, text), it.parent)
         /\ \E gap \in gaps : offset' = offset + 1 + gap
         /\ lastStop' = offset
         /\ work' = Tail(work)
  /\ UNCHANGED << table, bufferSize, fuel >>

\* Mutant: the stop of the EOF token does not wrap.
MatchEOF_NoWrap ==
  /\ work # << >>
  /\ Head(work).sym = "EOF"
  /\ lastStop' = offset - 1
  /\ tree' = Grown(NewTreeNode("EOF", offset, lastStop', "ok"), Head(work).parent)
  /\ bufferSize' = offset
  /\ work' = Tail(work)
  /\ UNCHANGED << table, offset, fuel >>

\* The EOF token starts at the end of the buffer and stops one byte before
\* it, which wraps when the buffer is empty.
MatchEOF ==
  /\ work # << >>
  /\ Head(work).sym = "EOF"
  /\ lastStop' = (offset - 1) % SizeMod
  /\ tree' = Grown(NewTreeNode("EOF", offset, lastStop', "ok"), Head(work).parent)
  /\ bufferSize' = offset
  /\ work' = Tail(work)
  /\ UNCHANGED << table, offset, fuel >>

ExitRule ==
  /\ work # << >>
  /\ Head(work).sym = Exit
  /\ tree' = [tree EXCEPT ![Head(work).parent].stop = lastStop]
  /\ work' = Tail(work)
  /\ UNCHANGED << table, bufferSize, offset, lastStop, fuel >>

\* The parser reported an error: recovery drops the rest of the file, and
\* whatever tree it leaves behind is not to be trusted.
Recover ==
  /\ work # << >>
  /\ work' = << >>
  /\ UNCHANGED << table, tree, bufferSize, offset, lastStop, fuel >>

Parsed == work = << >>

ParserStep == EnterRule \/ MatchToken \/ MatchEOF \/ ExitRule
=============================================================================
