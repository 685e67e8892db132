------------------------------ MODULE MCGrammar ------------------------------
(***************************************************************************)
(* The shortest production of every rule.  A table of an MC module takes   *)
(* these as its Default, changes the few that lead to the construct it is  *)
(* about, and lists in its Choices the productions it explores.            *)
(***************************************************************************)
EXTENDS ASTInvariant, TLC

Id == << "IDENTIFIER" >>

Shortest == [
  file |-> << "EOF" >>, topLevelObject |-> << "declaration" >>,
  declaration |-> << "classDecl" >>, visibilityModifier |-> << "PRIVATE" >>,
  functionDecl |-> << "FUN", "IDENTIFIER", "LPAREN", "RPAREN", "ARROW", "type", "block" >>,
  classDecl |-> << "CLASS", "IDENTIFIER" >>, classBody |-> << "LBRACE", "RBRACE" >>,
  parameter |-> << "IDENTIFIER", "COLON", "type" >>,
  typeParameters |-> << "LT", "typeParameter", "GT" >>, typeParameter |-> Id,
  variableDecls |-> << "variableDecl" >>,
  variableDecl |-> << "VAR", "IDENTIFIER", "COLON", "type" >>,
  type |-> << "builtinType" >>, parenType |-> << "LPAREN", "type", "RPAREN" >>,
  typeRef |-> Id,
  functionType |-> << "FUN", "LPAREN", "RPAREN", "ARROW", "type" >>,
  paramTypeList |-> << "type" >>, typeArguments |-> << "LT", "GT" >>,
  typeArgument |-> << "type" >>, builtinType |-> << "INT" >>,
  block |-> << "LBRACE", "RBRACE" >>, statement |-> << "exprStmt" >>,
  declStatement |-> << "declaration" >>,
  assignment |-> << "postfixUnaryExpr", "assignmentOperator", "expression" >>,
  assignmentOperator |-> << "ASSIGNMENT" >>, controlStatement |-> << "whileStmt" >>,
  forStmt |-> << "FOR", "LPAREN", "SEMICOLON", "SEMICOLON", "RPAREN", "block" >>,
  forUpdate |-> << "expression" >>,
  forEachStmt |-> << "FOR", "LPAREN", "IDENTIFIER", "IN", "expression", "RPAREN", "block" >>,
  whileStmt |-> << "WHILE", "LPAREN", "expression", "RPAREN", "block" >>,
  doWhileStmt |-> << "DO", "block", "WHILE", "LPAREN", "expression", "RPAREN" >>,
  ifStmt |-> << "IF", "LPAREN", "expression", "RPAREN", "block" >>,
  tryStatement |-> << "TRY", "block", "FINALLY", "block" >>,
  catchClause |-> << "CATCH", "LPAREN", "IDENTIFIER", "COLON", "type", "RPAREN", "block" >>,
  exprStmt |-> << "expression", "SEMICOLON" >> ] @@ [
  expression |-> << "disjunction" >>, disjunction |-> << "conjunction" >>,
  conjunction |-> << "equality" >>, equalityOperator |-> << "EQ" >>,
  equality |-> << "comparison" >>, comparisonOperator |-> << "LT" >>,
  comparison |-> << "infixExpr" >>, inOperator |-> << "IN" >>, isOperator |-> << "IS" >>,
  infixExpr |-> << "elvisExpr" >>, elvisOperator |-> << "ELVIS" >>,
  elvisExpr |-> << "bitwiseOr" >>, bitwiseOr |-> << "bitwiseXor" >>,
  bitwiseXor |-> << "bitwiseAnd" >>, bitwiseAnd |-> << "bitwiseShift" >>,
  bitwiseShiftOperator |-> << "GT", "GT" >>, bitwiseShift |-> << "addition" >>,
  additionOperator |-> << "ADD" >>, addition |-> << "multiplication" >>,
  multiplicationOperator |-> << "MULT" >>, multiplication |-> << "asExpr" >>,
  asOperator |-> << "AS" >>, asExpr |-> << "prefixUnaryExpr" >>,
  unaryPrefix |-> << "prefixUnaryOperator" >>, prefixUnaryOperator |-> << "SUB" >>,
  prefixUnaryExpr |-> << "postfixUnaryExpr" >>, unaryPostfix |-> << "callSuffix" >>,
  callSuffix |-> << "LPAREN", "RPAREN" >>, valueArguments |-> << "valueArgument" >>,
  valueArgument |-> << "expression" >>,
  indexingSuffix |-> << "LBRACKET", "expression", "RBRACKET" >>,
  navigationSuffix |-> << "memberAccessOperator", "IDENTIFIER" >>,
  memberAccessOperator |-> << "DOT" >>, postfixUnaryExpr |-> << "primaryExpr" >>,
  primaryExpr |-> Id, parenExpr |-> << "LPAREN", "expression", "RPAREN" >>,
  literalConstant |-> << "INTEGER_LITERAL" >>, collectionLiteral |-> << "LBRACKET", "RBRACKET" >>,
  thisLiteral |-> << "THIS" >>,
  ifExpression |-> << "IF", "LPAREN", "expression", "RPAREN", "expression" >>,
  jumpExpression |-> << "BREAK" >>, label |-> << "AT", "IDENTIFIER" >> ]

\* A table of AstraParser; the rules that choices leaves out have none.
Table(default, choices, texts, blanks, maxChoices) == [
  Default |-> default, Choices |-> choices @@ [r \in Rules |-> {}],
  Texts |-> texts, Blanks |-> blanks, MaxChoices |-> maxChoices]
=============================================================================
