------------------------------ MODULE MCDriver ------------------------------
(***************************************************************************)
(* The driver on files it cannot open, files with errors of the parser and *)
(* of the builder, and clean ones with nodes of every kind.                *)
(***************************************************************************)
EXTENDS MCGrammar, Astra

\* A function with one parameter and one statement, from which few choices
\* lead to each construct.
Kinds == Table(
  [Shortest EXCEPT
  !.file = << "topLevelObject", "EOF" >>,
  !.declaration = << "functionDecl" >>,
  !.functionDecl = << "FUN", "IDENTIFIER", "LPAREN", "parameter", "RPAREN", "ARROW", "type",
                      "block" >>,
  !.classDecl = << "CLASS", "IDENTIFIER", "typeParameters", "classBody" >>,
  !.typeParameter = << "IDENTIFIER", "ASSIGNMENT", "type" >>,
  !.functionType = << "FUN", "LPAREN", "paramTypeList", "RPAREN", "ARROW", "type" >>,
  !.typeArguments = << "LT", "typeArgument", "GT" >>,
  !.variableDecl = << "VAL", "IDENTIFIER", "COLON", "type", "ASSIGNMENT", "expression" >>,
  !.block = << "LBRACE", "statement", "RBRACE" >>,
  !.forStmt = << "FOR", "LPAREN", "variableDecls", "SEMICOLON", "expression", "SEMICOLON",
                 "forUpdate", "RPAREN", "block" >>,
  !.ifStmt = << "IF", "LPAREN", "expression", "RPAREN", "block", "ELSE", "block" >>,
  !.tryStatement = << "TRY", "block", "catchClause", "catchClause", "FINALLY", "block" >>,
  !.callSuffix = << "typeArguments", "LPAREN", "valueArguments", "RPAREN" >>,
  !.collectionLiteral = << "LBRACKET", "expression", "COMMA", "expression", "RBRACKET" >>,
  !.ifExpression = << "IF", "LPAREN", "expression", "RPAREN", "expression", "ELSE",
                      "expression" >>,
  !.jumpExpression = << "BREAK", "label" >>],
  [
  file |-> {<< "topLevelObject", "topLevelObject", "EOF" >>},
  declaration |-> {<< "visibilityModifier", "classDecl" >>, << "variableDecl", "SEMICOLON" >>},
  classBody |-> {<< "LBRACE", "declaration", "declaration", "RBRACE" >>},
  parameter |-> {<< "IDENTIFIER", "COLON", "type", "ASSIGNMENT", "expression" >>},
  variableDecl |-> {<< "VAR", "IDENTIFIER", "COLON", "type" >>},
  type |-> {<< "typeRef" >>, << "functionType" >>,
            << "builtinType", "LBRACKET", "expression", "RBRACKET" >>},
  typeRef |-> {<< "IDENTIFIER", "typeArguments" >>},
  block |-> {<< "LBRACE", "RBRACE" >>, << "LBRACE", "statement", "statement", "RBRACE" >>},
  statement |-> {<< "declStatement" >>, << "assignment", "SEMICOLON" >>, << "controlStatement" >>},
  controlStatement |-> {<< "forStmt" >>, << "forEachStmt" >>, << "doWhileStmt" >>,
                        << "ifStmt" >>, << "tryStatement" >>},
  tryStatement |-> {<< "TRY", "block", "FINALLY", "block" >>},
  comparison |-> {<< "infixExpr", "comparisonOperator", "infixExpr", "comparisonOperator",
                     "infixExpr", "comparisonOperator", "infixExpr" >>},
  comparisonOperator |-> {<< "GE" >>},
  infixExpr |-> {<< "elvisExpr", "isOperator", "type" >>},
  addition |-> {<< "multiplication", "additionOperator", "multiplication" >>},
  asExpr |-> {<< "prefixUnaryExpr", "asOperator", "type" >>},
  prefixUnaryExpr |-> {<< "unaryPrefix", "postfixUnaryExpr" >>},
  postfixUnaryExpr |-> {<< "primaryExpr", "unaryPostfix" >>},
  unaryPostfix |-> {<< "indexingSuffix" >>, << "navigationSuffix" >>},
  memberAccessOperator |-> {<< "QUEST_DOT" >>},
  primaryExpr |-> {<< "literalConstant" >>, << "collectionLiteral" >>, << "thisLiteral" >>,
                   << "ifExpression" >>, << "jumpExpression" >>},
  jumpExpression |-> {<< "THROW", "expression" >>, << "RETURN" >>, << "RETURN", "expression" >>,
                      << "CONTINUE", "label" >>} ],
  << >>, {0}, 2)

\* Two variables, which can be alike but for one mark.
Marked == Table(
  [Shortest EXCEPT
  !.file = << "topLevelObject", "topLevelObject", "EOF" >>,
  !.declaration = << "variableDecl", "SEMICOLON" >>,
  !.variableDecl = << "VAL", "IDENTIFIER", "ASSIGNMENT", "expression" >>,
  !.typeRef = << "IDENTIFIER", "typeArguments" >>,
  !.postfixUnaryExpr = << "primaryExpr", "unaryPostfix" >>],
  [
  declaration |-> {<< "visibilityModifier", "variableDecl", "SEMICOLON" >>},
  visibilityModifier |-> {<< "PROTECTED" >>},
  variableDecl |-> {<< "VAR", "IDENTIFIER", "ASSIGNMENT", "expression" >>,
                    << "VAL", "IDENTIFIER", "COLON", "type", "ASSIGNMENT", "expression" >>},
  type |-> {<< "typeRef" >>},
  typeRef |-> {<< "IDENTIFIER" >>},
  bitwiseShift |-> {<< "addition", "bitwiseShiftOperator", "addition" >>},
  bitwiseShiftOperator |-> {<< "LSHIFT" >>},
  asExpr |-> {<< "prefixUnaryExpr", "asOperator", "type" >>},
  asOperator |-> {<< "AS", "QUEST" >>},
  unaryPostfix |-> {<< "navigationSuffix" >>},
  callSuffix |-> {<< "typeArguments", "LPAREN", "RPAREN" >>},
  memberAccessOperator |-> {<< "QUEST_DOT" >>},
  postfixUnaryExpr |-> {<< "primaryExpr" >>},
  primaryExpr |-> {<< "literalConstant" >>} ],
  [INTEGER_LITERAL |-> {"ok", "bad"}], {0}, 2)

MCTables == [kinds |-> Kinds, marked |-> Marked]
=============================================================================
