---------------------------- MODULE MCStructure -----------------------------
(***************************************************************************)
(* Files of declarations, of types, of statements, and of the expressions  *)
(* that are not operators.                                                 *)
(***************************************************************************)
EXTENDS MCGrammar

\* Functions with parameters and default values, classes with type parameters
\* and members, variables, visibilities.
Decls == Table(
  [Shortest EXCEPT !.file = << "topLevelObject", "EOF" >>],
  [
  file |-> {<< "topLevelObject", "topLevelObject", "EOF" >>},
  declaration |-> {<< "functionDecl" >>, << "visibilityModifier", "classDecl" >>,
                   << "visibilityModifier", "functionDecl" >>,
                   << "visibilityModifier", "variableDecl", "SEMICOLON" >>},
  visibilityModifier |-> {<< "PROTECTED" >>},
  functionDecl |-> {<< "FUN", "IDENTIFIER", "LPAREN", "parameter", "COMMA", "parameter",
                       "RPAREN", "ARROW", "type", "block" >>},
  parameter |-> {<< "IDENTIFIER", "COLON", "type", "ASSIGNMENT", "expression" >>},
  classDecl |-> {<< "CLASS", "IDENTIFIER", "typeParameters", "classBody" >>,
                 << "CLASS", "IDENTIFIER", "classBody" >>},
  classBody |-> {<< "LBRACE", "declaration", "declaration", "RBRACE" >>},
  typeParameters |-> {<< "LT", "typeParameter", "COMMA", "typeParameter", "GT" >>},
  typeParameter |-> {<< "IDENTIFIER", "ASSIGNMENT", "type" >>},
  variableDecl |-> {<< "VAL", "IDENTIFIER", "ASSIGNMENT", "expression" >>,
                    << "VAR", "IDENTIFIER", "COLON", "type", "ASSIGNMENT", "expression" >>} ],
  << >>, {0, 2}, 5)

\* A parameter whose type is built from every form of type: references with
\* type arguments, parentheses, arrays, function types, builtins.
Types == Table(
  [Shortest EXCEPT
  !.file = << "topLevelObject", "EOF" >>,
  !.declaration = << "functionDecl" >>,
  !.functionDecl = << "FUN", "IDENTIFIER", "LPAREN", "parameter", "RPAREN", "ARROW",
                      "type", "block" >>],
  [
  type |-> {<< "typeRef" >>, << "parenType" >>, << "functionType" >>,
            << "typeRef", "LBRACKET", "expression", "RBRACKET" >>,
            << "builtinType", "LBRACKET", "expression", "RBRACKET",
               "LBRACKET", "expression", "RBRACKET" >>,
            << "parenType", "LBRACKET", "expression", "RBRACKET" >>},
  typeRef |-> {<< "IDENTIFIER", "typeArguments" >>},
  typeArguments |-> {<< "LT", "typeArgument", "GT" >>},
  typeArgument |-> {<< "type", "COMMA", "type" >>},
  functionType |-> {<< "FUN", "LPAREN", "paramTypeList", "RPAREN", "ARROW", "type" >>},
  paramTypeList |-> {<< "type", "COMMA", "type" >>},
  builtinType |-> {<< "VOID" >>, << "STRING" >>} ],
  << >>, {0}, 4)

\* A function whose body is built from every form of statement.
Stmts == Table(
  [Shortest EXCEPT
  !.file = << "topLevelObject", "EOF" >>,
  !.declaration = << "functionDecl" >>,
  !.functionDecl = << "FUN", "IDENTIFIER", "LPAREN", "RPAREN", "ARROW", "type", "block" >>],
  [
  declaration |-> {<< "variableDecl", "SEMICOLON" >>, << "visibilityModifier", "classDecl" >>},
  block |-> {<< "LBRACE", "statement", "RBRACE" >>,
             << "LBRACE", "statement", "statement", "RBRACE" >>},
  statement |-> {<< "declStatement" >>, << "assignment", "SEMICOLON" >>, << "controlStatement" >>},
  assignmentOperator |-> {<< "RSHIFT_ASSIGNMENT" >>},
  controlStatement |-> {<< "forStmt" >>, << "forEachStmt" >>, << "doWhileStmt" >>,
                        << "ifStmt" >>, << "tryStatement" >>},
  forStmt |-> {<< "FOR", "LPAREN", "variableDecls", "SEMICOLON", "expression", "SEMICOLON",
                  "forUpdate", "RPAREN", "block" >>,
               << "FOR", "LPAREN", "SEMICOLON", "SEMICOLON", "forUpdate", "RPAREN", "block" >>},
  forUpdate |-> {<< "assignment" >>},
  variableDecls |-> {<< "variableDecl", "COMMA", "variableDecl" >>},
  ifStmt |-> {<< "IF", "LPAREN", "expression", "RPAREN", "block", "ELSE", "block" >>,
              << "IF", "LPAREN", "expression", "RPAREN", "block", "ELSE", "ifStmt" >>},
  tryStatement |-> {<< "TRY", "block", "catchClause" >>,
                    << "TRY", "block", "catchClause", "catchClause", "FINALLY", "block" >>} ],
  << >>, {0}, 5)

\* `val x = <expression>;` with every suffix and every primary expression:
\* calls with type arguments, named and spread arguments, indexing, member
\* access, literals, `if` and jump expressions.
Calls == Table(
  [Shortest EXCEPT
  !.file = << "topLevelObject", "EOF" >>,
  !.declaration = << "variableDecl", "SEMICOLON" >>,
  !.variableDecl = << "VAL", "IDENTIFIER", "ASSIGNMENT", "expression" >>,
  !.literalConstant = << "NULL_LITERAL" >>],
  [
  postfixUnaryExpr |-> {<< "primaryExpr", "unaryPostfix" >>,
                        << "primaryExpr", "unaryPostfix", "unaryPostfix" >>},
  unaryPostfix |-> {<< "indexingSuffix" >>, << "navigationSuffix" >>},
  memberAccessOperator |-> {<< "QUEST_DOT" >>, << "DOUBLE_COLON" >>},
  callSuffix |-> {<< "typeArguments", "LPAREN", "RPAREN" >>,
                  << "LPAREN", "valueArguments", "RPAREN" >>,
                  << "typeArguments", "LPAREN", "valueArguments", "RPAREN" >>},
  typeArguments |-> {<< "LT", "typeArgument", "GT" >>},
  type |-> {<< "typeRef" >>},
  valueArguments |-> {<< "valueArgument", "COMMA", "valueArgument" >>},
  valueArgument |-> {<< "IDENTIFIER", "ASSIGNMENT", "expression" >>, << "MULT", "expression" >>},
  primaryExpr |-> {<< "parenExpr" >>, << "literalConstant" >>, << "collectionLiteral" >>,
                   << "thisLiteral" >>, << "ifExpression" >>, << "jumpExpression" >>},
  literalConstant |-> {<< t >> : t \in LiteralTokens},
  collectionLiteral |-> {<< "LBRACKET", "expression", "COMMA", "expression", "RBRACKET" >>},
  ifExpression |-> {<< "IF", "LPAREN", "expression", "RPAREN", "expression",
                       "ELSE", "expression" >>},
  jumpExpression |-> {<< "THROW", "expression" >>, << "RETURN" >>, << "RETURN", "expression" >>,
                      << "CONTINUE" >>, << "CONTINUE", "label" >>, << "BREAK", "label" >>} ],
  << >>, {0}, 3)

MCTables == [decls |-> Decls, types |-> Types, stmts |-> Stmts, calls |-> Calls]

StmtsOnly == [stmts |-> Stmts]
=============================================================================
