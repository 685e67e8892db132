---------------------------- MODULE MCOperators -----------------------------
(***************************************************************************)
(* `val x = <expression>;` with operators: every level of the grammar,     *)
(* parentheses, and what the grammar accepts and the builder reports.      *)
(***************************************************************************)
EXTENDS MCGrammar

Chain(sub, op) == {<< sub, op, sub >>, << sub, op, sub, op, sub >>}

\* Every binary, prefix, `is` and `as` level, alone, chained, and one inside
\* another.
Binary == Table(
  [Shortest EXCEPT
  !.file = << "topLevelObject", "EOF" >>,
  !.declaration = << "variableDecl", "SEMICOLON" >>,
  !.variableDecl = << "VAL", "IDENTIFIER", "ASSIGNMENT", "expression" >>],
  [
  disjunction |-> Chain("conjunction", "DISJ"),
  conjunction |-> Chain("equality", "CONJ"),
  equality |-> {<< "comparison", "equalityOperator", "comparison" >>},
  comparison |-> Chain("infixExpr", "comparisonOperator"),
  comparisonOperator |-> {<< "GE" >>},
  infixExpr |-> {<< "elvisExpr", "inOperator", "elvisExpr", "isOperator", "type" >>,
                 << "elvisExpr", "isOperator", "type", "inOperator", "elvisExpr" >>},
  elvisExpr |-> Chain("bitwiseOr", "elvisOperator"),
  bitwiseOr |-> Chain("bitwiseXor", "BIT_OR"),
  bitwiseXor |-> Chain("bitwiseAnd", "BIT_XOR"),
  bitwiseAnd |-> Chain("bitwiseShift", "BIT_AND"),
  bitwiseShift |-> Chain("addition", "bitwiseShiftOperator"),
  bitwiseShiftOperator |-> {<< "LSHIFT" >>},
  addition |-> Chain("multiplication", "additionOperator"),
  additionOperator |-> {<< "SUB" >>},
  multiplication |-> Chain("asExpr", "multiplicationOperator"),
  asExpr |-> {<< "prefixUnaryExpr", "asOperator", "type" >>},
  asOperator |-> {<< "AS", "QUEST" >>},
  prefixUnaryExpr |-> {<< "unaryPrefix", "unaryPrefix", "postfixUnaryExpr" >>},
  prefixUnaryOperator |-> {<< "NOT" >>} ],
  << >>, {0}, 2)

\* Parentheses around, under and beside sums, products, comparisons and
\* prefixes: they leave no node behind.
Parens == Table(
  [Shortest EXCEPT
  !.file = << "topLevelObject", "EOF" >>,
  !.declaration = << "variableDecl", "SEMICOLON" >>,
  !.variableDecl = << "VAL", "IDENTIFIER", "ASSIGNMENT", "expression" >>,
  !.comparisonOperator = << "LE" >>],
  [
  comparison |-> {<< "infixExpr", "comparisonOperator", "infixExpr",
                     "comparisonOperator", "infixExpr" >>},
  addition |-> {<< "multiplication", "additionOperator", "multiplication",
                   "additionOperator", "multiplication" >>},
  multiplication |-> {<< "asExpr", "multiplicationOperator", "asExpr" >>},
  prefixUnaryExpr |-> {<< "unaryPrefix", "unaryPrefix", "postfixUnaryExpr" >>},
  primaryExpr |-> {<< "parenExpr" >>} ],
  << >>, {0}, 4)

\* A spaced `>>`, a mixed comparison chain, a `>` before an argument list, bad
\* literals.  The chains use <= and >= only: with < and > the parser would take
\* some of them for calls with type arguments.
Errors == Table(
  [Shortest EXCEPT
  !.file = << "topLevelObject", "EOF" >>,
  !.declaration = << "variableDecl", "SEMICOLON" >>,
  !.variableDecl = << "VAL", "IDENTIFIER", "ASSIGNMENT", "expression" >>,
  !.comparisonOperator = << "LE" >>],
  [
  comparison |-> {<< "infixExpr", "typeArguments", "GT", "LPAREN", "valueArguments", "RPAREN" >>,
                  << "infixExpr", "comparisonOperator", "infixExpr", "comparisonOperator",
                     "infixExpr", "comparisonOperator", "infixExpr" >>},
  comparisonOperator |-> {<< "GE" >>},
  typeArguments |-> {<< "LT", "typeArgument", "GT" >>},
  bitwiseShift |-> {<< "addition", "bitwiseShiftOperator", "addition" >>},
  primaryExpr |-> {<< "literalConstant" >>},
  literalConstant |-> {<< "STRING_LITERAL" >>, << "CHAR_LITERAL" >>, << "DOUBLE_LITERAL" >>} ],
  [t \in DOMAIN LiteralFault |-> {"ok", "bad"}], {0}, 3)

MCTables == [binary |-> Binary, parens |-> Parens, errors |-> Errors]
=============================================================================
