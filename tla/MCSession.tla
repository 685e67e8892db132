------------------------------ MODULE MCSession ------------------------------
(***************************************************************************)
(* Several files parsed with one ASTContext and one DiagnosticsEngine:     *)
(* empty ones, clean ones, ones with a syntax error or with a literal the  *)
(* builder reports.                                                        *)
(***************************************************************************)
EXTENDS MCGrammar

\* The table with a bound on its choices.
Files(maxChoices) == Table(
  [Shortest EXCEPT
  !.variableDecl = << "VAL", "IDENTIFIER", "ASSIGNMENT", "expression" >>,
  !.primaryExpr = << "literalConstant" >>],
  [
  file |-> {<< "topLevelObject", "EOF" >>},
  declaration |-> {<< "variableDecl", "SEMICOLON" >>, << "visibilityModifier", "classDecl" >>},
  classDecl |-> {<< "CLASS", "IDENTIFIER", "typeParameters" >>} ],
  [INTEGER_LITERAL |-> {"ok", "bad"}], {0, 1}, maxChoices)

MCTables == [files |-> Files(3)]

FewTables == [files |-> Files(2)]
EmptyTables == [files |-> Files(0)]
=============================================================================
