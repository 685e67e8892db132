------------------------------ MODULE ASTNodes -------------------------------
(***************************************************************************)
(* The classes of the AST as the headers of ast/ declare them: the kinds   *)
(* in the order of NodeKind, the ranges classof tests, the members of each *)
(* kind with their declared class, and what the comments beside them say.  *)
(* A node of the arena must agree with all of it, although the builder     *)
(* only ever names the static type of the pointers it moves.               *)
(***************************************************************************)
EXTENDS ASTProperties

\* Mutant: a kind is added at the end of the enumeration.
NodeKind_Appended == <<
  "Program", "TopLevelObject", "FunctionDecl", "ClassDecl", "VarDecl", "Parameter",
  "TypeRef", "BuiltinType", "ArrayType", "FunctionType", "Block", "DeclStatement", "ExprStmt",
  "AssignmentStmt", "IfStmt", "ForStmt", "ForEachStmt", "WhileStmt", "DoWhileStmt",
  "NullLiteral", "BoolLiteral", "IntLiteral", "FloatLiteral", "StringLiteral", "CharLiteral",
  "VarExpr", "UnaryExpr", "BinaryExpr", "ComparisonChainExpr", "IfExpr", "ThrowExpr",
  "ReturnExpr", "ContinueExpr", "BreakExpr", "CallExpr", "IndexExpr", "MemberExpr", "IsExpr",
  "AsExpr", "ThisExpr", "CollectionExpr", "Label", "TypeParam", "CatchClause", "TryStmt" >>

\* The order matters: classof compares positions.
NodeKind == <<
  "Program", "TopLevelObject", "FunctionDecl", "ClassDecl", "VarDecl", "Parameter",
  "TypeRef", "BuiltinType", "ArrayType", "FunctionType", "Block", "DeclStatement", "ExprStmt",
  "AssignmentStmt", "IfStmt", "ForStmt", "ForEachStmt", "WhileStmt", "TryStmt", "DoWhileStmt",
  "NullLiteral", "BoolLiteral", "IntLiteral", "FloatLiteral", "StringLiteral", "CharLiteral",
  "VarExpr", "UnaryExpr", "BinaryExpr", "ComparisonChainExpr", "IfExpr", "ThrowExpr",
  "ReturnExpr", "ContinueExpr", "BreakExpr", "CallExpr", "IndexExpr", "MemberExpr", "IsExpr",
  "AsExpr", "ThisExpr", "CollectionExpr", "Label", "TypeParam", "CatchClause" >>

Position(kind) == CHOOSE i \in DOMAIN NodeKind : NodeKind[i] = kind
KindRange(first, last) == {NodeKind[i] : i \in Position(first)..Position(last)}

\* The kinds for which classof of a class answers true.
classof(class) ==
  CASE class = "Declaration" -> KindRange("FunctionDecl", "VarDecl")
    [] class = "Type" -> KindRange("TypeRef", "FunctionType")
    [] class = "Statement" -> KindRange("Block", "DoWhileStmt")
    [] class = "Expr" -> KindRange("NullLiteral", "CollectionExpr")
    [] OTHER -> {class}

-----------------------------------------------------------------------------
(* Members that hold nodes, by kind: member -> declared class.             *)

DeclMembers == [
  Program |-> [Objects |-> "TopLevelObject"],
  TopLevelObject |-> [Decl |-> "Declaration"],
  FunctionDecl |-> [Parameters |-> "Parameter", ReturnType |-> "Type", Body |-> "Block"],
  ClassDecl |-> [TypeParams |-> "TypeParam", Members |-> "Declaration"],
  VarDecl |-> [VarType |-> "Type", Value |-> "Expr"],
  Parameter |-> [Type |-> "Type", DefaultValue |-> "Expr"],
  TypeParam |-> [DefaultType |-> "Type"] ]

TypeMembers == [
  TypeRef |-> [TypeArgs |-> "Type"],
  ArrayType |-> [ElementType |-> "Type", Size |-> "Expr"],
  FunctionType |-> [Parameters |-> "Type", ReturnType |-> "Type"] ]

StmtMembers == [
  Block |-> [Statements |-> "Statement"],
  DeclStatement |-> [Declaration |-> "Declaration"],
  ExprStmt |-> [Expression |-> "Expr"],
  AssignmentStmt |-> [LHS |-> "Expr", RHS |-> "Expr"],
  IfStmt |-> [Condition |-> "Expr", Then |-> "Statement", Else |-> "Statement"],
  ForStmt |-> [InitStmts |-> "Declaration", Condition |-> "Expr", Update |-> "Statement",
               Body |-> "Block"],
  ForEachStmt |-> [Scope |-> "Expr", Body |-> "Block"],
  WhileStmt |-> [Condition |-> "Expr", Body |-> "Block"],
  DoWhileStmt |-> [Body |-> "Block", Condition |-> "Expr"],
  TryStmt |-> [Body |-> "Block", CatchClauses |-> "CatchClause", Finally |-> "Block"],
  CatchClause |-> [Param |-> "Parameter", Body |-> "Block"] ]

ExprMembers == [
  UnaryExpr |-> [Operand |-> "Expr"],
  BinaryExpr |-> [LHS |-> "Expr", RHS |-> "Expr"],
  ComparisonChainExpr |-> [Operands |-> "Expr"],
  IfExpr |-> [Condition |-> "Expr", Then |-> "Expr", Else |-> "Expr"],
  ThrowExpr |-> [Content |-> "Expr"],
  ReturnExpr |-> [Value |-> "Expr"],
  ContinueExpr |-> [Pos |-> "Label"],
  BreakExpr |-> [Pos |-> "Label"],
  CallExpr |-> [Callee |-> "Expr", Arguments |-> "Expr", TypeArgs |-> "Type"],
  IndexExpr |-> [Base |-> "Expr", Index |-> "Expr"],
  MemberExpr |-> [Base |-> "Expr"],
  IsExpr |-> [Operand |-> "Expr", CheckType |-> "Type"],
  AsExpr |-> [Operand |-> "Expr", TargetType |-> "Type"],
  CollectionExpr |-> [Elements |-> "Expr"] ]

MembersOf(kind) ==
  IF kind \in DOMAIN DeclMembers THEN DeclMembers[kind]
  ELSE IF kind \in DOMAIN TypeMembers THEN TypeMembers[kind]
  ELSE IF kind \in DOMAIN StmtMembers THEN StmtMembers[kind]
  ELSE IF kind \in DOMAIN ExprMembers THEN ExprMembers[kind]
  ELSE << >>

\* Members that are a SmallVector; the others are one pointer.
ListMembers ==
  {"Objects", "Parameters", "TypeParams", "Members", "TypeArgs", "Statements", "InitStmts",
   "CatchClauses", "Operands", "Arguments", "Elements"}

\* Pointers that may stay null in a finished AST.
Optional ==
  {<< "Parameter", "DefaultValue" >>, << "TypeParam", "DefaultType" >>,
   << "VarDecl", "VarType" >>, << "VarDecl", "Value" >>, << "IfStmt", "Else" >>,
   << "ForStmt", "Condition" >>, << "ForStmt", "Update" >>, << "TryStmt", "Finally" >>,
   << "IfExpr", "Else" >>, << "ReturnExpr", "Value" >>, << "ContinueExpr", "Pos" >>,
   << "BreakExpr", "Pos" >>}

Children(n, member) ==
  IF member \in DOMAIN arena[n].slots THEN arena[n].slots[member] ELSE << >>

-----------------------------------------------------------------------------

\* isa<> and dyn_cast<> will find every child to be what its member is
\* declared to hold: the kind of each child is in the range that classof of
\* the member's class tests, a pointer holds one node, and only the pointers
\* that stand for an optional part of the grammar are null.
MembersAsDeclared ==
  Complete =>
    \A n \in DOMAIN arena :
      LET members == MembersOf(arena[n].kind)
      IN  /\ DOMAIN arena[n].slots \subseteq DOMAIN members
          /\ \A m \in DOMAIN members :
               LET children == Children(n, m)
               IN  /\ \A i \in DOMAIN children : arena[children[i]].kind \in classof(members[m])
                   /\ m \notin ListMembers => Len(children) <= 1
                   /\ (m \notin ListMembers /\ << arena[n].kind, m >> \notin Optional)
                        => children # << >>

\* What the comments of the headers promise of a program without errors (so
\* not of the ASTs of files whose errors were printed before this one): a try
\* has a catch clause or a finally, and its clauses' parameters have no
\* default; an else is a block or another if; a chain has an operator per
\* gap, all ordering operators of one direction; a variable without a type
\* has a value, and one that is not mutable always has one.
ShapesAsDocumented ==
  (Complete /\ ~ HasErrors) =>
    \A n \in Root..Len(arena) :
      LET node == arena[n]
          kinds(m) == {arena[Children(n, m)[i]].kind : i \in DOMAIN Children(n, m)}
      IN  CASE node.kind = "TryStmt" ->
                 Children(n, "CatchClauses") # << >> \/ Children(n, "Finally") # << >>
            [] node.kind = "CatchClause" ->
                 Children(Children(n, "Param")[1], "DefaultValue") = << >>
            [] node.kind = "IfStmt" -> kinds("Else") \subseteq {"IfStmt", "Block"}
            [] node.kind = "ComparisonChainExpr" ->
                 /\ Len(node.ops) = Len(Children(n, "Operands")) - 1
                 /\ \/ \A i \in DOMAIN node.ops : node.ops[i] \in {"Lt", "Le"}
                    \/ \A i \in DOMAIN node.ops : node.ops[i] \in {"Gt", "Ge"}
            [] node.kind = "VarDecl" ->
                 /\ Children(n, "VarType") # << >> \/ Children(n, "Value") # << >>
                 /\ Children(n, "Value") = << >> => "IsMutable" \in node.flags
            [] OTHER -> TRUE
=============================================================================
