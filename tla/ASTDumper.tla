------------------------------ MODULE ASTDumper ------------------------------
(***************************************************************************)
(* ast::dump: the tree of a Program as lines.  The recursion of dumpNode   *)
(* and dumpChildren is unrolled into the list of the children still to be  *)
(* printed, the next one first.  A line keeps its prefix (one element per  *)
(* level, TRUE for a bar and FALSE for blanks), whether its connector is   *)
(* the one of a last child, and its text: a label or the header of a node. *)
(* The text of names and values is not spelled out.                        *)
(***************************************************************************)
EXTENDS ASTNodes

Seqs == INSTANCE SequencesExt

VARIABLES
  OS,     \* the lines printed
  todo    \* the children to print: label, node, prefix, last

dumpVars == << OS, todo >>

-----------------------------------------------------------------------------
(* Headers.                                                                *)

getOpSymbol == [
  Add |-> "+", Sub |-> "-", Mult |-> "*", Div |-> "/", Mod |-> "%", Not |-> "!",
  Eq |-> "==", Neq |-> "!=", LShift |-> "<<", RShift |-> ">>", BitAnd |-> "&",
  BitXor |-> "^", BitOr |-> "|", BitNot |-> "~", Lt |-> "<", Gt |-> ">", Le |-> "<=",
  Ge |-> ">=", Disj |-> "||", Conj |-> "&&", In |-> "in", Is |-> "is", As |-> "as",
  AsQuest |-> "as?", Elvis |-> "?:", Assignment |-> "="]

getBuiltinTypeName == [
  VOID |-> "Void", BOOL |-> "Bool", INT |-> "Int", LONG |-> "Long", FLOAT |-> "Float",
  DOUBLE |-> "Double", CHAR |-> "Char", STRING |-> "String"]

getVisibilityName == [Public |-> "public", Private |-> "private", Protected |-> "protected"]

\* The kinds whose header dereferences an IdentifierInfo, and those that
\* print a StringRef.
NamedByInfo ==
  {"FunctionDecl", "ClassDecl", "VarDecl", "Parameter", "TypeRef", "Label", "TypeParam"}
NamedByText == {"ForEachStmt", "VarExpr", "MemberExpr"}
Jumps == {"ContinueExpr", "BreakExpr"}

\* The node whose name the header of n prints: a jump prints that of its
\* label, if it has one, and a catch clause that of its parameter.
NameHolder(n) ==
  LET kind == arena[n].kind
  IN  IF kind \in NamedByInfo \cup NamedByText THEN n
      ELSE IF kind \in Jumps /\ Children(n, "Pos") # << >> THEN Children(n, "Pos")[1]
      ELSE IF kind = "CatchClause" THEN Children(n, "Param")[1]
      ELSE Null

\* dumpHeader dereferences a null name.
BadName(n) ==
  /\ NameHolder(n) # Null
  /\ arena[NameHolder(n)].name = Null
  /\ arena[n].kind \notin NamedByText

\* Mutant: the explicit empty list of type arguments is not shown.
Marks_NoEmptyList(n) ==
  << arena[n].vis, arena[n].ops, arena[n].flags \ {"ExplicitTypeArgs"} >>

\* The attributes behind the name.
Marks(n) ==
  LET node == arena[n]
  IN  CASE node.kind \in {"FunctionDecl", "ClassDecl"} -> << getVisibilityName[node.vis] >>
        [] node.kind = "VarDecl" ->
             << getVisibilityName[node.vis] >> \o
             If("IsMutable" \in node.flags, << "mutable" >>)
        [] node.kind = "BuiltinType" -> << getBuiltinTypeName[node.ops[1]] >>
        [] node.kind \in {"AssignmentStmt", "UnaryExpr", "BinaryExpr", "ComparisonChainExpr"} ->
             [i \in DOMAIN node.ops |-> getOpSymbol[node.ops[i]]]
        [] node.kind \in {"TypeRef", "CallExpr"} ->
             If("ExplicitTypeArgs" \in node.flags, << "<>" >>)
        [] node.kind \in {"MemberExpr", "AsExpr"} ->
             If("NullSafe" \in node.flags, << "nullsafe" >>)
        [] OTHER -> << >>

dumpHeader(n) ==
  [label |-> "", node |-> n, kind |-> arena[n].kind, marks |-> Marks(n),
   name |-> IF NameHolder(n) = Null THEN Null ELSE arena[NameHolder(n)].name]

-----------------------------------------------------------------------------
(* Children.                                                               *)

\* The members collectChildren reads, in its order.
DeclChildren == [
  TopLevelObject |-> << "Decl" >>,
  FunctionDecl |-> << "Parameters", "ReturnType", "Body" >>,
  ClassDecl |-> << "TypeParams", "Members" >>,
  VarDecl |-> << "VarType", "Value" >>,
  Parameter |-> << "Type", "DefaultValue" >>,
  ArrayType |-> << "ElementType", "Size" >>,
  FunctionType |-> << "Parameters", "ReturnType" >> ]

StmtChildren == [
  Block |-> << "Statements" >>,
  DeclStatement |-> << "Declaration" >>,
  ExprStmt |-> << "Expression" >>,
  AssignmentStmt |-> << "LHS", "RHS" >>,
  IfStmt |-> << "Condition", "Then", "Else" >>,
  ForStmt |-> << "InitStmts", "Condition", "Update", "Body" >>,
  ForEachStmt |-> << "Scope", "Body" >>,
  WhileStmt |-> << "Condition", "Body" >>,
  DoWhileStmt |-> << "Body", "Condition" >>,
  TryStmt |-> << "Body", "CatchClauses", "Finally" >> ]

ExprChildren == [
  IfExpr |-> << "Condition", "Then", "Else" >>,
  ThrowExpr |-> << "Content" >>,
  ReturnExpr |-> << "Value" >>,
  UnaryExpr |-> << "Operand" >>,
  BinaryExpr |-> << "LHS", "RHS" >>,
  ComparisonChainExpr |-> << "Operands" >>,
  CallExpr |-> << "Callee", "TypeArgs", "Arguments" >>,
  IndexExpr |-> << "Base", "Index" >>,
  MemberExpr |-> << "Base" >>,
  IsExpr |-> << "Operand", "CheckType" >>,
  AsExpr |-> << "Operand", "TargetType" >>,
  CollectionExpr |-> << "Elements" >>,
  TypeRef |-> << "TypeArgs" >>,
  TypeParam |-> << "DefaultType" >>,
  CatchClause |-> << "Param", "Body" >> ]

ChildOrder(kind) ==
  IF kind \in DOMAIN DeclChildren THEN DeclChildren[kind]
  ELSE IF kind \in DOMAIN StmtChildren THEN StmtChildren[kind]
  ELSE IF kind \in DOMAIN ExprChildren THEN ExprChildren[kind]
  ELSE << >>

\* pushChild: one labelled child, none for a null pointer; appendChildren:
\* every element of a list, without a label.
Child(label, n) == [label |-> label, node |-> n]
pushChild(member, n) ==
  LET children == Children(n, member)
  IN  If(children # << >>, << Child(member, children[1]) >>)
appendChildren(member, n) ==
  LET children == Children(n, member)
  IN  [i \in DOMAIN children |-> Child("", children[i])]

\* Mutant: a list is labelled like a pointer, its other elements are lost.
collectChildren_Labelled(n) ==
  Seqs!FlattenSeq([i \in DOMAIN ChildOrder(arena[n].kind) |->
                     pushChild(ChildOrder(arena[n].kind)[i], n)])

collectChildren(n) ==
  LET order == ChildOrder(arena[n].kind)
      slots == [i \in DOMAIN order |->
                  IF order[i] \in ListMembers THEN appendChildren(order[i], n)
                  ELSE pushChild(order[i], n)]
  IN  Seqs!FlattenSeq(slots)

-----------------------------------------------------------------------------
(* Lines.                                                                  *)

Line(prefix, last, text) == [prefix |-> prefix, last |-> last, text |-> text]
LabelText(label) == [label |-> label]

\* What dumpChildren will do for a list of children.
Pending(children, prefix) ==
  [i \in DOMAIN children |->
     [child |-> children[i], prefix |-> prefix, last |-> i = Len(children)]]

NotDumping == OS = << >> /\ todo = << >>

\* dump(Program): the header of the program, and its objects below it.
StartDump(root) ==
  /\ OS' = << Line(<< >>, FALSE, dumpHeader(root)) >>
  /\ todo' = Pending(appendChildren("Objects", root), << >>)

\* The lines of one child: its label if it has one, which makes the node
\* the only line below it, and the header of the node.
LinesOf(c) ==
  LET header == dumpHeader(c.child.node)
  IN  IF c.child.label = "" THEN << Line(c.prefix, c.last, header) >>
      ELSE << Line(c.prefix, c.last, LabelText(c.child.label)),
              Line(Append(c.prefix, ~ c.last), TRUE, header) >>

\* Mutant: below a label the bar is always drawn.
SubPrefix_Label(c) ==
  IF c.child.label = "" THEN Append(c.prefix, ~ c.last) ELSE c.prefix \o << TRUE, FALSE >>

\* The prefix of the node's own children.
SubPrefix(c) ==
  IF c.child.label = "" THEN Append(c.prefix, ~ c.last)
  ELSE c.prefix \o << ~ c.last, FALSE >>

\* One turn of dumpChildren, with the dumpNode it calls.
dumpChild ==
  /\ todo # << >>
  /\ LET c == Head(todo)
         n == c.child.node
     IN  IF BadName(n) THEN crash' = "null_name" /\ UNCHANGED dumpVars
         ELSE /\ OS' = OS \o LinesOf(c)
              /\ todo' = Pending(collectChildren(n), SubPrefix(c)) \o Tail(todo)
              /\ UNCHANGED crash
=============================================================================
