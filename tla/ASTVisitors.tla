----------------------------- MODULE ASTVisitors -----------------------------
(***************************************************************************)
(* What the visitor functions of ASTBuilder do.  A visitX function of the  *)
(* source is the operator of the same name: what it will do for a context, *)
(* as code for the machine of module ASTBuilder.  The conditions of the    *)
(* visitors read only the parse tree, which does not change, so the code   *)
(* of a call is known when the call is made; what the code does to the     *)
(* arena, the call stack and the diagnostics happens one instruction at a  *)
(* time.                                                                   *)
(*                                                                         *)
(* Code is a sequence of blocks (one per loop iteration where the visitor  *)
(* loops, else one block) and a block is a sequence of instructions.  A    *)
(* call keeps two locals: res, the visitor's Result, and obj, the node it  *)
(* is filling.  What a visitor returns is a std::any, whose type is the    *)
(* static type of the pointer that was returned.                           *)
(***************************************************************************)
EXTENDS ParseTree, FiniteSets

-----------------------------------------------------------------------------
(* Nodes and ranges.                                                       *)

\* getRange(Start, Stop) is [Start, Stop + 1), with the stop clamped.
RangeEnd(to) ==
  LET stop == tree[to].stop
  IN  (IF stop >= bufferSize THEN bufferSize ELSE stop) + 1

\* A node as its constructor leaves it, with Range set.  name is the token
\* whose text the node keeps (identifiers are told apart by their token).
Node(kind, from, to) ==
  [kind |-> kind, start |-> tree[from].start, end |-> RangeEnd(to), name |-> Null,
   ops |-> << >>, flags |-> {}, vis |-> "Public", slots |-> << >>]

Named(node, c) == [node EXCEPT !.name = The(c, "IDENTIFIER")]
WithOp(node, op) == [node EXCEPT !.ops = << op >>]
Flagged(node, flag, cond) == IF cond THEN [node EXCEPT !.flags = @ \cup {flag}] ELSE node

-----------------------------------------------------------------------------
(* Instructions.                                                           *)

Result == "Result"   \* the local, where other slots are members of obj

New(node) == [do |-> "new", node |-> node]
Sub(node) == [do |-> "sub", node |-> node]        \* allocated beside Result
Wrap(node, slot) == [do |-> "wrap", node |-> node, slot |-> slot]
Attach(slot) == [do |-> "attach", slot |-> slot]  \* obj becomes a child of Result
SetVis(vis) == [do |-> "vis", vis |-> vis]
Error(from, to, message) ==
  [do |-> "report", start |-> tree[from].start, end |-> RangeEnd(to), message |-> message]

\* visit(child), any_cast to the type `as`, and the store of the pointer.
Get(as, child, slot) == [do |-> "get", as |-> as, child |-> child, slot |-> slot]
getDecl(child, slot) == Get("Declaration", child, slot)
getType(child, slot) == Get("Type", child, slot)
getStmt(child, slot) == Get("Statement", child, slot)
getBlock(child, slot) == Get("Block", child, slot)
getExpr(child, slot) == Get("Expr", child, slot)

\* Mutant: the list is built back to front.
GetAll_Reversed(as, children, slot) ==
  [i \in DOMAIN children |-> Get(as, children[Len(children) + 1 - i], slot)]

\* The loop that visits children and appends the results to a member.
GetAll(as, children, slot) == [i \in DOMAIN children |-> Get(as, children[i], slot)]

If(cond, code) == IF cond THEN code ELSE << >>

\* The code of a visitor that returns a pointer of static type `any`.
Visitor(any, block) == [any |-> any, code |-> << block >>]
Loop(any, blocks) == [any |-> any, code |-> blocks]

\* `return visit(child)`: the std::any passes through untouched.
Forward(child) == Visitor("any", << Get("any", child, Result) >>)

\* Mutant: the range starts at the previous operand.
Fold_FromPrevious(c, sub, i, op, reports) ==
  << Wrap(WithOp(Node("BinaryExpr", Nth(c, sub, i), Nth(c, sub, i + 1)), op), "LHS") >> \o
  reports \o << getExpr(Nth(c, sub, i + 1), "RHS") >>

\* Mutant: left and right are swapped.
Fold_Swapped(c, sub, i, op, reports) ==
  << Wrap(WithOp(Node("BinaryExpr", The(c, sub), Nth(c, sub, i + 1)), op), "RHS") >> \o
  reports \o << getExpr(Nth(c, sub, i + 1), "LHS") >>

\* One turn of foldLeftAssoc: the result so far and the next sub-expression,
\* with what the call of GetOp reports in between.
Fold(c, sub, i, op, reports) ==
  << Wrap(WithOp(Node("BinaryExpr", The(c, sub), Nth(c, sub, i + 1)), op), "LHS") >> \o
  reports \o << getExpr(Nth(c, sub, i + 1), "RHS") >>

\* foldLeftAssoc(Ctx->sub(), Ops, GetOp): a sub-expression and the operator
\* before the next, from the left.
foldLeftAssoc(c, sub, Op(_), Reports(_)) ==
  Loop("Expr", << << getExpr(The(c, sub), Result) >> >> \o
    [i \in 1..(Len(Kids(c, sub)) - 1) |-> Fold(c, sub, i, Op(i), Reports(i))])

Silent(i) == << >>

-----------------------------------------------------------------------------
(* Operator tables.                                                        *)

Visibility == [PUBLIC |-> "Public", PRIVATE |-> "Private", PROTECTED |-> "Protected"]
getVisibility(mod) == Visibility[GetToken(mod, DOMAIN Visibility)]

BinaryOp == [
  ADD |-> "Add", SUB |-> "Sub", MULT |-> "Mult", DIV |-> "Div", MOD |-> "Mod",
  EQ |-> "Eq", NEQ |-> "Neq", LT |-> "Lt", GT |-> "Gt", LE |-> "Le", GE |-> "Ge",
  LSHIFT |-> "LShift", BIT_AND |-> "BitAnd", BIT_OR |-> "BitOr", BIT_XOR |-> "BitXor"]
getBinaryOp(op) == BinaryOp[GetToken(op, DOMAIN BinaryOp)]

PrefixUnaryOp == [ADD |-> "Add", SUB |-> "Sub", NOT |-> "Not", BIT_NOT |-> "BitNot"]
getPrefixUnaryOp(op) == PrefixUnaryOp[GetToken(op, DOMAIN PrefixUnaryOp)]

AssignmentOp == [
  ASSIGNMENT |-> "Assignment", ADD_ASSIGNMENT |-> "Add", SUB_ASSIGNMENT |-> "Sub",
  MULT_ASSIGNMENT |-> "Mult", DIV_ASSIGNMENT |-> "Div", MOD_ASSIGNMENT |-> "Mod",
  BIT_AND_ASSIGNMENT |-> "BitAnd", BIT_OR_ASSIGNMENT |-> "BitOr",
  BIT_XOR_ASSIGNMENT |-> "BitXor", LSHIFT_ASSIGNMENT |-> "LShift",
  RSHIFT_ASSIGNMENT |-> "RShift"]

-----------------------------------------------------------------------------
(* Declarations.                                                           *)

visitFile(c) == Visitor("Program",
  << New(Node("Program", c, c)) >> \o
  GetAll("TopLevelObject", Kids(c, "topLevelObject"), "Objects"))

\* Mutant: the object is allocated over the declaration it should own.
visitTopLevelObject_Over(c) == Visitor("TopLevelObject",
  << getDecl(The(c, "declaration"), Result), New(Node("TopLevelObject", c, c)) >>)

visitTopLevelObject(c) == Visitor("TopLevelObject",
  << New(Node("TopLevelObject", c, c)), getDecl(The(c, "declaration"), "Decl") >>)

visitDeclaration(c) ==
  LET mod == The(c, "visibilityModifier")
  IN  Visitor("Declaration",
        << getDecl(available(c, << "functionDecl", "variableDecl", "classDecl" >>), Result) >> \o
        If(mod # Null, << SetVis(getVisibility(mod)) >>))

visitFunctionDecl(c) == Visitor("Declaration",
  << New(Named(Node("FunctionDecl", c, c), c)),
     getBlock(The(c, "block"), "Body"),
     getType(The(c, "type"), "ReturnType") >> \o
  GetAll("Parameter", Kids(c, "parameter"), "Parameters"))

visitClassDecl(c) ==
  LET params == The(c, "typeParameters")
      body == The(c, "classBody")
      typeParam(p) ==
        << Sub(Named(Node("TypeParam", p, p), p)) >> \o
        If(Has(p, "type"), << getType(The(p, "type"), "DefaultType") >>) \o
        << Attach("TypeParams") >>
      list == IF params # Null THEN Kids(params, "typeParameter") ELSE << >>
  IN  Loop("Declaration",
        << << New(Named(Node("ClassDecl", c, c), c)) >> >> \o
        [i \in DOMAIN list |-> typeParam(list[i])] \o
        << If(body # Null, GetAll("Declaration", Kids(body, "declaration"), "Members")) >>)

visitParameter(c) == Visitor("Parameter",
  << New(Named(Node("Parameter", c, c), c)), getType(The(c, "type"), "Type") >> \o
  If(Has(c, "expression"), << getExpr(The(c, "expression"), "DefaultValue") >>))

\* Mutant: the any holds the derived pointer.
visitVariableDecl_Derived(c) == Visitor("VarDecl",
  << New(Flagged(Named(Node("VarDecl", c, c), c), "IsMutable", Has(c, "VAR"))) >> \o
  If(Has(c, "type"), << getType(The(c, "type"), "VarType") >>) \o
  If(Has(c, "expression"), << getExpr(The(c, "expression"), "Value") >>))

visitVariableDecl(c) == Visitor("Declaration",
  << New(Flagged(Named(Node("VarDecl", c, c), c), "IsMutable", Has(c, "VAR"))) >> \o
  If(Has(c, "type"), << getType(The(c, "type"), "VarType") >>) \o
  If(Has(c, "expression"), << getExpr(The(c, "expression"), "Value") >>))

-----------------------------------------------------------------------------
(* Types.                                                                  *)

\* Mutant: every array ends at the first bracket.
visitType_FirstBracket(c) ==
  LET sizes == Kids(c, "expression")
  IN  IF Has(c, "functionType") THEN Forward(The(c, "functionType"))
      ELSE Loop("Type",
        << << getType(available(c, << "parenType", "typeRef", "builtinType" >>), Result) >> >> \o
        [i \in DOMAIN sizes |->
           << Wrap(Node("ArrayType", c, The(c, "RBRACKET")), "ElementType"),
              getExpr(sizes[i], "Size") >>])

visitType(c) ==
  LET sizes == Kids(c, "expression")
  IN  IF Has(c, "functionType") THEN Forward(The(c, "functionType"))
      ELSE Loop("Type",
        << << getType(available(c, << "parenType", "typeRef", "builtinType" >>), Result) >> >> \o
        [i \in DOMAIN sizes |->
           << Wrap(Node("ArrayType", c, Nth(c, "RBRACKET", i)), "ElementType"),
              getExpr(sizes[i], "Size") >>])

visitParenType(c) == Forward(The(c, "type"))

\* The type arguments a typeArguments child lists, none when it is `<>`.
TypeArgs(c) ==
  If(Has(c, "typeArguments") /\ Has(The(c, "typeArguments"), "typeArgument"),
     GetAll("Type", Kids(The(The(c, "typeArguments"), "typeArgument"), "type"), "TypeArgs"))

visitTypeRef(c) == Visitor("Type",
  << New(Flagged(Named(Node("TypeRef", c, c), c),
                 "ExplicitTypeArgs", Has(c, "typeArguments"))) >> \o
  TypeArgs(c))

visitFunctionType(c) ==
  LET list == The(c, "paramTypeList")
  IN  Visitor("Type",
        << New(Node("FunctionType", c, c)), getType(The(c, "type"), "ReturnType") >> \o
        If(list # Null, GetAll("Type", Kids(list, "type"), "Parameters")))

BuiltinTypes == {"VOID", "BOOL", "INT", "LONG", "FLOAT", "DOUBLE", "CHAR", "STRING"}

visitBuiltinType(c) == Visitor("Type",
  << New(WithOp(Node("BuiltinType", c, c), GetToken(c, BuiltinTypes))) >>)

-----------------------------------------------------------------------------
(* Statements.                                                             *)

visitBlock(c) == Visitor("Block",
  << New(Node("Block", c, c)) >> \o GetAll("Statement", Kids(c, "statement"), "Statements"))

visitStatement(c) == Forward(
  available(c, << "declStatement", "assignment", "controlStatement", "exprStmt" >>))

visitDeclStatement(c) == Visitor("Statement",
  << New(Node("DeclStatement", c, c)), getDecl(The(c, "declaration"), "Declaration") >>)

visitAssignment(c) ==
  LET op == GetToken(The(c, "assignmentOperator"), DOMAIN AssignmentOp)
  IN  Visitor("Statement",
        << New(WithOp(Node("AssignmentStmt", c, c), AssignmentOp[op])),
           getExpr(The(c, "postfixUnaryExpr"), "LHS"),
           getExpr(The(c, "expression"), "RHS") >>)

visitControlStatement(c) == Forward(
  available(c, << "forStmt", "forEachStmt", "whileStmt", "doWhileStmt", "ifStmt",
                  "tryStatement" >>))

visitForStmt(c) ==
  LET decls == The(c, "variableDecls")
  IN  Visitor("Statement",
        << New(Node("ForStmt", c, c)) >> \o
        If(decls # Null, GetAll("Declaration", Kids(decls, "variableDecl"), "InitStmts")) \o
        If(Has(c, "expression"), << getExpr(The(c, "expression"), "Condition") >>) \o
        If(Has(c, "forUpdate"), << getStmt(The(c, "forUpdate"), "Update") >>) \o
        << getBlock(The(c, "block"), "Body") >>)

\* Mutant: the ExprStmt is allocated before the test.
visitForUpdate_Leak(c) ==
  Visitor("Statement",
    << New(Node("ExprStmt", c, c)) >> \o
    IF Has(c, "assignment") THEN << getStmt(The(c, "assignment"), Result) >>
    ELSE << getExpr(The(c, "expression"), "Expression") >>)

\* Mutant: the pointer is returned as an ExprStmt.
visitForUpdate_Derived(c) ==
  Visitor(IF Has(c, "assignment") THEN "Statement" ELSE "ExprStmt",
    IF Has(c, "assignment") THEN << getStmt(The(c, "assignment"), Result) >>
    ELSE << New(Node("ExprStmt", c, c)), getExpr(The(c, "expression"), "Expression") >>)

visitForUpdate(c) == Visitor("Statement",
  IF Has(c, "assignment") THEN << getStmt(The(c, "assignment"), Result) >>
  ELSE << New(Node("ExprStmt", c, c)), getExpr(The(c, "expression"), "Expression") >>)

visitForEachStmt(c) == Visitor("Statement",
  << New(Named(Node("ForEachStmt", c, c), c)),
     getExpr(The(c, "expression"), "Scope"), getBlock(The(c, "block"), "Body") >>)

visitWhileStmt(c) == Visitor("Statement",
  << New(Node("WhileStmt", c, c)),
     getExpr(The(c, "expression"), "Condition"), getBlock(The(c, "block"), "Body") >>)

visitDoWhileStmt(c) == Visitor("Statement",
  << New(Node("DoWhileStmt", c, c)),
     getBlock(The(c, "block"), "Body"), getExpr(The(c, "expression"), "Condition") >>)

\* Mutant: an else is always taken for a block.
visitIfStmt_ElseBlock(c) ==
  Visitor("Statement",
    << New(Node("IfStmt", c, c)),
       getExpr(The(c, "expression"), "Condition"),
       getBlock(Nth(c, "block", 1), "Then") >> \o
    If(Has(c, "ELSE"), << getBlock(Nth(c, "block", 2), "Else") >>))

visitIfStmt(c) == Visitor("Statement",
  << New(Node("IfStmt", c, c)),
     getExpr(The(c, "expression"), "Condition"),
     getBlock(Nth(c, "block", 1), "Then") >> \o
  If(Has(c, "ELSE"),
     IF Has(c, "ifStmt") THEN << getStmt(The(c, "ifStmt"), "Else") >>
     ELSE << getBlock(Nth(c, "block", 2), "Else") >>))

\* Mutant: finally takes block().front().
visitTryStatement_FirstBlock(c) ==
  Visitor("Statement",
    << New(Node("TryStmt", c, c)), getBlock(Nth(c, "block", 1), "Body") >> \o
    GetAll("CatchClause", Kids(c, "catchClause"), "CatchClauses") \o
    If(Has(c, "FINALLY"), << getBlock(Nth(c, "block", 1), "Finally") >>))

visitTryStatement(c) == Visitor("Statement",
  << New(Node("TryStmt", c, c)), getBlock(Nth(c, "block", 1), "Body") >> \o
  GetAll("CatchClause", Kids(c, "catchClause"), "CatchClauses") \o
  If(Has(c, "FINALLY"),
     << getBlock(Nth(c, "block", Len(Kids(c, "block"))), "Finally") >>))

\* Mutant: the exception has no name.
visitCatchClause_Unnamed(c) ==
  Visitor("CatchClause",
    << New(Node("CatchClause", c, c)), Sub(Node("Parameter", c, c)),
       getType(The(c, "type"), "Type"), Attach("Param"), getBlock(The(c, "block"), "Body") >>)

\* The parameter is allocated here, and its range is that of the clause.
visitCatchClause(c) == Visitor("CatchClause",
  << New(Node("CatchClause", c, c)),
     Sub(Named(Node("Parameter", c, c), c)),
     getType(The(c, "type"), "Type"),
     Attach("Param"),
     getBlock(The(c, "block"), "Body") >>)

visitExprStmt(c) == Visitor("Statement",
  << New(Node("ExprStmt", c, c)), getExpr(The(c, "expression"), "Expression") >>)

-----------------------------------------------------------------------------
(* Expressions, from the loosest operator to the tightest.                 *)

visitExpression(c) == Forward(The(c, "disjunction"))

visitDisjunction(c) == foldLeftAssoc(c, "conjunction", LAMBDA i : "Disj", Silent)

visitConjunction(c) == foldLeftAssoc(c, "equality", LAMBDA i : "Conj", Silent)

visitEquality(c) == foldLeftAssoc(c, "comparison",
  LAMBDA i : getBinaryOp(Nth(c, "equalityOperator", i)), Silent)

\* The arguments of a call; their names and spreads are dropped.
Arguments(c) ==
  LET args == Kids(The(c, "valueArguments"), "valueArgument")
  IN  If(Has(c, "valueArguments"),
         [i \in DOMAIN args |-> getExpr(The(args[i], "expression"), "Arguments")])

\* `foo<Int>>(x)`: reported, and built as the call it looks like.
DanglingCall(c) == Visitor("Expr",
  << Error(The(c, "GT"), The(c, "GT"), "expected '(' after type argument list"),
     New(Flagged(Node("CallExpr", c, c), "ExplicitTypeArgs", TRUE)),
     getExpr(Nth(c, "infixExpr", 1), "Callee") >> \o
  TypeArgs(c) \o Arguments(c))

Ascending(op) == op \in {"Lt", "Le"}

\* Mutant: Mixed is overwritten instead of accumulated.
ComparisonChain_LastPair(c, ops) ==
  Visitor("Expr",
    << New([Node("ComparisonChainExpr", c, c) EXCEPT !.ops = ops]) >> \o
    GetAll("Expr", Kids(c, "infixExpr"), "Operands") \o
    If(Ascending(ops[Len(ops)]) # Ascending(ops[1]),
       << Error(c, c, "comparison chain with mixed operators") >>))

\* `a < b <= c`: one node for the chain, whose operators must all point in
\* the direction of the first.
ComparisonChain(c, ops) == Visitor("Expr",
  << New([Node("ComparisonChainExpr", c, c) EXCEPT !.ops = ops]) >> \o
  GetAll("Expr", Kids(c, "infixExpr"), "Operands") \o
  If(\E i \in DOMAIN ops : Ascending(ops[i]) # Ascending(ops[1]),
     << Error(c, c, "comparison chain with mixed operators") >>))

visitComparison(c) ==
  LET kids == Kids(c, "comparisonOperator")
      ops == [i \in DOMAIN kids |-> getBinaryOp(kids[i])]
  IN  IF Has(c, "typeArguments") THEN DanglingCall(c)
      ELSE IF Len(ops) < 2
      THEN foldLeftAssoc(c, "infixExpr", LAMBDA i : ops[i], Silent)
      ELSE ComparisonChain(c, ops)

\* `a in b is T`: the two lists of operators are merged by source position.
visitInfixExpr(c) ==
  LET first == The(c, "elvisExpr")
      Elements(list) == {list[i] : i \in DOMAIN list}
      ins == Elements(Kids(c, "inOperator"))
      ops == ins \cup Elements(Kids(c, "isOperator"))
      upTo(o, S) == Cardinality({p \in S : tree[p].start <= tree[o].start})
      op(i) == CHOOSE o \in ops : upTo(o, ops) = i
      step(i) ==
        LET j == upTo(op(i), ins)
            sub == Nth(c, "elvisExpr", j + 1)
            type == Nth(c, "type", i - j)
        IN  IF op(i) \in ins
            THEN << Wrap(WithOp(Node("BinaryExpr", first, sub), "In"), "LHS"),
                    getExpr(sub, "RHS") >>
            ELSE << Wrap(Node("IsExpr", first, type), "Operand"),
                    getType(type, "CheckType") >>
  IN  Loop("Expr", << << getExpr(first, Result) >> >> \o
        [i \in 1..(Len(Kids(c, "inOperator")) + Len(Kids(c, "isOperator"))) |-> step(i)])

visitElvisExpr(c) == foldLeftAssoc(c, "bitwiseOr", LAMBDA i : "Elvis", Silent)

visitBitwiseOr(c) == foldLeftAssoc(c, "bitwiseXor", LAMBDA i : "BitOr", Silent)

visitBitwiseXor(c) == foldLeftAssoc(c, "bitwiseAnd", LAMBDA i : "BitXor", Silent)

visitBitwiseAnd(c) == foldLeftAssoc(c, "bitwiseShift", LAMBDA i : "BitAnd", Silent)

\* `>>` is two GT tokens; apart from each other they are reported.
visitBitwiseShift(c) ==
  LET ops == Kids(c, "bitwiseShiftOperator")
      apart(i) == /\ ~ Has(ops[i], "LSHIFT")
                  /\ tree[Nth(ops[i], "GT", 2)].start # tree[Nth(ops[i], "GT", 1)].stop + 1
  IN  foldLeftAssoc(c, "addition",
        LAMBDA i : IF Has(ops[i], "LSHIFT") THEN "LShift" ELSE "RShift",
        LAMBDA i : If(apart(i),
          << Error(Nth(ops[i], "GT", 1), Nth(ops[i], "GT", 2),
                   "right shift requires two adjacent '>' tokens") >>))

visitAddition(c) == foldLeftAssoc(c, "multiplication",
  LAMBDA i : getBinaryOp(Nth(c, "additionOperator", i)), Silent)

visitMultiplication(c) == foldLeftAssoc(c, "asExpr",
  LAMBDA i : getBinaryOp(Nth(c, "multiplicationOperator", i)), Silent)

visitAsExpr(c) ==
  LET op == The(c, "asOperator")
  IN  Visitor("Expr",
        << getExpr(The(c, "prefixUnaryExpr"), Result) >> \o
        If(op # Null,
           << Wrap(Flagged(Node("AsExpr", c, c), "NullSafe", Has(op, "QUEST")), "Operand"),
              getType(The(c, "type"), "TargetType") >>))

\* The rightmost prefix binds the closest.
visitPrefixUnaryExpr(c) ==
  LET prefixes == Kids(c, "unaryPrefix")
      n == Len(prefixes)
      unary(i) ==
        LET p == prefixes[n + 1 - i]
        IN  << Wrap(WithOp(Node("UnaryExpr", p, The(c, "postfixUnaryExpr")),
                           getPrefixUnaryOp(The(p, "prefixUnaryOperator"))), "Operand") >>
  IN  Loop("Expr",
        << << getExpr(The(c, "postfixUnaryExpr"), Result) >> >> \o [i \in 1..n |-> unary(i)])

\* Mutant: the member name is not kept.
Suffix_NoMember(c, post) ==
  LET call == The(post, "callSuffix")
      index == The(post, "indexingSuffix")
      nav == The(post, "navigationSuffix")
  IN  IF call # Null
      THEN << Wrap(Flagged(Node("CallExpr", c, post), "ExplicitTypeArgs",
                           Has(call, "typeArguments")), "Callee") >> \o
           TypeArgs(call) \o Arguments(call)
      ELSE IF index # Null
      THEN << Wrap(Node("IndexExpr", c, post), "Base"),
              getExpr(The(index, "expression"), "Index") >>
      ELSE << Wrap(Flagged(Node("MemberExpr", c, post), "NullSafe",
                        Has(The(nav, "memberAccessOperator"), "QUEST_DOT")), "Base") >>

\* A suffix wraps the result so far in a call, an index or a member access.
Suffix(c, post) ==
  LET call == The(post, "callSuffix")
      index == The(post, "indexingSuffix")
      nav == The(post, "navigationSuffix")
  IN  IF call # Null
      THEN << Wrap(Flagged(Node("CallExpr", c, post), "ExplicitTypeArgs",
                           Has(call, "typeArguments")), "Callee") >> \o
           TypeArgs(call) \o Arguments(call)
      ELSE IF index # Null
      THEN << Wrap(Node("IndexExpr", c, post), "Base"),
              getExpr(The(index, "expression"), "Index") >>
      ELSE << Wrap(Flagged(Named(Node("MemberExpr", c, post), nav), "NullSafe",
                        Has(The(nav, "memberAccessOperator"), "QUEST_DOT")), "Base") >>

\* Suffixes apply in source order.
visitPostfixUnaryExpr(c) ==
  LET posts == Kids(c, "unaryPostfix")
  IN  Loop("Expr",
        << << getExpr(The(c, "primaryExpr"), Result) >> >> \o
        [i \in DOMAIN posts |-> Suffix(c, posts[i])])

visitPrimaryExpr(c) ==
  IF Has(c, "IDENTIFIER") THEN Visitor("Expr", << New(Named(Node("VarExpr", c, c), c)) >>)
  ELSE Forward(available(c, << "parenExpr", "literalConstant", "collectionLiteral",
                               "thisLiteral", "ifExpression", "jumpExpression" >>))

visitParenExpr(c) == Forward(The(c, "expression"))

LiteralKind == [
  BOOLEAN_LITERAL |-> "BoolLiteral", NULL_LITERAL |-> "NullLiteral",
  INTEGER_LITERAL |-> "IntLiteral", STRING_LITERAL |-> "StringLiteral",
  CHAR_LITERAL |-> "CharLiteral", FLOAT_LITERAL |-> "FloatLiteral",
  DOUBLE_LITERAL |-> "FloatLiteral"]

LiteralFault == [
  INTEGER_LITERAL |-> "integer literal is too large for long",
  STRING_LITERAL |-> "invalid escape sequence",
  CHAR_LITERAL |-> "invalid escape sequence",
  FLOAT_LITERAL |-> "floating-point literal is out of range",
  DOUBLE_LITERAL |-> "floating-point literal is out of range"]

\* A literal whose text is bad is reported and keeps its default value; a
\* string keeps its raw text instead, a float the value out of range.
visitLiteralConstant(c) ==
  LET token == GetToken(c, DOMAIN LiteralKind)
      bad == tree[The(c, token)].text = "bad"
      value == IF ~ bad THEN "decoded"
               ELSE IF token \in {"INTEGER_LITERAL", "CHAR_LITERAL"} THEN "default"
               ELSE "raw"
  IN  Visitor("Expr",
        << New(Flagged(Node(LiteralKind[token], c, c), value, TRUE)) >> \o
        If(bad, << Error(c, c, LiteralFault[token]) >>))

visitCollectionLiteral(c) == Visitor("Expr",
  << New(Node("CollectionExpr", c, c)) >> \o
  GetAll("Expr", Kids(c, "expression"), "Elements"))

visitThisLiteral(c) == Visitor("Expr", << New(Node("ThisExpr", c, c)) >>)

visitIfExpression(c) == Visitor("Expr",
  << New(Node("IfExpr", c, c)),
     getExpr(Nth(c, "expression", 1), "Condition"),
     getExpr(Nth(c, "expression", 2), "Then") >> \o
  If(Has(c, "ELSE"), << getExpr(Nth(c, "expression", 3), "Else") >>))

visitJumpExpression(c) ==
  LET value == The(c, "expression")
      label == If(Has(c, "label"), << Get("Label", The(c, "label"), "Pos") >>)
      jump(kind, code) == Visitor("Expr", << New(Node(kind, c, c)) >> \o code)
  IN  IF Has(c, "THROW") THEN jump("ThrowExpr", << getExpr(value, "Content") >>)
      ELSE IF Has(c, "RETURN")
      THEN jump("ReturnExpr", If(value # Null, << getExpr(value, "Value") >>))
      ELSE IF Has(c, "CONTINUE") THEN jump("ContinueExpr", label)
      ELSE jump("BreakExpr", label)

visitLabel(c) == Visitor("Label", << New(Named(Node("Label", c, c), c)) >>)
=============================================================================
