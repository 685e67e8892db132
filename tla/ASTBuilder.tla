----------------------------- MODULE ASTBuilder ------------------------------
(***************************************************************************)
(* The run of the visitor: a call stack over the code of ASTVisitors, the  *)
(* arena it allocates nodes in, and the diagnostics it reports.  An action *)
(* is one instruction of the innermost call.  The two ways the recursion   *)
(* can die are explicit: std::any_cast throws when a visitor returned      *)
(* another type than its caller asks for, and visit dereferences the null  *)
(* pointer when a context lacks the child.                                 *)
(***************************************************************************)
EXTENDS ASTVisitors, DiagnosticsEngine

VARIABLES
  arena,   \* the nodes ASTContext owns, in allocation order
  stack,   \* the calls in progress, the innermost first
  crash    \* "none", "bad_any_cast" or "null_visit"

astVars == << arena, stack, crash >>

\* accept(): the visitor of a context, by its rule.  A rule that ASTBuilder
\* does not override inherits visitChildren, which here returns an empty any.
Visit(c) ==
  LET sym == tree[c].sym
  IN CASE sym = "file" -> visitFile(c)
       [] sym = "topLevelObject" -> visitTopLevelObject(c)
       [] sym = "declaration" -> visitDeclaration(c)
       [] sym = "functionDecl" -> visitFunctionDecl(c)
       [] sym = "classDecl" -> visitClassDecl(c)
       [] sym = "parameter" -> visitParameter(c)
       [] sym = "variableDecl" -> visitVariableDecl(c)
       [] sym = "type" -> visitType(c)
       [] sym = "parenType" -> visitParenType(c)
       [] sym = "typeRef" -> visitTypeRef(c)
       [] sym = "functionType" -> visitFunctionType(c)
       [] sym = "builtinType" -> visitBuiltinType(c)
       [] sym = "block" -> visitBlock(c)
       [] sym = "statement" -> visitStatement(c)
       [] sym = "declStatement" -> visitDeclStatement(c)
       [] sym = "assignment" -> visitAssignment(c)
       [] sym = "controlStatement" -> visitControlStatement(c)
       [] sym = "forStmt" -> visitForStmt(c)
       [] sym = "forUpdate" -> visitForUpdate(c)
       [] sym = "forEachStmt" -> visitForEachStmt(c)
       [] sym = "whileStmt" -> visitWhileStmt(c)
       [] sym = "doWhileStmt" -> visitDoWhileStmt(c)
       [] sym = "ifStmt" -> visitIfStmt(c)
       [] sym = "tryStatement" -> visitTryStatement(c)
       [] sym = "catchClause" -> visitCatchClause(c)
       [] sym = "exprStmt" -> visitExprStmt(c)
       [] sym = "expression" -> visitExpression(c)
       [] sym = "disjunction" -> visitDisjunction(c)
       [] sym = "conjunction" -> visitConjunction(c)
       [] sym = "equality" -> visitEquality(c)
       [] sym = "comparison" -> visitComparison(c)
       [] sym = "infixExpr" -> visitInfixExpr(c)
       [] sym = "elvisExpr" -> visitElvisExpr(c)
       [] sym = "bitwiseOr" -> visitBitwiseOr(c)
       [] sym = "bitwiseXor" -> visitBitwiseXor(c)
       [] sym = "bitwiseAnd" -> visitBitwiseAnd(c)
       [] sym = "bitwiseShift" -> visitBitwiseShift(c)
       [] sym = "addition" -> visitAddition(c)
       [] sym = "multiplication" -> visitMultiplication(c)
       [] sym = "asExpr" -> visitAsExpr(c)
       [] sym = "prefixUnaryExpr" -> visitPrefixUnaryExpr(c)
       [] sym = "postfixUnaryExpr" -> visitPostfixUnaryExpr(c)
       [] sym = "primaryExpr" -> visitPrimaryExpr(c)
       [] sym = "parenExpr" -> visitParenExpr(c)
       [] sym = "literalConstant" -> visitLiteralConstant(c)
       [] sym = "collectionLiteral" -> visitCollectionLiteral(c)
       [] sym = "thisLiteral" -> visitThisLiteral(c)
       [] sym = "ifExpression" -> visitIfExpression(c)
       [] sym = "jumpExpression" -> visitJumpExpression(c)
       [] sym = "label" -> visitLabel(c)
       [] OTHER -> Visitor("empty", << >>)

-----------------------------------------------------------------------------
(* The call stack.                                                         *)

\* A call at its first instruction.
Frame(c) ==
  LET v == Visit(c)
  IN  [ctx |-> c, any |-> v.any, now |-> v.code[1], later |-> Tail(v.code),
       res |-> Null, obj |-> Null]

Top == Head(stack)
Caller == stack[2]

\* The next instruction of the innermost call.
Running == crash = "none" /\ stack # << >>
Executing(ops) == Running /\ Top.now # << >> /\ Head(Top.now).do \in ops

\* The innermost call after its instruction, with its locals set.
Advance(res, obj) ==
  stack' = << [Top EXCEPT !.now = Tail(@), !.res = res, !.obj = obj] >> \o Tail(stack)

\* Mutant: the arena is cleared for a new file.
StartBuild_Reset ==
  /\ stack' = << Frame(1) >>
  /\ arena' = << >>
  /\ UNCHANGED crash

\* build(Ctx) calls visitFile; the arena may hold the ASTs of other files.
StartBuild ==
  /\ stack' = << Frame(1) >>
  /\ UNCHANGED << arena, crash >>

Allocate ==
  /\ Executing({"new", "sub", "wrap"})
  /\ LET i == Head(Top.now)
         id == Len(arena) + 1
     IN  /\ arena' = Append(arena,
              IF i.do = "wrap" THEN [i.node EXCEPT !.slots = AppendAt(@, i.slot, Top.res)]
              ELSE i.node)
         /\ Advance(IF i.do = "sub" THEN Top.res ELSE id, id)
  /\ UNCHANGED << crash, Diagnostics, HasErrors >>

AttachSub ==
  /\ Executing({"attach"})
  /\ arena' = [arena EXCEPT ![Top.res].slots = AppendAt(@, Head(Top.now).slot, Top.obj)]
  /\ Advance(Top.res, Top.res)
  /\ UNCHANGED << crash, Diagnostics, HasErrors >>

SetVisibility ==
  /\ Executing({"vis"})
  /\ arena' = [arena EXCEPT ![Top.res].vis = Head(Top.now).vis]
  /\ Advance(Top.res, Top.obj)
  /\ UNCHANGED << crash, Diagnostics, HasErrors >>

ReportError ==
  /\ Executing({"report"})
  /\ LET i == Head(Top.now) IN report(i.start, i.end, "error", i.message)
  /\ Advance(Top.res, Top.obj)
  /\ UNCHANGED << arena, crash >>

\* visit(child) enters the child's visitor, unless there is no child.
Call ==
  /\ Executing({"get"})
  /\ LET child == Head(Top.now).child
     IN  IF child = Null
         THEN crash' = "null_visit" /\ UNCHANGED stack
         ELSE stack' = << Frame(child) >> \o stack /\ UNCHANGED crash
  /\ UNCHANGED << arena, Diagnostics, HasErrors >>

\* Mutant: the iteration is not counted.
NextIteration_Stuck ==
  /\ Running /\ Top.now = << >> /\ Top.later # << >>
  /\ stack' = << [Top EXCEPT !.now = Head(Top.later)] >> \o Tail(stack)
  /\ UNCHANGED << arena, crash, Diagnostics, HasErrors >>

NextIteration ==
  /\ Running /\ Top.now = << >> /\ Top.later # << >>
  /\ stack' = << [Top EXCEPT !.now = Head(Top.later), !.later = Tail(@)] >> \o Tail(stack)
  /\ UNCHANGED << arena, crash, Diagnostics, HasErrors >>

Finished == Running /\ Top.now = << >> /\ Top.later = << >>

\* The innermost call returns: its caller casts the any and stores the
\* pointer, in its Result or in a member of the node it is filling.
Return ==
  /\ Finished /\ Len(stack) > 1
  /\ LET i == Head(Caller.now)
         after == [Caller EXCEPT !.now = Tail(@)]
         rest == SubSeq(stack, 3, Len(stack))
     IN  IF i.as \notin {"any", Top.any}
         THEN crash' = "bad_any_cast" /\ UNCHANGED << arena, stack >>
         ELSE /\ stack' = << IF i.slot # Result THEN after
                             ELSE [after EXCEPT !.res = Top.res,
                                     !.any = IF i.as = "any" THEN Top.any ELSE @] >> \o rest
              /\ arena' = IF i.slot = Result THEN arena
                          ELSE [arena EXCEPT ![Caller.obj].slots =
                                  AppendAt(@, i.slot, Top.res)]
              /\ UNCHANGED crash
  /\ UNCHANGED << Diagnostics, HasErrors >>

\* visitFile returned, and build casts its any to Program *.
Built == Finished /\ Len(stack) = 1

EndBuild ==
  /\ Built
  /\ IF Top.any = "Program" THEN stack' = << >> /\ UNCHANGED crash
     ELSE crash' = "bad_any_cast" /\ UNCHANGED stack
  /\ UNCHANGED << arena, Diagnostics, HasErrors >>

BuilderStep ==
  Allocate \/ AttachSub \/ SetVisibility \/ ReportError \/ Call \/ NextIteration \/ Return
=============================================================================
