---------------------------- MODULE ASTInvariant -----------------------------
(***************************************************************************)
(* The inductive invariant behind the safety properties that are proved.   *)
(* Its heart is a typing discipline the source only keeps implicitly: each *)
(* grammar rule answers visit() with a std::any of one static type, and    *)
(* every instruction that is still to run casts to the type the rule of    *)
(* its child answers with.                                                 *)
(***************************************************************************)
EXTENDS ASTProperties

IsSeq(s) == s \in Seq({s[i] : i \in DOMAIN s})

DeclContexts == {"declaration", "functionDecl", "classDecl", "variableDecl"}
TypeContexts == {"type", "parenType", "typeRef", "functionType", "builtinType"}
StmtContexts ==
  {"statement", "declStatement", "assignment", "controlStatement", "forStmt", "forUpdate",
   "forEachStmt", "whileStmt", "doWhileStmt", "ifStmt", "tryStatement", "exprStmt"}
ExprContexts ==
  {"expression", "disjunction", "conjunction", "equality", "comparison", "infixExpr",
   "elvisExpr", "bitwiseOr", "bitwiseXor", "bitwiseAnd", "bitwiseShift", "addition",
   "multiplication", "asExpr", "prefixUnaryExpr", "postfixUnaryExpr", "primaryExpr",
   "parenExpr", "literalConstant", "collectionLiteral", "thisLiteral", "ifExpression",
   "jumpExpression"}

\* The static type of the pointer in the any a rule's visitor returns.
Answer(sym) ==
  CASE sym = "file" -> "Program"
    [] sym = "topLevelObject" -> "TopLevelObject"
    [] sym \in DeclContexts -> "Declaration"
    [] sym = "parameter" -> "Parameter"
    [] sym \in TypeContexts -> "Type"
    [] sym \in StmtContexts -> "Statement"
    [] sym = "block" -> "Block"
    [] sym = "catchClause" -> "CatchClause"
    [] sym \in ExprContexts -> "Expr"
    [] sym = "label" -> "Label"
    [] OTHER -> "empty"

-----------------------------------------------------------------------------
(* The parse tree.                                                         *)

NodeFields == {"sym", "kids", "start", "stop", "text"}

ChildrenOK(kids) ==
  \A sym \in DOMAIN kids :
    /\ IsSeq(kids[sym])
    /\ \A i \in DOMAIN kids[sym] :
         kids[sym][i] \in DOMAIN tree /\ tree[kids[sym][i]].sym = sym
    /\ \A i, j \in DOMAIN kids[sym] : kids[sym][i] = kids[sym][j] => i = j

\* Children are distinct nodes of the tree with the symbol they are listed under.
TreeTyped == IsSeq(tree) /\ \A c \in DOMAIN tree : ChildrenOK(tree[c].kids)

NodesOK ==
  \A c \in DOMAIN tree :
    /\ DOMAIN tree[c] = NodeFields
    /\ tree[c].start \in Offset /\ tree[c].stop \in Offset

\* A tree without errors is rooted in the file rule.
FileFirst ==
  (phase = "parsing" /\ ~ HasErrors) =>
    \/ tree = << >> /\ work # << >> /\ Head(work).sym = "file"
    \/ tree # << >> /\ tree[1].sym = "file"

-----------------------------------------------------------------------------
(* The shape of the parse tree.                                            *)

\* How often x occurs in a sequence.
Count(seq, x) == Cardinality({i \in DOMAIN seq : seq[i] = x})

\* What is left to derive belongs to nodes of the tree; nothing is left once
\* the builder runs.
WorkOK ==
  /\ IsSeq(work)
  /\ \A i \in DOMAIN work : /\ work[i] = Item(work[i].sym, work[i].parent)
                            /\ work[i].parent \in 0..Len(tree)
  /\ phase = "building" => work = << >>

\* The children of c and the symbols still to be derived for it are together
\* those of production p.
Derives(c, p) ==
  \A s \in DOMAIN tree[c].kids \cup {work[i].sym : i \in DOMAIN work} \cup
         {p[i] : i \in DOMAIN p} :
    s # Exit => Len(Kids(c, s)) + Count(work, Item(s, c)) = Count(p, s)

\* While the parser meets no error, every context grows into one production of
\* its rule.
ShapesOK ==
  ~ erred =>
    \A c \in DOMAIN tree :
      LET rule == tree[c].sym
      IN  rule \in Rules => \E p \in {Default[rule]} \cup Choices[rule] : Derives(c, p)

Operators == {c \in DOMAIN tree : tree[c].sym \in {"inOperator", "isOperator"}}

\* No two operators of the kind visitInfixExpr orders by position start at the
\* same offset: the token of one is matched before the next is entered.
OperatorsApart ==
  ~ erred =>
    /\ \A c, d \in Operators : tree[c].start = tree[d].start => c = d
    /\ \A c \in Operators :
         \/ tree[c].start < offset
         \/ /\ tree[c].start = offset /\ work # << >>
            /\ Head(work).parent = c /\ Head(work).sym \in {"IN", "IS"}

-----------------------------------------------------------------------------
(* Code that is well typed.                                                *)

\* Context x is there to be visited, and its visitor returns the type as.
IsChild(x, as) == x \in DOMAIN tree /\ Answer(tree[x].sym) = as

InstrOK(i) == i.do = "get" => i.as # "any" /\ IsChild(i.child, i.as)
CodeOK(s) == IsSeq(s) /\ \A k \in DOMAIN s : InstrOK(s[k])
BlocksOK(b) == IsSeq(b) /\ \A k \in DOMAIN b : CodeOK(b[k])

\* A visitor that hands on the any of x, before it has called it.
Forwarding(any, now, later, answer) ==
  /\ any = "any" /\ later = << >>
  /\ now # << >> /\ now = << Get("any", now[1].child, Result) >>
  /\ IsChild(now[1].child, answer)

FrameFields == {"ctx", "any", "now", "later", "res", "obj"}

\* What is left of a call is well typed, and it will return what its rule
\* answers with.
FrameOK(f) ==
  /\ DOMAIN f = FrameFields
  /\ f.ctx \in DOMAIN tree
  /\ LET answer == Answer(tree[f.ctx].sym)
     IN  \/ f.any = answer /\ CodeOK(f.now) /\ BlocksOK(f.later)
         \/ Forwarding(f.any, f.now, f.later, answer)

\* Call g waits at the visit that made call f.
Awaits(g, f) == g.now # << >> /\ g.now[1].do = "get" /\ g.now[1].child = f.ctx

CallsOK ==
  /\ IsSeq(stack)
  /\ \A k \in DOMAIN stack : FrameOK(stack[k])
  /\ \A k \in DOMAIN stack : k # Len(stack) => Awaits(stack[k + 1], stack[k])
  /\ stack # << >> =>
       phase = "building" /\ stack[Len(stack)].ctx = 1 /\ tree[1].sym = "file"

LocalsOK ==
  /\ IsSeq(arena)
  /\ \A k \in DOMAIN stack : stack[k].res \in 0..Len(arena) /\ stack[k].obj \in 0..Len(arena)
  /\ program \in 0..Len(arena)

-----------------------------------------------------------------------------
(* The rest of the state.                                                  *)

ScalarsOK ==
  /\ bufferSize \in Offset /\ offset \in Offset /\ lastStop \in Offset
  /\ crash = "none"
  /\ HasErrors \in BOOLEAN /\ erred \in BOOLEAN
  /\ phase \in {"idle", "parsing", "building"}
  /\ table \in DOMAIN Tables /\ fuel \in Nat /\ calls \in 0..MaxCalls

EngineOK == IsSeq(Diagnostics) /\ ErrorsPending

\* A syntax error bars the builder until the next call.
ErrorBars ==
  /\ erred => phase # "building" /\ (phase = "parsing" => HasErrors)
  /\ NoProgramOnSyntaxError

IInv ==
  /\ TreeTyped /\ NodesOK /\ FileFirst
  /\ WorkOK /\ ShapesOK /\ OperatorsApart
  /\ CallsOK /\ LocalsOK
  /\ ScalarsOK /\ EngineOK /\ ErrorBars

-----------------------------------------------------------------------------
(* Whose nodes a call writes to.                                           *)

\* Call f of visitFile, n calls deep: it has still to allocate its Program,
\* and then only stores what it visits in members of it.
FileFrame(f, n) ==
  /\ IsSeq(f.now) /\ f.later = << >>
  /\ f.res = Null => n = 1 /\ f.obj = Null /\ f.now # << >> /\ f.now[1].do = "new"
  /\ \A k \in DOMAIN f.now :
       (f.res # Null \/ k > 1) => f.now[k].do = "get" /\ f.now[k].slot # Result

\* The locals of a call do not point to nodes of earlier ASTs.
Fresh(f) == f.res \notin 1..OldNodes /\ f.obj \notin 1..OldNodes

OwnInv ==
  /\ stack # << >> => FileFrame(stack[Len(stack)], Len(stack))
  /\ \A k \in DOMAIN stack : Fresh(stack[k])

-----------------------------------------------------------------------------
(* Whose nodes a member may still be given.  Every node of the AST under   *)
(* construction is either stored in a member of another one, or held by    *)
(* the locals of one call, which then still has to store it or return it.  *)

\* The nodes the locals of a call point to.
Locals(f) == {f.res, f.obj} \ {Null}

\* What a call holds: nothing yet; the node it fills; what a call returned to
\* it; its result and beside it a node to attach to that.
Local(f) ==
  IF f.res = Null THEN IF f.obj = Null THEN "empty" ELSE "lost"
  ELSE IF f.obj = Null THEN "passes"
  ELSE IF f.obj = f.res THEN "holds"
  ELSE "beside"

\* What a call holds when it may return, or begin another turn of a loop.
Done == {"holds", "passes"}

\* A node without children, as its constructor leaves it.
Bare(node) == "slots" \in DOMAIN node /\ node.slots = << >>

\* What instruction i makes of a call that holds a, so that it forgets no
\* node and stores into one it holds.
Moves(i, a, b) ==
  \/ i.do = "new" /\ Bare(i.node) /\ a = "empty" /\ b = "holds"
  \/ i.do = "sub" /\ Bare(i.node) /\ a = "holds" /\ b = "beside"
  \/ i.do = "wrap" /\ Bare(i.node) /\ a \in Done /\ b = "holds"
  \/ i.do = "attach" /\ a = "beside" /\ b = "holds"
  \/ i.do = "get" /\ i.as # "empty" /\ i.slot = Result /\ a = "empty" /\ b = "passes"
  \/ /\ i.do = "get" /\ i.as \notin {"any", "empty"} /\ i.slot # Result
     /\ a \in {"holds", "beside"} /\ b = a
  \/ i.do = "vis" /\ a \in Done /\ b = a
  \/ i.do = "report" /\ b = a

\* The code takes a call from holding a to holding b.
Flow(code, a, b) ==
  /\ IsSeq(code)
  /\ \E st \in [0..Len(code) -> {"empty", "holds", "passes", "beside"}] :
       /\ st[0] = a /\ st[Len(code)] = b
       /\ \A k \in 1..Len(code) : Moves(code[k], st[k - 1], st[k])

\* One turn of a loop after the other, the first from a.
Turns(later, a) ==
  /\ IsSeq(later)
  /\ later # << >> => Flow(later[1], a, "holds")
  /\ \A k \in DOMAIN later : Flow(later[k], "holds", "holds")

\* What is left of a call ends with a node to return; a call whose rule has
\* no visitor would return none.
Careful(f) ==
  /\ Answer(tree[f.ctx].sym) # "empty"
  /\ \E t \in Done : Flow(f.now, Local(f), t) /\ Turns(f.later, t)

\* No node is held by two calls.
Apart ==
  \A j, k \in DOMAIN stack : j # k => Locals(stack[j]) \cap Locals(stack[k]) = {}

\* The edges among the nodes O make them a forest whose roots are held.
Forest(edges, O, held) ==
  /\ held \subseteq O
  /\ \A e \in edges : e[1] \in O /\ e[4] \in O \ held
  /\ \A e, f \in edges : e[4] = f[4] => e = f
  /\ \A n \in O \ held : \E e \in edges : e[4] = n
  /\ \A S \in SUBSET O : S # {} => \E n \in S : \A e \in edges : e[4] = n => e[1] \notin S

\* The nodes allocated since the Program under construction.
Own == (OldNodes + 1)..Len(arena)

TreeInv ==
  /\ \A k \in DOMAIN stack : Careful(stack[k])
  /\ Apart
  /\ \A n \in DOMAIN arena :
       "slots" \in DOMAIN arena[n] /\ \A s \in DOMAIN arena[n].slots : IsSeq(arena[n].slots[s])
  /\ \A e \in Edges : e[1] \notin Own => e[4] \in 1..OldNodes
  /\ Forest({e \in Edges : e[1] \in Own}, Own, UNION {Locals(stack[k]) : k \in DOMAIN stack})

\* The nodes of finished ASTs are left alone, and no node of the AST under
\* construction is lost or shared.
OwnershipInv == OwnInv /\ TreeInv
=============================================================================
