------------------------- MODULE MemberVisitorProofs -------------------------
(***************************************************************************)
(* Every visitor of the builder returns a node that lacks nothing: the     *)
(* pointers the headers of ast/ do not call optional are set, each child   *)
(* is of a class its member may hold, and the node has the shape the       *)
(* comments of the headers promise.  This module looks at the code of each *)
(* visitor by itself; MemberProofs carries it through a run.               *)
(*                                                                         *)
(* A node is looked at through its View: its kind, the number of its       *)
(* operators, whether it is mutable and how many children each member      *)
(* holds.  Stages are to the views what the states of OwnershipProofs are  *)
(* to the pointers a visitor holds: Makes(i, s, t) is the effect of one    *)
(* instruction, and VisitWhole, the lemma of every visitor, says that its  *)
(* code leads from nothing to a node its caller may rely on.  What is      *)
(* proved first of the productions of the grammar is what the visitors     *)
(* take for granted when they store a child without a test.                *)
(***************************************************************************)
EXTENDS ASTBuilderProofs, ASTDumper

-----------------------------------------------------------------------------
(* What the headers tell apart of a node.                                  *)

MemberNames ==
  {"Objects", "Decl", "Parameters", "ReturnType", "Body", "TypeParams", "Members", "VarType",
   "Value", "Type", "DefaultValue", "DefaultType", "TypeArgs", "ElementType", "Size",
   "Statements", "Declaration", "Expression", "LHS", "RHS", "Condition", "Then", "Else",
   "InitStmts", "Update", "Scope", "CatchClauses", "Finally", "Param", "Operand", "Operands",
   "Content", "Pos", "Callee", "Arguments", "Base", "Index", "CheckType", "TargetType",
   "Elements"}

Kinds == {NodeKind[i] : i \in DOMAIN NodeKind}

\* A view of a node: its kind, how many operators it has, whether it is marked
\* mutable, and how many children its members hold.
Views == [kind : Kinds, ops : Nat, mutable : BOOLEAN, has : [MemberNames -> Nat]]

View(node) ==
  [kind |-> node.kind, ops |-> Len(node.ops), mutable |-> "IsMutable" \in node.flags,
   has |-> [m \in MemberNames |->
              IF m \in DOMAIN node.slots THEN Len(node.slots[m]) ELSE 0]]

\* The view with n more children in a member.
More(v, slot, n) ==
  [kind |-> v.kind, ops |-> v.ops, mutable |-> v.mutable,
   has |-> [m \in MemberNames |-> IF m = slot THEN v.has[m] + n ELSE v.has[m]]]

Pointers(kind) == DOMAIN MembersOf(kind) \ ListMembers

\* What the comments of the headers promise of the node itself.
Shaped(v) ==
  /\ v.kind = "TryStmt" => v.has["CatchClauses"] # 0 \/ v.has["Finally"] # 0
  /\ v.kind = "ComparisonChainExpr" => v.ops = v.has["Operands"] - 1
  /\ v.kind = "VarDecl" => /\ v.has["VarType"] # 0 \/ v.has["Value"] # 0
                           /\ v.has["Value"] = 0 => v.mutable

\* A node that lacks nothing.
Whole(v) ==
  /\ \A m \in Pointers(v.kind) :
       v.has[m] = 1 \/ (v.has[m] = 0 /\ << v.kind, m >> \in Optional)
  /\ Shaped(v)

\* A node that a member of a node of this kind may hold.
Fits(kind, slot, w) ==
  /\ slot \in MemberNames /\ slot \in DOMAIN MembersOf(kind)
  /\ w.kind \in classof(MembersOf(kind)[slot])
  /\ kind = "IfStmt" /\ slot = "Else" => w.kind \in {"IfStmt", "Block"}
  /\ kind = "CatchClause" /\ slot = "Param" => w.has["DefaultValue"] = 0

NodeKeys == {"kind", "start", "end", "name", "ops", "flags", "vis", "slots"}
Chained == {"AssignmentStmt", "UnaryExpr", "BinaryExpr", "ComparisonChainExpr"}

\* The flags dumpHeader shows for a kind.
ShownFlags(kind) ==
  CASE kind = "VarDecl" -> {"IsMutable"}
    [] kind \in {"TypeRef", "CallExpr"} -> {"ExplicitTypeArgs"}
    [] kind \in {"MemberExpr", "AsExpr"} -> {"NullSafe"}
    [] OTHER -> {}

\* What dumpHeader takes for granted of a node, and that it shows all of it.
Legible(node) ==
  /\ node.kind \in NamedByInfo => node.name # Null
  /\ node.flags \subseteq ShownFlags(node.kind) \cup {"decoded", "default", "raw"}
  /\ node.vis \in DOMAIN getVisibilityName
  /\ node.kind \notin classof("Declaration") => node.vis = "Public"
  /\ node.kind \in Chained => \A k \in DOMAIN node.ops : node.ops[k] \in DOMAIN getOpSymbol
  /\ node.kind = "BuiltinType" =>
       Len(node.ops) = 1 /\ node.ops[1] \in DOMAIN getBuiltinTypeName
  /\ node.kind \notin Chained \cup {"BuiltinType"} => node.ops = << >>

\* The ordering operators.
Ordering == {"Lt", "Le", "Gt", "Ge"}

\* A node as the visitors make it.
Sound(node) ==
  /\ DOMAIN node = NodeKeys /\ node.kind \in Kinds /\ IsSeq(node.ops)
  /\ Legible(node)
  /\ node.kind = "ComparisonChainExpr" => \A k \in DOMAIN node.ops : node.ops[k] \in Ordering

\* Every child of node n is one its member may hold.
Suited(a, n) ==
  /\ DOMAIN a[n].slots \subseteq DOMAIN MembersOf(a[n].kind)
  /\ \A s \in DOMAIN a[n].slots : \A i \in DOMAIN a[n].slots[s] :
       /\ a[n].slots[s][i] \in DOMAIN a
       /\ Fits(a[n].kind, s, View(a[a[n].slots[s][i]]))

LEMMA Positions ==
  /\ Position("FunctionDecl") = 3 /\ Position("VarDecl") = 5
  /\ Position("TypeRef") = 7 /\ Position("FunctionType") = 10
  /\ Position("Block") = 11 /\ Position("DoWhileStmt") = 20
  /\ Position("NullLiteral") = 21 /\ Position("CollectionExpr") = 42
<1>1. DOMAIN NodeKind = 1..45
  BY DEF NodeKind
<1>2. ASSUME NEW i \in 1..45, NEW j \in 1..45, NodeKind[i] = NodeKind[j] PROVE i = j
  BY <1>2 DEF NodeKind
<1>3. \A i \in 1..45 : Position(NodeKind[i]) = i
  BY <1>1, <1>2 DEF Position
<1>4. /\ NodeKind[3] = "FunctionDecl" /\ NodeKind[5] = "VarDecl" /\ NodeKind[7] = "TypeRef"
      /\ NodeKind[10] = "FunctionType" /\ NodeKind[11] = "Block" /\ NodeKind[20] = "DoWhileStmt"
      /\ NodeKind[21] = "NullLiteral" /\ NodeKind[42] = "CollectionExpr"
  BY DEF NodeKind
<1> QED
  BY <1>3, <1>4

\* The kinds.
LEMMA KindsAre ==
  Kinds =
    {"Program", "TopLevelObject", "FunctionDecl", "ClassDecl", "VarDecl", "Parameter",
     "TypeRef", "BuiltinType", "ArrayType", "FunctionType", "Block", "DeclStatement", "ExprStmt",
     "AssignmentStmt", "IfStmt", "ForStmt", "ForEachStmt", "WhileStmt", "TryStmt", "DoWhileStmt",
     "NullLiteral", "BoolLiteral", "IntLiteral", "FloatLiteral", "StringLiteral", "CharLiteral",
     "VarExpr", "UnaryExpr", "BinaryExpr", "ComparisonChainExpr", "IfExpr", "ThrowExpr",
     "ReturnExpr", "ContinueExpr", "BreakExpr", "CallExpr", "IndexExpr", "MemberExpr", "IsExpr",
     "AsExpr", "ThisExpr", "CollectionExpr", "Label", "TypeParam", "CatchClause"}
<1>1. DOMAIN NodeKind = 1..45
  BY DEF NodeKind
<1>2. 1..45 =
       {1, 2, 3, 4, 5, 6, 7, 8, 9, 10, 11, 12, 13, 14, 15, 16, 17, 18, 19, 20, 21, 22, 23, 24, 25,
        26, 27, 28, 29, 30, 31, 32, 33, 34, 35, 36, 37, 38, 39, 40, 41, 42, 43, 44, 45}
  OBVIOUS
<1>3. Kinds =
       {NodeKind[1], NodeKind[2], NodeKind[3], NodeKind[4], NodeKind[5], NodeKind[6], NodeKind[7],
        NodeKind[8], NodeKind[9], NodeKind[10], NodeKind[11], NodeKind[12], NodeKind[13],
        NodeKind[14], NodeKind[15], NodeKind[16], NodeKind[17], NodeKind[18], NodeKind[19],
        NodeKind[20], NodeKind[21], NodeKind[22], NodeKind[23], NodeKind[24], NodeKind[25],
        NodeKind[26], NodeKind[27], NodeKind[28], NodeKind[29], NodeKind[30], NodeKind[31],
        NodeKind[32], NodeKind[33], NodeKind[34], NodeKind[35], NodeKind[36], NodeKind[37],
        NodeKind[38], NodeKind[39], NodeKind[40], NodeKind[41], NodeKind[42], NodeKind[43],
        NodeKind[44], NodeKind[45]}
  BY <1>1, <1>2 DEF Kinds
<1> QED
  BY <1>3 DEF NodeKind

LEMMA Classes ==
  /\ classof("Declaration") = {"FunctionDecl", "ClassDecl", "VarDecl"}
  /\ classof("Type") = {"TypeRef", "BuiltinType", "ArrayType", "FunctionType"}
  /\ classof("Statement") =
       {"Block", "DeclStatement", "ExprStmt", "AssignmentStmt", "IfStmt", "ForStmt",
        "ForEachStmt", "WhileStmt", "TryStmt", "DoWhileStmt"}
  /\ classof("Expr") =
       {"NullLiteral", "BoolLiteral", "IntLiteral", "FloatLiteral", "StringLiteral",
        "CharLiteral", "VarExpr", "UnaryExpr", "BinaryExpr", "ComparisonChainExpr", "IfExpr",
        "ThrowExpr", "ReturnExpr", "ContinueExpr", "BreakExpr", "CallExpr", "IndexExpr",
        "MemberExpr", "IsExpr", "AsExpr", "ThisExpr", "CollectionExpr"}
  /\ \A class \in {"Program", "TopLevelObject", "Parameter", "TypeParam", "Block",
                   "CatchClause", "Label"} : classof(class) = {class}
<1>1. KindRange("FunctionDecl", "VarDecl") = {NodeKind[i] : i \in 3..5}
  BY Positions DEF KindRange
<1>2. KindRange("TypeRef", "FunctionType") = {NodeKind[i] : i \in 7..10}
  BY Positions DEF KindRange
<1>3. KindRange("Block", "DoWhileStmt") = {NodeKind[i] : i \in 11..20}
  BY Positions DEF KindRange
<1>4. KindRange("NullLiteral", "CollectionExpr") = {NodeKind[i] : i \in 21..42}
  BY Positions DEF KindRange
<1>5. {NodeKind[i] : i \in 3..5} = {NodeKind[3], NodeKind[4], NodeKind[5]}
  <2>1. 3..5 = {3, 4, 5}
    OBVIOUS
  <2> QED
    BY <2>1
<1>6. {NodeKind[i] : i \in 7..10} = {NodeKind[7], NodeKind[8], NodeKind[9], NodeKind[10]}
  <2>1. 7..10 = {7, 8, 9, 10}
    OBVIOUS
  <2> QED
    BY <2>1
<1>7. {NodeKind[i] : i \in 11..20} =
        {NodeKind[11], NodeKind[12], NodeKind[13], NodeKind[14], NodeKind[15],
         NodeKind[16], NodeKind[17], NodeKind[18], NodeKind[19], NodeKind[20]}
  <2>1. 11..20 = {11, 12, 13, 14, 15, 16, 17, 18, 19, 20}
    OBVIOUS
  <2> QED
    BY <2>1
<1>8. {NodeKind[i] : i \in 21..42} =
        {NodeKind[21], NodeKind[22], NodeKind[23], NodeKind[24], NodeKind[25],
         NodeKind[26], NodeKind[27], NodeKind[28], NodeKind[29], NodeKind[30],
         NodeKind[31], NodeKind[32], NodeKind[33], NodeKind[34], NodeKind[35],
         NodeKind[36], NodeKind[37], NodeKind[38], NodeKind[39], NodeKind[40],
         NodeKind[41], NodeKind[42]}
  <2>1. 21..42 = {21, 22, 23, 24, 25, 26, 27, 28, 29, 30, 31, 32, 33, 34, 35, 36, 37, 38, 39,
                  40, 41, 42}
    OBVIOUS
  <2> QED
    BY <2>1
<1>9. classof("Declaration") = {"FunctionDecl", "ClassDecl", "VarDecl"}
  BY <1>1, <1>5 DEF classof, NodeKind
<1>10. classof("Type") = {"TypeRef", "BuiltinType", "ArrayType", "FunctionType"}
  BY <1>2, <1>6 DEF classof, NodeKind
<1>11. classof("Statement") =
       {"Block", "DeclStatement", "ExprStmt", "AssignmentStmt", "IfStmt", "ForStmt",
        "ForEachStmt", "WhileStmt", "TryStmt", "DoWhileStmt"}
  BY <1>3, <1>7 DEF classof, NodeKind
<1>12. classof("Expr") =
       {"NullLiteral", "BoolLiteral", "IntLiteral", "FloatLiteral", "StringLiteral",
        "CharLiteral", "VarExpr", "UnaryExpr", "BinaryExpr", "ComparisonChainExpr", "IfExpr",
        "ThrowExpr", "ReturnExpr", "ContinueExpr", "BreakExpr", "CallExpr", "IndexExpr",
        "MemberExpr", "IsExpr", "AsExpr", "ThisExpr", "CollectionExpr"}
  BY <1>4, <1>8 DEF classof, NodeKind
<1> QED
  BY <1>9, <1>10, <1>11, <1>12 DEF classof

-----------------------------------------------------------------------------
(* What instructions make of the views of the nodes a call holds.  A stage *)
(* says what a call holds, as Local does, and which views its result and   *)
(* the node beside it may have.                                            *)

Stage(at, res, obj) == [at |-> at, res |-> res, obj |-> obj]
Start == Stage("empty", {}, {})
Holding(v) == Stage("holds", {v}, {})

\* The kinds of the nodes the visitor of a rule returns.
Yields(sym) ==
  CASE sym = "ifStmt" -> {"IfStmt"}
    [] sym = "classDecl" -> {"ClassDecl"}
    [] OTHER -> classof(Answer(sym))

\* What the visitor of c returns.
Post(c) == {v \in Views : v.kind \in Yields(tree[c].sym) /\ Whole(v)}

\* What a visit is given.
Given(i) ==
  IF i.as = "any" THEN Post(i.child)
  ELSE {w \in Views : /\ w.kind \in classof(i.as) /\ Whole(w)
                      /\ tree[i.child].sym = "ifStmt" => w.kind = "IfStmt"}

\* Member slot of all of V may be given any of W, and then is one of N.
Accepts(V, slot, W, N) ==
  \A v \in V : \A w \in W : Whole(w) /\ Fits(v.kind, slot, w) /\ More(v, slot, 1) \in N

\* Instruction i takes a call from stage s to stage t.
Makes(i, s, t) ==
  \/ /\ i.do = "new" /\ Bare(i.node) /\ Sound(i.node)
     /\ s.at = "empty" /\ t.at = "holds" /\ View(i.node) \in t.res
  \/ /\ i.do = "sub" /\ Bare(i.node) /\ Sound(i.node)
     /\ s.at = "holds" /\ t.at = "beside" /\ s.res \subseteq t.res /\ View(i.node) \in t.obj
  \/ /\ i.do = "wrap" /\ Bare(i.node) /\ Sound(i.node)
     /\ s.at \in Done /\ t.at = "holds"
     /\ Accepts({View(i.node)}, i.slot, s.res, t.res)
  \/ /\ i.do = "attach" /\ s.at = "beside" /\ t.at = "holds"
     /\ Accepts(s.res, i.slot, s.obj, t.res)
  \/ /\ i.do = "get" /\ i.slot = Result /\ s.at = "empty" /\ t.at = "passes"
     /\ Given(i) \subseteq t.res
  \/ /\ i.do = "get" /\ i.slot # Result /\ s.at = "holds" /\ t.at = "holds"
     /\ Accepts(s.res, i.slot, Given(i), t.res)
  \/ /\ i.do = "get" /\ i.slot # Result /\ s.at = "beside" /\ t.at = "beside"
     /\ s.res \subseteq t.res /\ Accepts(s.obj, i.slot, Given(i), t.obj)
  \/ /\ i.do = "vis" /\ i.vis \in DOMAIN getVisibilityName
     /\ s.at \in Done /\ t.at = s.at /\ s.res \subseteq t.res
     /\ \A v \in s.res : v.kind \in classof("Declaration")
  \/ /\ i.do = "report" /\ t.at = s.at /\ s.res \subseteq t.res /\ s.obj \subseteq t.obj

\* Code takes a call from stage s to stage t.
Makings(code, s, t) ==
  /\ IsSeq(code)
  /\ \E st : /\ st[0] = s /\ st[Len(code)] = t
             /\ \A k \in 1..Len(code) : Makes(code[k], st[k - 1], st[k])

\* A call of the visitor of c may return, or begin another turn of its loop.
Final(c, s) ==
  /\ s.at \in Done /\ s.res \subseteq Post(c)
  /\ tree[c].sym = "classDecl" => s.at = "holds"

Turn(c, code) == \A s : Final(c, s) => \E t : Final(c, t) /\ Makings(code, s, t)

\* What is left of call f from stage s ends with a whole node to return.
Ends(f, s) ==
  /\ \E t : Final(f.ctx, t) /\ Makings(f.now, s, t)
  /\ IsSeq(f.later) /\ \A k \in DOMAIN f.later : Turn(f.ctx, f.later[k])

\* The nodes that call f holds in arena a have the views of stage s.
Matches(a, f, s) ==
  /\ Local(f) = s.at
  /\ f.res # Null => View(a[f.res]) \in s.res
  /\ s.at = "beside" => View(a[f.obj]) \in s.obj

Typed(a, f) == \E s : Matches(a, f, s) /\ Ends(f, s)

\* The visitor of c ends with a whole node.
VisitWhole(c) ==
  LET v == Visit(c)
  IN  /\ IsSeq(v.code) /\ v.code # << >>
      /\ \E t : Final(c, t) /\ Makings(v.code[1], Start, t)
      /\ \A k \in DOMAIN v.code : k # 1 => Turn(c, v.code[k])

-----------------------------------------------------------------------------
(* Code, one piece after the other.                                        *)

\* No instructions change nothing.
LEMMA MakingsNone == \A s : Makings(<< >>, s, s)
<1> SUFFICES ASSUME NEW s PROVE Makings(<< >>, s, s)
  OBVIOUS
<1> DEFINE st == [k \in 0..0 |-> s]
<1>1. st[0] = s /\ st[Len(<< >>)] = s /\ Len(<< >>) = 0 /\ 1..0 = {}
  OBVIOUS
<1>2. IsSeq(<< >>)
  BY DEF IsSeq
<1> HIDE DEF st
<1> QED
  BY <1>1, <1>2 DEF Makings

\* And nothing but them.
LEMMA MakingsEnd == ASSUME NEW s, NEW t, Makings(<< >>, s, t) PROVE s = t
<1>1. PICK st : st[0] = s /\ st[Len(<< >>)] = t
  BY DEF Makings
<1>2. Len(<< >>) = 0
  OBVIOUS
<1> QED
  BY <1>1, <1>2

\* One instruction.
LEMMA MakingsOne ==
  ASSUME NEW i, NEW a, NEW b, Makes(i, a, b)
  PROVE  Makings(<< i >>, a, b)
<1> DEFINE st == [k \in 0..1 |-> IF k = 0 THEN a ELSE b]
           code == << i >>
<1>1. st[0] = a /\ st[1] = b
  OBVIOUS
<1>2. IsSeq(code) /\ Len(code) = 1 /\ code[1] = i
  BY DEF IsSeq
<1> HIDE DEF st, code
<1>3. \A k \in 1..1 : Makes(code[k], st[k - 1], st[k])
  BY <1>1, <1>2
<1>4. Makings(code, a, b)
  BY <1>1, <1>2, <1>3 DEF Makings
<1> QED
  BY <1>4 DEF code

\* Two instructions.
LEMMA MakingsTwo ==
  ASSUME NEW i, NEW j, NEW a, NEW b, NEW c, Makes(i, a, b), Makes(j, b, c)
  PROVE  Makings(<< i, j >>, a, c)
<1> DEFINE st == [k \in 0..2 |-> IF k = 0 THEN a ELSE IF k = 1 THEN b ELSE c]
           code == << i, j >>
<1>1. st[0] = a /\ st[1] = b /\ st[2] = c
  OBVIOUS
<1>2. IsSeq(code) /\ Len(code) = 2 /\ code[1] = i /\ code[2] = j
  BY DEF IsSeq
<1> HIDE DEF st, code
<1>3. \A k \in 1..2 : Makes(code[k], st[k - 1], st[k])
  BY <1>1, <1>2
<1>4. Makings(code, a, c)
  BY <1>1, <1>2, <1>3 DEF Makings
<1> QED
  BY <1>4 DEF code

\* Three instructions.
LEMMA MakingsThree ==
  ASSUME NEW i, NEW j, NEW l, NEW a, NEW b, NEW c, NEW d,
         Makes(i, a, b), Makes(j, b, c), Makes(l, c, d)
  PROVE  Makings(<< i, j, l >>, a, d)
<1> DEFINE st == [k \in 0..3 |-> IF k = 0 THEN a ELSE IF k = 1 THEN b ELSE
                                   IF k = 2 THEN c ELSE d]
           code == << i, j, l >>
<1>1. st[0] = a /\ st[1] = b /\ st[2] = c /\ st[3] = d
  OBVIOUS
<1>2. IsSeq(code) /\ Len(code) = 3 /\ code[1] = i /\ code[2] = j /\ code[3] = l
  BY DEF IsSeq
<1> HIDE DEF st, code
<1>3. \A k \in 1..3 : Makes(code[k], st[k - 1], st[k])
  BY <1>1, <1>2
<1>4. Makings(code, a, d)
  BY <1>1, <1>2, <1>3 DEF Makings
<1> QED
  BY <1>4 DEF code

\* Five instructions.
LEMMA MakingsFive ==
  ASSUME NEW i1, NEW i2, NEW i3, NEW i4, NEW i5, NEW s0, NEW s1, NEW s2, NEW s3, NEW s4, NEW s5,
         Makes(i1, s0, s1), Makes(i2, s1, s2), Makes(i3, s2, s3), Makes(i4, s3, s4),
         Makes(i5, s4, s5)
  PROVE  Makings(<< i1, i2, i3, i4, i5 >>, s0, s5)
<1> DEFINE st == [k \in 0..5 |-> IF k = 0 THEN s0 ELSE IF k = 1 THEN s1 ELSE
                                   IF k = 2 THEN s2 ELSE IF k = 3 THEN s3 ELSE
                                   IF k = 4 THEN s4 ELSE s5]
           code == << i1, i2, i3, i4, i5 >>
<1>1. st[0] = s0 /\ st[1] = s1 /\ st[2] = s2 /\ st[3] = s3 /\ st[4] = s4 /\ st[5] = s5
  OBVIOUS
<1>2. /\ IsSeq(code) /\ Len(code) = 5 /\ code[1] = i1 /\ code[2] = i2 /\ code[3] = i3
      /\ code[4] = i4 /\ code[5] = i5
  BY DEF IsSeq
<1> HIDE DEF st, code
<1>3. \A k \in 1..5 : Makes(code[k], st[k - 1], st[k])
  BY <1>1, <1>2
<1>4. Makings(code, s0, s5)
  BY <1>1, <1>2, <1>3 DEF Makings
<1> QED
  BY <1>4 DEF code

\* Code that runs after other code.
LEMMA MakingsConcat ==
  ASSUME NEW x, NEW y, NEW a, NEW b, NEW c, Makings(x, a, b), Makings(y, b, c)
  PROVE  Makings(x \o y, a, c)
<1>1. PICK z, m, n : z = x \o y /\ m = Len(x) /\ n = Len(y)
  OBVIOUS
<1>2. PICK s : s[0] = a /\ s[m] = b /\ \A k \in 1..m : Makes(x[k], s[k - 1], s[k])
  BY <1>1 DEF Makings
<1>3. PICK t : t[0] = b /\ t[n] = c /\ \A k \in 1..n : Makes(y[k], t[k - 1], t[k])
  BY <1>1 DEF Makings
<1>4. /\ IsSeq(x) /\ IsSeq(y) /\ m \in Nat /\ n \in Nat /\ DOMAIN x = 1..m /\ DOMAIN y = 1..n
  BY <1>1, SeqFacts DEF Makings
<1>5. /\ IsSeq(z) /\ Len(z) = m + n
      /\ \A k \in DOMAIN z : \/ k \in DOMAIN x /\ z[k] = x[k]
                             \/ k - m \in DOMAIN y /\ z[k] = y[k - m]
  BY <1>1, <1>4, ConcatSeq
<1>6. DOMAIN z = 1..(m + n)
  BY <1>5, SeqFacts
<1> DEFINE u == [k \in 0..(m + n) |-> IF k <= m THEN s[k] ELSE t[k - m]]
<1>7. /\ \A k \in 0..m : u[k] = s[k]
      /\ \A k \in m..(m + n) : u[k] = t[k - m]
  BY <1>2, <1>3, <1>4
<1> HIDE DEF u
<1>8. u[0] = a /\ u[m + n] = c
  BY <1>2, <1>3, <1>4, <1>7
<1>9. ASSUME NEW k \in 1..(m + n) PROVE Makes(z[k], u[k - 1], u[k])
  <2>1. CASE k \in DOMAIN x /\ z[k] = x[k]
    <3>1. k \in 1..m /\ k - 1 \in 0..m /\ k \in 0..m
      BY <1>4, <2>1
    <3> QED
      BY <1>2, <1>7, <2>1, <3>1
  <2>2. CASE k - m \in DOMAIN y /\ z[k] = y[k - m]
    <3>1. k - m \in 1..n /\ k - 1 \in m..(m + n) /\ k \in m..(m + n)
          /\ (k - m) - 1 = (k - 1) - m
      BY <1>4, <2>2
    <3>2. u[k - 1] = t[(k - m) - 1] /\ u[k] = t[k - m]
      BY <1>7, <3>1
    <3> QED
      BY <1>3, <2>2, <3>1, <3>2
  <2> QED
    BY <1>5, <1>6, <2>1, <2>2
<1>10. Makings(z, a, c)
  BY <1>5, <1>8, <1>9 DEF Makings
<1> QED
  BY <1>1, <1>10

\* An instruction, and what is left.
LEMMA MakingsTail ==
  ASSUME NEW x, NEW a, NEW b, Makings(x, a, b), x # << >>
  PROVE  /\ IsSeq(x) /\ 1 \in DOMAIN x
         /\ \E m : Makes(x[1], a, m) /\ Makings(Tail(x), m, b)
<1>1. PICK n, y : n = Len(x) /\ y = Tail(x)
  OBVIOUS
<1>2. PICK s : s[0] = a /\ s[n] = b /\ \A k \in 1..n : Makes(x[k], s[k - 1], s[k])
  BY <1>1 DEF Makings
<1>3. /\ IsSeq(y) /\ Len(y) = n - 1 /\ DOMAIN y = 1..(n - 1) /\ 1 \in DOMAIN x
      /\ \A i \in DOMAIN y : y[i] = x[i + 1]
      /\ IsSeq(x) /\ n \in Nat /\ DOMAIN x = 1..n
  BY <1>1, TailSeq, SeqFacts DEF Makings
<1>4. Makes(x[1], a, s[1])
  BY <1>2, <1>3
<1> DEFINE t == [k \in 0..(n - 1) |-> s[k + 1]]
<1>5. t[0] = s[1] /\ t[n - 1] = b
  BY <1>2, <1>3
<1>6. ASSUME NEW k \in 1..(n - 1) PROVE Makes(y[k], t[k - 1], t[k])
  <2>1. k + 1 \in 1..n /\ (k + 1) - 1 = k /\ k - 1 \in 0..(n - 1) /\ (k - 1) + 1 = k
        /\ k \in 0..(n - 1)
    BY <1>3
  <2>2. t[k - 1] = s[k] /\ t[k] = s[k + 1]
    BY <2>1
  <2> HIDE DEF t
  <2>3. y[k] = x[k + 1]
    BY <1>3
  <2>4. Makes(x[k + 1], s[(k + 1) - 1], s[k + 1])
    BY <1>2, <2>1
  <2> QED
    BY <2>1, <2>2, <2>3, <2>4
<1> HIDE DEF t
<1>7. Makings(y, s[1], b)
  BY <1>3, <1>5, <1>6 DEF Makings
<1> QED
  BY <1>1, <1>3, <1>4, <1>7

\* Instructions that each leave things as they are.
LEMMA MakingsStay ==
  ASSUME NEW x, IsSeq(x), NEW a, \A k \in DOMAIN x : Makes(x[k], a, a)
  PROVE  Makings(x, a, a)
<1> DEFINE st == [k \in 0..Len(x) |-> a]
<1>1. Len(x) \in Nat /\ DOMAIN x = 1..Len(x)
  BY SeqFacts
<1>2. /\ st[0] = a /\ st[Len(x)] = a
      /\ \A k \in 1..Len(x) : st[k - 1] = a /\ st[k] = a
  BY <1>1
<1> HIDE DEF st
<1> QED
  BY <1>1, <1>2 DEF Makings

-----------------------------------------------------------------------------
(* Views.                                                                  *)

\* w is v with n more children in a member.
Adds(v, w, slot, n) ==
  /\ w \in Views /\ w.kind = v.kind /\ w.ops = v.ops /\ w.mutable = v.mutable
  /\ w.has[slot] = v.has[slot] + n
  /\ \A m \in MemberNames \ {slot} : w.has[m] = v.has[m]

\* v has no children.
Childless(v, kind, ops, mutable) ==
  /\ v \in Views /\ v.kind = kind /\ v.ops = ops /\ v.mutable = mutable
  /\ \A m \in MemberNames : v.has[m] = 0

LEMMA ViewFields ==
  ASSUME NEW v \in Views
  PROVE  /\ v.kind \in Kinds /\ v.ops \in Nat /\ v.mutable \in BOOLEAN
         /\ v.has \in [MemberNames -> Nat] /\ \A m \in MemberNames : v.has[m] \in Nat
         /\ v = [kind |-> v.kind, ops |-> v.ops, mutable |-> v.mutable, has |-> v.has]
  BY DEF Views

\* One more child, or some.
LEMMA MoreAdds ==
  ASSUME NEW v \in Views, NEW slot \in MemberNames, NEW n \in Nat
  PROVE  Adds(v, More(v, slot, n), slot, n)
<1> DEFINE h == [m \in MemberNames |-> IF m = slot THEN v.has[m] + n ELSE v.has[m]]
<1>1. h \in [MemberNames -> Nat]
  BY ViewFields
<1>2. h[slot] = v.has[slot] + n /\ \A m \in MemberNames \ {slot} : h[m] = v.has[m]
  OBVIOUS
<1>3. More(v, slot, n) = [kind |-> v.kind, ops |-> v.ops, mutable |-> v.mutable, has |-> h]
  BY DEF More
<1> HIDE DEF h
<1> QED
  BY <1>1, <1>2, <1>3, ViewFields DEF Adds, Views

\* Views that agree are equal.
LEMMA SameView ==
  ASSUME NEW v \in Views, NEW w \in Views, v.kind = w.kind, v.ops = w.ops,
         v.mutable = w.mutable, \A m \in MemberNames : v.has[m] = w.has[m]
  PROVE  v = w
<1>1. v.has = w.has
  BY ViewFields
<1> QED
  BY <1>1, ViewFields

\* No more children.
LEMMA MoreNone == ASSUME NEW v \in Views, NEW slot \in MemberNames PROVE More(v, slot, 0) = v
<1>1. Adds(v, More(v, slot, 0), slot, 0)
  BY MoreAdds
<1>2. \A m \in MemberNames : More(v, slot, 0).has[m] = v.has[m]
  BY <1>1, ViewFields DEF Adds
<1> QED
  BY <1>1, <1>2, SameView DEF Adds

\* Children one after the other.
LEMMA MoreTwice ==
  ASSUME NEW v \in Views, NEW slot \in MemberNames, NEW m \in Nat, NEW n \in Nat
  PROVE  More(More(v, slot, m), slot, n) = More(v, slot, m + n)
<1> DEFINE x == More(v, slot, m)
           y == More(x, slot, n)
           z == More(v, slot, m + n)
<1>1. Adds(v, x, slot, m)
  BY MoreAdds
<1>2. Adds(x, y, slot, n)
  BY <1>1, MoreAdds DEF Adds
<1>3. Adds(v, z, slot, m + n)
  <2>1. m + n \in Nat
    OBVIOUS
  <2> QED
    BY <2>1, MoreAdds
<1> HIDE DEF x, y, z
<1>4. \A k \in MemberNames : y.has[k] = z.has[k]
  <2> SUFFICES ASSUME NEW k \in MemberNames PROVE y.has[k] = z.has[k]
    OBVIOUS
  <2>1. v.has[k] \in Nat
    BY ViewFields
  <2> QED
    BY <1>1, <1>2, <1>3, <2>1 DEF Adds
<1>5. y = z
  BY <1>1, <1>2, <1>3, <1>4, SameView DEF Adds
<1> QED
  BY <1>5 DEF x, y, z

\* The view of a node.
LEMMA ViewOf ==
  ASSUME NEW node, node.kind \in Kinds, IsSeq(node.ops),
         \A s \in DOMAIN node.slots : IsSeq(node.slots[s])
  PROVE  /\ View(node) \in Views /\ View(node).kind = node.kind
         /\ View(node).ops = Len(node.ops) /\ View(node).mutable = ("IsMutable" \in node.flags)
         /\ \A m \in MemberNames :
              View(node).has[m] = IF m \in DOMAIN node.slots THEN Len(node.slots[m]) ELSE 0
<1> DEFINE h == [m \in MemberNames |->
                   IF m \in DOMAIN node.slots THEN Len(node.slots[m]) ELSE 0]
<1>1. h \in [MemberNames -> Nat]
  BY SeqFacts
<1>2. View(node) = [kind |-> node.kind, ops |-> Len(node.ops),
                    mutable |-> "IsMutable" \in node.flags, has |-> h]
  BY DEF View
<1>3. \A m \in MemberNames : h[m] = IF m \in DOMAIN node.slots THEN Len(node.slots[m]) ELSE 0
  OBVIOUS
<1>4. Len(node.ops) \in Nat
  BY SeqFacts
<1> HIDE DEF h
<1> QED
  BY <1>1, <1>2, <1>3, <1>4 DEF Views

\* A node the constructor left without children.
LEMMA BareView ==
  ASSUME NEW node, Bare(node), Sound(node)
  PROVE  Childless(View(node), node.kind, Len(node.ops), "IsMutable" \in node.flags)
<1>1. DOMAIN node.slots = {}
  BY DEF Bare
<1>2. View(node) \in Views /\ View(node).kind = node.kind /\ View(node).ops = Len(node.ops)
      /\ View(node).mutable = ("IsMutable" \in node.flags)
      /\ \A m \in MemberNames : View(node).has[m] = 0
  BY <1>1, ViewOf DEF Sound
<1> QED
  BY <1>2 DEF Childless

\* A child that is stored is one more in its member.
LEMMA StoredView ==
  ASSUME NEW node, "slots" \in DOMAIN node, DOMAIN node = NodeKeys, node.kind \in Kinds,
         IsSeq(node.ops), \A s \in DOMAIN node.slots : IsSeq(node.slots[s]),
         NEW slot \in MemberNames, NEW x,
         NEW stored, stored = [node EXCEPT !.slots = AppendAt(@, slot, x)]
  PROVE  View(stored) = More(View(node), slot, 1)
<1> PICK a, b : a = node.slots /\ b = AppendAt(a, slot, x)
  OBVIOUS
<1>1. /\ stored.slots = b /\ stored.kind = node.kind /\ stored.ops = node.ops
      /\ stored.flags = node.flags
  BY DEF NodeKeys
<1>2. /\ DOMAIN b = DOMAIN a \cup {slot}
      /\ \A s \in DOMAIN a : s # slot => b[s] = a[s]
      /\ slot \in DOMAIN a => b[slot] = Append(a[slot], x)
      /\ slot \notin DOMAIN a => b[slot] = << x >>
  BY DEF AppendAt
<1>3. /\ slot \in DOMAIN a => IsSeq(b[slot]) /\ Len(b[slot]) = Len(a[slot]) + 1
      /\ slot \notin DOMAIN a => IsSeq(b[slot]) /\ Len(b[slot]) = 1
  <2>1. IsSeq(<< x >>) /\ Len(<< x >>) = 1
    BY DEF IsSeq
  <2>2. ASSUME slot \in DOMAIN a PROVE IsSeq(b[slot]) /\ Len(b[slot]) = Len(a[slot]) + 1
    <3>1. IsSeq(a[slot]) /\ b[slot] = Append(a[slot], x)
      BY <1>2, <2>2
    <3> QED
      BY <3>1, AppendSeq
  <2> QED
    BY <1>2, <2>1, <2>2
<1>4. \A s \in DOMAIN b : IsSeq(b[s])
  BY <1>2, <1>3
<1>5. /\ View(stored) \in Views /\ View(stored).kind = node.kind
      /\ View(stored).ops = Len(node.ops) /\ View(stored).mutable = ("IsMutable" \in node.flags)
      /\ \A m \in MemberNames : View(stored).has[m] = IF m \in DOMAIN b THEN Len(b[m]) ELSE 0
  <2>1. /\ View(stored) \in Views /\ View(stored).kind = stored.kind
        /\ View(stored).ops = Len(stored.ops)
        /\ View(stored).mutable = ("IsMutable" \in stored.flags)
        /\ \A m \in MemberNames :
             View(stored).has[m] = IF m \in DOMAIN stored.slots THEN Len(stored.slots[m]) ELSE 0
    <3>1. stored.kind \in Kinds /\ IsSeq(stored.ops)
          /\ \A s \in DOMAIN stored.slots : IsSeq(stored.slots[s])
      BY <1>1, <1>4
    <3> HIDE DEF NodeKeys
    <3> QED
      BY <3>1, ViewOf
  <2> QED
    BY <1>1, <2>1
<1>6. /\ View(node) \in Views /\ View(node).kind = node.kind
      /\ View(node).ops = Len(node.ops) /\ View(node).mutable = ("IsMutable" \in node.flags)
      /\ \A m \in MemberNames : View(node).has[m] = IF m \in DOMAIN a THEN Len(a[m]) ELSE 0
  BY ViewOf
<1>7. Adds(View(node), More(View(node), slot, 1), slot, 1)
  BY <1>6, MoreAdds
<1>8. \A m \in MemberNames : View(stored).has[m] = More(View(node), slot, 1).has[m]
  <2>1. View(stored).has[slot] = View(node).has[slot] + 1
    <3>1. CASE slot \in DOMAIN a
      BY <1>2, <1>3, <1>5, <1>6, <3>1
    <3>2. CASE slot \notin DOMAIN a
      <4>1. slot \in DOMAIN b /\ Len(b[slot]) = 1
        BY <1>2, <1>3, <3>2
      <4>2. View(stored).has[slot] = 1 /\ View(node).has[slot] = 0
        BY <1>5, <1>6, <3>2, <4>1
      <4> QED
        BY <4>2
    <3> QED
      BY <3>1, <3>2
  <2>2. \A m \in MemberNames \ {slot} : View(stored).has[m] = View(node).has[m]
    BY <1>2, <1>5, <1>6
  <2> QED
    BY <1>7, <2>1, <2>2 DEF Adds
<1> QED
  BY <1>5, <1>6, <1>7, <1>8, SameView DEF Adds

-----------------------------------------------------------------------------
(* The members of each kind, and when a node of it is whole.               *)

\* The members of declarations.
LEMMA DeclMembersOf ==
  /\ MembersOf("Program") = [Objects |-> "TopLevelObject"]
  /\ MembersOf("TopLevelObject") = [Decl |-> "Declaration"]
  /\ MembersOf("FunctionDecl") =
       [Parameters |-> "Parameter", ReturnType |-> "Type", Body |-> "Block"]
  /\ MembersOf("ClassDecl") = [TypeParams |-> "TypeParam", Members |-> "Declaration"]
  /\ MembersOf("VarDecl") = [VarType |-> "Type", Value |-> "Expr"]
  /\ MembersOf("Parameter") = [Type |-> "Type", DefaultValue |-> "Expr"]
  /\ MembersOf("TypeParam") = [DefaultType |-> "Type"]
  BY DEF MembersOf, DeclMembers, TypeMembers, StmtMembers, ExprMembers

\* The members of types.
LEMMA TypeMembersOf ==
  /\ MembersOf("TypeRef") = [TypeArgs |-> "Type"]
  /\ MembersOf("ArrayType") = [ElementType |-> "Type", Size |-> "Expr"]
  /\ MembersOf("FunctionType") = [Parameters |-> "Type", ReturnType |-> "Type"]
  BY DEF MembersOf, DeclMembers, TypeMembers, StmtMembers, ExprMembers

\* The members of statements.
LEMMA StmtMembersOf ==
  /\ MembersOf("Block") = [Statements |-> "Statement"]
  /\ MembersOf("DeclStatement") = [Declaration |-> "Declaration"]
  /\ MembersOf("ExprStmt") = [Expression |-> "Expr"]
  /\ MembersOf("AssignmentStmt") = [LHS |-> "Expr", RHS |-> "Expr"]
  /\ MembersOf("IfStmt") = [Condition |-> "Expr", Then |-> "Statement", Else |-> "Statement"]
  /\ MembersOf("ForStmt") =
       [InitStmts |-> "Declaration", Condition |-> "Expr", Update |-> "Statement", Body |-> "Block"]
  /\ MembersOf("ForEachStmt") = [Scope |-> "Expr", Body |-> "Block"]
  /\ MembersOf("WhileStmt") = [Condition |-> "Expr", Body |-> "Block"]
  /\ MembersOf("DoWhileStmt") = [Body |-> "Block", Condition |-> "Expr"]
  /\ MembersOf("TryStmt") = [Body |-> "Block", CatchClauses |-> "CatchClause", Finally |-> "Block"]
  /\ MembersOf("CatchClause") = [Param |-> "Parameter", Body |-> "Block"]
  BY DEF MembersOf, DeclMembers, TypeMembers, StmtMembers, ExprMembers

\* The members of expressions.
LEMMA ExprMembersOf ==
  /\ MembersOf("UnaryExpr") = [Operand |-> "Expr"]
  /\ MembersOf("BinaryExpr") = [LHS |-> "Expr", RHS |-> "Expr"]
  /\ MembersOf("ComparisonChainExpr") = [Operands |-> "Expr"]
  /\ MembersOf("IfExpr") = [Condition |-> "Expr", Then |-> "Expr", Else |-> "Expr"]
  /\ MembersOf("ThrowExpr") = [Content |-> "Expr"]
  /\ MembersOf("ReturnExpr") = [Value |-> "Expr"]
  /\ MembersOf("ContinueExpr") = [Pos |-> "Label"]
  /\ MembersOf("BreakExpr") = [Pos |-> "Label"]
  /\ MembersOf("CallExpr") = [Callee |-> "Expr", Arguments |-> "Expr", TypeArgs |-> "Type"]
  /\ MembersOf("IndexExpr") = [Base |-> "Expr", Index |-> "Expr"]
  /\ MembersOf("MemberExpr") = [Base |-> "Expr"]
  /\ MembersOf("IsExpr") = [Operand |-> "Expr", CheckType |-> "Type"]
  /\ MembersOf("AsExpr") = [Operand |-> "Expr", TargetType |-> "Type"]
  /\ MembersOf("CollectionExpr") = [Elements |-> "Expr"]
  BY DEF MembersOf, DeclMembers, TypeMembers, StmtMembers, ExprMembers

\* Other nodes have none.
LEMMA LeafMembersOf ==
  \A kind \in {"BuiltinType", "NullLiteral", "BoolLiteral", "IntLiteral", "FloatLiteral", "StringLiteral",
             "CharLiteral", "VarExpr", "ThisExpr", "Label"} :
    MembersOf(kind) = << >>
  BY DEF MembersOf, DeclMembers, TypeMembers, StmtMembers, ExprMembers

\* Member slot of nodes of kind may be given whatever is cast to the type as.
Suits(kind, slot, as) ==
  /\ slot \in MemberNames /\ slot \in DOMAIN MembersOf(kind)
  /\ classof(as) \subseteq classof(MembersOf(kind)[slot])
  /\ kind = "CatchClause" => slot # "Param"
  /\ kind = "IfStmt" /\ slot = "Else" => as = "Block"

\* What the members of declarations are declared to hold.
LEMMA DeclSuits ==
  /\ Suits("Program", "Objects", "TopLevelObject")
  /\ Suits("TopLevelObject", "Decl", "Declaration")
  /\ Suits("FunctionDecl", "Parameters", "Parameter")
  /\ Suits("FunctionDecl", "ReturnType", "Type")
  /\ Suits("FunctionDecl", "Body", "Block")
  /\ Suits("ClassDecl", "TypeParams", "TypeParam")
  /\ Suits("ClassDecl", "Members", "Declaration")
  /\ Suits("VarDecl", "VarType", "Type")
  /\ Suits("VarDecl", "Value", "Expr")
  /\ Suits("Parameter", "Type", "Type")
  /\ Suits("Parameter", "DefaultValue", "Expr")
  /\ Suits("TypeParam", "DefaultType", "Type")
  BY DeclMembersOf DEF Suits, MemberNames

\* What the members of types are declared to hold.
LEMMA TypeSuits ==
  /\ Suits("TypeRef", "TypeArgs", "Type")
  /\ Suits("ArrayType", "ElementType", "Type")
  /\ Suits("ArrayType", "Size", "Expr")
  /\ Suits("FunctionType", "Parameters", "Type")
  /\ Suits("FunctionType", "ReturnType", "Type")
  BY TypeMembersOf DEF Suits, MemberNames

\* What the members of statements are declared to hold.
LEMMA StmtSuits ==
  /\ Suits("Block", "Statements", "Statement")
  /\ Suits("DeclStatement", "Declaration", "Declaration")
  /\ Suits("ExprStmt", "Expression", "Expr")
  /\ Suits("AssignmentStmt", "LHS", "Expr")
  /\ Suits("AssignmentStmt", "RHS", "Expr")
  /\ Suits("IfStmt", "Condition", "Expr")
  /\ Suits("IfStmt", "Then", "Block")
  /\ Suits("IfStmt", "Else", "Block")
  /\ Suits("ForStmt", "InitStmts", "Declaration")
  /\ Suits("ForStmt", "Condition", "Expr")
  /\ Suits("ForStmt", "Update", "Statement")
  /\ Suits("ForStmt", "Body", "Block")
  /\ Suits("ForEachStmt", "Scope", "Expr")
  /\ Suits("ForEachStmt", "Body", "Block")
  /\ Suits("WhileStmt", "Condition", "Expr")
  /\ Suits("WhileStmt", "Body", "Block")
  /\ Suits("DoWhileStmt", "Body", "Block")
  /\ Suits("DoWhileStmt", "Condition", "Expr")
  /\ Suits("TryStmt", "Body", "Block")
  /\ Suits("TryStmt", "CatchClauses", "CatchClause")
  /\ Suits("TryStmt", "Finally", "Block")
  /\ Suits("CatchClause", "Body", "Block")
  BY StmtMembersOf, Classes DEF Suits, MemberNames

\* What the members of expressions are declared to hold.
LEMMA ExprSuits ==
  /\ Suits("UnaryExpr", "Operand", "Expr")
  /\ Suits("BinaryExpr", "LHS", "Expr")
  /\ Suits("BinaryExpr", "RHS", "Expr")
  /\ Suits("ComparisonChainExpr", "Operands", "Expr")
  /\ Suits("IfExpr", "Condition", "Expr")
  /\ Suits("IfExpr", "Then", "Expr")
  /\ Suits("IfExpr", "Else", "Expr")
  /\ Suits("ThrowExpr", "Content", "Expr")
  /\ Suits("ReturnExpr", "Value", "Expr")
  /\ Suits("ContinueExpr", "Pos", "Label")
  /\ Suits("BreakExpr", "Pos", "Label")
  /\ Suits("CallExpr", "Callee", "Expr")
  /\ Suits("CallExpr", "Arguments", "Expr")
  /\ Suits("CallExpr", "TypeArgs", "Type")
  /\ Suits("IndexExpr", "Base", "Expr")
  /\ Suits("IndexExpr", "Index", "Expr")
  /\ Suits("MemberExpr", "Base", "Expr")
  /\ Suits("IsExpr", "Operand", "Expr")
  /\ Suits("IsExpr", "CheckType", "Type")
  /\ Suits("AsExpr", "Operand", "Expr")
  /\ Suits("AsExpr", "TargetType", "Type")
  /\ Suits("CollectionExpr", "Elements", "Expr")
  BY ExprMembersOf DEF Suits, MemberNames

\* When declarations lack nothing.
LEMMA DeclWhole ==
  ASSUME NEW v
  PROVE  /\ v.kind = "Program" => Whole(v)
         /\ v.kind = "TopLevelObject" /\ v.has["Decl"] = 1 => Whole(v)
         /\ v.kind = "FunctionDecl" /\ v.has["ReturnType"] = 1 /\ v.has["Body"] = 1 => Whole(v)
         /\ v.kind = "ClassDecl" => Whole(v)
         /\ v.kind = "VarDecl" /\ v.has["VarType"] \in {0, 1} /\ v.has["Value"] \in {0, 1} /\
              (v.has["VarType"] # 0 \/ v.has["Value"] # 0) /\
              (v.has["Value"] = 0 => v.mutable) => Whole(v)
         /\ v.kind = "Parameter" /\ v.has["Type"] = 1 /\
              v.has["DefaultValue"] \in {0, 1} => Whole(v)
         /\ v.kind = "TypeParam" /\ v.has["DefaultType"] \in {0, 1} => Whole(v)
<1>1. Pointers("Program") = {}
  BY DeclMembersOf DEF Pointers, ListMembers
<1>2. Pointers("TopLevelObject") = {"Decl"}
  BY DeclMembersOf DEF Pointers, ListMembers
<1>3. Pointers("FunctionDecl") = {"ReturnType", "Body"}
  BY DeclMembersOf DEF Pointers, ListMembers
<1>4. Pointers("ClassDecl") = {}
  BY DeclMembersOf DEF Pointers, ListMembers
<1>5. Pointers("VarDecl") = {"VarType", "Value"}
  BY DeclMembersOf DEF Pointers, ListMembers
<1>6. Pointers("Parameter") = {"Type", "DefaultValue"}
  BY DeclMembersOf DEF Pointers, ListMembers
<1>7. Pointers("TypeParam") = {"DefaultType"}
  BY DeclMembersOf DEF Pointers, ListMembers
<1> QED
  BY <1>1, <1>2, <1>3, <1>4, <1>5, <1>6, <1>7 DEF Whole, Shaped, Optional

\* When types lack nothing.
LEMMA TypeWhole ==
  ASSUME NEW v
  PROVE  /\ v.kind = "TypeRef" => Whole(v)
         /\ v.kind = "ArrayType" /\ v.has["ElementType"] = 1 /\ v.has["Size"] = 1 => Whole(v)
         /\ v.kind = "FunctionType" /\ v.has["ReturnType"] = 1 => Whole(v)
<1>1. Pointers("TypeRef") = {}
  BY TypeMembersOf DEF Pointers, ListMembers
<1>2. Pointers("ArrayType") = {"ElementType", "Size"}
  BY TypeMembersOf DEF Pointers, ListMembers
<1>3. Pointers("FunctionType") = {"ReturnType"}
  BY TypeMembersOf DEF Pointers, ListMembers
<1> QED
  BY <1>1, <1>2, <1>3 DEF Whole, Shaped, Optional

\* When statements lack nothing.
LEMMA StmtWhole ==
  ASSUME NEW v
  PROVE  /\ v.kind = "Block" => Whole(v)
         /\ v.kind = "DeclStatement" /\ v.has["Declaration"] = 1 => Whole(v)
         /\ v.kind = "ExprStmt" /\ v.has["Expression"] = 1 => Whole(v)
         /\ v.kind = "AssignmentStmt" /\ v.has["LHS"] = 1 /\ v.has["RHS"] = 1 => Whole(v)
         /\ v.kind = "IfStmt" /\ v.has["Condition"] = 1 /\ v.has["Then"] = 1 /\
              v.has["Else"] \in {0, 1} => Whole(v)
         /\ v.kind = "ForStmt" /\ v.has["Condition"] \in {0, 1} /\ v.has["Update"] \in {0, 1} /\
              v.has["Body"] = 1 => Whole(v)
         /\ v.kind = "ForEachStmt" /\ v.has["Scope"] = 1 /\ v.has["Body"] = 1 => Whole(v)
         /\ v.kind = "WhileStmt" /\ v.has["Condition"] = 1 /\ v.has["Body"] = 1 => Whole(v)
         /\ v.kind = "DoWhileStmt" /\ v.has["Body"] = 1 /\ v.has["Condition"] = 1 => Whole(v)
         /\ v.kind = "TryStmt" /\ v.has["Body"] = 1 /\ v.has["Finally"] \in {0, 1} /\
              (v.has["CatchClauses"] # 0 \/ v.has["Finally"] # 0) => Whole(v)
         /\ v.kind = "CatchClause" /\ v.has["Param"] = 1 /\ v.has["Body"] = 1 => Whole(v)
<1>1. Pointers("Block") = {}
  BY StmtMembersOf DEF Pointers, ListMembers
<1>2. Pointers("DeclStatement") = {"Declaration"}
  BY StmtMembersOf DEF Pointers, ListMembers
<1>3. Pointers("ExprStmt") = {"Expression"}
  BY StmtMembersOf DEF Pointers, ListMembers
<1>4. Pointers("AssignmentStmt") = {"LHS", "RHS"}
  BY StmtMembersOf DEF Pointers, ListMembers
<1>5. Pointers("IfStmt") = {"Condition", "Then", "Else"}
  BY StmtMembersOf DEF Pointers, ListMembers
<1>6. Pointers("ForStmt") = {"Condition", "Update", "Body"}
  BY StmtMembersOf DEF Pointers, ListMembers
<1>7. Pointers("ForEachStmt") = {"Scope", "Body"}
  BY StmtMembersOf DEF Pointers, ListMembers
<1>8. Pointers("WhileStmt") = {"Condition", "Body"}
  BY StmtMembersOf DEF Pointers, ListMembers
<1>9. Pointers("DoWhileStmt") = {"Body", "Condition"}
  BY StmtMembersOf DEF Pointers, ListMembers
<1>10. Pointers("TryStmt") = {"Body", "Finally"}
  BY StmtMembersOf DEF Pointers, ListMembers
<1>11. Pointers("CatchClause") = {"Param", "Body"}
  BY StmtMembersOf DEF Pointers, ListMembers
<1> QED
  BY <1>1, <1>2, <1>3, <1>4, <1>5, <1>6, <1>7, <1>8, <1>9, <1>10, <1>11 DEF Whole, Shaped, Optional

\* When expressions lack nothing.
LEMMA ExprWhole ==
  ASSUME NEW v
  PROVE  /\ v.kind = "UnaryExpr" /\ v.has["Operand"] = 1 => Whole(v)
         /\ v.kind = "BinaryExpr" /\ v.has["LHS"] = 1 /\ v.has["RHS"] = 1 => Whole(v)
         /\ v.kind = "ComparisonChainExpr" /\ v.ops = v.has["Operands"] - 1 => Whole(v)
         /\ v.kind = "IfExpr" /\ v.has["Condition"] = 1 /\ v.has["Then"] = 1 /\
              v.has["Else"] \in {0, 1} => Whole(v)
         /\ v.kind = "ThrowExpr" /\ v.has["Content"] = 1 => Whole(v)
         /\ v.kind = "ReturnExpr" /\ v.has["Value"] \in {0, 1} => Whole(v)
         /\ v.kind = "ContinueExpr" /\ v.has["Pos"] \in {0, 1} => Whole(v)
         /\ v.kind = "BreakExpr" /\ v.has["Pos"] \in {0, 1} => Whole(v)
         /\ v.kind = "CallExpr" /\ v.has["Callee"] = 1 => Whole(v)
         /\ v.kind = "IndexExpr" /\ v.has["Base"] = 1 /\ v.has["Index"] = 1 => Whole(v)
         /\ v.kind = "MemberExpr" /\ v.has["Base"] = 1 => Whole(v)
         /\ v.kind = "IsExpr" /\ v.has["Operand"] = 1 /\ v.has["CheckType"] = 1 => Whole(v)
         /\ v.kind = "AsExpr" /\ v.has["Operand"] = 1 /\ v.has["TargetType"] = 1 => Whole(v)
         /\ v.kind = "CollectionExpr" => Whole(v)
<1>1. Pointers("UnaryExpr") = {"Operand"}
  BY ExprMembersOf DEF Pointers, ListMembers
<1>2. Pointers("BinaryExpr") = {"LHS", "RHS"}
  BY ExprMembersOf DEF Pointers, ListMembers
<1>3. Pointers("ComparisonChainExpr") = {}
  BY ExprMembersOf DEF Pointers, ListMembers
<1>4. Pointers("IfExpr") = {"Condition", "Then", "Else"}
  BY ExprMembersOf DEF Pointers, ListMembers
<1>5. Pointers("ThrowExpr") = {"Content"}
  BY ExprMembersOf DEF Pointers, ListMembers
<1>6. Pointers("ReturnExpr") = {"Value"}
  BY ExprMembersOf DEF Pointers, ListMembers
<1>7. Pointers("ContinueExpr") = {"Pos"}
  BY ExprMembersOf DEF Pointers, ListMembers
<1>8. Pointers("BreakExpr") = {"Pos"}
  BY ExprMembersOf DEF Pointers, ListMembers
<1>9. Pointers("CallExpr") = {"Callee"}
  BY ExprMembersOf DEF Pointers, ListMembers
<1>10. Pointers("IndexExpr") = {"Base", "Index"}
  BY ExprMembersOf DEF Pointers, ListMembers
<1>11. Pointers("MemberExpr") = {"Base"}
  BY ExprMembersOf DEF Pointers, ListMembers
<1>12. Pointers("IsExpr") = {"Operand", "CheckType"}
  BY ExprMembersOf DEF Pointers, ListMembers
<1>13. Pointers("AsExpr") = {"Operand", "TargetType"}
  BY ExprMembersOf DEF Pointers, ListMembers
<1>14. Pointers("CollectionExpr") = {}
  BY ExprMembersOf DEF Pointers, ListMembers
<1> QED
  BY <1>1, <1>2, <1>3, <1>4, <1>5, <1>6, <1>7, <1>8, <1>9, <1>10, <1>11, <1>12, <1>13, <1>14 DEF Whole, Shaped, Optional

\* Leaves lack nothing.
LEMMA LeafWhole ==
  ASSUME NEW v,
         v.kind \in {"BuiltinType", "NullLiteral", "BoolLiteral", "IntLiteral", "FloatLiteral",
                    "StringLiteral", "CharLiteral", "VarExpr", "ThisExpr", "Label"}
  PROVE  Whole(v)
<1>1. Pointers(v.kind) = {}
  BY LeafMembersOf DEF Pointers
<1> QED
  BY <1>1 DEF Whole, Shaped

\* What the rules return.
LEMMA YieldsOf ==
  /\ Yields("file") = {"Program"} /\ Yields("topLevelObject") = {"TopLevelObject"}
  /\ Yields("classDecl") = {"ClassDecl"}
  /\ \A sym \in DeclContexts \ {"classDecl"} : Yields(sym) = classof("Declaration")
  /\ Yields("parameter") = {"Parameter"}
  /\ \A sym \in TypeContexts : Yields(sym) = classof("Type")
  /\ Yields("ifStmt") = {"IfStmt"}
  /\ \A sym \in StmtContexts \ {"ifStmt"} : Yields(sym) = classof("Statement")
  /\ Yields("block") = {"Block"} /\ Yields("catchClause") = {"CatchClause"}
  /\ \A sym \in ExprContexts : Yields(sym) = classof("Expr")
  /\ Yields("label") = {"Label"}
<1>1. \A sym \in DeclContexts \cup TypeContexts \cup StmtContexts \cup ExprContexts \cup
            {"file", "topLevelObject", "parameter", "block", "catchClause", "label"} :
        sym \notin {"ifStmt", "classDecl"} => Yields(sym) = classof(Answer(sym))
  BY DEF Yields
<1>2. Yields("ifStmt") = {"IfStmt"} /\ Yields("classDecl") = {"ClassDecl"}
  BY DEF Yields
<1>3. \A sym \in DeclContexts \ {"classDecl"} : Yields(sym) = classof("Declaration")
  BY <1>1, Answers DEF DeclContexts
<1>4. \A sym \in TypeContexts : Yields(sym) = classof("Type")
  BY <1>1, Answers DEF TypeContexts
<1>5. \A sym \in StmtContexts \ {"ifStmt"} : Yields(sym) = classof("Statement")
  BY <1>1, Answers DEF StmtContexts
<1>6. \A sym \in ExprContexts : Yields(sym) = classof("Expr")
  BY <1>1, Answers DEF ExprContexts
<1>7. /\ Yields("file") = {"Program"} /\ Yields("topLevelObject") = {"TopLevelObject"}
      /\ Yields("parameter") = {"Parameter"} /\ Yields("block") = {"Block"}
      /\ Yields("catchClause") = {"CatchClause"} /\ Yields("label") = {"Label"}
  BY <1>1, Answers, Classes
<1> QED
  BY <1>2, <1>3, <1>4, <1>5, <1>6, <1>7

\* The visitor of a rule returns nodes of the class it answers with.
LEMMA YieldsClass ==
  \A sym : Answer(sym) # "empty" =>
    /\ Yields(sym) \subseteq classof(Answer(sym))
    /\ sym = "ifStmt" => Yields(sym) = {"IfStmt"}
<1>1. Yields("ifStmt") \subseteq classof(Answer("ifStmt"))
  BY Answers, Classes DEF Yields, StmtContexts
<1>2. Yields("classDecl") \subseteq classof(Answer("classDecl"))
  BY Answers, Classes DEF Yields, DeclContexts
<1> QED
  BY <1>1, <1>2 DEF Yields

-----------------------------------------------------------------------------
(* The nodes the visitors make.                                            *)

\* A node of a kind as a visitor allocates it.
Made(node, kind, ops, mutable) ==
  Bare(node) /\ Sound(node) /\ Childless(View(node), kind, ops, mutable)

\* It has no children yet, and what its header shows is in order.
LEMMA MadeIs ==
  ASSUME NEW kind \in Kinds, NEW start, NEW end, NEW name, NEW ops, IsSeq(ops), NEW flags,
         NEW node, node = [kind |-> kind, start |-> start, end |-> end, name |-> name,
                           ops |-> ops, flags |-> flags, vis |-> "Public", slots |-> << >>],
         kind \in NamedByInfo => name # Null,
         flags \subseteq ShownFlags(kind) \cup {"decoded", "default", "raw"},
         kind \in Chained => \A k \in DOMAIN ops : ops[k] \in DOMAIN getOpSymbol,
         kind = "BuiltinType" => Len(ops) = 1 /\ ops[1] \in DOMAIN getBuiltinTypeName,
         kind \notin Chained \cup {"BuiltinType"} => ops = << >>,
         kind = "ComparisonChainExpr" => \A k \in DOMAIN ops : ops[k] \in Ordering
  PROVE  Made(node, kind, Len(ops), "IsMutable" \in flags)
<1>1. /\ DOMAIN node = NodeKeys /\ node.kind = kind /\ node.name = name /\ node.ops = ops
      /\ node.flags = flags /\ node.vis = "Public" /\ node.slots = << >>
  BY DEF NodeKeys
<1>2. "Public" \in DOMAIN getVisibilityName
  BY DEF getVisibilityName
<1>3. Bare(node)
  BY <1>1 DEF Bare, NodeKeys
<1>4. Legible(node)
  BY <1>1, <1>2 DEF Legible
<1>5. Sound(node)
  BY <1>1, <1>4 DEF Sound
<1> QED
  BY <1>1, <1>3, <1>5, BareView DEF Made

\* The flags of most kinds.
LEMMA FlagFacts ==
  /\ ShownFlags("VarDecl") = {"IsMutable"}
  /\ \A kind \in {"TypeRef", "CallExpr"} : ShownFlags(kind) = {"ExplicitTypeArgs"}
  /\ \A kind \in {"MemberExpr", "AsExpr"} : ShownFlags(kind) = {"NullSafe"}
  BY DEF ShownFlags

\* What has neither a name that is always printed nor an operator.
LEMMA MadePlain ==
  ASSUME NEW kind \in Kinds, kind \notin NamedByInfo \cup {"BuiltinType"}, NEW from, NEW to
  PROVE  Made(Node(kind, from, to), kind, 0, FALSE)
<1>1. PICK node : node = Node(kind, from, to)
  OBVIOUS
<1>2. node = [kind |-> kind, start |-> tree[from].start, end |-> RangeEnd(to), name |-> Null,
              ops |-> << >>, flags |-> {}, vis |-> "Public", slots |-> << >>]
  BY <1>1 DEF Node
<1>3. IsSeq(<< >>) /\ Len(<< >>) = 0 /\ DOMAIN << >> = {} /\ ("IsMutable" \in {}) = FALSE
  BY DEF IsSeq
<1>4. Made(node, kind, Len(<< >>), "IsMutable" \in {})
  BY <1>2, <1>3, MadeIs
<1> QED
  BY <1>1, <1>3, <1>4

\* What keeps an identifier.
LEMMA MadeNamed ==
  ASSUME NEW kind \in Kinds, kind # "BuiltinType", NEW from, NEW to, NEW c,
         kind \in NamedByInfo => Has(c, "IDENTIFIER")
  PROVE  Made(Named(Node(kind, from, to), c), kind, 0, FALSE)
<1>1. PICK node, name : node = Named(Node(kind, from, to), c) /\ name = The(c, "IDENTIFIER")
  OBVIOUS
<1>2. node = [kind |-> kind, start |-> tree[from].start, end |-> RangeEnd(to), name |-> name,
              ops |-> << >>, flags |-> {}, vis |-> "Public", slots |-> << >>]
  BY <1>1 DEF Node, Named
<1>3. IsSeq(<< >>) /\ Len(<< >>) = 0 /\ DOMAIN << >> = {} /\ ("IsMutable" \in {}) = FALSE
  BY DEF IsSeq
<1>4. kind \in NamedByInfo => name # Null
  BY <1>1 DEF Has
<1>5. Made(node, kind, Len(<< >>), "IsMutable" \in {})
  BY <1>2, <1>3, <1>4, MadeIs
<1> QED
  BY <1>1, <1>3, <1>5

\* What has an operator.
LEMMA MadeWithOp ==
  ASSUME NEW kind \in {"AssignmentStmt", "UnaryExpr", "BinaryExpr"}, NEW from, NEW to, NEW op \in DOMAIN getOpSymbol
  PROVE  Made(WithOp(Node(kind, from, to), op), kind, 1, FALSE)
<1>1. PICK node, ops : node = WithOp(Node(kind, from, to), op) /\ ops = << op >>
  OBVIOUS
<1>2. node = [kind |-> kind, start |-> tree[from].start, end |-> RangeEnd(to), name |-> Null,
              ops |-> ops, flags |-> {}, vis |-> "Public", slots |-> << >>]
  BY <1>1 DEF Node, WithOp
<1>3. IsSeq(ops) /\ Len(ops) = 1 /\ \A k \in DOMAIN ops : ops[k] = op
  BY <1>1 DEF IsSeq
<1>4. kind \in Kinds /\ kind \notin NamedByInfo /\ kind # "BuiltinType"
      /\ kind \in Chained /\ kind # "ComparisonChainExpr"
  BY KindsAre DEF NamedByInfo, Chained
<1>5. Made(node, kind, Len(ops), "IsMutable" \in {})
  BY <1>2, <1>3, <1>4, MadeIs
<1>6. ("IsMutable" \in {}) = FALSE
  OBVIOUS
<1> QED
  BY <1>1, <1>3, <1>5, <1>6

\* The types that are built in.
LEMMA MadeBuiltin ==
  ASSUME NEW from, NEW to, NEW type \in DOMAIN getBuiltinTypeName
  PROVE  Made(WithOp(Node("BuiltinType", from, to), type), "BuiltinType", 1, FALSE)
<1>1. PICK node, ops, kind : /\ node = WithOp(Node("BuiltinType", from, to), type)
                             /\ ops = << type >> /\ kind = "BuiltinType"
  OBVIOUS
<1>2. node = [kind |-> kind, start |-> tree[from].start, end |-> RangeEnd(to),
              name |-> Null, ops |-> ops, flags |-> {}, vis |-> "Public", slots |-> << >>]
  BY <1>1 DEF Node, WithOp
<1>3. IsSeq(ops) /\ Len(ops) = 1 /\ ops[1] = type
  BY <1>1 DEF IsSeq
<1>4. kind \notin NamedByInfo \cup Chained /\ kind \in Kinds /\ kind = "BuiltinType"
  BY <1>1, KindsAre DEF Chained, NamedByInfo
<1>5. Made(node, kind, Len(ops), "IsMutable" \in {})
  BY <1>2, <1>3, <1>4, MadeIs
<1>6. ("IsMutable" \in {}) = FALSE
  OBVIOUS
<1> QED
  BY <1>1, <1>3, <1>5, <1>6

\* A chain has several operators.
LEMMA MadeChain ==
  ASSUME NEW from, NEW to, NEW ops, IsSeq(ops), \A k \in DOMAIN ops : ops[k] \in Ordering
  PROVE  Made([Node("ComparisonChainExpr", from, to) EXCEPT !.ops = ops],
              "ComparisonChainExpr", Len(ops), FALSE)
<1>1. PICK node, kind : /\ node = [Node("ComparisonChainExpr", from, to) EXCEPT !.ops = ops]
                        /\ kind = "ComparisonChainExpr"
  OBVIOUS
<1>2. node = [kind |-> kind, start |-> tree[from].start, end |-> RangeEnd(to),
              name |-> Null, ops |-> ops, flags |-> {}, vis |-> "Public", slots |-> << >>]
  BY <1>1 DEF Node
<1>3. kind \notin NamedByInfo \cup {"BuiltinType"} /\ kind \in Chained /\ kind \in Kinds
  BY <1>1, KindsAre DEF Chained, NamedByInfo
<1>4. \A k \in DOMAIN ops : ops[k] \in DOMAIN getOpSymbol
  BY DEF Ordering, getOpSymbol
<1>5. kind # "BuiltinType" /\ kind \notin NamedByInfo
  BY <1>3
<1>6. Made(node, kind, Len(ops), "IsMutable" \in {})
  BY <1>2, <1>3, <1>4, <1>5, MadeIs
<1>7. ("IsMutable" \in {}) = FALSE
  OBVIOUS
<1> QED
  BY <1>1, <1>6, <1>7

\* What has a flag, without a name and with one.
LEMMA MadeFlagged ==
  ASSUME NEW kind \in Kinds, kind # "BuiltinType", NEW from, NEW to,
         NEW flag, flag \in ShownFlags(kind) \cup {"decoded", "default", "raw"},
         NEW cond \in BOOLEAN
  PROVE  /\ kind \notin NamedByInfo =>
              Made(Flagged(Node(kind, from, to), flag, cond), kind, 0,
                   cond /\ flag = "IsMutable")
         /\ \A c : (kind \in NamedByInfo => Has(c, "IDENTIFIER")) =>
              Made(Flagged(Named(Node(kind, from, to), c), flag, cond), kind, 0,
                   cond /\ flag = "IsMutable")
<1>1. IsSeq(<< >>) /\ Len(<< >>) = 0 /\ DOMAIN << >> = {}
  BY DEF IsSeq
<1>2. PICK flags : flags = IF cond THEN {flag} ELSE {}
  OBVIOUS
<1>3. ("IsMutable" \in flags) = (cond /\ flag = "IsMutable")
  BY <1>2
<1>4. ASSUME kind \notin NamedByInfo
      PROVE  Made(Flagged(Node(kind, from, to), flag, cond), kind, 0, cond /\ flag = "IsMutable")
  <2>1. PICK node : node = Flagged(Node(kind, from, to), flag, cond)
    OBVIOUS
  <2>2. node = [kind |-> kind, start |-> tree[from].start, end |-> RangeEnd(to), name |-> Null,
                ops |-> << >>, flags |-> flags, vis |-> "Public", slots |-> << >>]
    BY <1>2, <2>1 DEF Node, Flagged
  <2>3. Made(node, kind, Len(<< >>), "IsMutable" \in flags)
    BY <1>1, <1>2, <1>4, <2>2, MadeIs
  <2> QED
    BY <1>1, <1>3, <2>1, <2>3
<1>5. ASSUME NEW c, kind \in NamedByInfo => Has(c, "IDENTIFIER")
      PROVE  Made(Flagged(Named(Node(kind, from, to), c), flag, cond), kind, 0,
                  cond /\ flag = "IsMutable")
  <2>1. PICK node, name : /\ node = Flagged(Named(Node(kind, from, to), c), flag, cond)
                          /\ name = The(c, "IDENTIFIER")
    OBVIOUS
  <2>2. node = [kind |-> kind, start |-> tree[from].start, end |-> RangeEnd(to), name |-> name,
                ops |-> << >>, flags |-> flags, vis |-> "Public", slots |-> << >>]
    BY <1>2, <2>1 DEF Node, Named, Flagged
  <2>3. kind \in NamedByInfo => name # Null
    BY <1>5, <2>1 DEF Has
  <2>4. Made(node, kind, Len(<< >>), "IsMutable" \in flags)
    BY <1>1, <1>2, <2>2, <2>3, MadeIs
  <2> QED
    BY <1>1, <1>3, <2>1, <2>4
<1> QED
  BY <1>4, <1>5

-----------------------------------------------------------------------------
(* What the instructions make of views.                                    *)

\* A whole node of a class suits the members declared with it.
LEMMA SuitsFits ==
  ASSUME NEW kind, NEW slot, NEW as, Suits(kind, slot, as),
         NEW w \in Views, w.kind \in classof(as)
  PROVE  slot \in MemberNames /\ Fits(kind, slot, w)
<1>1. classof("Block") = {"Block"}
  BY Classes
<1>2. kind = "IfStmt" /\ slot = "Else" => w.kind \in {"IfStmt", "Block"}
  BY <1>1 DEF Suits
<1> QED
  BY <1>2 DEF Suits, Fits

\* The stage of a call that holds a node.
LEMMA HoldingIs ==
  ASSUME NEW v
  PROVE  /\ Holding(v).at = "holds" /\ Holding(v).res = {v}
         /\ Start.at = "empty"
  BY DEF Holding, Start, Stage

\* A node is made.
LEMMA NewMakes ==
  ASSUME NEW node, NEW kind, NEW ops, NEW mutable, Made(node, kind, ops, mutable)
  PROVE  \E v : Childless(v, kind, ops, mutable) /\ Makes(New(node), Start, Holding(v))
<1>1. PICK i : i = New(node)
  OBVIOUS
<1>2. i.do = "new" /\ i.node = node
  BY <1>1 DEF New
<1>3. Makes(i, Start, Holding(View(node)))
  BY <1>2, HoldingIs DEF Makes, Made
<1> QED
  BY <1>1, <1>3 DEF Made

\* As many more children make the same view.
LEMMA AddsSame ==
  ASSUME NEW v, NEW slot \in MemberNames, NEW n, NEW u, NEW w, Adds(v, u, slot, n),
         Adds(v, w, slot, n)
  PROVE  u = w
<1>1. \A m \in MemberNames : u.has[m] = w.has[m]
  BY DEF Adds
<1> QED
  BY <1>1, SameView DEF Adds

\* A child is visited and stored in a member.
LEMMA GetMakes ==
  ASSUME NEW v \in Views, NEW as, as # "any", NEW slot, slot # Result,
         Suits(v.kind, slot, as), NEW child
  PROVE  \E w : Adds(v, w, slot, 1) /\ Makes(Get(as, child, slot), Holding(v), Holding(w))
<1>1. PICK i : i = Get(as, child, slot)
  OBVIOUS
<1>2. i.do = "get" /\ i.slot = slot /\ i.as = as /\ i.child = child
  BY <1>1 DEF Get
<1>3. slot \in MemberNames
  BY DEF Suits
<1>4. PICK w : w = More(v, slot, 1)
  OBVIOUS
<1>5. \A g \in Given(i) : g \in Views /\ g.kind \in classof(as) /\ Whole(g)
  BY <1>2 DEF Given
<1>6. Accepts({v}, slot, Given(i), {w})
  BY <1>4, <1>5, SuitsFits DEF Accepts
<1>7. Makes(i, Holding(v), Holding(w))
  BY <1>2, <1>6, HoldingIs DEF Makes
<1>8. Adds(v, w, slot, 1)
  BY <1>3, <1>4, MoreAdds
<1> QED
  BY <1>1, <1>7, <1>8

\* Some children are visited and stored in a member.
LEMMA AllMakes ==
  ASSUME NEW v \in Views, NEW as, as # "any", NEW slot, slot # Result,
         Suits(v.kind, slot, as), NEW code, IsSeq(code),
         \A k \in DOMAIN code : \E child : code[k] = Get(as, child, slot)
  PROVE  \E w : Adds(v, w, slot, Len(code)) /\ Makings(code, Holding(v), Holding(w))
<1>1. slot \in MemberNames
  BY DEF Suits
<1>2. Len(code) \in Nat /\ DOMAIN code = 1..Len(code)
  BY SeqFacts
<1>3. PICK st : st = [k \in 0..Len(code) |-> Holding(More(v, slot, k))]
  OBVIOUS
<1>4. st[0] = Holding(v)
  BY <1>1, <1>2, <1>3, MoreNone
<1>5. st[Len(code)] = Holding(More(v, slot, Len(code)))
  BY <1>2, <1>3
<1>6. ASSUME NEW k \in 1..Len(code) PROVE Makes(code[k], st[k - 1], st[k])
  <2>1. PICK child : code[k] = Get(as, child, slot)
    BY <1>2
  <2>2. PICK u, j : u = More(v, slot, j) /\ j = k - 1 /\ j \in Nat
    BY <1>2
  <2>3. u \in Views /\ u.kind = v.kind
    BY <1>1, <2>2, MoreAdds DEF Adds
  <2>4. PICK w : Adds(u, w, slot, 1) /\ Makes(Get(as, child, slot), Holding(u), Holding(w))
    BY <2>3, GetMakes
  <2>5. More(u, slot, 1) = More(v, slot, k)
    <3>1. More(u, slot, 1) = More(v, slot, j + 1)
      BY <1>1, <2>2, MoreTwice
    <3> QED
      BY <1>2, <2>2, <3>1
  <2>6. w = More(u, slot, 1)
    <3>1. Adds(u, More(u, slot, 1), slot, 1)
      BY <1>1, <2>3, MoreAdds
    <3> QED
      BY <1>1, <2>4, <3>1, AddsSame
  <2>7. k \in 0..Len(code) /\ j \in 0..Len(code) /\ j = k - 1
    BY <1>2, <2>2
  <2>8. st[k - 1] = Holding(u) /\ st[k] = Holding(w)
    BY <1>3, <2>2, <2>5, <2>6, <2>7
  <2> QED
    BY <2>1, <2>4, <2>8
<1>7. Makings(code, Holding(v), Holding(More(v, slot, Len(code))))
  BY <1>4, <1>5, <1>6 DEF Makings
<1> QED
  BY <1>1, <1>2, <1>7, MoreAdds

\* A list of children.
LEMMA ListMakes ==
  ASSUME NEW v \in Views, NEW as, as # "any", NEW slot, slot # Result,
         Suits(v.kind, slot, as), NEW children, IsSeq(children)
  PROVE  \E w : /\ Adds(v, w, slot, Len(children))
                /\ Makings(GetAll(as, children, slot), Holding(v), Holding(w))
<1>1. PICK code : code = GetAll(as, children, slot)
  OBVIOUS
<1>2. Len(children) \in Nat /\ DOMAIN children = 1..Len(children)
  BY SeqFacts
<1>3. code = [k \in 1..Len(children) |-> Get(as, children[k], slot)]
  BY <1>1, <1>2 DEF GetAll
<1>4. IsSeq(code) /\ Len(code) = Len(children)
  <2>1. code = [k \in 1..Len(children) |-> code[k]]
    BY <1>3
  <2>2. IsSeq(code)
    BY <1>2, <2>1, FunSeq
  <2>3. DOMAIN code = 1..Len(children)
    BY <1>3
  <2> QED
    BY <1>2, <2>2, <2>3, SeqFacts
<1>5. \A k \in DOMAIN code : \E child : code[k] = Get(as, child, slot)
  BY <1>3
<1> QED
  BY <1>1, <1>4, <1>5, AllMakes

\* A child that may be missing.
LEMMA MaybeMakes ==
  ASSUME NEW v \in Views, NEW as, as # "any", NEW slot, slot # Result,
         Suits(v.kind, slot, as), NEW child, NEW cond \in BOOLEAN
  PROVE  \E w : /\ Adds(v, w, slot, IF cond THEN 1 ELSE 0)
                /\ Makings(If(cond, << Get(as, child, slot) >>), Holding(v), Holding(w))
<1>1. slot \in MemberNames
  BY DEF Suits
<1>2. CASE cond
  <2>1. PICK w : Adds(v, w, slot, 1) /\ Makes(Get(as, child, slot), Holding(v), Holding(w))
    BY GetMakes
  <2>2. Makings(<< Get(as, child, slot) >>, Holding(v), Holding(w))
    BY <2>1, MakingsOne
  <2>3. If(cond, << Get(as, child, slot) >>) = << Get(as, child, slot) >>
    BY <1>2 DEF If
  <2> QED
    BY <1>2, <2>1, <2>2, <2>3
<1>3. CASE ~ cond
  <2>1. Adds(v, v, slot, 0)
    BY <1>1, MoreAdds, MoreNone
  <2>2. Makings(<< >>, Holding(v), Holding(v))
    BY MakingsNone
  <2>3. If(cond, << Get(as, child, slot) >>) = << >>
    BY <1>3 DEF If
  <2> QED
    BY <1>3, <2>1, <2>2, <2>3
<1> QED
  BY <1>2, <1>3

\* A list that may be missing.
LEMMA MaybeListMakes ==
  ASSUME NEW v \in Views, NEW as, as # "any", NEW slot, slot # Result,
         Suits(v.kind, slot, as), NEW cond, NEW code,
         cond => \E w : \E n \in Nat : Adds(v, w, slot, n) /\ Makings(code, Holding(v), Holding(w))
  PROVE  \E w : \E n \in Nat : /\ Adds(v, w, slot, n)
                               /\ Makings(If(cond, code), Holding(v), Holding(w))
<1>1. slot \in MemberNames
  BY DEF Suits
<1>2. CASE cond
  BY <1>2 DEF If
<1>3. CASE ~ cond
  <2>1. Adds(v, v, slot, 0)
    BY <1>1, MoreAdds, MoreNone
  <2>2. Makings(<< >>, Holding(v), Holding(v))
    BY MakingsNone
  <2>3. If(cond, code) = << >>
    BY <1>3 DEF If
  <2> QED
    BY <2>1, <2>2, <2>3
<1> QED
  BY <1>2, <1>3

\* The result so far becomes the first child of a new node.
LEMMA WrapMakes ==
  ASSUME NEW s, s.at \in Done, NEW as,
         \A w \in s.res : w \in Views /\ w.kind \in classof(as) /\ Whole(w),
         NEW node, NEW kind, NEW ops, NEW mutable, Made(node, kind, ops, mutable),
         NEW slot, Suits(kind, slot, as)
  PROVE  \E u, v : /\ Childless(u, kind, ops, mutable) /\ Adds(u, v, slot, 1)
                   /\ Makes(Wrap(node, slot), s, Holding(v))
<1>1. PICK i : i = Wrap(node, slot)
  OBVIOUS
<1>2. i.do = "wrap" /\ i.node = node /\ i.slot = slot
  BY <1>1 DEF Wrap
<1>3. PICK u : u = View(node)
  OBVIOUS
<1>4. Childless(u, kind, ops, mutable) /\ Bare(node) /\ Sound(node)
  BY <1>3 DEF Made
<1>5. u \in Views /\ u.kind = kind
  BY <1>4 DEF Childless
<1>6. slot \in MemberNames
  BY DEF Suits
<1>7. PICK v : v = More(u, slot, 1)
  OBVIOUS
<1>8. Adds(u, v, slot, 1)
  BY <1>5, <1>6, <1>7, MoreAdds
<1>9. Accepts({u}, slot, s.res, {v})
  BY <1>5, <1>7, SuitsFits DEF Accepts
<1>10. Makes(i, s, Holding(v))
  BY <1>2, <1>3, <1>4, <1>9, HoldingIs DEF Makes
<1> QED
  BY <1>1, <1>4, <1>8, <1>10

\* The first visit of a loop.
LEMMA ResultMakes ==
  ASSUME NEW as, as # "any", NEW child
  PROVE  \E s : /\ s.at = "passes" /\ Makes(Get(as, child, Result), Start, s)
                /\ \A w \in s.res : w \in Views /\ w.kind \in classof(as) /\ Whole(w)
<1>1. PICK i : i = Get(as, child, Result)
  OBVIOUS
<1>2. i.do = "get" /\ i.slot = Result /\ i.as = as
  BY <1>1 DEF Get
<1>3. PICK s : s = Stage("passes", Given(i), {})
  OBVIOUS
<1>4. s.at = "passes" /\ s.res = Given(i)
  BY <1>3 DEF Stage
<1>5. Makes(i, Start, s)
  BY <1>2, <1>4, HoldingIs DEF Makes
<1>6. \A w \in Given(i) : w \in Views /\ w.kind \in classof(as) /\ Whole(w)
  BY <1>2 DEF Given
<1> QED
  BY <1>1, <1>4, <1>5, <1>6

\* An error is reported; nothing changes.
LEMMA ErrorMakes ==
  ASSUME NEW from, NEW to, NEW message, NEW s
  PROVE  Makes(Error(from, to, message), s, s)
<1>1. PICK i : i = Error(from, to, message)
  OBVIOUS
<1>2. i.do = "report"
  BY <1>1 DEF Error
<1> QED
  BY <1>1, <1>2 DEF Makes

-----------------------------------------------------------------------------
(* Visitors that end with a whole node.                                    *)

\* What the last instructions must leave to the call.
LEMMA FinalHolding ==
  ASSUME NEW c, NEW v \in Views, v.kind \in Yields(tree[c].sym), Whole(v)
  PROVE  Final(c, Holding(v))
<1>1. Holding(v).at \in Done
  BY HoldingIs DEF Done
<1> QED
  BY <1>1, HoldingIs DEF Final, Post

\* A visitor without a loop.
LEMMA FinalWhole ==
  ASSUME NEW c, NEW any, NEW block, Visit(c) = Visitor(any, block),
         NEW t, Final(c, t), Makings(block, Start, t)
  PROVE  VisitWhole(c)
<1>1. PICK v : v = Visit(c)
  OBVIOUS
<1>2. v.code = << block >>
  BY <1>1 DEF Visitor
<1>3. IsSeq(<< block >>) /\ DOMAIN << block >> = {1} /\ << block >>[1] = block
  BY DEF IsSeq
<1>4. << block >> # << >>
  BY <1>3
<1> QED
  BY <1>1, <1>2, <1>3, <1>4 DEF VisitWhole

\* It ends with a node it made.
LEMMA BlockWhole ==
  ASSUME NEW c, NEW any, NEW block, Visit(c) = Visitor(any, block),
         NEW v \in Views, Makings(block, Start, Holding(v)),
         v.kind \in Yields(tree[c].sym), Whole(v)
  PROVE  VisitWhole(c)
  BY FinalHolding, FinalWhole

\* A visitor that runs one block per operand or suffix.
LEMMA LoopWhole ==
  ASSUME NEW c, NEW any, NEW first, NEW blocks, IsSeq(blocks),
         Visit(c) = Loop(any, << first >> \o blocks),
         NEW t, Final(c, t), Makings(first, Start, t),
         \A k \in DOMAIN blocks : Turn(c, blocks[k])
  PROVE  VisitWhole(c)
<1>1. PICK v : v = Visit(c)
  OBVIOUS
<1>2. v.code = << first >> \o blocks
  BY <1>1 DEF Loop
<1>3. IsSeq(<< first >>) /\ DOMAIN << first >> = {1} /\ << first >>[1] = first
      /\ Len(<< first >>) = 1
  BY DEF IsSeq
<1>4. PICK code : code = << first >> \o blocks
  OBVIOUS
<1>5. /\ IsSeq(code) /\ Len(code) = 1 + Len(blocks) /\ Len(blocks) \in Nat
      /\ DOMAIN code = 1..Len(code)
      /\ \A k \in DOMAIN code : \/ k = 1 /\ code[k] = first
                                \/ k - 1 \in DOMAIN blocks /\ code[k] = blocks[k - 1]
  BY <1>3, <1>4, ConcatSeq, SeqFacts
<1>6. DOMAIN blocks = 1..Len(blocks)
  BY SeqFacts
<1>7. code # << >> /\ 1 \in DOMAIN code /\ code[1] = first
  BY <1>5, <1>6
<1>8. \A k \in DOMAIN code : k # 1 => Turn(c, code[k])
  BY <1>5
<1> QED
  BY <1>1, <1>2, <1>4, <1>5, <1>7, <1>8 DEF VisitWhole

\* A loop that starts with a visit.
LEMMA ResultWhole ==
  ASSUME NEW c, NEW any, NEW as, as # "any", NEW child, NEW blocks, IsSeq(blocks),
         Visit(c) = Loop(any, << << Get(as, child, Result) >> >> \o blocks),
         Yields(tree[c].sym) = classof(as), tree[c].sym # "classDecl",
         \A k \in DOMAIN blocks : Turn(c, blocks[k])
  PROVE  VisitWhole(c)
<1>1. PICK s : /\ s.at = "passes" /\ Makes(Get(as, child, Result), Start, s)
               /\ \A w \in s.res : w \in Views /\ w.kind \in classof(as) /\ Whole(w)
  BY ResultMakes
<1>2. Final(c, s)
  BY <1>1 DEF Final, Post, Done
<1>3. Makings(<< Get(as, child, Result) >>, Start, s)
  BY <1>1, MakingsOne
<1> QED
  BY <1>2, <1>3, LoopWhole

\* A visitor that is one `return visit(x)`.
LEMMA ForwardWhole ==
  ASSUME TreeDone, NEW c \in DOMAIN tree, NEW x, Visit(c) = Forward(x),
         tree[c].sym \notin {"ifStmt", "classDecl"}, Answer(tree[c].sym) \notin {"empty", "any"}
  PROVE  VisitWhole(c)
<1>1. PICK v : v = Visit(c)
  OBVIOUS
<1>2. v.any = "any" /\ v = Forward(x)
  BY <1>1 DEF Forward, Visitor
<1>3. PICK y : Visit(c) = Forward(y) /\ IsChild(y, Answer(tree[c].sym))
  BY <1>1, <1>2, AnyVisitOK DEF VisitOK
<1>4. PICK i : i = Get("any", x, Result)
  OBVIOUS
<1>5. /\ i.do = "get" /\ i.slot = Result /\ i.as = "any" /\ i.child = x
  BY <1>4 DEF Get
<1>6. x = y
  <2>1. << Get("any", x, Result) >> = << Get("any", y, Result) >>
    BY <1>3 DEF Forward, Visitor
  <2>2. Get("any", x, Result) = Get("any", y, Result)
    BY <2>1
  <2> QED
    BY <2>2 DEF Get
<1>7. Answer(tree[x].sym) = Answer(tree[c].sym)
  BY <1>3, <1>6 DEF IsChild
<1>8. Yields(tree[x].sym) \subseteq classof(Answer(tree[c].sym))
  BY <1>7, YieldsClass
<1>9. Yields(tree[c].sym) = classof(Answer(tree[c].sym))
  BY DEF Yields
<1>10. Post(x) \subseteq Post(c)
  BY <1>8, <1>9 DEF Post
<1>11. PICK s : s = Stage("passes", Given(i), {})
  OBVIOUS
<1>12. s.at = "passes" /\ s.res = Given(i) /\ Given(i) = Post(x)
  BY <1>5, <1>11 DEF Stage, Given
<1>13. Makes(i, Start, s)
  BY <1>5, <1>12, HoldingIs DEF Makes
<1>14. Makings(<< i >>, Start, s)
  BY <1>13, MakingsOne
<1>15. Final(c, s)
  BY <1>10, <1>12 DEF Final, Done
<1> QED
  BY <1>4, <1>14, <1>15, FinalWhole DEF Forward

\* A turn that wraps the result so far.
LEMMA WrapTurn ==
  ASSUME NEW c, NEW as, Yields(tree[c].sym) = classof(as), tree[c].sym # "classDecl",
         NEW node, NEW kind \in classof(as), NEW ops, NEW mutable,
         Made(node, kind, ops, mutable),
         NEW slot, Suits(kind, slot, as), NEW code,
         \A s, u, v :
           /\ Childless(u, kind, ops, mutable) /\ Adds(u, v, slot, 1)
           /\ Makes(Wrap(node, slot), s, Holding(v))
           => \E w \in Views : w.kind = kind /\ Whole(w) /\ Makings(code, s, Holding(w))
  PROVE  Turn(c, code)
<1>1. ASSUME NEW s, Final(c, s)
      PROVE  \E t : Final(c, t) /\ Makings(code, s, t)
  <2>1. s.at \in Done /\ \A w \in s.res : w \in Views /\ w.kind \in classof(as) /\ Whole(w)
    BY <1>1 DEF Final, Post
  <2>2. PICK u, v : /\ Childless(u, kind, ops, mutable) /\ Adds(u, v, slot, 1)
                    /\ Makes(Wrap(node, slot), s, Holding(v))
    BY <2>1, WrapMakes
  <2>3. PICK w \in Views : w.kind = kind /\ Whole(w) /\ Makings(code, s, Holding(w))
    BY <2>2
  <2>4. Final(c, Holding(w))
    BY <2>3, FinalHolding
  <2> QED
    BY <2>3, <2>4
<1> QED
  BY <1>1 DEF Turn

\* One turn of foldLeftAssoc.
LEMMA FoldTurn ==
  ASSUME NEW c, tree[c].sym \in ExprContexts, NEW sub, NEW i,
         NEW op \in DOMAIN getOpSymbol, NEW reports, \A s : Makings(reports, s, s)
  PROVE  Turn(c, Fold(c, sub, i, op, reports))
<1>1. PICK node : node = WithOp(Node("BinaryExpr", The(c, sub), Nth(c, sub, i + 1)), op)
  OBVIOUS
<1>2. Made(node, "BinaryExpr", 1, FALSE)
  BY <1>1, MadeWithOp
<1>3. PICK child : child = Nth(c, sub, i + 1)
  OBVIOUS
<1>4. PICK code : code = Fold(c, sub, i, op, reports)
  OBVIOUS
<1>5. code = << Wrap(node, "LHS") >> \o reports \o << Get("Expr", child, "RHS") >>
  BY <1>1, <1>3, <1>4 DEF Fold, getExpr
<1>6. Yields(tree[c].sym) = classof("Expr") /\ "BinaryExpr" \in classof("Expr")
  BY YieldsOf, Classes
<1>7. tree[c].sym # "classDecl"
  BY DEF ExprContexts
<1>8. ASSUME NEW s, NEW u, NEW v, Childless(u, "BinaryExpr", 1, FALSE), Adds(u, v, "LHS", 1),
             Makes(Wrap(node, "LHS"), s, Holding(v))
      PROVE  \E w \in Views :
               w.kind = "BinaryExpr" /\ Whole(w) /\ Makings(code, s, Holding(w))
  <2>1. v \in Views /\ v.kind = "BinaryExpr"
    BY <1>8 DEF Childless, Adds
  <2>2. PICK w : Adds(v, w, "RHS", 1)
                 /\ Makes(Get("Expr", child, "RHS"), Holding(v), Holding(w))
    BY <2>1, ExprSuits, GetMakes DEF Result
  <2>3. Makings(<< Wrap(node, "LHS") >>, s, Holding(v))
    BY <1>8, MakingsOne
  <2>4. Makings(<< Get("Expr", child, "RHS") >>, Holding(v), Holding(w))
    BY <2>2, MakingsOne
  <2>5. Makings(code, s, Holding(w))
    BY <1>5, <2>3, <2>4, MakingsConcat
  <2>6. w.kind = "BinaryExpr" /\ w \in Views /\ w.has["LHS"] = 1 /\ w.has["RHS"] = 1
    BY <1>8, <2>2 DEF Childless, Adds, MemberNames
  <2>7. Whole(w)
    BY <2>6, ExprWhole
  <2> QED
    BY <2>5, <2>6, <2>7
<1>9. Turn(c, code)
  BY <1>2, <1>6, <1>7, <1>8, ExprSuits, WrapTurn
<1> QED
  BY <1>4, <1>9

\* All turns of foldLeftAssoc.
LEMMA FoldsWhole ==
  ASSUME TreeDone, NEW c \in DOMAIN tree, tree[c].sym \in ExprContexts, NEW sub, NEW steps,
         steps = [i \in 1..(Len(Kids(c, sub)) - 1) |-> steps[i]],
         \A i \in 1..(Len(Kids(c, sub)) - 1) : \E op \in DOMAIN getOpSymbol : \E pre :
            (\A s : Makings(pre, s, s)) /\ steps[i] = Fold(c, sub, i, op, pre),
         Visit(c) = Loop("Expr", << << getExpr(The(c, sub), Result) >> >> \o steps)
  PROVE  VisitWhole(c)
<1>1. Len(Kids(c, sub)) - 1 \in Int
  BY KidsOK, SeqFacts
<1>2. IsSeq(steps) /\ DOMAIN steps = 1..(Len(Kids(c, sub)) - 1)
  BY <1>1, FunSeq
<1>3. \A k \in DOMAIN steps : Turn(c, steps[k])
  BY <1>2, FoldTurn
<1>4. Visit(c) = Loop("Expr", << << Get("Expr", The(c, sub), Result) >> >> \o steps)
  BY DEF getExpr
<1>5. Yields(tree[c].sym) = classof("Expr")
  BY YieldsOf
<1>6. tree[c].sym # "classDecl"
  BY DEF ExprContexts
<1> QED
  BY <1>2, <1>3, <1>4, <1>5, <1>6, ResultWhole

-----------------------------------------------------------------------------
(* What the grammar gives the visitors besides the children they visit.    *)

\* The symbols of written-out words.
LEMMA WordSure ==
  /\ \A a, b : /\ Words({<< a, b >>})
               /\ Sure({<< a, b >>}, {a}) /\ Sure({<< a, b >>}, {b})
  /\ \A a, b, c : /\ Words({<< a, b, c >>}) /\ Sure({<< a, b, c >>}, {a})
                  /\ Sure({<< a, b, c >>}, {b}) /\ Sure({<< a, b, c >>}, {c})
  /\ \A a, b, c, d : /\ Words({<< a, b, c, d >>}) /\ Sure({<< a, b, c, d >>}, {a})
                     /\ Sure({<< a, b, c, d >>}, {b}) /\ Sure({<< a, b, c, d >>}, {d})
<1>1. ASSUME NEW a, NEW b, NEW c, NEW d
      PROVE  /\ Words({<< a, b, c, d >>}) /\ Sure({<< a, b, c, d >>}, {a})
             /\ Sure({<< a, b, c, d >>}, {b}) /\ Sure({<< a, b, c, d >>}, {d})
  <2>1. PICK p : p = << a, b, c, d >>
    OBVIOUS
  <2>2. IsSeq(p) /\ {1, 2, 4} \subseteq DOMAIN p /\ p[1] = a /\ p[2] = b /\ p[4] = d
    BY <2>1, LiteralWord
  <2>3. Count(p, p[1]) >= 1 /\ Count(p, p[2]) >= 1 /\ Count(p, p[4]) >= 1
    BY <2>2, CountSome
  <2> QED
    BY <2>1, <2>2, <2>3 DEF Words, Sure
<1> QED
  BY <1>1, TupleSure

\* The rules that have a name.
LEMMA NameSure ==
  /\ Sure(Productions("functionDecl"), {"IDENTIFIER"})
  /\ Sure(Productions("classDecl"), {"IDENTIFIER"})
  /\ Sure(Productions("typeParameter"), {"IDENTIFIER"})
  /\ Sure(Productions("parameter"), {"IDENTIFIER"})
  /\ Sure(Productions("variableDecl"), {"IDENTIFIER"})
  /\ Sure(Productions("typeRef"), {"IDENTIFIER"})
  /\ Sure(Productions("catchClause"), {"IDENTIFIER"})
  /\ Sure(Productions("label"), {"IDENTIFIER"})
<1> USE DEF Productions, DeclRules, TypeRules, StmtRules, ExprRules
<1>1. Sure(Productions("functionDecl"), {"IDENTIFIER"})
  <2> DEFINE A == {<< "FUN", "IDENTIFIER" >>}
             B == Group("LPAREN", Opt(List(One("parameter"), "COMMA")), "RPAREN")
             C == {<< "ARROW", "type", "block" >>}
  <2>1. Words(A) /\ Words(C) /\ Sure(A, {"IDENTIFIER"})
    BY WordSure
  <2>2. Words(B)
    BY OneSure, ListSure, OptSure, GroupSure
  <2>3. Productions("functionDecl") = A ** B ** C
    OBVIOUS
  <2> HIDE DEF A, B, C
  <2> QED
    BY <2>1, <2>2, <2>3, CatSure
<1>2. Sure(Productions("classDecl"), {"IDENTIFIER"})
  <2> DEFINE A == {<< "CLASS", "IDENTIFIER" >>}
             B == Opt(One("typeParameters"))
             C == Opt(One("classBody"))
  <2>1. Words(A) /\ Words(B) /\ Words(C) /\ Sure(A, {"IDENTIFIER"})
    BY WordSure, OneSure, OptSure
  <2>2. Productions("classDecl") = A ** B ** C
    OBVIOUS
  <2> HIDE DEF A, B, C
  <2> QED
    BY <2>1, <2>2, CatSure
<1>3. Sure(Productions("typeParameter"), {"IDENTIFIER"})
  <2> DEFINE A == One("IDENTIFIER")
             B == Opt({<< "ASSIGNMENT", "type" >>})
  <2>1. Words(A) /\ Words(B) /\ Sure(A, {"IDENTIFIER"})
    BY WordSure, OneSure, OptSure
  <2>2. Productions("typeParameter") = A ** B
    OBVIOUS
  <2> HIDE DEF A, B
  <2> QED
    BY <2>1, <2>2, CatSure
<1>4. Sure(Productions("parameter"), {"IDENTIFIER"})
  <2> DEFINE A == {<< "IDENTIFIER", "COLON", "type" >>}
             B == Opt({<< "ASSIGNMENT", "expression" >>})
  <2>1. Words(A) /\ Words(B) /\ Sure(A, {"IDENTIFIER"})
    BY WordSure, OptSure
  <2>2. Productions("parameter") = A ** B
    OBVIOUS
  <2> HIDE DEF A, B
  <2> QED
    BY <2>1, <2>2, CatSure
<1>5. Sure(Productions("variableDecl"), {"IDENTIFIER"})
  <2> DEFINE A == {<< "VAR", "IDENTIFIER", "COLON", "type" >>}
             B == OneOf({"VAR", "VAL"}) ** One("IDENTIFIER")
             C == Opt({<< "COLON", "type" >>})
             D == {<< "ASSIGNMENT", "expression" >>}
  <2>1. Words(A) /\ Sure(A, {"IDENTIFIER"}) /\ Words(C) /\ Words(D)
    BY WordSure, OptSure
  <2>2. Words(B) /\ Sure(B, {"IDENTIFIER"})
    BY OneSure, OneOfSure, CatSure
  <2>3. Productions("variableDecl") = A \cup (B ** C ** D)
    OBVIOUS
  <2> HIDE DEF A, B, C, D
  <2>4. Sure(B ** C ** D, {"IDENTIFIER"})
    BY <2>1, <2>2, CatSure
  <2>5. Sure(Productions("variableDecl"), {"IDENTIFIER"} \cup {"IDENTIFIER"})
    BY <2>1, <2>3, <2>4, OrSure
  <2> QED
    BY <2>5, SureMore
<1>6. Sure(Productions("typeRef"), {"IDENTIFIER"})
  <2> DEFINE A == One("IDENTIFIER")
             B == Opt(One("typeArguments"))
  <2>1. Words(A) /\ Words(B) /\ Sure(A, {"IDENTIFIER"})
    BY OneSure, OptSure
  <2>2. Productions("typeRef") = A ** B
    OBVIOUS
  <2> HIDE DEF A, B
  <2> QED
    BY <2>1, <2>2, CatSure
<1>7. Sure(Productions("catchClause"), {"IDENTIFIER"})
  BY TupleSure
<1>8. Sure(Productions("label"), {"IDENTIFIER"})
  BY WordSure
<1> QED
  BY <1>1, <1>2, <1>3, <1>4, <1>5, <1>6, <1>7, <1>8

\* A variable has a type or a value, and a value unless it may change.
LEMMA VariableSure ==
  /\ Sure(Productions("variableDecl"), {"type", "expression"})
  /\ Sure(Productions("variableDecl"), {"VAR", "expression"})
<1> DEFINE A == {<< "VAR", "IDENTIFIER", "COLON", "type" >>}
           B == OneOf({"VAR", "VAL"}) ** One("IDENTIFIER")
           C == Opt({<< "COLON", "type" >>})
           D == {<< "ASSIGNMENT", "expression" >>}
<1>1. Words(A) /\ Sure(A, {"type"}) /\ Sure(A, {"VAR"})
  BY WordSure
<1>2. Words(C) /\ Words(D) /\ Sure(D, {"expression"})
  BY WordSure, OptSure
<1>3. Words(B)
  BY OneSure, OneOfSure, CatSure
<1>4. Productions("variableDecl") = A \cup (B ** C ** D)
  BY DEF Productions, DeclRules
<1> HIDE DEF A, B, C, D
<1>5. Sure(B ** C ** D, {"expression"})
  BY <1>2, <1>3, CatSure
<1>6. PICK E : E = B ** C ** D
  OBVIOUS
<1>7. Sure(A \cup E, {"type"} \cup {"expression"}) /\ Sure(A \cup E, {"VAR"} \cup {"expression"})
  BY <1>1, <1>5, <1>6, OrSure
<1> QED
  BY <1>4, <1>6, <1>7, SureMore

\* A try has a catch clause or a finally.
LEMMA TrySure == Sure(Productions("tryStatement"), {"catchClause", "FINALLY"})
<1> DEFINE A == {<< "TRY", "block" >>}
           F == {<< "FINALLY", "block" >>}
           C == One("catchClause") ** Rep(One("catchClause"))
<1>1. Words(A) /\ Words(F) /\ Sure(F, {"FINALLY"})
  BY WordSure
<1>2. Words(One("catchClause")) /\ Sure(One("catchClause"), {"catchClause"})
  BY OneSure
<1>3. Words(Rep(One("catchClause")))
  BY <1>2, RepWords
<1>4. Words(C) /\ Sure(C, {"catchClause"})
  <2> DEFINE R == Rep(One("catchClause"))
  <2> HIDE DEF R
  <2>1. Words(R)
    BY <1>3 DEF R
  <2>2. Words(One("catchClause") ** R) /\ Sure(One("catchClause") ** R, {"catchClause"})
    BY <1>2, <2>1, CatSure
  <2> QED
    BY <2>2 DEF R
<1>5. Words(Opt(F))
  BY <1>1, OptSure
<1>6. Productions("tryStatement") = A ** (F \cup (C ** Opt(F)))
  BY DEF Productions, DeclRules, TypeRules, StmtRules
<1> HIDE DEF A, F, C
<1>7. Words(C ** Opt(F)) /\ Sure(C ** Opt(F), {"catchClause"})
  BY <1>4, <1>5, CatSure
<1>8. PICK B : B = F \cup (C ** Opt(F))
  OBVIOUS
<1>9. Words(B) /\ Sure(B, {"FINALLY"} \cup {"catchClause"})
  BY <1>1, <1>7, <1>8, OrSure
<1>10. Sure(A ** B, {"FINALLY"} \cup {"catchClause"})
  BY <1>1, <1>9, CatSure
<1> QED
  BY <1>6, <1>8, <1>10, SureMore

\* The operators that the visitors ask for.
LEMMA OperatorSure ==
  /\ Sure(Productions("assignment"), {"assignmentOperator"})
  /\ Sure(Productions("unaryPrefix"), {"prefixUnaryOperator"})
<1> USE DEF Productions, DeclRules, TypeRules, StmtRules, ExprRules
<1>1. Sure(Productions("assignment"), {"assignmentOperator"})
  BY WordSure
<1>2. Sure(Productions("unaryPrefix"), {"prefixUnaryOperator"})
  BY OneSure
<1> QED
  BY <1>1, <1>2

\* What contexts have for that.
LEMMA NamesHas ==
  ASSUME TreeDone, NEW c \in DOMAIN tree
  PROVE  /\ tree[c].sym \in {"functionDecl", "classDecl", "typeParameter", "parameter",
                             "variableDecl", "typeRef", "catchClause", "label"}
              => Has(c, "IDENTIFIER")
         /\ tree[c].sym = "variableDecl" =>
              /\ Has(c, "type") \/ Has(c, "expression")
              /\ Has(c, "VAR") \/ Has(c, "expression")
         /\ tree[c].sym = "tryStatement" => Has(c, "catchClause") \/ Has(c, "FINALLY")
         /\ tree[c].sym = "assignment" => Has(c, "assignmentOperator")
         /\ tree[c].sym = "unaryPrefix" => Has(c, "prefixUnaryOperator")
<1> USE DEF Exit
<1>1. {"functionDecl", "classDecl", "typeParameter", "parameter", "variableDecl", "typeRef",
       "catchClause", "label", "tryStatement", "assignment", "unaryPrefix"} \subseteq Rules
  BY DEF Rules, DeclRules, TypeRules, StmtRules, ExprRules
<1>2. tree[c].sym \in {"functionDecl", "classDecl", "typeParameter", "parameter",
                       "variableDecl", "typeRef", "catchClause", "label"}
        => Has(c, "IDENTIFIER")
  BY <1>1, NameSure, MustHaveOne
<1>3. ASSUME tree[c].sym = "variableDecl"
      PROVE  /\ Has(c, "type") \/ Has(c, "expression")
             /\ Has(c, "VAR") \/ Has(c, "expression")
  <2>1. \E s \in {"type", "expression"} : Has(c, s)
    BY <1>1, <1>3, VariableSure, MustHave
  <2>2. \E s \in {"VAR", "expression"} : Has(c, s)
    BY <1>1, <1>3, VariableSure, MustHave
  <2> QED
    BY <2>1, <2>2
<1>4. ASSUME tree[c].sym = "tryStatement"
      PROVE  Has(c, "catchClause") \/ Has(c, "FINALLY")
  <2>1. \E s \in {"catchClause", "FINALLY"} : Has(c, s)
    BY <1>1, <1>4, TrySure, MustHave
  <2> QED
    BY <2>1
<1>5. tree[c].sym = "assignment" => Has(c, "assignmentOperator")
  BY <1>1, OperatorSure, MustHaveOne
<1>6. tree[c].sym = "unaryPrefix" => Has(c, "prefixUnaryOperator")
  BY <1>1, OperatorSure, MustHaveOne
<1> QED
  BY <1>2, <1>3, <1>4, <1>5, <1>6

-----------------------------------------------------------------------------
(* Operators.                                                              *)

\* What the dumper has a symbol for.
LEMMA Symbols ==
  /\ DOMAIN getOpSymbol =
       {"Add", "Sub", "Mult", "Div", "Mod", "Not", "Eq", "Neq", "LShift", "RShift", "BitAnd",
        "BitXor", "BitOr", "BitNot", "Lt", "Gt", "Le", "Ge", "Disj", "Conj", "In", "Is", "As",
        "AsQuest", "Elvis", "Assignment"}
  /\ DOMAIN getBuiltinTypeName =
       {"VOID", "BOOL", "INT", "LONG", "FLOAT", "DOUBLE", "CHAR", "STRING"}
  /\ DOMAIN getVisibilityName = {"Public", "Private", "Protected"}
  BY DEF getOpSymbol, getBuiltinTypeName, getVisibilityName

\* A rule that is one token out of several.
LEMMA TokenOf ==
  ASSUME TreeDone, NEW c \in DOMAIN tree, NEW S, Productions(tree[c].sym) = OneOf(S),
         tree[c].sym \in Rules, NEW types, S \subseteq types, Exit \notin types
  PROVE  GetToken(c, types) \in S
<1>1. PICK p \in Productions(tree[c].sym) : \A s : s # Exit => Len(Kids(c, s)) = Count(p, s)
  BY DEF TreeDone
<1>2. PICK t \in S : p = << t >>
  BY <1>1 DEF OneOf
<1>3. \A s \in types : Has(c, s) <=> s = t
  <2>1. TreeTyped
    BY DEF TreeDone
  <2>2. ASSUME NEW s \in types PROVE Has(c, s) <=> s = t
    <3>1. s # Exit
      OBVIOUS
    <3>2. Len(Kids(c, s)) = Count(<< t >>, s)
      BY <1>1, <1>2, <3>1
    <3>3. Count(<< t >>, s) = IF t = s THEN 1 ELSE 0
      BY CountWords
    <3> QED
      BY <2>1, <3>2, <3>3, HasKid
  <2> QED
    BY <2>2
<1>4. Has(c, GetToken(c, types)) /\ GetToken(c, types) \in types
  BY <1>2, <1>3 DEF GetToken
<1> QED
  BY <1>2, <1>3, <1>4

\* The rules of that kind.
LEMMA TokenRules ==
  /\ {"equalityOperator", "comparisonOperator", "additionOperator", "multiplicationOperator",
      "prefixUnaryOperator", "assignmentOperator", "builtinType", "visibilityModifier",
      "literalConstant"} \subseteq Rules
  /\ Productions("equalityOperator") = OneOf({"EQ", "NEQ"})
  /\ Productions("comparisonOperator") = OneOf({"LT", "GT", "LE", "GE"})
  /\ Productions("additionOperator") = OneOf({"ADD", "SUB"})
  /\ Productions("multiplicationOperator") = OneOf({"MULT", "DIV", "MOD"})
  /\ Productions("prefixUnaryOperator") = OneOf({"ADD", "SUB", "NOT", "BIT_NOT"})
  /\ Productions("assignmentOperator") = OneOf(AssignmentTokens)
  /\ Productions("builtinType") = OneOf(BuiltinTypes)
  /\ Productions("visibilityModifier") = OneOf({"PUBLIC", "PRIVATE", "PROTECTED"})
  /\ Productions("literalConstant") = OneOf(LiteralTokens)
<1> USE DEF DeclRules, TypeRules, StmtRules, ExprRules
<1>1. {"equalityOperator", "comparisonOperator", "additionOperator", "multiplicationOperator",
       "prefixUnaryOperator", "assignmentOperator", "builtinType", "visibilityModifier",
       "literalConstant"} \subseteq Rules
  BY DEF Rules
<1>2. /\ Productions("equalityOperator") = OneOf({"EQ", "NEQ"})
      /\ Productions("comparisonOperator") = OneOf({"LT", "GT", "LE", "GE"})
      /\ Productions("additionOperator") = OneOf({"ADD", "SUB"})
  BY DEF Productions
<1>3. /\ Productions("multiplicationOperator") = OneOf({"MULT", "DIV", "MOD"})
      /\ Productions("prefixUnaryOperator") = OneOf({"ADD", "SUB", "NOT", "BIT_NOT"})
      /\ Productions("assignmentOperator") = OneOf(AssignmentTokens)
  BY DEF Productions
<1>4. /\ Productions("builtinType") = OneOf(BuiltinTypes)
      /\ Productions("visibilityModifier") = OneOf({"PUBLIC", "PRIVATE", "PROTECTED"})
      /\ Productions("literalConstant") = OneOf(LiteralTokens)
  BY DEF Productions, BuiltinTypes
<1> QED
  BY <1>1, <1>2, <1>3, <1>4

\* The binary operators.
LEMMA BinaryOps ==
  ASSUME TreeDone, NEW c \in DOMAIN tree
  PROVE  /\ tree[c].sym \in {"equalityOperator", "additionOperator", "multiplicationOperator"}
              => getBinaryOp(c) \in DOMAIN getOpSymbol
         /\ tree[c].sym = "comparisonOperator" => getBinaryOp(c) \in Ordering
<1>1. DOMAIN BinaryOp =
        {"ADD", "SUB", "MULT", "DIV", "MOD", "EQ", "NEQ", "LT", "GT", "LE", "GE", "LSHIFT",
         "BIT_AND", "BIT_OR", "BIT_XOR"}
  BY DEF BinaryOp
<1>2. Exit \notin DOMAIN BinaryOp
  BY <1>1 DEF Exit
<1>3. ASSUME tree[c].sym = "equalityOperator" PROVE getBinaryOp(c) \in {"Eq", "Neq"}
  <2>1. GetToken(c, DOMAIN BinaryOp) \in {"EQ", "NEQ"}
    BY <1>1, <1>2, <1>3, TokenRules, TokenOf
  <2> QED
    BY <2>1 DEF getBinaryOp, BinaryOp
<1>4. ASSUME tree[c].sym = "additionOperator" PROVE getBinaryOp(c) \in {"Add", "Sub"}
  <2>1. GetToken(c, DOMAIN BinaryOp) \in {"ADD", "SUB"}
    BY <1>1, <1>2, <1>4, TokenRules, TokenOf
  <2> QED
    BY <2>1 DEF getBinaryOp, BinaryOp
<1>5. ASSUME tree[c].sym = "multiplicationOperator"
      PROVE  getBinaryOp(c) \in {"Mult", "Div", "Mod"}
  <2>1. GetToken(c, DOMAIN BinaryOp) \in {"MULT", "DIV", "MOD"}
    BY <1>1, <1>2, <1>5, TokenRules, TokenOf
  <2> QED
    BY <2>1 DEF getBinaryOp, BinaryOp
<1>6. ASSUME tree[c].sym = "comparisonOperator" PROVE getBinaryOp(c) \in Ordering
  <2>1. GetToken(c, DOMAIN BinaryOp) \in {"LT", "GT", "LE", "GE"}
    BY <1>1, <1>2, <1>6, TokenRules, TokenOf
  <2> QED
    BY <2>1 DEF getBinaryOp, BinaryOp, Ordering
<1> QED
  BY <1>3, <1>4, <1>5, <1>6, Symbols

\* The other operators, the types and the visibilities.
LEMMA OtherTokens ==
  ASSUME TreeDone, NEW c \in DOMAIN tree
  PROVE  /\ tree[c].sym = "prefixUnaryOperator" => getPrefixUnaryOp(c) \in DOMAIN getOpSymbol
         /\ tree[c].sym = "assignmentOperator" =>
              AssignmentOp[GetToken(c, DOMAIN AssignmentOp)] \in DOMAIN getOpSymbol
         /\ tree[c].sym = "builtinType" =>
              GetToken(c, BuiltinTypes) \in DOMAIN getBuiltinTypeName
         /\ tree[c].sym = "visibilityModifier" =>
              getVisibility(c) \in DOMAIN getVisibilityName
         /\ tree[c].sym = "literalConstant" =>
              LiteralKind[GetToken(c, DOMAIN LiteralKind)] \in
                {"BoolLiteral", "NullLiteral", "IntLiteral", "StringLiteral", "CharLiteral",
                 "FloatLiteral"}
<1>1. ASSUME tree[c].sym = "prefixUnaryOperator"
      PROVE  getPrefixUnaryOp(c) \in {"Add", "Sub", "Not", "BitNot"}
  <2>1. DOMAIN PrefixUnaryOp = {"ADD", "SUB", "NOT", "BIT_NOT"} /\ Exit \notin DOMAIN PrefixUnaryOp
    BY DEF PrefixUnaryOp, Exit
  <2>2. GetToken(c, DOMAIN PrefixUnaryOp) \in {"ADD", "SUB", "NOT", "BIT_NOT"}
    BY <1>1, <2>1, TokenRules, TokenOf
  <2> QED
    BY <2>2 DEF getPrefixUnaryOp, PrefixUnaryOp
<1>2. ASSUME tree[c].sym = "assignmentOperator"
      PROVE  AssignmentOp[GetToken(c, DOMAIN AssignmentOp)] \in DOMAIN getOpSymbol
  <2>1. DOMAIN AssignmentOp = AssignmentTokens /\ Exit \notin DOMAIN AssignmentOp
    BY DEF AssignmentOp, AssignmentTokens, Exit
  <2>2. GetToken(c, DOMAIN AssignmentOp) \in AssignmentTokens
    BY <1>2, <2>1, TokenRules, TokenOf
  <2>3. \A t \in AssignmentTokens : AssignmentOp[t] \in DOMAIN getOpSymbol
    BY Symbols DEF AssignmentOp, AssignmentTokens
  <2> QED
    BY <2>2, <2>3
<1>3. ASSUME tree[c].sym = "builtinType"
      PROVE  GetToken(c, BuiltinTypes) \in DOMAIN getBuiltinTypeName
  <2>1. Exit \notin BuiltinTypes /\ BuiltinTypes = DOMAIN getBuiltinTypeName
    BY Symbols DEF BuiltinTypes, Exit
  <2> QED
    BY <1>3, <2>1, TokenRules, TokenOf
<1>4. ASSUME tree[c].sym = "visibilityModifier"
      PROVE  getVisibility(c) \in {"Public", "Private", "Protected"}
  <2>1. DOMAIN Visibility = {"PUBLIC", "PRIVATE", "PROTECTED"} /\ Exit \notin DOMAIN Visibility
    BY DEF Visibility, Exit
  <2>2. GetToken(c, DOMAIN Visibility) \in {"PUBLIC", "PRIVATE", "PROTECTED"}
    BY <1>4, <2>1, TokenRules, TokenOf
  <2> QED
    BY <2>2 DEF getVisibility, Visibility
<1>5. ASSUME tree[c].sym = "literalConstant"
      PROVE  LiteralKind[GetToken(c, DOMAIN LiteralKind)] \in
               {"BoolLiteral", "NullLiteral", "IntLiteral", "StringLiteral", "CharLiteral",
                "FloatLiteral"}
  <2>1. DOMAIN LiteralKind = LiteralTokens /\ Exit \notin DOMAIN LiteralKind
    BY DEF LiteralKind, LiteralTokens, Exit
  <2>2. GetToken(c, DOMAIN LiteralKind) \in LiteralTokens
    BY <1>5, <2>1, TokenRules, TokenOf
  <2> QED
    BY <2>2 DEF LiteralKind, LiteralTokens
<1> QED
  BY <1>1, <1>2, <1>3, <1>4, <1>5, Symbols

\* A list has one more element than separators.
LEMMA ListBalance ==
  ASSUME NEW a, NEW b, a # b, NEW p \in List(One(a), b)
  PROVE  Count(p, a) = Count(p, b) + 1 /\ Count(p, b) \in Nat
<1>1. PICK x, y, z : y = << b >> /\ z = << a >> /\ x = y \o z
  OBVIOUS
<1> DEFINE Balanced(q) == IsSeq(q) /\ Count(q, a) = Count(q, b)
           S == {q \in Seq({a, b}) : Balanced(q)}
<1>2. One(b) ** One(a) = {x}
  <2>1. One(b) = {y} /\ One(a) = {z}
    BY <1>1 DEF One
  <2>2. {y} ** {z} = {y \o z}
    BY DEF **
  <2> QED
    BY <1>1, <2>1, <2>2
<1>3. x \in S
  <2>1. y \in Seq({a, b}) /\ z \in Seq({a, b}) /\ IsSeq(y) /\ IsSeq(z)
    BY <1>1, LiteralWord
  <2>2. x \in Seq({a, b}) /\ IsSeq(x)
    BY <1>1, <2>1, ConcatSeq
  <2>3. Count(x, a) = Count(y, a) + Count(z, a) /\ Count(x, b) = Count(y, b) + Count(z, b)
    BY <1>1, <2>1, CountConcat
  <2>4. /\ Count(y, a) = 0 /\ Count(y, b) = 1
        /\ Count(z, a) = 1 /\ Count(z, b) = 0
    BY <1>1, CountWords
  <2> QED
    BY <2>2, <2>3, <2>4
<1>4. << >> \in S
  BY CountEmpty
<1>5. \A s \in S : s \o x \in S
  <2> SUFFICES ASSUME NEW s \in S PROVE s \o x \in S
    OBVIOUS
  <2>1. Balanced(s) /\ Balanced(x) /\ s \o x \in Seq({a, b})
    BY <1>3
  <2>2. IsSeq(s) /\ IsSeq(x) /\ IsSeq(s \o x)
    BY <2>1, ConcatSeq
  <2>3. \A t : Count(s \o x, t) = Count(s, t) + Count(x, t)
    BY <2>2, CountConcat
  <2>4. Balanced(s \o x)
    BY <2>1, <2>2, <2>3
  <2> QED
    BY <2>1, <2>4
<1>6. Rep({x}) \subseteq S
  <2> HIDE DEF S
  <2> QED
    BY <1>4, <1>5, RepIn
<1>7. Words(Rep({x})) /\ \A q \in Rep({x}) : Balanced(q)
  BY <1>6 DEF Words
<1> HIDE DEF Balanced
<1>8. p \in One(a) ** Rep({x})
  BY <1>2 DEF List
<1>9. PICK u \in One(a), v \in Rep({x}) :
        \A s : /\ Count(p, s) = Count(u, s) + Count(v, s)
               /\ Count(u, s) \in Nat /\ Count(v, s) \in Nat
  <2>1. Words(One(a))
    BY OneSure
  <2> DEFINE R == Rep({x})
  <2>2. p \in One(a) ** R /\ Words(R)
    BY <1>7, <1>8
  <2> HIDE DEF R
  <2>3. \E u \in One(a), v \in R :
          \A s : /\ Count(p, s) = Count(u, s) + Count(v, s)
                 /\ Count(u, s) \in Nat /\ Count(v, s) \in Nat
    BY <2>1, <2>2, CatWord
  <2> QED
    BY <2>3 DEF R
<1>10. u = << a >>
  BY DEF One
<1>11. Count(u, a) = 1 /\ Count(u, b) = 0
  BY <1>10, CountWords
<1>12. Count(v, a) = Count(v, b)
  BY <1>7 DEF Balanced
<1>13. /\ Count(p, a) = Count(u, a) + Count(v, a)
       /\ Count(p, b) = Count(u, b) + Count(v, b)
       /\ Count(v, b) \in Nat
  BY <1>9
<1> QED
  BY <1>11, <1>12, <1>13

\* An operator between any two operands.
LEMMA Balances ==
  /\ \A p \in Productions("equality") :
       Count(p, "comparison") = Count(p, "equalityOperator") + 1
  /\ \A p \in Productions("addition") :
       Count(p, "multiplication") = Count(p, "additionOperator") + 1
  /\ \A p \in Productions("multiplication") :
       Count(p, "asExpr") = Count(p, "multiplicationOperator") + 1
  /\ \A p \in Productions("comparison") :
       Count(p, "typeArguments") = 0 =>
         Count(p, "infixExpr") = Count(p, "comparisonOperator") + 1
<1> USE DEF Productions, DeclRules, TypeRules, StmtRules, ExprRules
<1>1. ASSUME NEW p \in Productions("addition")
      PROVE  Count(p, "multiplication") = Count(p, "additionOperator") + 1
  BY ListBalance
<1>2. ASSUME NEW p \in Productions("multiplication")
      PROVE  Count(p, "asExpr") = Count(p, "multiplicationOperator") + 1
  BY ListBalance
<1>3. ASSUME NEW p \in Productions("equality")
      PROVE  Count(p, "comparison") = Count(p, "equalityOperator") + 1
  <2>1. PICK e : e = << "equalityOperator", "comparison" >>
    OBVIOUS
  <2>2. p \in One("comparison") ** Opt({e})
    BY <1>3, <2>1
  <2>3. IsSeq(e) /\ Count(e, "comparison") = 1 /\ Count(e, "equalityOperator") = 1
    BY <2>1, LiteralWord, CountWords
  <2>4. Words(Opt({e})) /\ Words(One("comparison"))
    BY <2>3, OneSure, OptSure DEF Words
  <2>5. PICK a \in One("comparison"), b \in Opt({e}) :
          \A s : /\ Count(p, s) = Count(a, s) + Count(b, s)
                 /\ Count(a, s) \in Nat /\ Count(b, s) \in Nat
    BY <2>2, <2>4, CatWord
  <2>6. a = << "comparison" >> /\ b \in {<< >>, e}
    BY DEF One, Opt
  <2>7. Count(a, "comparison") = 1 /\ Count(a, "equalityOperator") = 0
    BY <2>6, CountWords
  <2>8. Count(b, "comparison") = Count(b, "equalityOperator")
    BY <2>3, <2>6, CountEmpty
  <2>9. /\ Count(p, "comparison") = Count(a, "comparison") + Count(b, "comparison")
        /\ Count(p, "equalityOperator") =
             Count(a, "equalityOperator") + Count(b, "equalityOperator")
        /\ Count(b, "equalityOperator") \in Nat
    BY <2>5
  <2> QED
    BY <2>7, <2>8, <2>9
<1>4. ASSUME NEW p \in Productions("comparison"), Count(p, "typeArguments") = 0
      PROVE  Count(p, "infixExpr") = Count(p, "comparisonOperator") + 1
  <2> DEFINE A == {<< "infixExpr", "typeArguments", "GT" >>}
             B == Group("LPAREN", Opt(One("valueArguments")), "RPAREN")
             L == List(One("infixExpr"), "comparisonOperator")
  <2>1. p \in L \cup (A ** B)
    BY <1>4
  <2>2. Words(A) /\ Sure(A, {"typeArguments"})
    BY WordSure
  <2>3. Words(B)
    BY OneSure, OptSure, GroupSure
  <2> HIDE DEF A, B, L
  <2>4. Sure(A ** B, {"typeArguments"})
    BY <2>2, <2>3, CatSure
  <2>5. p \in A ** B => Count(p, "typeArguments") >= 1
    BY <2>4 DEF Sure
  <2>6. p \in L
    BY <1>4, <2>1, <2>5, SMTT(30)
  <2> QED
    BY <2>6, ListBalance DEF L
<1> QED
  BY <1>1, <1>2, <1>3, <1>4

\* As many operators as the visitors ask for.
LEMMA OperatorsThere ==
  ASSUME TreeDone, NEW c \in DOMAIN tree
  PROVE  /\ tree[c].sym = "equality" =>
              Len(Kids(c, "comparison")) = Len(Kids(c, "equalityOperator")) + 1
         /\ tree[c].sym = "addition" =>
              Len(Kids(c, "multiplication")) = Len(Kids(c, "additionOperator")) + 1
         /\ tree[c].sym = "multiplication" =>
              Len(Kids(c, "asExpr")) = Len(Kids(c, "multiplicationOperator")) + 1
         /\ tree[c].sym = "comparison" /\ ~ Has(c, "typeArguments") =>
              Len(Kids(c, "infixExpr")) = Len(Kids(c, "comparisonOperator")) + 1
<1>1. TreeTyped
  BY DEF TreeDone
<1>2. {"equality", "addition", "multiplication", "comparison"} \subseteq Rules
  BY RuleNames DEF ExprContexts
<1>3. ASSUME tree[c].sym \in Rules
      PROVE  \E p \in Productions(tree[c].sym) :
               /\ Len(Kids(c, "comparison")) = Count(p, "comparison")
               /\ Len(Kids(c, "equalityOperator")) = Count(p, "equalityOperator")
               /\ Len(Kids(c, "multiplication")) = Count(p, "multiplication")
               /\ Len(Kids(c, "additionOperator")) = Count(p, "additionOperator")
               /\ Len(Kids(c, "asExpr")) = Count(p, "asExpr")
               /\ Len(Kids(c, "multiplicationOperator")) = Count(p, "multiplicationOperator")
               /\ Len(Kids(c, "infixExpr")) = Count(p, "infixExpr")
               /\ Len(Kids(c, "comparisonOperator")) = Count(p, "comparisonOperator")
               /\ Len(Kids(c, "typeArguments")) = Count(p, "typeArguments")
  <2>1. PICK p \in Productions(tree[c].sym) : \A s : s # Exit => Len(Kids(c, s)) = Count(p, s)
    BY <1>3 DEF TreeDone
  <2> QED
    BY <2>1 DEF Exit
<1>4. CASE tree[c].sym \in {"equality", "addition", "multiplication"}
  BY <1>2, <1>3, <1>4, Balances
<1>5. CASE tree[c].sym = "comparison" /\ ~ Has(c, "typeArguments")
  <2>1. Len(Kids(c, "typeArguments")) = 0
    <3>1. IsSeq(Kids(c, "typeArguments"))
      BY <1>1, TreeKids
    <3>2. Len(Kids(c, "typeArguments")) \in Nat
      BY <3>1, SeqFacts
    <3>3. ~ Len(Kids(c, "typeArguments")) >= 1
      BY <1>1, <1>5, HasKid
    <3> QED
      BY <3>2, <3>3
  <2> QED
    BY <1>2, <1>3, <1>5, <2>1, Balances
<1> QED
  BY <1>4, <1>5

-----------------------------------------------------------------------------
(* The visitors, one by one: each ends with a whole node of a kind that    *)
(* its rule returns.                                                       *)

\* visitFile: a Program needs nothing.
LEMMA visitFile_Whole ==
  ASSUME TreeDone, NEW c \in DOMAIN tree, tree[c].sym = "file"
  PROVE  VisitWhole(c)
<1> DEFINE node == Node("Program", c, c)
<1>1. Made(node, "Program", 0, FALSE)
  BY KindsAre, MadePlain DEF NamedByInfo
<1> HIDE DEF node
<1>2. PICK v0 : Childless(v0, "Program", 0, FALSE) /\ Makes(New(node), Start, Holding(v0))
  BY <1>1, NewMakes
<1>3. v0 \in Views /\ v0.kind = "Program"
  BY <1>2 DEF Childless
<1>4. PICK code : code = << New(node) >>
  OBVIOUS
<1>5. Makings(code, Start, Holding(v0))
  BY <1>4, <1>2, MakingsOne
<1>6. IsSeq(Kids(c, "topLevelObject"))
  BY KidsOK
<1>7. PICK v1 : /\ Adds(v0, v1, "Objects", Len(Kids(c, "topLevelObject")))
               /\ Makings(GetAll("TopLevelObject", Kids(c, "topLevelObject"), "Objects"),
                           Holding(v0), Holding(v1))
  BY <1>3, <1>6, DeclSuits, ListMakes DEF Result
<1>8. v1 \in Views /\ v1.kind = "Program"
  BY <1>3, <1>7 DEF Adds
<1>9. PICK code1 : code1 = code \o
        GetAll("TopLevelObject", Kids(c, "topLevelObject"), "Objects")
  OBVIOUS
<1>10. Makings(code1, Start, Holding(v1))
  BY <1>5, <1>7, <1>9, MakingsConcat
<1>11. Whole(v1)
  BY <1>8, DeclWhole
<1>12. "Program" \in Yields("file")
  BY YieldsOf, Classes
<1>13. PICK any : Visit(c) = Visitor(any, code1)
  BY <1>4, <1>9 DEF Visit, visitFile, node
<1> QED
  BY <1>8, <1>10, <1>11, <1>12, <1>13, BlockWhole

\* visitTopLevelObject stores its declaration.
LEMMA visitTopLevelObject_Whole ==
  ASSUME TreeDone, NEW c \in DOMAIN tree, tree[c].sym = "topLevelObject"
  PROVE  VisitWhole(c)
<1> DEFINE node == Node("TopLevelObject", c, c)
<1>1. Made(node, "TopLevelObject", 0, FALSE)
  BY KindsAre, MadePlain DEF NamedByInfo
<1> HIDE DEF node
<1>2. PICK v0 : Childless(v0, "TopLevelObject", 0, FALSE) /\ Makes(New(node), Start, Holding(v0))
  BY <1>1, NewMakes
<1>3. v0 \in Views /\ v0.kind = "TopLevelObject"
  BY <1>2 DEF Childless
<1>4. PICK v1 : /\ Adds(v0, v1, "Decl", 1)
               /\ Makes(getDecl(The(c, "declaration"), "Decl"), Holding(v0), Holding(v1))
  BY <1>3, DeclSuits, GetMakes DEF getDecl, Result
<1>5. v1 \in Views /\ v1.kind = "TopLevelObject"
  BY <1>3, <1>4 DEF Adds
<1>6. PICK code : code = << New(node), getDecl(The(c, "declaration"), "Decl") >>
  OBVIOUS
<1>7. Makings(code, Start, Holding(v1))
  BY <1>6, <1>2, <1>4, MakingsTwo
<1>8. v1.has["Decl"] = 1
  BY <1>2, <1>4 DEF Childless, Adds, MemberNames
<1>9. Whole(v1)
  BY <1>5, <1>8, DeclWhole
<1>10. "TopLevelObject" \in Yields("topLevelObject")
  BY YieldsOf, Classes
<1>11. PICK any : Visit(c) = Visitor(any, code)
  BY <1>6 DEF Visit, visitTopLevelObject, node
<1> QED
  BY <1>5, <1>7, <1>9, <1>10, <1>11, BlockWhole

\* visitFunctionDecl stores a body and a return type.
LEMMA visitFunctionDecl_Whole ==
  ASSUME TreeDone, NEW c \in DOMAIN tree, tree[c].sym = "functionDecl"
  PROVE  VisitWhole(c)
<1> DEFINE node == Named(Node("FunctionDecl", c, c), c)
<1>1. Made(node, "FunctionDecl", 0, FALSE)
  BY KindsAre, NamesHas, MadeNamed
<1> HIDE DEF node
<1>2. PICK v0 : Childless(v0, "FunctionDecl", 0, FALSE) /\ Makes(New(node), Start, Holding(v0))
  BY <1>1, NewMakes
<1>3. v0 \in Views /\ v0.kind = "FunctionDecl"
  BY <1>2 DEF Childless
<1>4. PICK v1 : /\ Adds(v0, v1, "Body", 1)
               /\ Makes(getBlock(The(c, "block"), "Body"), Holding(v0), Holding(v1))
  BY <1>3, DeclSuits, GetMakes DEF getBlock, Result
<1>5. v1 \in Views /\ v1.kind = "FunctionDecl"
  BY <1>3, <1>4 DEF Adds
<1>6. PICK v2 : /\ Adds(v1, v2, "ReturnType", 1)
               /\ Makes(getType(The(c, "type"), "ReturnType"), Holding(v1), Holding(v2))
  BY <1>5, DeclSuits, GetMakes DEF getType, Result
<1>7. v2 \in Views /\ v2.kind = "FunctionDecl"
  BY <1>5, <1>6 DEF Adds
<1>8. PICK code : code = << New(node),
                   getBlock(The(c, "block"), "Body"),
                   getType(The(c, "type"), "ReturnType") >>
  OBVIOUS
<1>9. Makings(code, Start, Holding(v2))
  BY <1>8, <1>2, <1>4, <1>6, MakingsThree
<1>10. IsSeq(Kids(c, "parameter"))
  BY KidsOK
<1>11. PICK v3 : /\ Adds(v2, v3, "Parameters", Len(Kids(c, "parameter")))
                /\ Makings(GetAll("Parameter", Kids(c, "parameter"), "Parameters"),
                            Holding(v2), Holding(v3))
  BY <1>7, <1>10, DeclSuits, ListMakes DEF Result
<1>12. v3 \in Views /\ v3.kind = "FunctionDecl"
  BY <1>7, <1>11 DEF Adds
<1>13. PICK code1 : code1 = code \o
         GetAll("Parameter", Kids(c, "parameter"), "Parameters")
  OBVIOUS
<1>14. Makings(code1, Start, Holding(v3))
  BY <1>9, <1>11, <1>13, MakingsConcat
<1>15. /\ v3.has["ReturnType"] = 1
       /\ v3.has["Body"] = 1
  BY <1>2, <1>4, <1>6, <1>11 DEF Childless, Adds, MemberNames
<1>16. Whole(v3)
  BY <1>12, <1>15, DeclWhole
<1>17. "FunctionDecl" \in Yields("functionDecl")
  BY YieldsOf, Classes DEF DeclContexts
<1>18. PICK any : Visit(c) = Visitor(any, code1)
  BY <1>8, <1>13 DEF Visit, visitFunctionDecl, node
<1> QED
  BY <1>12, <1>14, <1>16, <1>17, <1>18, BlockWhole

\* visitParameter stores a type and maybe a default value.
LEMMA visitParameter_Whole ==
  ASSUME TreeDone, NEW c \in DOMAIN tree, tree[c].sym = "parameter"
  PROVE  VisitWhole(c)
<1> DEFINE node == Named(Node("Parameter", c, c), c)
<1>1. Made(node, "Parameter", 0, FALSE)
  BY KindsAre, NamesHas, MadeNamed
<1> HIDE DEF node
<1>2. PICK v0 : Childless(v0, "Parameter", 0, FALSE) /\ Makes(New(node), Start, Holding(v0))
  BY <1>1, NewMakes
<1>3. v0 \in Views /\ v0.kind = "Parameter"
  BY <1>2 DEF Childless
<1>4. PICK v1 : /\ Adds(v0, v1, "Type", 1)
               /\ Makes(getType(The(c, "type"), "Type"), Holding(v0), Holding(v1))
  BY <1>3, DeclSuits, GetMakes DEF getType, Result
<1>5. v1 \in Views /\ v1.kind = "Parameter"
  BY <1>3, <1>4 DEF Adds
<1>6. PICK code : code = << New(node), getType(The(c, "type"), "Type") >>
  OBVIOUS
<1>7. Makings(code, Start, Holding(v1))
  BY <1>6, <1>2, <1>4, MakingsTwo
<1>8. (Has(c, "expression")) \in BOOLEAN
  BY DEF Has
<1>9. PICK v2 : /\ Adds(v1, v2, "DefaultValue", IF Has(c, "expression") THEN 1 ELSE 0)
               /\ Makings(If(Has(c, "expression"), << getExpr(The(c, "expression"), "DefaultValue") >>),
                           Holding(v1), Holding(v2))
  BY <1>5, <1>8, DeclSuits, MaybeMakes DEF getExpr, Result
<1>10. v2 \in Views /\ v2.kind = "Parameter"
  BY <1>5, <1>9 DEF Adds
<1>11. PICK code1 : code1 = code \o
         If(Has(c, "expression"), << getExpr(The(c, "expression"), "DefaultValue") >>)
  OBVIOUS
<1>12. Makings(code1, Start, Holding(v2))
  BY <1>7, <1>9, <1>11, MakingsConcat
<1>13. /\ v2.has["Type"] = 1
       /\ v2.has["DefaultValue"] \in {0, 1}
  BY <1>2, <1>4, <1>9 DEF Childless, Adds, MemberNames
<1>14. Whole(v2)
  BY <1>10, <1>13, DeclWhole
<1>15. "Parameter" \in Yields("parameter")
  BY YieldsOf, Classes
<1>16. PICK any : Visit(c) = Visitor(any, code1)
  BY <1>6, <1>11 DEF Visit, visitParameter, node
<1> QED
  BY <1>10, <1>12, <1>14, <1>15, <1>16, BlockWhole

\* visitBuiltinType keeps a type the dumper has a name for.
LEMMA visitBuiltinType_Whole ==
  ASSUME TreeDone, NEW c \in DOMAIN tree, tree[c].sym = "builtinType"
  PROVE  VisitWhole(c)
<1> DEFINE node == WithOp(Node("BuiltinType", c, c), GetToken(c, BuiltinTypes))
<1>1. Made(node, "BuiltinType", 1, FALSE)
  BY OtherTokens, MadeBuiltin
<1> HIDE DEF node
<1>2. PICK v0 : Childless(v0, "BuiltinType", 1, FALSE) /\ Makes(New(node), Start, Holding(v0))
  BY <1>1, NewMakes
<1>3. v0 \in Views /\ v0.kind = "BuiltinType"
  BY <1>2 DEF Childless
<1>4. PICK code : code = << New(node) >>
  OBVIOUS
<1>5. Makings(code, Start, Holding(v0))
  BY <1>4, <1>2, MakingsOne
<1>6. Whole(v0)
  BY <1>3, LeafWhole
<1>7. "BuiltinType" \in Yields("builtinType")
  BY YieldsOf, Classes DEF TypeContexts
<1>8. PICK any : Visit(c) = Visitor(any, code)
  BY <1>4 DEF Visit, visitBuiltinType, node
<1> QED
  BY <1>3, <1>5, <1>6, <1>7, <1>8, BlockWhole

\* visitBlock: a Block needs nothing.
LEMMA visitBlock_Whole ==
  ASSUME TreeDone, NEW c \in DOMAIN tree, tree[c].sym = "block"
  PROVE  VisitWhole(c)
<1> DEFINE node == Node("Block", c, c)
<1>1. Made(node, "Block", 0, FALSE)
  BY KindsAre, MadePlain DEF NamedByInfo
<1> HIDE DEF node
<1>2. PICK v0 : Childless(v0, "Block", 0, FALSE) /\ Makes(New(node), Start, Holding(v0))
  BY <1>1, NewMakes
<1>3. v0 \in Views /\ v0.kind = "Block"
  BY <1>2 DEF Childless
<1>4. PICK code : code = << New(node) >>
  OBVIOUS
<1>5. Makings(code, Start, Holding(v0))
  BY <1>4, <1>2, MakingsOne
<1>6. IsSeq(Kids(c, "statement"))
  BY KidsOK
<1>7. PICK v1 : /\ Adds(v0, v1, "Statements", Len(Kids(c, "statement")))
               /\ Makings(GetAll("Statement", Kids(c, "statement"), "Statements"),
                           Holding(v0), Holding(v1))
  BY <1>3, <1>6, StmtSuits, ListMakes DEF Result
<1>8. v1 \in Views /\ v1.kind = "Block"
  BY <1>3, <1>7 DEF Adds
<1>9. PICK code1 : code1 = code \o
        GetAll("Statement", Kids(c, "statement"), "Statements")
  OBVIOUS
<1>10. Makings(code1, Start, Holding(v1))
  BY <1>5, <1>7, <1>9, MakingsConcat
<1>11. Whole(v1)
  BY <1>8, StmtWhole
<1>12. "Block" \in Yields("block")
  BY YieldsOf, Classes
<1>13. PICK any : Visit(c) = Visitor(any, code1)
  BY <1>4, <1>9 DEF Visit, visitBlock, node
<1> QED
  BY <1>8, <1>10, <1>11, <1>12, <1>13, BlockWhole

\* visitDeclStatement stores its declaration.
LEMMA visitDeclStatement_Whole ==
  ASSUME TreeDone, NEW c \in DOMAIN tree, tree[c].sym = "declStatement"
  PROVE  VisitWhole(c)
<1> DEFINE node == Node("DeclStatement", c, c)
<1>1. Made(node, "DeclStatement", 0, FALSE)
  BY KindsAre, MadePlain DEF NamedByInfo
<1> HIDE DEF node
<1>2. PICK v0 : Childless(v0, "DeclStatement", 0, FALSE) /\ Makes(New(node), Start, Holding(v0))
  BY <1>1, NewMakes
<1>3. v0 \in Views /\ v0.kind = "DeclStatement"
  BY <1>2 DEF Childless
<1>4. PICK v1 : /\ Adds(v0, v1, "Declaration", 1)
               /\ Makes(getDecl(The(c, "declaration"), "Declaration"), Holding(v0), Holding(v1))
  BY <1>3, StmtSuits, GetMakes DEF getDecl, Result
<1>5. v1 \in Views /\ v1.kind = "DeclStatement"
  BY <1>3, <1>4 DEF Adds
<1>6. PICK code : code = << New(node), getDecl(The(c, "declaration"), "Declaration") >>
  OBVIOUS
<1>7. Makings(code, Start, Holding(v1))
  BY <1>6, <1>2, <1>4, MakingsTwo
<1>8. v1.has["Declaration"] = 1
  BY <1>2, <1>4 DEF Childless, Adds, MemberNames
<1>9. Whole(v1)
  BY <1>5, <1>8, StmtWhole
<1>10. "DeclStatement" \in Yields("declStatement")
  BY YieldsOf, Classes DEF StmtContexts
<1>11. PICK any : Visit(c) = Visitor(any, code)
  BY <1>6 DEF Visit, visitDeclStatement, node
<1> QED
  BY <1>5, <1>7, <1>9, <1>10, <1>11, BlockWhole

\* visitForEachStmt stores a collection and a body.
LEMMA visitForEachStmt_Whole ==
  ASSUME TreeDone, NEW c \in DOMAIN tree, tree[c].sym = "forEachStmt"
  PROVE  VisitWhole(c)
<1> DEFINE node == Named(Node("ForEachStmt", c, c), c)
<1>1. Made(node, "ForEachStmt", 0, FALSE)
  BY KindsAre, MadeNamed DEF NamedByInfo
<1> HIDE DEF node
<1>2. PICK v0 : Childless(v0, "ForEachStmt", 0, FALSE) /\ Makes(New(node), Start, Holding(v0))
  BY <1>1, NewMakes
<1>3. v0 \in Views /\ v0.kind = "ForEachStmt"
  BY <1>2 DEF Childless
<1>4. PICK v1 : /\ Adds(v0, v1, "Scope", 1)
               /\ Makes(getExpr(The(c, "expression"), "Scope"), Holding(v0), Holding(v1))
  BY <1>3, StmtSuits, GetMakes DEF getExpr, Result
<1>5. v1 \in Views /\ v1.kind = "ForEachStmt"
  BY <1>3, <1>4 DEF Adds
<1>6. PICK v2 : /\ Adds(v1, v2, "Body", 1)
               /\ Makes(getBlock(The(c, "block"), "Body"), Holding(v1), Holding(v2))
  BY <1>5, StmtSuits, GetMakes DEF getBlock, Result
<1>7. v2 \in Views /\ v2.kind = "ForEachStmt"
  BY <1>5, <1>6 DEF Adds
<1>8. PICK code : code = << New(node),
                   getExpr(The(c, "expression"), "Scope"),
                   getBlock(The(c, "block"), "Body") >>
  OBVIOUS
<1>9. Makings(code, Start, Holding(v2))
  BY <1>8, <1>2, <1>4, <1>6, MakingsThree
<1>10. /\ v2.has["Scope"] = 1
       /\ v2.has["Body"] = 1
  BY <1>2, <1>4, <1>6 DEF Childless, Adds, MemberNames
<1>11. Whole(v2)
  BY <1>7, <1>10, StmtWhole
<1>12. "ForEachStmt" \in Yields("forEachStmt")
  BY YieldsOf, Classes DEF StmtContexts
<1>13. PICK any : Visit(c) = Visitor(any, code)
  BY <1>8 DEF Visit, visitForEachStmt, node
<1> QED
  BY <1>7, <1>9, <1>11, <1>12, <1>13, BlockWhole

\* visitWhileStmt stores a condition and a body.
LEMMA visitWhileStmt_Whole ==
  ASSUME TreeDone, NEW c \in DOMAIN tree, tree[c].sym = "whileStmt"
  PROVE  VisitWhole(c)
<1> DEFINE node == Node("WhileStmt", c, c)
<1>1. Made(node, "WhileStmt", 0, FALSE)
  BY KindsAre, MadePlain DEF NamedByInfo
<1> HIDE DEF node
<1>2. PICK v0 : Childless(v0, "WhileStmt", 0, FALSE) /\ Makes(New(node), Start, Holding(v0))
  BY <1>1, NewMakes
<1>3. v0 \in Views /\ v0.kind = "WhileStmt"
  BY <1>2 DEF Childless
<1>4. PICK v1 : /\ Adds(v0, v1, "Condition", 1)
               /\ Makes(getExpr(The(c, "expression"), "Condition"), Holding(v0), Holding(v1))
  BY <1>3, StmtSuits, GetMakes DEF getExpr, Result
<1>5. v1 \in Views /\ v1.kind = "WhileStmt"
  BY <1>3, <1>4 DEF Adds
<1>6. PICK v2 : /\ Adds(v1, v2, "Body", 1)
               /\ Makes(getBlock(The(c, "block"), "Body"), Holding(v1), Holding(v2))
  BY <1>5, StmtSuits, GetMakes DEF getBlock, Result
<1>7. v2 \in Views /\ v2.kind = "WhileStmt"
  BY <1>5, <1>6 DEF Adds
<1>8. PICK code : code = << New(node),
                   getExpr(The(c, "expression"), "Condition"),
                   getBlock(The(c, "block"), "Body") >>
  OBVIOUS
<1>9. Makings(code, Start, Holding(v2))
  BY <1>8, <1>2, <1>4, <1>6, MakingsThree
<1>10. /\ v2.has["Condition"] = 1
       /\ v2.has["Body"] = 1
  BY <1>2, <1>4, <1>6 DEF Childless, Adds, MemberNames
<1>11. Whole(v2)
  BY <1>7, <1>10, StmtWhole
<1>12. "WhileStmt" \in Yields("whileStmt")
  BY YieldsOf, Classes DEF StmtContexts
<1>13. PICK any : Visit(c) = Visitor(any, code)
  BY <1>8 DEF Visit, visitWhileStmt, node
<1> QED
  BY <1>7, <1>9, <1>11, <1>12, <1>13, BlockWhole

\* visitDoWhileStmt stores a body and a condition.
LEMMA visitDoWhileStmt_Whole ==
  ASSUME TreeDone, NEW c \in DOMAIN tree, tree[c].sym = "doWhileStmt"
  PROVE  VisitWhole(c)
<1> DEFINE node == Node("DoWhileStmt", c, c)
<1>1. Made(node, "DoWhileStmt", 0, FALSE)
  BY KindsAre, MadePlain DEF NamedByInfo
<1> HIDE DEF node
<1>2. PICK v0 : Childless(v0, "DoWhileStmt", 0, FALSE) /\ Makes(New(node), Start, Holding(v0))
  BY <1>1, NewMakes
<1>3. v0 \in Views /\ v0.kind = "DoWhileStmt"
  BY <1>2 DEF Childless
<1>4. PICK v1 : /\ Adds(v0, v1, "Body", 1)
               /\ Makes(getBlock(The(c, "block"), "Body"), Holding(v0), Holding(v1))
  BY <1>3, StmtSuits, GetMakes DEF getBlock, Result
<1>5. v1 \in Views /\ v1.kind = "DoWhileStmt"
  BY <1>3, <1>4 DEF Adds
<1>6. PICK v2 : /\ Adds(v1, v2, "Condition", 1)
               /\ Makes(getExpr(The(c, "expression"), "Condition"), Holding(v1), Holding(v2))
  BY <1>5, StmtSuits, GetMakes DEF getExpr, Result
<1>7. v2 \in Views /\ v2.kind = "DoWhileStmt"
  BY <1>5, <1>6 DEF Adds
<1>8. PICK code : code = << New(node),
                   getBlock(The(c, "block"), "Body"),
                   getExpr(The(c, "expression"), "Condition") >>
  OBVIOUS
<1>9. Makings(code, Start, Holding(v2))
  BY <1>8, <1>2, <1>4, <1>6, MakingsThree
<1>10. /\ v2.has["Body"] = 1
       /\ v2.has["Condition"] = 1
  BY <1>2, <1>4, <1>6 DEF Childless, Adds, MemberNames
<1>11. Whole(v2)
  BY <1>7, <1>10, StmtWhole
<1>12. "DoWhileStmt" \in Yields("doWhileStmt")
  BY YieldsOf, Classes DEF StmtContexts
<1>13. PICK any : Visit(c) = Visitor(any, code)
  BY <1>8 DEF Visit, visitDoWhileStmt, node
<1> QED
  BY <1>7, <1>9, <1>11, <1>12, <1>13, BlockWhole

\* visitExprStmt stores its expression.
LEMMA visitExprStmt_Whole ==
  ASSUME TreeDone, NEW c \in DOMAIN tree, tree[c].sym = "exprStmt"
  PROVE  VisitWhole(c)
<1> DEFINE node == Node("ExprStmt", c, c)
<1>1. Made(node, "ExprStmt", 0, FALSE)
  BY KindsAre, MadePlain DEF NamedByInfo
<1> HIDE DEF node
<1>2. PICK v0 : Childless(v0, "ExprStmt", 0, FALSE) /\ Makes(New(node), Start, Holding(v0))
  BY <1>1, NewMakes
<1>3. v0 \in Views /\ v0.kind = "ExprStmt"
  BY <1>2 DEF Childless
<1>4. PICK v1 : /\ Adds(v0, v1, "Expression", 1)
               /\ Makes(getExpr(The(c, "expression"), "Expression"), Holding(v0), Holding(v1))
  BY <1>3, StmtSuits, GetMakes DEF getExpr, Result
<1>5. v1 \in Views /\ v1.kind = "ExprStmt"
  BY <1>3, <1>4 DEF Adds
<1>6. PICK code : code = << New(node), getExpr(The(c, "expression"), "Expression") >>
  OBVIOUS
<1>7. Makings(code, Start, Holding(v1))
  BY <1>6, <1>2, <1>4, MakingsTwo
<1>8. v1.has["Expression"] = 1
  BY <1>2, <1>4 DEF Childless, Adds, MemberNames
<1>9. Whole(v1)
  BY <1>5, <1>8, StmtWhole
<1>10. "ExprStmt" \in Yields("exprStmt")
  BY YieldsOf, Classes DEF StmtContexts
<1>11. PICK any : Visit(c) = Visitor(any, code)
  BY <1>6 DEF Visit, visitExprStmt, node
<1> QED
  BY <1>5, <1>7, <1>9, <1>10, <1>11, BlockWhole

\* visitCollectionLiteral: a list needs nothing.
LEMMA visitCollectionLiteral_Whole ==
  ASSUME TreeDone, NEW c \in DOMAIN tree, tree[c].sym = "collectionLiteral"
  PROVE  VisitWhole(c)
<1> DEFINE node == Node("CollectionExpr", c, c)
<1>1. Made(node, "CollectionExpr", 0, FALSE)
  BY KindsAre, MadePlain DEF NamedByInfo
<1> HIDE DEF node
<1>2. PICK v0 : Childless(v0, "CollectionExpr", 0, FALSE) /\ Makes(New(node), Start, Holding(v0))
  BY <1>1, NewMakes
<1>3. v0 \in Views /\ v0.kind = "CollectionExpr"
  BY <1>2 DEF Childless
<1>4. PICK code : code = << New(node) >>
  OBVIOUS
<1>5. Makings(code, Start, Holding(v0))
  BY <1>4, <1>2, MakingsOne
<1>6. IsSeq(Kids(c, "expression"))
  BY KidsOK
<1>7. PICK v1 : /\ Adds(v0, v1, "Elements", Len(Kids(c, "expression")))
               /\ Makings(GetAll("Expr", Kids(c, "expression"), "Elements"),
                           Holding(v0), Holding(v1))
  BY <1>3, <1>6, ExprSuits, ListMakes DEF Result
<1>8. v1 \in Views /\ v1.kind = "CollectionExpr"
  BY <1>3, <1>7 DEF Adds
<1>9. PICK code1 : code1 = code \o
        GetAll("Expr", Kids(c, "expression"), "Elements")
  OBVIOUS
<1>10. Makings(code1, Start, Holding(v1))
  BY <1>5, <1>7, <1>9, MakingsConcat
<1>11. Whole(v1)
  BY <1>8, ExprWhole
<1>12. "CollectionExpr" \in Yields("collectionLiteral")
  BY YieldsOf, Classes DEF ExprContexts
<1>13. PICK any : Visit(c) = Visitor(any, code1)
  BY <1>4, <1>9 DEF Visit, visitCollectionLiteral, node
<1> QED
  BY <1>8, <1>10, <1>11, <1>12, <1>13, BlockWhole

\* visitThisLiteral makes a leaf.
LEMMA visitThisLiteral_Whole ==
  ASSUME TreeDone, NEW c \in DOMAIN tree, tree[c].sym = "thisLiteral"
  PROVE  VisitWhole(c)
<1> DEFINE node == Node("ThisExpr", c, c)
<1>1. Made(node, "ThisExpr", 0, FALSE)
  BY KindsAre, MadePlain DEF NamedByInfo
<1> HIDE DEF node
<1>2. PICK v0 : Childless(v0, "ThisExpr", 0, FALSE) /\ Makes(New(node), Start, Holding(v0))
  BY <1>1, NewMakes
<1>3. v0 \in Views /\ v0.kind = "ThisExpr"
  BY <1>2 DEF Childless
<1>4. PICK code : code = << New(node) >>
  OBVIOUS
<1>5. Makings(code, Start, Holding(v0))
  BY <1>4, <1>2, MakingsOne
<1>6. Whole(v0)
  BY <1>3, LeafWhole
<1>7. "ThisExpr" \in Yields("thisLiteral")
  BY YieldsOf, Classes DEF ExprContexts
<1>8. PICK any : Visit(c) = Visitor(any, code)
  BY <1>4 DEF Visit, visitThisLiteral, node
<1> QED
  BY <1>3, <1>5, <1>6, <1>7, <1>8, BlockWhole

\* visitLabel makes a leaf with a name.
LEMMA visitLabel_Whole ==
  ASSUME TreeDone, NEW c \in DOMAIN tree, tree[c].sym = "label"
  PROVE  VisitWhole(c)
<1> DEFINE node == Named(Node("Label", c, c), c)
<1>1. Made(node, "Label", 0, FALSE)
  BY KindsAre, NamesHas, MadeNamed
<1> HIDE DEF node
<1>2. PICK v0 : Childless(v0, "Label", 0, FALSE) /\ Makes(New(node), Start, Holding(v0))
  BY <1>1, NewMakes
<1>3. v0 \in Views /\ v0.kind = "Label"
  BY <1>2 DEF Childless
<1>4. PICK code : code = << New(node) >>
  OBVIOUS
<1>5. Makings(code, Start, Holding(v0))
  BY <1>4, <1>2, MakingsOne
<1>6. Whole(v0)
  BY <1>3, LeafWhole
<1>7. "Label" \in Yields("label")
  BY YieldsOf, Classes
<1>8. PICK any : Visit(c) = Visitor(any, code)
  BY <1>4 DEF Visit, visitLabel, node
<1> QED
  BY <1>3, <1>5, <1>6, <1>7, <1>8, BlockWhole

\* visitIfExpression stores a condition, a result and maybe another.
LEMMA visitIfExpression_Whole ==
  ASSUME TreeDone, NEW c \in DOMAIN tree, tree[c].sym = "ifExpression"
  PROVE  VisitWhole(c)
<1> DEFINE node == Node("IfExpr", c, c)
<1>1. Made(node, "IfExpr", 0, FALSE)
  BY KindsAre, MadePlain DEF NamedByInfo
<1> HIDE DEF node
<1>2. PICK v0 : Childless(v0, "IfExpr", 0, FALSE) /\ Makes(New(node), Start, Holding(v0))
  BY <1>1, NewMakes
<1>3. v0 \in Views /\ v0.kind = "IfExpr"
  BY <1>2 DEF Childless
<1>4. PICK v1 : /\ Adds(v0, v1, "Condition", 1)
               /\ Makes(getExpr(Nth(c, "expression", 1), "Condition"), Holding(v0), Holding(v1))
  BY <1>3, ExprSuits, GetMakes DEF getExpr, Result
<1>5. v1 \in Views /\ v1.kind = "IfExpr"
  BY <1>3, <1>4 DEF Adds
<1>6. PICK v2 : /\ Adds(v1, v2, "Then", 1)
               /\ Makes(getExpr(Nth(c, "expression", 2), "Then"), Holding(v1), Holding(v2))
  BY <1>5, ExprSuits, GetMakes DEF getExpr, Result
<1>7. v2 \in Views /\ v2.kind = "IfExpr"
  BY <1>5, <1>6 DEF Adds
<1>8. PICK code : code = << New(node),
                   getExpr(Nth(c, "expression", 1), "Condition"),
                   getExpr(Nth(c, "expression", 2), "Then") >>
  OBVIOUS
<1>9. Makings(code, Start, Holding(v2))
  BY <1>8, <1>2, <1>4, <1>6, MakingsThree
<1>10. (Has(c, "ELSE")) \in BOOLEAN
  BY DEF Has
<1>11. PICK v3 : /\ Adds(v2, v3, "Else", IF Has(c, "ELSE") THEN 1 ELSE 0)
                /\ Makings(If(Has(c, "ELSE"), << getExpr(Nth(c, "expression", 3), "Else") >>),
                            Holding(v2), Holding(v3))
  BY <1>7, <1>10, ExprSuits, MaybeMakes DEF getExpr, Result
<1>12. v3 \in Views /\ v3.kind = "IfExpr"
  BY <1>7, <1>11 DEF Adds
<1>13. PICK code1 : code1 = code \o
         If(Has(c, "ELSE"), << getExpr(Nth(c, "expression", 3), "Else") >>)
  OBVIOUS
<1>14. Makings(code1, Start, Holding(v3))
  BY <1>9, <1>11, <1>13, MakingsConcat
<1>15. /\ v3.has["Condition"] = 1
       /\ v3.has["Then"] = 1
       /\ v3.has["Else"] \in {0, 1}
  BY <1>2, <1>4, <1>6, <1>11 DEF Childless, Adds, MemberNames
<1>16. Whole(v3)
  BY <1>12, <1>15, ExprWhole
<1>17. "IfExpr" \in Yields("ifExpression")
  BY YieldsOf, Classes DEF ExprContexts
<1>18. PICK any : Visit(c) = Visitor(any, code1)
  BY <1>8, <1>13 DEF Visit, visitIfExpression, node
<1> QED
  BY <1>12, <1>14, <1>16, <1>17, <1>18, BlockWhole

-----------------------------------------------------------------------------
(* Parts that some visitors have.                                          *)

\* A list in a part of the context that may be missing.
LEMMA PartMakes ==
  ASSUME TreeDone, NEW c \in DOMAIN tree, NEW part, NEW v \in Views, NEW as, as # "any",
         NEW slot, slot # Result, Suits(v.kind, slot, as), NEW sym
  PROVE  \E w : \E n \in Nat :
           /\ Adds(v, w, slot, n)
           /\ Makings(If(The(c, part) # Null, GetAll(as, Kids(The(c, part), sym), slot)),
                      Holding(v), Holding(w))
<1>1. PICK x, code : x = The(c, part) /\ code = GetAll(as, Kids(x, sym), slot)
  OBVIOUS
<1>2. ASSUME x # Null
      PROVE  \E w : \E n \in Nat : Adds(v, w, slot, n) /\ Makings(code, Holding(v), Holding(w))
  <2>1. x \in DOMAIN tree
    BY <1>1, <1>2, TheOK
  <2>2. IsSeq(Kids(x, sym)) /\ Len(Kids(x, sym)) \in Nat
    BY <2>1, KidsOK, SeqFacts
  <2> QED
    BY <1>1, <2>2, ListMakes
<1>3. \E w : \E n \in Nat :
        Adds(v, w, slot, n) /\ Makings(If(x # Null, code), Holding(v), Holding(w))
  BY <1>2, MaybeListMakes
<1> QED
  BY <1>1, <1>3

\* Type arguments.
LEMMA TypeArgsMakes ==
  ASSUME TreeDone, NEW c \in DOMAIN tree, NEW v \in Views, Suits(v.kind, "TypeArgs", "Type")
  PROVE  \E w : \E n \in Nat : /\ Adds(v, w, "TypeArgs", n)
                               /\ Makings(TypeArgs(c), Holding(v), Holding(w))
<1>1. PICK x, y : x = The(c, "typeArguments") /\ y = The(x, "typeArgument")
  OBVIOUS
<1>2. PICK code, cond : /\ code = GetAll("Type", Kids(y, "type"), "TypeArgs")
                        /\ cond = (x # Null /\ y # Null)
  OBVIOUS
<1>3. TypeArgs(c) = If(cond, code)
  BY <1>1, <1>2 DEF TypeArgs, Has
<1>4. ASSUME cond
      PROVE  \E w : \E n \in Nat :
               Adds(v, w, "TypeArgs", n) /\ Makings(code, Holding(v), Holding(w))
  <2>1. x \in DOMAIN tree
    BY <1>1, <1>2, <1>4, TheOK
  <2>2. y \in DOMAIN tree
    BY <1>1, <1>2, <1>4, <2>1, TheOK
  <2>3. IsSeq(Kids(y, "type")) /\ Len(Kids(y, "type")) \in Nat
    BY <2>2, KidsOK, SeqFacts
  <2> QED
    BY <1>2, <2>3, ListMakes DEF Result
<1>5. \E w : \E n \in Nat :
        Adds(v, w, "TypeArgs", n) /\ Makings(If(cond, code), Holding(v), Holding(w))
  BY <1>4, MaybeListMakes DEF Result
<1> QED
  BY <1>3, <1>5

\* The arguments of a call.
LEMMA ArgumentsMakes ==
  ASSUME TreeDone, NEW c \in DOMAIN tree, NEW v \in Views, Suits(v.kind, "Arguments", "Expr")
  PROVE  \E w : \E n \in Nat : /\ Adds(v, w, "Arguments", n)
                               /\ Makings(Arguments(c), Holding(v), Holding(w))
<1>1. PICK x, args : x = The(c, "valueArguments") /\ args = Kids(x, "valueArgument")
  OBVIOUS
<1>2. PICK code, cond :
        /\ code = [i \in DOMAIN args |-> Get("Expr", The(args[i], "expression"), "Arguments")]
        /\ cond = (x # Null)
  OBVIOUS
<1>3. Arguments(c) = If(cond, code)
  BY <1>1, <1>2 DEF Arguments, Has, getExpr
<1>4. ASSUME cond
      PROVE  \E w : \E n \in Nat :
               Adds(v, w, "Arguments", n) /\ Makings(code, Holding(v), Holding(w))
  <2>1. x \in DOMAIN tree
    BY <1>1, <1>2, <1>4, TheOK
  <2>2. IsSeq(args) /\ Len(args) \in Nat /\ DOMAIN args = 1..Len(args)
    BY <1>1, <2>1, KidsOK, SeqFacts
  <2>3. code = [i \in 1..Len(args) |-> code[i]]
    BY <1>2, <2>2
  <2>4. IsSeq(code) /\ Len(code) \in Nat
    BY <2>2, <2>3, FunSeq, SeqFacts
  <2>5. \A k \in DOMAIN code : \E child : code[k] = Get("Expr", child, "Arguments")
    BY <1>2
  <2> QED
    BY <2>4, <2>5, AllMakes DEF Result
<1>5. \E w : \E n \in Nat :
        Adds(v, w, "Arguments", n) /\ Makings(If(cond, code), Holding(v), Holding(w))
  BY <1>4, MaybeListMakes DEF Result
<1> QED
  BY <1>3, <1>5

\* visitVariableDecl stores a type, a value, or both, and a value if it is no `var`.
LEMMA visitVariableDecl_Whole ==
  ASSUME TreeDone, NEW c \in DOMAIN tree, tree[c].sym = "variableDecl"
  PROVE  VisitWhole(c)
<1> DEFINE node == Flagged(Named(Node("VarDecl", c, c), c), "IsMutable", Has(c, "VAR"))
<1>1. Made(node, "VarDecl", 0, Has(c, "VAR"))
  <2>1. /\ "VarDecl" \in Kinds /\ "IsMutable" \in ShownFlags("VarDecl") \cup {"decoded", "default", "raw"}
        /\ Has(c, "VAR") \in BOOLEAN /\ Has(c, "IDENTIFIER")
    BY KindsAre, FlagFacts, NamesHas DEF Has
  <2>2. Made(node, "VarDecl", 0, Has(c, "VAR") /\ "IsMutable" = "IsMutable")
    BY <2>1, MadeFlagged
  <2>3. (Has(c, "VAR") /\ "IsMutable" = "IsMutable") = Has(c, "VAR")
    BY <2>1
  <2> QED
    BY <2>2, <2>3
<1> HIDE DEF node
<1>2. PICK v0 : Childless(v0, "VarDecl", 0, Has(c, "VAR")) /\ Makes(New(node), Start, Holding(v0))
  BY <1>1, NewMakes
<1>3. v0 \in Views /\ v0.kind = "VarDecl"
  BY <1>2 DEF Childless
<1>4. PICK code : code = << New(node) >>
  OBVIOUS
<1>5. Makings(code, Start, Holding(v0))
  BY <1>4, <1>2, MakingsOne
<1>6. (Has(c, "type")) \in BOOLEAN
  BY DEF Has
<1>7. PICK v1 : /\ Adds(v0, v1, "VarType", IF Has(c, "type") THEN 1 ELSE 0)
               /\ Makings(If(Has(c, "type"), << getType(The(c, "type"), "VarType") >>),
                           Holding(v0), Holding(v1))
  BY <1>3, <1>6, DeclSuits, MaybeMakes DEF getType, Result
<1>8. v1 \in Views /\ v1.kind = "VarDecl"
  BY <1>3, <1>7 DEF Adds
<1>9. PICK code1 : code1 = code \o
        If(Has(c, "type"), << getType(The(c, "type"), "VarType") >>)
  OBVIOUS
<1>10. Makings(code1, Start, Holding(v1))
  BY <1>5, <1>7, <1>9, MakingsConcat
<1>11. (Has(c, "expression")) \in BOOLEAN
  BY DEF Has
<1>12. PICK v2 : /\ Adds(v1, v2, "Value", IF Has(c, "expression") THEN 1 ELSE 0)
                /\ Makings(If(Has(c, "expression"), << getExpr(The(c, "expression"), "Value") >>),
                            Holding(v1), Holding(v2))
  BY <1>8, <1>11, DeclSuits, MaybeMakes DEF getExpr, Result
<1>13. v2 \in Views /\ v2.kind = "VarDecl"
  BY <1>8, <1>12 DEF Adds
<1>14. PICK code2 : code2 = code1 \o
         If(Has(c, "expression"), << getExpr(The(c, "expression"), "Value") >>)
  OBVIOUS
<1>15. Makings(code2, Start, Holding(v2))
  BY <1>10, <1>12, <1>14, MakingsConcat
<1>16. /\ v2.has["VarType"] \in {0, 1} /\ v2.has["Value"] \in {0, 1}
       /\ v2.has["VarType"] # 0 \/ v2.has["Value"] # 0
       /\ v2.has["Value"] = 0 => v2.mutable
  BY <1>2, <1>7, <1>12, NamesHas DEF Childless, Adds, MemberNames
<1>17. Whole(v2)
  BY <1>13, <1>16, DeclWhole
<1>18. "VarDecl" \in Yields("variableDecl")
  BY YieldsOf, Classes DEF DeclContexts
<1>19. PICK any : Visit(c) = Visitor(any, code2)
  BY <1>4, <1>9, <1>14 DEF Visit, visitVariableDecl, node
<1> QED
  BY <1>13, <1>15, <1>17, <1>18, <1>19, BlockWhole

\* visitTypeRef: a reference has a name.
LEMMA visitTypeRef_Whole ==
  ASSUME TreeDone, NEW c \in DOMAIN tree, tree[c].sym = "typeRef"
  PROVE  VisitWhole(c)
<1> DEFINE node == Flagged(Named(Node("TypeRef", c, c), c), "ExplicitTypeArgs", Has(c, "typeArguments"))
<1>1. Made(node, "TypeRef", 0, FALSE)
  BY KindsAre, FlagFacts, NamesHas, MadeFlagged DEF Has
<1> HIDE DEF node
<1>2. PICK v0 : Childless(v0, "TypeRef", 0, FALSE) /\ Makes(New(node), Start, Holding(v0))
  BY <1>1, NewMakes
<1>3. v0 \in Views /\ v0.kind = "TypeRef"
  BY <1>2 DEF Childless
<1>4. PICK code : code = << New(node) >>
  OBVIOUS
<1>5. Makings(code, Start, Holding(v0))
  BY <1>4, <1>2, MakingsOne
<1>6. PICK v1, n1 : /\ n1 \in Nat /\ Adds(v0, v1, "TypeArgs", n1)
                    /\ Makings(TypeArgs(c), Holding(v0), Holding(v1))
  BY <1>3, TypeSuits, TypeArgsMakes DEF Result
<1>7. v1 \in Views /\ v1.kind = "TypeRef"
  BY <1>3, <1>6 DEF Adds
<1>8. PICK code1 : code1 = code \o
        TypeArgs(c)
  OBVIOUS
<1>9. Makings(code1, Start, Holding(v1))
  BY <1>5, <1>6, <1>8, MakingsConcat
<1>10. Whole(v1)
  BY <1>7, TypeWhole
<1>11. "TypeRef" \in Yields("typeRef")
  BY YieldsOf, Classes DEF TypeContexts
<1>12. PICK any : Visit(c) = Visitor(any, code1)
  BY <1>4, <1>8 DEF Visit, visitTypeRef, node
<1> QED
  BY <1>7, <1>9, <1>10, <1>11, <1>12, BlockWhole

\* visitFunctionType stores a return type.
LEMMA visitFunctionType_Whole ==
  ASSUME TreeDone, NEW c \in DOMAIN tree, tree[c].sym = "functionType"
  PROVE  VisitWhole(c)
<1> DEFINE node == Node("FunctionType", c, c)
<1>1. Made(node, "FunctionType", 0, FALSE)
  BY KindsAre, MadePlain DEF NamedByInfo
<1> HIDE DEF node
<1>2. PICK v0 : Childless(v0, "FunctionType", 0, FALSE) /\ Makes(New(node), Start, Holding(v0))
  BY <1>1, NewMakes
<1>3. v0 \in Views /\ v0.kind = "FunctionType"
  BY <1>2 DEF Childless
<1>4. PICK v1 : /\ Adds(v0, v1, "ReturnType", 1)
               /\ Makes(getType(The(c, "type"), "ReturnType"), Holding(v0), Holding(v1))
  BY <1>3, TypeSuits, GetMakes DEF getType, Result
<1>5. v1 \in Views /\ v1.kind = "FunctionType"
  BY <1>3, <1>4 DEF Adds
<1>6. PICK code : code = << New(node), getType(The(c, "type"), "ReturnType") >>
  OBVIOUS
<1>7. Makings(code, Start, Holding(v1))
  BY <1>6, <1>2, <1>4, MakingsTwo
<1>8. PICK v2, n2 : /\ n2 \in Nat /\ Adds(v1, v2, "Parameters", n2)
                    /\ Makings(If(The(c, "paramTypeList") # Null, GetAll("Type", Kids(The(c, "paramTypeList"), "type"), "Parameters")), Holding(v1), Holding(v2))
  BY <1>5, TypeSuits, PartMakes DEF Result
<1>9. v2 \in Views /\ v2.kind = "FunctionType"
  BY <1>5, <1>8 DEF Adds
<1>10. PICK code1 : code1 = code \o
         If(The(c, "paramTypeList") # Null, GetAll("Type", Kids(The(c, "paramTypeList"), "type"), "Parameters"))
  OBVIOUS
<1>11. Makings(code1, Start, Holding(v2))
  BY <1>7, <1>8, <1>10, MakingsConcat
<1>12. v2.has["ReturnType"] = 1
  BY <1>2, <1>4, <1>8 DEF Childless, Adds, MemberNames
<1>13. Whole(v2)
  BY <1>9, <1>12, TypeWhole
<1>14. "FunctionType" \in Yields("functionType")
  BY YieldsOf, Classes DEF TypeContexts
<1>15. PICK any : Visit(c) = Visitor(any, code1)
  BY <1>6, <1>10 DEF Visit, visitFunctionType, node
<1> QED
  BY <1>9, <1>11, <1>13, <1>14, <1>15, BlockWhole

\* visitAssignment stores both sides.
LEMMA visitAssignment_Whole ==
  ASSUME TreeDone, NEW c \in DOMAIN tree, tree[c].sym = "assignment"
  PROVE  VisitWhole(c)
<1> DEFINE op == GetToken(The(c, "assignmentOperator"), DOMAIN AssignmentOp)
           node == WithOp(Node("AssignmentStmt", c, c), AssignmentOp[op])
<1>0. AssignmentOp[op] \in DOMAIN getOpSymbol
  <2>1. The(c, "assignmentOperator") \in DOMAIN tree
    BY NamesHas, TheOK DEF Has
  <2>2. tree[The(c, "assignmentOperator")].sym = "assignmentOperator"
    BY NamesHas, KidsOK DEF Has, The, Nth
  <2> QED
    BY <2>1, <2>2, OtherTokens
<1>1. Made(node, "AssignmentStmt", 1, FALSE)
  BY <1>0, MadeWithOp
<1> HIDE DEF op, node
<1>2. PICK v0 : Childless(v0, "AssignmentStmt", 1, FALSE) /\ Makes(New(node), Start, Holding(v0))
  BY <1>1, NewMakes
<1>3. v0 \in Views /\ v0.kind = "AssignmentStmt"
  BY <1>2 DEF Childless
<1>4. PICK v1 : /\ Adds(v0, v1, "LHS", 1)
               /\ Makes(getExpr(The(c, "postfixUnaryExpr"), "LHS"), Holding(v0), Holding(v1))
  BY <1>3, StmtSuits, GetMakes DEF getExpr, Result
<1>5. v1 \in Views /\ v1.kind = "AssignmentStmt"
  BY <1>3, <1>4 DEF Adds
<1>6. PICK v2 : /\ Adds(v1, v2, "RHS", 1)
               /\ Makes(getExpr(The(c, "expression"), "RHS"), Holding(v1), Holding(v2))
  BY <1>5, StmtSuits, GetMakes DEF getExpr, Result
<1>7. v2 \in Views /\ v2.kind = "AssignmentStmt"
  BY <1>5, <1>6 DEF Adds
<1>8. PICK code : code = << New(node),
                   getExpr(The(c, "postfixUnaryExpr"), "LHS"),
                   getExpr(The(c, "expression"), "RHS") >>
  OBVIOUS
<1>9. Makings(code, Start, Holding(v2))
  BY <1>8, <1>2, <1>4, <1>6, MakingsThree
<1>10. /\ v2.has["LHS"] = 1
       /\ v2.has["RHS"] = 1
  BY <1>2, <1>4, <1>6 DEF Childless, Adds, MemberNames
<1>11. Whole(v2)
  BY <1>7, <1>10, StmtWhole
<1>12. "AssignmentStmt" \in Yields("assignment")
  BY YieldsOf, Classes DEF StmtContexts
<1>13. PICK any : Visit(c) = Visitor(any, code)
  BY <1>8 DEF Visit, visitAssignment, op, node
<1> QED
  BY <1>7, <1>9, <1>11, <1>12, <1>13, BlockWhole

\* visitForStmt stores a body, and maybe a condition and an update.
LEMMA visitForStmt_Whole ==
  ASSUME TreeDone, NEW c \in DOMAIN tree, tree[c].sym = "forStmt"
  PROVE  VisitWhole(c)
<1> DEFINE node == Node("ForStmt", c, c)
<1>1. Made(node, "ForStmt", 0, FALSE)
  BY KindsAre, MadePlain DEF NamedByInfo
<1> HIDE DEF node
<1>2. PICK v0 : Childless(v0, "ForStmt", 0, FALSE) /\ Makes(New(node), Start, Holding(v0))
  BY <1>1, NewMakes
<1>3. v0 \in Views /\ v0.kind = "ForStmt"
  BY <1>2 DEF Childless
<1>4. PICK code : code = << New(node) >>
  OBVIOUS
<1>5. Makings(code, Start, Holding(v0))
  BY <1>4, <1>2, MakingsOne
<1>6. PICK v1, n1 : /\ n1 \in Nat /\ Adds(v0, v1, "InitStmts", n1)
                    /\ Makings(If(The(c, "variableDecls") # Null, GetAll("Declaration", Kids(The(c, "variableDecls"), "variableDecl"), "InitStmts")), Holding(v0), Holding(v1))
  BY <1>3, StmtSuits, PartMakes DEF Result
<1>7. v1 \in Views /\ v1.kind = "ForStmt"
  BY <1>3, <1>6 DEF Adds
<1>8. PICK code1 : code1 = code \o
        If(The(c, "variableDecls") # Null, GetAll("Declaration", Kids(The(c, "variableDecls"), "variableDecl"), "InitStmts"))
  OBVIOUS
<1>9. Makings(code1, Start, Holding(v1))
  BY <1>5, <1>6, <1>8, MakingsConcat
<1>10. (Has(c, "expression")) \in BOOLEAN
  BY DEF Has
<1>11. PICK v2 : /\ Adds(v1, v2, "Condition", IF Has(c, "expression") THEN 1 ELSE 0)
                /\ Makings(If(Has(c, "expression"), << getExpr(The(c, "expression"), "Condition") >>),
                            Holding(v1), Holding(v2))
  BY <1>7, <1>10, StmtSuits, MaybeMakes DEF getExpr, Result
<1>12. v2 \in Views /\ v2.kind = "ForStmt"
  BY <1>7, <1>11 DEF Adds
<1>13. PICK code2 : code2 = code1 \o
         If(Has(c, "expression"), << getExpr(The(c, "expression"), "Condition") >>)
  OBVIOUS
<1>14. Makings(code2, Start, Holding(v2))
  BY <1>9, <1>11, <1>13, MakingsConcat
<1>15. (Has(c, "forUpdate")) \in BOOLEAN
  BY DEF Has
<1>16. PICK v3 : /\ Adds(v2, v3, "Update", IF Has(c, "forUpdate") THEN 1 ELSE 0)
                /\ Makings(If(Has(c, "forUpdate"), << getStmt(The(c, "forUpdate"), "Update") >>),
                            Holding(v2), Holding(v3))
  BY <1>12, <1>15, StmtSuits, MaybeMakes DEF getStmt, Result
<1>17. v3 \in Views /\ v3.kind = "ForStmt"
  BY <1>12, <1>16 DEF Adds
<1>18. PICK code3 : code3 = code2 \o
         If(Has(c, "forUpdate"), << getStmt(The(c, "forUpdate"), "Update") >>)
  OBVIOUS
<1>19. Makings(code3, Start, Holding(v3))
  BY <1>14, <1>16, <1>18, MakingsConcat
<1>20. PICK v4 : /\ Adds(v3, v4, "Body", 1)
                /\ Makes(getBlock(The(c, "block"), "Body"), Holding(v3), Holding(v4))
  BY <1>17, StmtSuits, GetMakes DEF getBlock, Result
<1>21. Makings(<< getBlock(The(c, "block"), "Body") >>, Holding(v3), Holding(v4))
  BY <1>20, MakingsOne
<1>22. v4 \in Views /\ v4.kind = "ForStmt"
  BY <1>17, <1>20 DEF Adds
<1>23. PICK code4 : code4 = code3 \o
         << getBlock(The(c, "block"), "Body") >>
  OBVIOUS
<1>24. Makings(code4, Start, Holding(v4))
  BY <1>19, <1>21, <1>23, MakingsConcat
<1>25. /\ v4.has["Condition"] \in {0, 1}
       /\ v4.has["Update"] \in {0, 1}
       /\ v4.has["Body"] = 1
  BY <1>2, <1>6, <1>11, <1>16, <1>20 DEF Childless, Adds, MemberNames
<1>26. Whole(v4)
  BY <1>22, <1>25, StmtWhole
<1>27. "ForStmt" \in Yields("forStmt")
  BY YieldsOf, Classes DEF StmtContexts
<1>28. PICK any : Visit(c) = Visitor(any, code4)
  BY <1>4, <1>8, <1>13, <1>18, <1>23 DEF Visit, visitForStmt, node
<1> QED
  BY <1>22, <1>24, <1>26, <1>27, <1>28, BlockWhole

\* visitTryStatement stores a body, and a catch clause or a finally.
LEMMA visitTryStatement_Whole ==
  ASSUME TreeDone, NEW c \in DOMAIN tree, tree[c].sym = "tryStatement"
  PROVE  VisitWhole(c)
<1> DEFINE node == Node("TryStmt", c, c)
<1>1. Made(node, "TryStmt", 0, FALSE)
  BY KindsAre, MadePlain DEF NamedByInfo
<1> HIDE DEF node
<1>2. PICK v0 : Childless(v0, "TryStmt", 0, FALSE) /\ Makes(New(node), Start, Holding(v0))
  BY <1>1, NewMakes
<1>3. v0 \in Views /\ v0.kind = "TryStmt"
  BY <1>2 DEF Childless
<1>4. PICK v1 : /\ Adds(v0, v1, "Body", 1)
               /\ Makes(getBlock(Nth(c, "block", 1), "Body"), Holding(v0), Holding(v1))
  BY <1>3, StmtSuits, GetMakes DEF getBlock, Result
<1>5. v1 \in Views /\ v1.kind = "TryStmt"
  BY <1>3, <1>4 DEF Adds
<1>6. PICK code : code = << New(node), getBlock(Nth(c, "block", 1), "Body") >>
  OBVIOUS
<1>7. Makings(code, Start, Holding(v1))
  BY <1>6, <1>2, <1>4, MakingsTwo
<1>8. IsSeq(Kids(c, "catchClause"))
  BY KidsOK
<1>9. PICK v2 : /\ Adds(v1, v2, "CatchClauses", Len(Kids(c, "catchClause")))
               /\ Makings(GetAll("CatchClause", Kids(c, "catchClause"), "CatchClauses"),
                           Holding(v1), Holding(v2))
  BY <1>5, <1>8, StmtSuits, ListMakes DEF Result
<1>10. v2 \in Views /\ v2.kind = "TryStmt"
  BY <1>5, <1>9 DEF Adds
<1>11. PICK code1 : code1 = code \o
         GetAll("CatchClause", Kids(c, "catchClause"), "CatchClauses")
  OBVIOUS
<1>12. Makings(code1, Start, Holding(v2))
  BY <1>7, <1>9, <1>11, MakingsConcat
<1>13. (Has(c, "FINALLY")) \in BOOLEAN
  BY DEF Has
<1>14. PICK v3 : /\ Adds(v2, v3, "Finally", IF Has(c, "FINALLY") THEN 1 ELSE 0)
                /\ Makings(If(Has(c, "FINALLY"), << getBlock(Nth(c, "block", Len(Kids(c, "block"))), "Finally") >>),
                            Holding(v2), Holding(v3))
  BY <1>10, <1>13, StmtSuits, MaybeMakes DEF getBlock, Result
<1>15. v3 \in Views /\ v3.kind = "TryStmt"
  BY <1>10, <1>14 DEF Adds
<1>16. PICK code2 : code2 = code1 \o
         If(Has(c, "FINALLY"), << getBlock(Nth(c, "block", Len(Kids(c, "block"))), "Finally") >>)
  OBVIOUS
<1>17. Makings(code2, Start, Holding(v3))
  BY <1>12, <1>14, <1>16, MakingsConcat
<1>18. /\ v3.has["Body"] = 1
       /\ v3.has["Finally"] \in {0, 1}
       /\ v3.has["CatchClauses"] # 0 \/ v3.has["Finally"] # 0
  BY <1>2, <1>4, <1>9, <1>14, NamesHas, HasLen DEF Childless, Adds, MemberNames
<1>19. Whole(v3)
  BY <1>15, <1>18, StmtWhole
<1>20. "TryStmt" \in Yields("tryStatement")
  BY YieldsOf, Classes DEF StmtContexts
<1>21. PICK any : Visit(c) = Visitor(any, code2)
  BY <1>6, <1>11, <1>16 DEF Visit, visitTryStatement, node
<1> QED
  BY <1>15, <1>17, <1>19, <1>20, <1>21, BlockWhole

\* visitDisjunction makes binary expressions.
LEMMA visitDisjunction_Whole ==
  ASSUME TreeDone, NEW c \in DOMAIN tree, tree[c].sym = "disjunction"
  PROVE  VisitWhole(c)
<1> DEFINE n == Len(Kids(c, "conjunction")) - 1
           op(i) == "Disj"
           steps == [i \in 1..n |-> Fold(c, "conjunction", i, op(i), Silent(i))]
<1>1. Visit(c) = Loop("Expr", << << getExpr(The(c, "conjunction"), Result) >> >> \o steps)
  BY DEF Visit, visitDisjunction, foldLeftAssoc
<1>2. \A i \in 1..n : op(i) \in DOMAIN getOpSymbol
  BY Symbols
<1>3. \A i \in 1..n : steps[i] = Fold(c, "conjunction", i, op(i), << >>)
  BY DEF Silent
<1>4. steps = [i \in 1..n |-> steps[i]]
  OBVIOUS
<1>5. tree[c].sym \in ExprContexts
  BY DEF ExprContexts
<1> HIDE DEF steps, op
<1>6. \A i \in 1..n : \E o \in DOMAIN getOpSymbol : \E pre :
        (\A s : Makings(pre, s, s)) /\ steps[i] = Fold(c, "conjunction", i, o, pre)
  BY <1>2, <1>3, MakingsNone
<1> QED
  BY <1>1, <1>4, <1>5, <1>6, FoldsWhole

\* visitConjunction makes binary expressions.
LEMMA visitConjunction_Whole ==
  ASSUME TreeDone, NEW c \in DOMAIN tree, tree[c].sym = "conjunction"
  PROVE  VisitWhole(c)
<1> DEFINE n == Len(Kids(c, "equality")) - 1
           op(i) == "Conj"
           steps == [i \in 1..n |-> Fold(c, "equality", i, op(i), Silent(i))]
<1>1. Visit(c) = Loop("Expr", << << getExpr(The(c, "equality"), Result) >> >> \o steps)
  BY DEF Visit, visitConjunction, foldLeftAssoc
<1>2. \A i \in 1..n : op(i) \in DOMAIN getOpSymbol
  BY Symbols
<1>3. \A i \in 1..n : steps[i] = Fold(c, "equality", i, op(i), << >>)
  BY DEF Silent
<1>4. steps = [i \in 1..n |-> steps[i]]
  OBVIOUS
<1>5. tree[c].sym \in ExprContexts
  BY DEF ExprContexts
<1> HIDE DEF steps, op
<1>6. \A i \in 1..n : \E o \in DOMAIN getOpSymbol : \E pre :
        (\A s : Makings(pre, s, s)) /\ steps[i] = Fold(c, "equality", i, o, pre)
  BY <1>2, <1>3, MakingsNone
<1> QED
  BY <1>1, <1>4, <1>5, <1>6, FoldsWhole

\* visitEquality: there is an operator between any two operands.
LEMMA visitEquality_Whole ==
  ASSUME TreeDone, NEW c \in DOMAIN tree, tree[c].sym = "equality"
  PROVE  VisitWhole(c)
<1> DEFINE n == Len(Kids(c, "comparison")) - 1
           op(i) == getBinaryOp(Nth(c, "equalityOperator", i))
           steps == [i \in 1..n |-> Fold(c, "comparison", i, op(i), Silent(i))]
<1>1. Visit(c) = Loop("Expr", << << getExpr(The(c, "comparison"), Result) >> >> \o steps)
  BY DEF Visit, visitEquality, foldLeftAssoc
<1>2. \A i \in 1..n : op(i) \in DOMAIN getOpSymbol
  <2> SUFFICES ASSUME NEW i \in 1..n PROVE op(i) \in DOMAIN getOpSymbol
    OBVIOUS
  <2>1. i \in DOMAIN Kids(c, "equalityOperator")
    BY OperatorsThere, KidsOK, SeqFacts
  <2>2. /\ Nth(c, "equalityOperator", i) \in DOMAIN tree
        /\ tree[Nth(c, "equalityOperator", i)].sym = "equalityOperator"
    BY <2>1, KidsOK DEF Nth
  <2> QED
    BY <2>2, BinaryOps
<1>3. \A i \in 1..n : steps[i] = Fold(c, "comparison", i, op(i), << >>)
  BY DEF Silent
<1>4. steps = [i \in 1..n |-> steps[i]]
  OBVIOUS
<1>5. tree[c].sym \in ExprContexts
  BY DEF ExprContexts
<1> HIDE DEF steps, op
<1>6. \A i \in 1..n : \E o \in DOMAIN getOpSymbol : \E pre :
        (\A s : Makings(pre, s, s)) /\ steps[i] = Fold(c, "comparison", i, o, pre)
  BY <1>2, <1>3, MakingsNone
<1> QED
  BY <1>1, <1>4, <1>5, <1>6, FoldsWhole

\* visitElvisExpr makes binary expressions.
LEMMA visitElvisExpr_Whole ==
  ASSUME TreeDone, NEW c \in DOMAIN tree, tree[c].sym = "elvisExpr"
  PROVE  VisitWhole(c)
<1> DEFINE n == Len(Kids(c, "bitwiseOr")) - 1
           op(i) == "Elvis"
           steps == [i \in 1..n |-> Fold(c, "bitwiseOr", i, op(i), Silent(i))]
<1>1. Visit(c) = Loop("Expr", << << getExpr(The(c, "bitwiseOr"), Result) >> >> \o steps)
  BY DEF Visit, visitElvisExpr, foldLeftAssoc
<1>2. \A i \in 1..n : op(i) \in DOMAIN getOpSymbol
  BY Symbols
<1>3. \A i \in 1..n : steps[i] = Fold(c, "bitwiseOr", i, op(i), << >>)
  BY DEF Silent
<1>4. steps = [i \in 1..n |-> steps[i]]
  OBVIOUS
<1>5. tree[c].sym \in ExprContexts
  BY DEF ExprContexts
<1> HIDE DEF steps, op
<1>6. \A i \in 1..n : \E o \in DOMAIN getOpSymbol : \E pre :
        (\A s : Makings(pre, s, s)) /\ steps[i] = Fold(c, "bitwiseOr", i, o, pre)
  BY <1>2, <1>3, MakingsNone
<1> QED
  BY <1>1, <1>4, <1>5, <1>6, FoldsWhole

\* visitBitwiseOr makes binary expressions.
LEMMA visitBitwiseOr_Whole ==
  ASSUME TreeDone, NEW c \in DOMAIN tree, tree[c].sym = "bitwiseOr"
  PROVE  VisitWhole(c)
<1> DEFINE n == Len(Kids(c, "bitwiseXor")) - 1
           op(i) == "BitOr"
           steps == [i \in 1..n |-> Fold(c, "bitwiseXor", i, op(i), Silent(i))]
<1>1. Visit(c) = Loop("Expr", << << getExpr(The(c, "bitwiseXor"), Result) >> >> \o steps)
  BY DEF Visit, visitBitwiseOr, foldLeftAssoc
<1>2. \A i \in 1..n : op(i) \in DOMAIN getOpSymbol
  BY Symbols
<1>3. \A i \in 1..n : steps[i] = Fold(c, "bitwiseXor", i, op(i), << >>)
  BY DEF Silent
<1>4. steps = [i \in 1..n |-> steps[i]]
  OBVIOUS
<1>5. tree[c].sym \in ExprContexts
  BY DEF ExprContexts
<1> HIDE DEF steps, op
<1>6. \A i \in 1..n : \E o \in DOMAIN getOpSymbol : \E pre :
        (\A s : Makings(pre, s, s)) /\ steps[i] = Fold(c, "bitwiseXor", i, o, pre)
  BY <1>2, <1>3, MakingsNone
<1> QED
  BY <1>1, <1>4, <1>5, <1>6, FoldsWhole

\* visitBitwiseXor makes binary expressions.
LEMMA visitBitwiseXor_Whole ==
  ASSUME TreeDone, NEW c \in DOMAIN tree, tree[c].sym = "bitwiseXor"
  PROVE  VisitWhole(c)
<1> DEFINE n == Len(Kids(c, "bitwiseAnd")) - 1
           op(i) == "BitXor"
           steps == [i \in 1..n |-> Fold(c, "bitwiseAnd", i, op(i), Silent(i))]
<1>1. Visit(c) = Loop("Expr", << << getExpr(The(c, "bitwiseAnd"), Result) >> >> \o steps)
  BY DEF Visit, visitBitwiseXor, foldLeftAssoc
<1>2. \A i \in 1..n : op(i) \in DOMAIN getOpSymbol
  BY Symbols
<1>3. \A i \in 1..n : steps[i] = Fold(c, "bitwiseAnd", i, op(i), << >>)
  BY DEF Silent
<1>4. steps = [i \in 1..n |-> steps[i]]
  OBVIOUS
<1>5. tree[c].sym \in ExprContexts
  BY DEF ExprContexts
<1> HIDE DEF steps, op
<1>6. \A i \in 1..n : \E o \in DOMAIN getOpSymbol : \E pre :
        (\A s : Makings(pre, s, s)) /\ steps[i] = Fold(c, "bitwiseAnd", i, o, pre)
  BY <1>2, <1>3, MakingsNone
<1> QED
  BY <1>1, <1>4, <1>5, <1>6, FoldsWhole

\* visitBitwiseAnd makes binary expressions.
LEMMA visitBitwiseAnd_Whole ==
  ASSUME TreeDone, NEW c \in DOMAIN tree, tree[c].sym = "bitwiseAnd"
  PROVE  VisitWhole(c)
<1> DEFINE n == Len(Kids(c, "bitwiseShift")) - 1
           op(i) == "BitAnd"
           steps == [i \in 1..n |-> Fold(c, "bitwiseShift", i, op(i), Silent(i))]
<1>1. Visit(c) = Loop("Expr", << << getExpr(The(c, "bitwiseShift"), Result) >> >> \o steps)
  BY DEF Visit, visitBitwiseAnd, foldLeftAssoc
<1>2. \A i \in 1..n : op(i) \in DOMAIN getOpSymbol
  BY Symbols
<1>3. \A i \in 1..n : steps[i] = Fold(c, "bitwiseShift", i, op(i), << >>)
  BY DEF Silent
<1>4. steps = [i \in 1..n |-> steps[i]]
  OBVIOUS
<1>5. tree[c].sym \in ExprContexts
  BY DEF ExprContexts
<1> HIDE DEF steps, op
<1>6. \A i \in 1..n : \E o \in DOMAIN getOpSymbol : \E pre :
        (\A s : Makings(pre, s, s)) /\ steps[i] = Fold(c, "bitwiseShift", i, o, pre)
  BY <1>2, <1>3, MakingsNone
<1> QED
  BY <1>1, <1>4, <1>5, <1>6, FoldsWhole

\* visitAddition: there is an operator between any two operands.
LEMMA visitAddition_Whole ==
  ASSUME TreeDone, NEW c \in DOMAIN tree, tree[c].sym = "addition"
  PROVE  VisitWhole(c)
<1> DEFINE n == Len(Kids(c, "multiplication")) - 1
           op(i) == getBinaryOp(Nth(c, "additionOperator", i))
           steps == [i \in 1..n |-> Fold(c, "multiplication", i, op(i), Silent(i))]
<1>1. Visit(c) = Loop("Expr", << << getExpr(The(c, "multiplication"), Result) >> >> \o steps)
  BY DEF Visit, visitAddition, foldLeftAssoc
<1>2. \A i \in 1..n : op(i) \in DOMAIN getOpSymbol
  <2> SUFFICES ASSUME NEW i \in 1..n PROVE op(i) \in DOMAIN getOpSymbol
    OBVIOUS
  <2>1. i \in DOMAIN Kids(c, "additionOperator")
    BY OperatorsThere, KidsOK, SeqFacts
  <2>2. /\ Nth(c, "additionOperator", i) \in DOMAIN tree
        /\ tree[Nth(c, "additionOperator", i)].sym = "additionOperator"
    BY <2>1, KidsOK DEF Nth
  <2> QED
    BY <2>2, BinaryOps
<1>3. \A i \in 1..n : steps[i] = Fold(c, "multiplication", i, op(i), << >>)
  BY DEF Silent
<1>4. steps = [i \in 1..n |-> steps[i]]
  OBVIOUS
<1>5. tree[c].sym \in ExprContexts
  BY DEF ExprContexts
<1> HIDE DEF steps, op
<1>6. \A i \in 1..n : \E o \in DOMAIN getOpSymbol : \E pre :
        (\A s : Makings(pre, s, s)) /\ steps[i] = Fold(c, "multiplication", i, o, pre)
  BY <1>2, <1>3, MakingsNone
<1> QED
  BY <1>1, <1>4, <1>5, <1>6, FoldsWhole

\* visitMultiplication: there is an operator between any two operands.
LEMMA visitMultiplication_Whole ==
  ASSUME TreeDone, NEW c \in DOMAIN tree, tree[c].sym = "multiplication"
  PROVE  VisitWhole(c)
<1> DEFINE n == Len(Kids(c, "asExpr")) - 1
           op(i) == getBinaryOp(Nth(c, "multiplicationOperator", i))
           steps == [i \in 1..n |-> Fold(c, "asExpr", i, op(i), Silent(i))]
<1>1. Visit(c) = Loop("Expr", << << getExpr(The(c, "asExpr"), Result) >> >> \o steps)
  BY DEF Visit, visitMultiplication, foldLeftAssoc
<1>2. \A i \in 1..n : op(i) \in DOMAIN getOpSymbol
  <2> SUFFICES ASSUME NEW i \in 1..n PROVE op(i) \in DOMAIN getOpSymbol
    OBVIOUS
  <2>1. i \in DOMAIN Kids(c, "multiplicationOperator")
    BY OperatorsThere, KidsOK, SeqFacts
  <2>2. /\ Nth(c, "multiplicationOperator", i) \in DOMAIN tree
        /\ tree[Nth(c, "multiplicationOperator", i)].sym = "multiplicationOperator"
    BY <2>1, KidsOK DEF Nth
  <2> QED
    BY <2>2, BinaryOps
<1>3. \A i \in 1..n : steps[i] = Fold(c, "asExpr", i, op(i), << >>)
  BY DEF Silent
<1>4. steps = [i \in 1..n |-> steps[i]]
  OBVIOUS
<1>5. tree[c].sym \in ExprContexts
  BY DEF ExprContexts
<1> HIDE DEF steps, op
<1>6. \A i \in 1..n : \E o \in DOMAIN getOpSymbol : \E pre :
        (\A s : Makings(pre, s, s)) /\ steps[i] = Fold(c, "asExpr", i, o, pre)
  BY <1>2, <1>3, MakingsNone
<1> QED
  BY <1>1, <1>4, <1>5, <1>6, FoldsWhole

\* visitBitwiseShift reports `> >` and makes a binary expression all the same.
LEMMA visitBitwiseShift_Whole ==
  ASSUME TreeDone, NEW c \in DOMAIN tree, tree[c].sym = "bitwiseShift"
  PROVE  VisitWhole(c)
<1> DEFINE ops == Kids(c, "bitwiseShiftOperator")
           apart(i) == /\ ~ Has(ops[i], "LSHIFT")
                       /\ tree[Nth(ops[i], "GT", 2)].start # tree[Nth(ops[i], "GT", 1)].stop + 1
           op(i) == IF Has(ops[i], "LSHIFT") THEN "LShift" ELSE "RShift"
           error(i) == Error(Nth(ops[i], "GT", 1), Nth(ops[i], "GT", 2),
                             "right shift requires two adjacent '>' tokens")
           reports(i) == If(apart(i), << error(i) >>)
           n == Len(Kids(c, "addition")) - 1
           steps == [i \in 1..n |-> Fold(c, "addition", i, op(i), reports(i))]
<1>1. Visit(c) = Loop("Expr", << << getExpr(The(c, "addition"), Result) >> >> \o steps)
  BY DEF Visit, visitBitwiseShift, foldLeftAssoc
<1>2. \A i \in 1..n : op(i) \in DOMAIN getOpSymbol
  BY Symbols
<1>3. ASSUME NEW i, NEW s PROVE Makings(reports(i), s, s)
  <2>1. Makes(error(i), s, s)
    BY ErrorMakes
  <2> HIDE DEF error, apart
  <2>2. Makings(<< error(i) >>, s, s)
    BY <2>1, MakingsOne
  <2> QED
    BY <2>2, MakingsNone DEF If
<1>4. \A i \in 1..n : steps[i] = Fold(c, "addition", i, op(i), reports(i))
  OBVIOUS
<1>5. steps = [i \in 1..n |-> steps[i]]
  OBVIOUS
<1>6. tree[c].sym \in ExprContexts
  BY DEF ExprContexts
<1> HIDE DEF steps, op, reports
<1>7. \A i \in 1..n : \E o \in DOMAIN getOpSymbol : \E pre :
        (\A s : Makings(pre, s, s)) /\ steps[i] = Fold(c, "addition", i, o, pre)
  BY <1>2, <1>3, <1>4
<1> QED
  BY <1>1, <1>5, <1>6, <1>7, FoldsWhole

\* visitParenType hands on what it visits.
LEMMA visitParenType_Whole ==
  ASSUME TreeDone, NEW c \in DOMAIN tree, tree[c].sym = "parenType"
  PROVE  VisitWhole(c)
  BY Answers, ForwardWhole DEF Visit, visitParenType, TypeContexts

\* visitExpression hands on what it visits.
LEMMA visitExpression_Whole ==
  ASSUME TreeDone, NEW c \in DOMAIN tree, tree[c].sym = "expression"
  PROVE  VisitWhole(c)
  BY Answers, ForwardWhole DEF Visit, visitExpression, ExprContexts

\* visitParenExpr hands on what it visits.
LEMMA visitParenExpr_Whole ==
  ASSUME TreeDone, NEW c \in DOMAIN tree, tree[c].sym = "parenExpr"
  PROVE  VisitWhole(c)
  BY Answers, ForwardWhole DEF Visit, visitParenExpr, ExprContexts

\* visitStatement hands on what it visits.
LEMMA visitStatement_Whole ==
  ASSUME TreeDone, NEW c \in DOMAIN tree, tree[c].sym = "statement"
  PROVE  VisitWhole(c)
  BY Answers, ForwardWhole DEF Visit, visitStatement, StmtContexts

\* visitControlStatement hands on what it visits.
LEMMA visitControlStatement_Whole ==
  ASSUME TreeDone, NEW c \in DOMAIN tree, tree[c].sym = "controlStatement"
  PROVE  VisitWhole(c)
  BY Answers, ForwardWhole DEF Visit, visitControlStatement, StmtContexts

\* visitPrimaryExpr makes a variable or hands on what it visits.
LEMMA visitPrimaryExpr_Whole ==
  ASSUME TreeDone, NEW c \in DOMAIN tree, tree[c].sym = "primaryExpr"
  PROVE  VisitWhole(c)
<1>1. CASE Has(c, "IDENTIFIER")
  <2> DEFINE node == Named(Node("VarExpr", c, c), c)
  <2>1. Made(node, "VarExpr", 0, FALSE)
    BY <1>1, KindsAre, MadeNamed
  <2>2. Visit(c) = Visitor("Expr", << New(node) >>)
    BY <1>1 DEF Visit, visitPrimaryExpr
  <2> HIDE DEF node
  <2>3. PICK v : Childless(v, "VarExpr", 0, FALSE) /\ Makes(New(node), Start, Holding(v))
    BY <2>1, NewMakes
  <2>4. Makings(<< New(node) >>, Start, Holding(v))
    BY <2>3, MakingsOne
  <2>5. v \in Views /\ v.kind = "VarExpr"
    BY <2>3 DEF Childless
  <2>6. Whole(v)
    BY <2>5, LeafWhole
  <2>7. "VarExpr" \in Yields("primaryExpr")
    BY YieldsOf, Classes DEF ExprContexts
  <2> QED
    BY <2>2, <2>4, <2>5, <2>6, <2>7, BlockWhole
<1>2. CASE ~ Has(c, "IDENTIFIER")
  BY <1>2, Answers, ForwardWhole DEF Visit, visitPrimaryExpr, ExprContexts
<1> QED
  BY <1>1, <1>2

\* visitDeclaration sets one of the three visibilities.
LEMMA visitDeclaration_Whole ==
  ASSUME TreeDone, NEW c \in DOMAIN tree, tree[c].sym = "declaration"
  PROVE  VisitWhole(c)
<1>1. PICK x, mod : /\ x = available(c, << "functionDecl", "variableDecl", "classDecl" >>)
                    /\ mod = The(c, "visibilityModifier")
  OBVIOUS
<1>2. PICK s : /\ s.at = "passes" /\ Makes(Get("Declaration", x, Result), Start, s)
               /\ \A w \in s.res : w \in Views /\ w.kind \in classof("Declaration") /\ Whole(w)
  BY ResultMakes
<1>3. PICK set : set = If(mod # Null, << SetVis(getVisibility(mod)) >>)
  OBVIOUS
<1>4. Makings(set, s, s)
  <2>1. CASE mod = Null
    BY <1>3, <2>1, MakingsNone DEF If
  <2>2. CASE mod # Null
    <3>1. mod \in DOMAIN tree
      BY <1>1, <2>2, TheOK
    <3>2. tree[mod].sym = "visibilityModifier"
      BY <1>1, <2>2, KidsOK DEF The, Nth
    <3>3. getVisibility(mod) \in DOMAIN getVisibilityName
      BY <3>1, <3>2, OtherTokens
    <3>4. PICK i : i = SetVis(getVisibility(mod))
      OBVIOUS
    <3>5. i.do = "vis" /\ i.vis \in DOMAIN getVisibilityName
      BY <3>3, <3>4 DEF SetVis
    <3>6. Makes(i, s, s)
      BY <1>2, <3>5 DEF Makes, Done
    <3>7. set = << i >>
      BY <1>3, <2>2, <3>4 DEF If
    <3> QED
      BY <3>6, <3>7, MakingsOne
  <2> QED
    BY <2>1, <2>2
<1>5. PICK code : code = << Get("Declaration", x, Result) >> \o set
  OBVIOUS
<1>6. Makings(code, Start, s)
  BY <1>2, <1>4, <1>5, MakingsOne, MakingsConcat
<1>7. Visit(c) = Visitor("Declaration", code)
  BY <1>1, <1>3, <1>5 DEF Visit, visitDeclaration, getDecl
<1>8. Yields("declaration") = classof("Declaration")
  BY YieldsOf DEF DeclContexts
<1>9. Final(c, s)
  BY <1>2, <1>8 DEF Final, Post, Done
<1> QED
  BY <1>6, <1>7, <1>9, FinalWhole

\* visitLiteralConstant makes a leaf, reported or not.
LEMMA visitLiteralConstant_Whole ==
  ASSUME TreeDone, NEW c \in DOMAIN tree, tree[c].sym = "literalConstant"
  PROVE  VisitWhole(c)
<1> DEFINE token == GetToken(c, DOMAIN LiteralKind)
           bad == tree[The(c, token)].text = "bad"
           value == IF ~ bad THEN "decoded"
                    ELSE IF token \in {"INTEGER_LITERAL", "CHAR_LITERAL"} THEN "default"
                    ELSE "raw"
           kind == LiteralKind[token]
           node == Flagged(Node(kind, c, c), value, TRUE)
           error == Error(c, c, LiteralFault[token])
<1>1. kind \in {"BoolLiteral", "NullLiteral", "IntLiteral", "StringLiteral", "CharLiteral",
                "FloatLiteral"}
  BY OtherTokens
<1>2. value \in {"decoded", "default", "raw"} /\ value # "IsMutable"
  OBVIOUS
<1>3. Visit(c) = Visitor("Expr", << New(node) >> \o If(bad, << error >>))
  BY DEF Visit, visitLiteralConstant
<1>4. Made(node, kind, 0, FALSE)
  <2> HIDE DEF kind, value
  <2>1. kind \in Kinds /\ kind # "BuiltinType" /\ kind \notin NamedByInfo
    BY <1>1, KindsAre DEF NamedByInfo
  <2>2. value \in ShownFlags(kind) \cup {"decoded", "default", "raw"} /\ TRUE \in BOOLEAN
    BY <1>2
  <2>3. Made(node, kind, 0, TRUE /\ value = "IsMutable")
    BY <2>1, <2>2, MadeFlagged
  <2>4. (TRUE /\ value = "IsMutable") = FALSE
    BY <1>2
  <2> QED
    BY <2>3, <2>4
<1> HIDE DEF node, kind, bad, error
<1>5. PICK v : Childless(v, kind, 0, FALSE) /\ Makes(New(node), Start, Holding(v))
  BY <1>4, NewMakes
<1>6. Makings(If(bad, << error >>), Holding(v), Holding(v))
  <2>1. Makes(error, Holding(v), Holding(v))
    BY ErrorMakes DEF error
  <2>2. Makings(<< error >>, Holding(v), Holding(v))
    BY <2>1, MakingsOne
  <2> QED
    BY <2>2, MakingsNone DEF If
<1>7. Makings(<< New(node) >> \o If(bad, << error >>), Start, Holding(v))
  BY <1>5, <1>6, MakingsOne, MakingsConcat
<1>8. v \in Views /\ v.kind = kind
  BY <1>5 DEF Childless
<1>9. Whole(v)
  BY <1>1, <1>8, LeafWhole
<1>10. kind \in Yields("literalConstant")
  BY <1>1, YieldsOf, Classes DEF ExprContexts
<1> QED
  BY <1>3, <1>7, <1>8, <1>9, <1>10, BlockWhole

\* visitForUpdate hands on an assignment or makes a statement of an expression.
LEMMA visitForUpdate_Whole ==
  ASSUME TreeDone, NEW c \in DOMAIN tree, tree[c].sym = "forUpdate"
  PROVE  VisitWhole(c)
<1>1. Yields("forUpdate") = classof("Statement") /\ "ExprStmt" \in classof("Statement")
  BY YieldsOf, Classes DEF StmtContexts
<1>2. CASE Has(c, "assignment")
  <2>1. PICK x : x = The(c, "assignment")
    OBVIOUS
  <2>2. PICK s : /\ s.at = "passes" /\ Makes(Get("Statement", x, Result), Start, s)
                 /\ \A w \in s.res : w \in Views /\ w.kind \in classof("Statement") /\ Whole(w)
    BY ResultMakes
  <2>3. Makings(<< Get("Statement", x, Result) >>, Start, s)
    BY <2>2, MakingsOne
  <2>4. Final(c, s)
    BY <1>1, <2>2 DEF Final, Post, Done
  <2>5. Visit(c) = Visitor("Statement", << Get("Statement", x, Result) >>)
    BY <1>2, <2>1 DEF Visit, visitForUpdate, getStmt
  <2> QED
    BY <2>3, <2>4, <2>5, FinalWhole
<1>3. CASE ~ Has(c, "assignment")
  <2>1. PICK x, node : x = The(c, "expression") /\ node = Node("ExprStmt", c, c)
    OBVIOUS
  <2>2. Made(node, "ExprStmt", 0, FALSE)
    BY <2>1, KindsAre, MadePlain DEF NamedByInfo
  <2>3. PICK v : Childless(v, "ExprStmt", 0, FALSE) /\ Makes(New(node), Start, Holding(v))
    BY <2>2, NewMakes
  <2>4. v \in Views /\ v.kind = "ExprStmt"
    BY <2>3 DEF Childless
  <2>5. PICK w : /\ Adds(v, w, "Expression", 1)
                 /\ Makes(Get("Expr", x, "Expression"), Holding(v), Holding(w))
    BY <2>4, StmtSuits, GetMakes DEF Result
  <2>6. w \in Views /\ w.kind = "ExprStmt" /\ w.has["Expression"] = 1
    BY <2>3, <2>5 DEF Childless, Adds, MemberNames
  <2>7. Whole(w)
    BY <2>6, StmtWhole
  <2>8. Makings(<< New(node), Get("Expr", x, "Expression") >>, Start, Holding(w))
    BY <2>3, <2>5, MakingsTwo
  <2>9. Visit(c) = Visitor("Statement", << New(node), Get("Expr", x, "Expression") >>)
    BY <1>3, <2>1 DEF Visit, visitForUpdate, getExpr
  <2> QED
    BY <1>1, <2>6, <2>7, <2>8, <2>9, BlockWhole
<1> QED
  BY <1>2, <1>3

\* The else of an if is another if.
LEMMA ElseMakes ==
  ASSUME TreeDone, NEW c \in DOMAIN tree, Has(c, "ifStmt"), NEW v \in Views, v.kind = "IfStmt"
  PROVE  \E w : /\ Adds(v, w, "Else", 1)
                /\ Makes(getStmt(The(c, "ifStmt"), "Else"), Holding(v), Holding(w))
<1>1. PICK x, i : x = The(c, "ifStmt") /\ i = Get("Statement", x, "Else")
  OBVIOUS
<1>2. i.do = "get" /\ i.slot = "Else" /\ i.as = "Statement" /\ i.child = x
  BY <1>1 DEF Get
<1>3. tree[x].sym = "ifStmt"
  BY <1>1, KidsOK DEF Has, The, Nth
<1>4. "Else" \in MemberNames
  BY DEF MemberNames
<1>5. PICK w : w = More(v, "Else", 1)
  OBVIOUS
<1>6. \A g \in Given(i) : g \in Views /\ g.kind = "IfStmt" /\ Whole(g)
  BY <1>2, <1>3 DEF Given
<1>7. "Else" \in DOMAIN MembersOf("IfStmt") /\ MembersOf("IfStmt")["Else"] = "Statement"
      /\ "IfStmt" \in classof("Statement")
  BY StmtMembersOf, Classes
<1>8. \A g \in Given(i) : Fits(v.kind, "Else", g)
  BY <1>4, <1>6, <1>7 DEF Fits
<1>9. Accepts({v}, "Else", Given(i), {w})
  BY <1>5, <1>6, <1>8 DEF Accepts
<1>10. Makes(i, Holding(v), Holding(w))
  BY <1>2, <1>9, HoldingIs DEF Makes, Result
<1>11. Adds(v, w, "Else", 1)
  BY <1>4, <1>5, MoreAdds
<1> QED
  BY <1>1, <1>10, <1>11 DEF getStmt

\* visitIfStmt stores a condition, a block, and maybe an else.
LEMMA visitIfStmt_Whole ==
  ASSUME TreeDone, NEW c \in DOMAIN tree, tree[c].sym = "ifStmt"
  PROVE  VisitWhole(c)
<1> DEFINE node == Node("IfStmt", c, c)
<1>1. Made(node, "IfStmt", 0, FALSE)
  BY KindsAre, MadePlain DEF NamedByInfo
<1> HIDE DEF node
<1>2. PICK v0 : Childless(v0, "IfStmt", 0, FALSE) /\ Makes(New(node), Start, Holding(v0))
  BY <1>1, NewMakes
<1>3. v0 \in Views /\ v0.kind = "IfStmt"
  BY <1>2 DEF Childless
<1>4. PICK v1 : /\ Adds(v0, v1, "Condition", 1)
                /\ Makes(getExpr(The(c, "expression"), "Condition"), Holding(v0), Holding(v1))
  BY <1>3, StmtSuits, GetMakes DEF getExpr, Result
<1>5. v1 \in Views /\ v1.kind = "IfStmt"
  BY <1>3, <1>4 DEF Adds
<1>6. PICK v2 : /\ Adds(v1, v2, "Then", 1)
                /\ Makes(getBlock(Nth(c, "block", 1), "Then"), Holding(v1), Holding(v2))
  BY <1>5, StmtSuits, GetMakes DEF getBlock, Result
<1>7. v2 \in Views /\ v2.kind = "IfStmt"
  BY <1>5, <1>6 DEF Adds
<1>8. PICK if, block : /\ if = getStmt(The(c, "ifStmt"), "Else")
                       /\ block = getBlock(Nth(c, "block", 2), "Else")
  OBVIOUS
<1>9. PICK else : else = If(Has(c, "ELSE"), IF Has(c, "ifStmt") THEN << if >> ELSE << block >>)
  OBVIOUS
<1>10. \E w, n : n \in {0, 1} /\ Adds(v2, w, "Else", n) /\ Makings(else, Holding(v2), Holding(w))
  <2>1. CASE ~ Has(c, "ELSE")
    <3>1. else = << >>
      BY <1>9, <2>1 DEF If
    <3>2. Adds(v2, v2, "Else", 0)
      BY <1>7, ViewFields DEF Adds, MemberNames
    <3> QED
      BY <3>1, <3>2, MakingsNone
  <2>2. CASE Has(c, "ELSE") /\ Has(c, "ifStmt")
    <3>1. else = << if >>
      BY <1>9, <2>2 DEF If
    <3>2. PICK w : Adds(v2, w, "Else", 1) /\ Makes(if, Holding(v2), Holding(w))
      BY <1>7, <1>8, <2>2, ElseMakes
    <3>3. Makings(else, Holding(v2), Holding(w))
      BY <3>1, <3>2, MakingsOne
    <3> QED
      BY <3>2, <3>3
  <2>3. CASE Has(c, "ELSE") /\ ~ Has(c, "ifStmt")
    <3>1. else = << block >>
      BY <1>9, <2>3 DEF If
    <3>2. PICK w : Adds(v2, w, "Else", 1) /\ Makes(block, Holding(v2), Holding(w))
      BY <1>7, <1>8, StmtSuits, GetMakes DEF getBlock, Result
    <3>3. Makings(else, Holding(v2), Holding(w))
      BY <3>1, <3>2, MakingsOne
    <3> QED
      BY <3>2, <3>3
  <2> QED
    BY <2>1, <2>2, <2>3
<1>11. PICK v3, n : n \in {0, 1} /\ Adds(v2, v3, "Else", n)
                    /\ Makings(else, Holding(v2), Holding(v3))
  BY <1>10
<1>12. v3 \in Views /\ v3.kind = "IfStmt"
  BY <1>7, <1>11 DEF Adds
<1>13. PICK code : code = << New(node), getExpr(The(c, "expression"), "Condition"),
                             getBlock(Nth(c, "block", 1), "Then") >>
  OBVIOUS
<1>14. Makings(code, Start, Holding(v2))
  BY <1>2, <1>4, <1>6, <1>13, MakingsThree
<1>15. Makings(code \o else, Start, Holding(v3))
  BY <1>11, <1>14, MakingsConcat
<1>16. v3.has["Condition"] = 1 /\ v3.has["Then"] = 1 /\ v3.has["Else"] \in {0, 1}
  BY <1>2, <1>4, <1>6, <1>11 DEF Childless, Adds, MemberNames
<1>17. Whole(v3)
  BY <1>12, <1>16, StmtWhole
<1>18. "IfStmt" \in Yields("ifStmt")
  BY YieldsOf
<1>19. Visit(c) = Visitor("Statement", code \o else)
  BY <1>8, <1>9, <1>13 DEF Visit, visitIfStmt, node
<1> QED
  BY <1>12, <1>15, <1>17, <1>18, <1>19, BlockWhole

\* A jump that holds what it may hold.
LEMMA JumpWhole ==
  ASSUME NEW c, tree[c].sym = "jumpExpression",
         NEW kind \in {"ReturnExpr", "ContinueExpr", "BreakExpr"}, NEW slot, NEW as,
         kind = "ReturnExpr" => slot = "Value" /\ as = "Expr",
         kind # "ReturnExpr" => slot = "Pos" /\ as = "Label",
         NEW cond \in BOOLEAN, NEW child,
         Visit(c) = Visitor("Expr", << New(Node(kind, c, c)) >> \o
                                    If(cond, << Get(as, child, slot) >>))
  PROVE  VisitWhole(c)
<1>1. PICK node : node = Node(kind, c, c)
  OBVIOUS
<1>2. Made(node, kind, 0, FALSE)
  BY <1>1, KindsAre, MadePlain DEF NamedByInfo
<1>3. PICK v : Childless(v, kind, 0, FALSE) /\ Makes(New(node), Start, Holding(v))
  BY <1>2, NewMakes
<1>4. v \in Views /\ v.kind = kind
  BY <1>3 DEF Childless
<1>5. Suits(kind, slot, as) /\ as # "any" /\ slot # Result
  BY ExprSuits DEF Result
<1>6. PICK w : /\ Adds(v, w, slot, IF cond THEN 1 ELSE 0)
               /\ Makings(If(cond, << Get(as, child, slot) >>), Holding(v), Holding(w))
  BY <1>4, <1>5, MaybeMakes
<1>7. Makings(<< New(node) >> \o If(cond, << Get(as, child, slot) >>), Start, Holding(w))
  BY <1>3, <1>6, MakingsOne, MakingsConcat
<1>8. w \in Views /\ w.kind = kind /\ w.has[slot] \in {0, 1}
  <2>1. slot \in MemberNames
    BY <1>5 DEF Suits
  <2> QED
    BY <1>3, <1>6, <2>1 DEF Childless, Adds
<1>9. Whole(w)
  BY <1>8, ExprWhole
<1>10. kind \in Yields("jumpExpression")
  BY YieldsOf, Classes DEF ExprContexts
<1> QED
  BY <1>1, <1>7, <1>8, <1>9, <1>10, BlockWhole

\* visitJumpExpression stores what is thrown, and maybe a value or a label.
LEMMA visitJumpExpression_Whole ==
  ASSUME TreeDone, NEW c \in DOMAIN tree, tree[c].sym = "jumpExpression"
  PROVE  VisitWhole(c)
<1>1. CASE Has(c, "THROW")
  <2>1. PICK x, node : x = The(c, "expression") /\ node = Node("ThrowExpr", c, c)
    OBVIOUS
  <2>2. Made(node, "ThrowExpr", 0, FALSE)
    BY <2>1, KindsAre, MadePlain DEF NamedByInfo
  <2>3. PICK v : Childless(v, "ThrowExpr", 0, FALSE) /\ Makes(New(node), Start, Holding(v))
    BY <2>2, NewMakes
  <2>4. v \in Views /\ v.kind = "ThrowExpr"
    BY <2>3 DEF Childless
  <2>5. PICK w : /\ Adds(v, w, "Content", 1)
                 /\ Makes(Get("Expr", x, "Content"), Holding(v), Holding(w))
    BY <2>4, ExprSuits, GetMakes DEF Result
  <2>6. w \in Views /\ w.kind = "ThrowExpr" /\ w.has["Content"] = 1
    BY <2>3, <2>5 DEF Childless, Adds, MemberNames
  <2>7. Whole(w)
    BY <2>6, ExprWhole
  <2>8. Makings(<< New(node) >> \o << Get("Expr", x, "Content") >>, Start, Holding(w))
    BY <2>3, <2>5, MakingsOne, MakingsConcat
  <2>9. Visit(c) = Visitor("Expr", << New(node) >> \o << Get("Expr", x, "Content") >>)
    BY <1>1, <2>1 DEF Visit, visitJumpExpression, getExpr
  <2>10. "ThrowExpr" \in Yields("jumpExpression")
    BY YieldsOf, Classes DEF ExprContexts
  <2> QED
    BY <2>6, <2>7, <2>8, <2>9, <2>10, BlockWhole
<1>2. CASE ~ Has(c, "THROW") /\ Has(c, "RETURN")
  <2>1. PICK x : x = The(c, "expression")
    OBVIOUS
  <2>2. Visit(c) = Visitor("Expr", << New(Node("ReturnExpr", c, c)) >> \o
                                   If(x # Null, << Get("Expr", x, "Value") >>))
    BY <1>2, <2>1 DEF Visit, visitJumpExpression, getExpr
  <2>3. (x # Null) \in BOOLEAN
    OBVIOUS
  <2> QED
    BY <2>2, <2>3, JumpWhole
<1>3. CASE ~ Has(c, "THROW") /\ ~ Has(c, "RETURN") /\ Has(c, "CONTINUE")
  <2>1. Visit(c) = Visitor("Expr", << New(Node("ContinueExpr", c, c)) >> \o
                      If(Has(c, "label"), << Get("Label", The(c, "label"), "Pos") >>))
    BY <1>3 DEF Visit, visitJumpExpression
  <2>2. Has(c, "label") \in BOOLEAN
    BY DEF Has
  <2> QED
    BY <2>1, <2>2, JumpWhole
<1>4. CASE ~ Has(c, "THROW") /\ ~ Has(c, "RETURN") /\ ~ Has(c, "CONTINUE")
  <2>1. Visit(c) = Visitor("Expr", << New(Node("BreakExpr", c, c)) >> \o
                      If(Has(c, "label"), << Get("Label", The(c, "label"), "Pos") >>))
    BY <1>4 DEF Visit, visitJumpExpression
  <2>2. Has(c, "label") \in BOOLEAN
    BY DEF Has
  <2> QED
    BY <2>1, <2>2, JumpWhole
<1> QED
  BY <1>1, <1>2, <1>3, <1>4

\* visitAsExpr hands on its operand, or makes it the operand of a cast.
LEMMA visitAsExpr_Whole ==
  ASSUME TreeDone, NEW c \in DOMAIN tree, tree[c].sym = "asExpr"
  PROVE  VisitWhole(c)
<1>1. Yields("asExpr") = classof("Expr") /\ "AsExpr" \in classof("Expr")
  BY YieldsOf, Classes DEF ExprContexts
<1>2. PICK x, op, type : /\ x = The(c, "prefixUnaryExpr") /\ op = The(c, "asOperator")
                         /\ type = Get("Type", The(c, "type"), "TargetType")
  OBVIOUS
<1>3. PICK s : /\ s.at = "passes" /\ Makes(Get("Expr", x, Result), Start, s)
               /\ \A w \in s.res : w \in Views /\ w.kind \in classof("Expr") /\ Whole(w)
  BY ResultMakes
<1>4. PICK node : node = Flagged(Node("AsExpr", c, c), "NullSafe", Has(op, "QUEST"))
  OBVIOUS
<1>5. PICK cast : cast = If(op # Null, << Wrap(node, "Operand"), type >>)
  OBVIOUS
<1>6. Visit(c) = Visitor("Expr", << Get("Expr", x, Result) >> \o cast)
  BY <1>2, <1>4, <1>5 DEF Visit, visitAsExpr, getExpr, getType
<1>7. Makings(<< Get("Expr", x, Result) >>, Start, s)
  BY <1>3, MakingsOne
<1>8. CASE op = Null
  <2>1. cast = << >>
    BY <1>5, <1>8 DEF If
  <2>2. Makings(<< Get("Expr", x, Result) >> \o cast, Start, s)
    BY <1>7, <2>1, MakingsNone, MakingsConcat
  <2>3. Final(c, s)
    BY <1>1, <1>3 DEF Final, Post, Done
  <2> QED
    BY <1>6, <2>2, <2>3, FinalWhole
<1>9. CASE op # Null
  <2>1. Made(node, "AsExpr", 0, FALSE)
    <3>1. /\ "AsExpr" \in Kinds /\ Has(op, "QUEST") \in BOOLEAN /\ "AsExpr" \notin NamedByInfo
          /\ "NullSafe" \in ShownFlags("AsExpr") \cup {"decoded", "default", "raw"}
      BY KindsAre, FlagFacts DEF Has, NamedByInfo
    <3>2. Made(node, "AsExpr", 0, Has(op, "QUEST") /\ "NullSafe" = "IsMutable")
      BY <1>4, <3>1, MadeFlagged
    <3>3. (Has(op, "QUEST") /\ "NullSafe" = "IsMutable") = FALSE
      OBVIOUS
    <3> QED
      BY <3>2, <3>3
  <2>2. PICK u, v : /\ Childless(u, "AsExpr", 0, FALSE) /\ Adds(u, v, "Operand", 1)
                    /\ Makes(Wrap(node, "Operand"), s, Holding(v))
    <3>1. s.at \in Done
      BY <1>3 DEF Done
    <3>2. Suits("AsExpr", "Operand", "Expr")
      BY ExprSuits
    <3> QED
      BY <1>3, <2>1, <3>1, <3>2, WrapMakes
  <2>3. v \in Views /\ v.kind = "AsExpr"
    BY <2>2 DEF Childless, Adds
  <2>4. PICK w : Adds(v, w, "TargetType", 1) /\ Makes(type, Holding(v), Holding(w))
    BY <1>2, <2>3, ExprSuits, GetMakes DEF Result
  <2>5. w \in Views /\ w.kind = "AsExpr" /\ w.has["Operand"] = 1 /\ w.has["TargetType"] = 1
    BY <2>2, <2>4 DEF Childless, Adds, MemberNames
  <2>6. Whole(w)
    BY <2>5, ExprWhole
  <2>7. Makings(cast, s, Holding(w))
    BY <1>5, <1>9, <2>2, <2>4, MakingsTwo DEF If
  <2>8. Makings(<< Get("Expr", x, Result) >> \o cast, Start, Holding(w))
    BY <1>7, <2>7, MakingsConcat
  <2> QED
    BY <1>1, <1>6, <2>5, <2>6, <2>8, BlockWhole
<1> QED
  BY <1>8, <1>9

\* A turn that only wraps.
LEMMA WrapOneTurn ==
  ASSUME NEW c, NEW as, Yields(tree[c].sym) = classof(as), tree[c].sym # "classDecl",
         NEW node, NEW kind \in classof(as), NEW ops, NEW mutable,
         Made(node, kind, ops, mutable), NEW slot, Suits(kind, slot, as),
         \A w : w.kind = kind /\ w.has[slot] = 1 => Whole(w)
  PROVE  Turn(c, << Wrap(node, slot) >>)
<1>1. slot \in MemberNames
  BY DEF Suits
<1>2. PICK code : code = << Wrap(node, slot) >>
  OBVIOUS
<1>3. ASSUME NEW s, NEW u, NEW v, Childless(u, kind, ops, mutable), Adds(u, v, slot, 1),
             Makes(Wrap(node, slot), s, Holding(v))
      PROVE  \E w \in Views : w.kind = kind /\ Whole(w) /\ Makings(code, s, Holding(w))
  <2>1. v \in Views /\ v.kind = kind /\ v.has[slot] = 1
    BY <1>1, <1>3 DEF Childless, Adds
  <2>2. Makings(code, s, Holding(v))
    BY <1>2, <1>3, MakingsOne
  <2> QED
    BY <2>1, <2>2
<1>4. Turn(c, code)
  BY <1>3, WrapTurn
<1> QED
  BY <1>2, <1>4

\* Nodes of a kind whose two members are set lack nothing.
Completes(kind, slot, member) ==
  \A w : w.kind = kind /\ w.has[slot] = 1 /\ w.has[member] = 1 => Whole(w)

\* A turn that wraps and visits.
LEMMA WrapTwoTurn ==
  ASSUME NEW c, NEW as, Yields(tree[c].sym) = classof(as), tree[c].sym # "classDecl",
         NEW node, NEW kind \in classof(as), NEW ops, NEW mutable,
         Made(node, kind, ops, mutable), NEW slot, Suits(kind, slot, as),
         NEW of, of # "any", NEW member, member # slot, member # Result,
         Suits(kind, member, of), NEW child, Completes(kind, slot, member)
  PROVE  Turn(c, << Wrap(node, slot), Get(of, child, member) >>)
<1>1. slot \in MemberNames /\ member \in MemberNames
  BY DEF Suits
<1>2. PICK get : get = Get(of, child, member)
  OBVIOUS
<1>3. PICK code : code = << Wrap(node, slot), get >>
  OBVIOUS
<1>4. ASSUME NEW s, NEW u, NEW v, Childless(u, kind, ops, mutable), Adds(u, v, slot, 1),
             Makes(Wrap(node, slot), s, Holding(v))
      PROVE  \E w \in Views : w.kind = kind /\ Whole(w) /\ Makings(code, s, Holding(w))
  <2>1. v \in Views /\ v.kind = kind
    BY <1>4 DEF Childless, Adds
  <2>2. PICK w : Adds(v, w, member, 1) /\ Makes(get, Holding(v), Holding(w))
    BY <1>2, <2>1, GetMakes
  <2>3. w \in Views /\ w.kind = kind /\ w.has[slot] = 1 /\ w.has[member] = 1
    BY <1>1, <1>4, <2>2 DEF Childless, Adds
  <2>4. Makings(code, s, Holding(w))
    BY <1>3, <1>4, <2>2, MakingsTwo
  <2> QED
    BY <2>3, <2>4 DEF Completes
<1>5. Turn(c, code)
  BY <1>4, WrapTurn
<1> QED
  BY <1>2, <1>3, <1>5

\* visitType hands on a function type, or makes an array type for each bracket.
LEMMA visitType_Whole ==
  ASSUME TreeDone, NEW c \in DOMAIN tree, tree[c].sym = "type"
  PROVE  VisitWhole(c)
<1>1. CASE Has(c, "functionType")
  BY <1>1, Answers, ForwardWhole DEF Visit, visitType, TypeContexts
<1>2. CASE ~ Has(c, "functionType")
  <2> DEFINE sizes == Kids(c, "expression")
             node(i) == Node("ArrayType", c, Nth(c, "RBRACKET", i))
             step(i) == << Wrap(node(i), "ElementType"), Get("Expr", sizes[i], "Size") >>
             steps == [i \in DOMAIN sizes |-> step(i)]
  <2>1. PICK x : x = available(c, << "parenType", "typeRef", "builtinType" >>)
    OBVIOUS
  <2>2. Visit(c) = Loop("Type", << << Get("Type", x, Result) >> >> \o steps)
    BY <1>2, <2>1 DEF Visit, visitType, getType, getExpr
  <2>3. Yields(tree[c].sym) = classof("Type") /\ "ArrayType" \in classof("Type")
        /\ tree[c].sym # "classDecl"
    BY YieldsOf, Classes DEF TypeContexts
  <2>4. ASSUME NEW i PROVE Turn(c, step(i))
    <3>1. Made(node(i), "ArrayType", 0, FALSE)
      BY KindsAre, MadePlain DEF NamedByInfo
    <3> HIDE DEF node, sizes
    <3>0. "Size" # Result /\ "Expr" # "any"
      BY DEF Result
    <3>2. Suits("ArrayType", "ElementType", "Type") /\ Suits("ArrayType", "Size", "Expr")
      BY TypeSuits
    <3>3. Completes("ArrayType", "ElementType", "Size")
      BY TypeWhole DEF Completes
    <3>4. Turn(c, << Wrap(node(i), "ElementType"), Get("Expr", sizes[i], "Size") >>)
      BY <2>3, <3>0, <3>1, <3>2, <3>3, WrapTwoTurn
    <3> QED
      BY <3>4
  <2>5. IsSeq(steps) /\ \A k \in DOMAIN steps : steps[k] = step(k)
    <3>1. Len(sizes) \in Int /\ DOMAIN sizes = 1..Len(sizes)
      BY KidsOK, SeqFacts
    <3> HIDE DEF sizes, step
    <3>2. steps = [i \in 1..Len(sizes) |-> steps[i]]
      BY <3>1
    <3>3. IsSeq(steps)
      BY <3>1, <3>2, FunSeq
    <3> QED
      BY <3>3
  <2> HIDE DEF steps, step
  <2> QED
    BY <2>2, <2>3, <2>4, <2>5, ResultWhole
<1> QED
  BY <1>1, <1>2

\* visitPrefixUnaryExpr makes a unary expression for each prefix.
LEMMA visitPrefixUnaryExpr_Whole ==
  ASSUME TreeDone, NEW c \in DOMAIN tree, tree[c].sym = "prefixUnaryExpr"
  PROVE  VisitWhole(c)
<1> DEFINE operand == The(c, "postfixUnaryExpr")
           prefixes == Kids(c, "unaryPrefix")
           n == Len(prefixes)
           op(p) == getPrefixUnaryOp(The(p, "prefixUnaryOperator"))
           unary(p) == << Wrap(WithOp(Node("UnaryExpr", p, operand), op(p)), "Operand") >>
           steps == [i \in 1..n |-> unary(prefixes[n + 1 - i])]
<1>1. Yields(tree[c].sym) = classof("Expr") /\ "UnaryExpr" \in classof("Expr")
      /\ tree[c].sym # "classDecl"
  BY YieldsOf, Classes DEF ExprContexts
<1>2. Visit(c) = Loop("Expr", << << Get("Expr", operand, Result) >> >> \o steps)
  BY DEF Visit, visitPrefixUnaryExpr, getExpr
<1>3. ASSUME NEW p \in DOMAIN tree, tree[p].sym = "unaryPrefix" PROVE Turn(c, unary(p))
  <2>1. Has(p, "prefixUnaryOperator")
    BY <1>3, NamesHas
  <2>2. The(p, "prefixUnaryOperator") \in DOMAIN tree
    BY <2>1, TheOK DEF Has
  <2>3. tree[The(p, "prefixUnaryOperator")].sym = "prefixUnaryOperator"
    BY <2>1, KidsOK DEF Has, The, Nth
  <2>4. op(p) \in DOMAIN getOpSymbol
    BY <2>2, <2>3, OtherTokens
  <2> HIDE DEF op
  <2>5. Made(WithOp(Node("UnaryExpr", p, operand), op(p)), "UnaryExpr", 1, FALSE)
    BY <2>4, MadeWithOp
  <2>6. Suits("UnaryExpr", "Operand", "Expr")
    BY ExprSuits
  <2>7. \A w : w.kind = "UnaryExpr" /\ w.has["Operand"] = 1 => Whole(w)
    BY ExprWhole
  <2> QED
    BY <1>1, <2>5, <2>6, <2>7, WrapOneTurn
<1>4. /\ n \in Nat
      /\ \A i \in 1..n : prefixes[i] \in DOMAIN tree /\ tree[prefixes[i]].sym = "unaryPrefix"
  BY KidsOK, SeqFacts
<1> HIDE DEF unary, prefixes, n
<1>5. \A i \in 1..n : steps[i] = unary(prefixes[n + 1 - i]) /\ n + 1 - i \in 1..n
  BY <1>4
<1>6. steps = [i \in 1..n |-> steps[i]] /\ DOMAIN steps = 1..n
  OBVIOUS
<1> HIDE DEF steps
<1>7. \A i \in 1..n : Turn(c, steps[i])
  BY <1>3, <1>4, <1>5
<1>8. IsSeq(steps)
  BY <1>4, <1>6, FunSeq
<1> QED
  BY <1>1, <1>2, <1>6, <1>7, <1>8, ResultWhole

\* visitInfixExpr makes a binary expression for each `in`, a test for each `is`.
LEMMA visitInfixExpr_Whole ==
  ASSUME TreeDone, NEW c \in DOMAIN tree, tree[c].sym = "infixExpr"
  PROVE  VisitWhole(c)
<1> DEFINE first == The(c, "elvisExpr")
           ins == Elements(c, "inOperator")
           ops == ins \cup Elements(c, "isOperator")
           upTo(o, S) == Cardinality({p \in S : tree[p].start <= tree[o].start})
           op(i) == CHOOSE o \in ops : upTo(o, ops) = i
           in(sub) == << Wrap(WithOp(Node("BinaryExpr", first, sub), "In"), "LHS"),
                         Get("Expr", sub, "RHS") >>
           is(type) == << Wrap(Node("IsExpr", first, type), "Operand"),
                          Get("Type", type, "CheckType") >>
           step(i) == IF op(i) \in ins THEN in(Nth(c, "elvisExpr", upTo(op(i), ins) + 1))
                      ELSE is(Nth(c, "type", i - upTo(op(i), ins)))
           n == Len(Kids(c, "inOperator")) + Len(Kids(c, "isOperator"))
           steps == [i \in 1..n |-> step(i)]
<1>1. Yields(tree[c].sym) = classof("Expr") /\ {"BinaryExpr", "IsExpr"} \subseteq classof("Expr")
      /\ tree[c].sym # "classDecl"
  BY YieldsOf, Classes DEF ExprContexts
<1>2. Visit(c) = Loop("Expr", << << Get("Expr", first, Result) >> >> \o steps)
  BY DEF Visit, visitInfixExpr, Elements, getExpr, getType
<1>3. n \in Nat
  BY HasLen
<1> HIDE DEF first, n, op, ins
<1>4. ASSUME NEW x PROVE Turn(c, in(x))
  <2>1. Made(WithOp(Node("BinaryExpr", first, x), "In"), "BinaryExpr", 1, FALSE)
    BY Symbols, MadeWithOp
  <2>2. Suits("BinaryExpr", "LHS", "Expr") /\ Suits("BinaryExpr", "RHS", "Expr")
    BY ExprSuits
  <2>3. Completes("BinaryExpr", "LHS", "RHS")
    BY ExprWhole DEF Completes
  <2>4. "RHS" # Result /\ "Expr" # "any" /\ "Type" # "any"
    BY DEF Result
  <2> QED
    BY <1>1, <2>1, <2>2, <2>3, <2>4, WrapTwoTurn
<1>5. ASSUME NEW x PROVE Turn(c, is(x))
  <2>1. Made(Node("IsExpr", first, x), "IsExpr", 0, FALSE)
    BY KindsAre, MadePlain DEF NamedByInfo
  <2>2. Suits("IsExpr", "Operand", "Expr") /\ Suits("IsExpr", "CheckType", "Type")
    BY ExprSuits
  <2>3. Completes("IsExpr", "Operand", "CheckType")
    BY ExprWhole DEF Completes
  <2>4. "CheckType" # Result /\ "Expr" # "any" /\ "Type" # "any"
    BY DEF Result
  <2> QED
    BY <1>1, <2>1, <2>2, <2>3, <2>4, WrapTwoTurn
<1> HIDE DEF in, is
<1>6. \A i : Turn(c, step(i))
  BY <1>4, <1>5
<1> HIDE DEF step
<1>7. steps = [i \in 1..n |-> steps[i]] /\ DOMAIN steps = 1..n
      /\ \A i \in 1..n : steps[i] = step(i)
  OBVIOUS
<1> HIDE DEF steps
<1>8. IsSeq(steps)
  BY <1>3, <1>7, FunSeq
<1> QED
  BY <1>1, <1>2, <1>6, <1>7, <1>8, ResultWhole

\* A call gets what it calls, type arguments and arguments.
LEMMA CalleeWhole ==
  ASSUME TreeDone, NEW c \in DOMAIN tree, NEW v \in Views, v.kind = "CallExpr",
         v.has["Callee"] = 1, NEW code, NEW s, Makings(code, s, Holding(v))
  PROVE  \E w \in Views : /\ w.kind = "CallExpr" /\ Whole(w)
                          /\ Makings(code \o TypeArgs(c) \o Arguments(c), s, Holding(w))
<1>1. PICK u, m : /\ m \in Nat /\ Adds(v, u, "TypeArgs", m)
                  /\ Makings(TypeArgs(c), Holding(v), Holding(u))
  BY ExprSuits, TypeArgsMakes
<1>2. u \in Views /\ u.kind = "CallExpr" /\ u.has["Callee"] = 1
  BY <1>1 DEF Adds, MemberNames
<1>3. PICK w, n : /\ n \in Nat /\ Adds(u, w, "Arguments", n)
                  /\ Makings(Arguments(c), Holding(u), Holding(w))
  BY <1>2, ExprSuits, ArgumentsMakes
<1>4. w \in Views /\ w.kind = "CallExpr" /\ w.has["Callee"] = 1
  BY <1>2, <1>3 DEF Adds, MemberNames
<1>5. Whole(w)
  BY <1>4, ExprWhole
<1>6. PICK some : some = code \o TypeArgs(c)
  OBVIOUS
<1>7. Makings(some, s, Holding(u))
  BY <1>1, <1>6, MakingsConcat
<1>8. Makings(some \o Arguments(c), s, Holding(w))
  BY <1>3, <1>7, MakingsConcat
<1> QED
  BY <1>4, <1>5, <1>6, <1>8

\* visitPostfixUnaryExpr makes a call, an index or a member access for each suffix.
LEMMA visitPostfixUnaryExpr_Whole ==
  ASSUME TreeDone, NEW c \in DOMAIN tree, tree[c].sym = "postfixUnaryExpr"
  PROVE  VisitWhole(c)
<1> DEFINE posts == Kids(c, "unaryPostfix")
           call(p) == The(p, "callSuffix")
           index(p) == The(p, "indexingSuffix")
           nav(p) == The(p, "navigationSuffix")
           caller(p) == Flagged(Node("CallExpr", c, p), "ExplicitTypeArgs",
                                Has(call(p), "typeArguments"))
           quest(p) == Has(The(nav(p), "memberAccessOperator"), "QUEST_DOT")
           member(p) == Flagged(Named(Node("MemberExpr", c, p), nav(p)), "NullSafe", quest(p))
           steps == [i \in DOMAIN posts |-> Suffix(c, posts[i])]
<1>1. Yields(tree[c].sym) = classof("Expr") /\ tree[c].sym # "classDecl"
      /\ {"CallExpr", "IndexExpr", "MemberExpr"} \subseteq classof("Expr")
  BY YieldsOf, Classes DEF ExprContexts
<1>2. Visit(c) = Loop("Expr", << << Get("Expr", The(c, "primaryExpr"), Result) >> >> \o steps)
  BY DEF Visit, visitPostfixUnaryExpr, getExpr
<1>3. ASSUME NEW p \in DOMAIN tree PROVE Turn(c, Suffix(c, p))
  <2>1. CASE call(p) # Null
    <3>1. call(p) \in DOMAIN tree
      BY <2>1, TheOK
    <3>2. Suffix(c, p) = << Wrap(caller(p), "Callee") >> \o TypeArgs(call(p)) \o
                         Arguments(call(p))
      BY <2>1 DEF Suffix
    <3>3. PICK mutable : Made(caller(p), "CallExpr", 0, mutable)
      <4>1. /\ "CallExpr" \in Kinds /\ Has(call(p), "typeArguments") \in BOOLEAN
            /\ "CallExpr" \notin NamedByInfo
            /\ "ExplicitTypeArgs" \in ShownFlags("CallExpr") \cup {"decoded", "default", "raw"}
        BY KindsAre, FlagFacts DEF Has, NamedByInfo
      <4> QED
        BY <4>1, MadeFlagged
    <3>4. PICK node, code : node = caller(p) /\ code = Suffix(c, p)
      OBVIOUS
    <3> HIDE DEF call, caller
    <3>5. ASSUME NEW s, NEW u, NEW v, Childless(u, "CallExpr", 0, mutable),
                 Adds(u, v, "Callee", 1), Makes(Wrap(node, "Callee"), s, Holding(v))
          PROVE  \E w \in Views : w.kind = "CallExpr" /\ Whole(w) /\ Makings(code, s, Holding(w))
      <4>1. v \in Views /\ v.kind = "CallExpr" /\ v.has["Callee"] = 1
        BY <3>5 DEF Childless, Adds, MemberNames
      <4>2. PICK first : first = << Wrap(node, "Callee") >>
        OBVIOUS
      <4>3. Makings(first, s, Holding(v))
        BY <3>5, <4>2, MakingsOne
      <4>4. code = first \o TypeArgs(call(p)) \o Arguments(call(p))
        BY <3>2, <3>4, <4>2
      <4> QED
        BY <3>1, <4>1, <4>3, <4>4, CalleeWhole
    <3>6. Suits("CallExpr", "Callee", "Expr")
      BY ExprSuits
    <3>7. Turn(c, code)
      BY <1>1, <3>3, <3>4, <3>5, <3>6, WrapTurn
    <3> QED
      BY <3>4, <3>7
  <2>2. CASE call(p) = Null /\ index(p) # Null
    <3>1. PICK node, x : node = Node("IndexExpr", c, p) /\ x = The(index(p), "expression")
      OBVIOUS
    <3>2. Suffix(c, p) = << Wrap(node, "Base"), Get("Expr", x, "Index") >>
      BY <2>2, <3>1 DEF Suffix, getExpr
    <3>3. Made(node, "IndexExpr", 0, FALSE)
      BY <3>1, KindsAre, MadePlain DEF NamedByInfo
    <3>4. Suits("IndexExpr", "Base", "Expr") /\ Suits("IndexExpr", "Index", "Expr")
      BY ExprSuits
    <3>5. Completes("IndexExpr", "Base", "Index")
      BY ExprWhole DEF Completes
    <3>6. "Index" # Result /\ "Expr" # "any"
      BY DEF Result
    <3> QED
      BY <1>1, <3>2, <3>3, <3>4, <3>5, <3>6, WrapTwoTurn
  <2>3. CASE call(p) = Null /\ index(p) = Null
    <3>1. Suffix(c, p) = << Wrap(member(p), "Base") >>
      BY <2>3 DEF Suffix
    <3>2. PICK mutable : Made(member(p), "MemberExpr", 0, mutable)
      <4>1. /\ "MemberExpr" \in Kinds /\ quest(p) \in BOOLEAN /\ "MemberExpr" \notin NamedByInfo
            /\ "NullSafe" \in ShownFlags("MemberExpr") \cup {"decoded", "default", "raw"}
        BY KindsAre, FlagFacts DEF Has, NamedByInfo
      <4> HIDE DEF quest, nav
      <4> QED
        BY <4>1, MadeFlagged
    <3> HIDE DEF member
    <3>3. Suits("MemberExpr", "Base", "Expr")
      BY ExprSuits
    <3>4. \A w : w.kind = "MemberExpr" /\ w.has["Base"] = 1 => Whole(w)
      BY ExprWhole
    <3> QED
      BY <1>1, <3>1, <3>2, <3>3, <3>4, WrapOneTurn
  <2> QED
    BY <2>1, <2>2, <2>3
<1>4. Len(posts) \in Int /\ DOMAIN posts = 1..Len(posts)
      /\ \A i \in DOMAIN posts : posts[i] \in DOMAIN tree
  BY KidsOK, SeqFacts
<1> HIDE DEF posts
<1>5. /\ steps = [i \in 1..Len(posts) |-> steps[i]] /\ DOMAIN steps = 1..Len(posts)
      /\ \A i \in 1..Len(posts) : steps[i] = Suffix(c, posts[i])
  BY <1>4
<1> HIDE DEF steps
<1>6. IsSeq(steps)
  BY <1>4, <1>5, FunSeq
<1>7. \A k \in DOMAIN steps : Turn(c, steps[k])
  BY <1>3, <1>4, <1>5
<1> QED
  BY <1>1, <1>2, <1>6, <1>7, ResultWhole

\* A dangling `>` makes a call.
LEMMA DanglingWhole ==
  ASSUME TreeDone, NEW c \in DOMAIN tree, tree[c].sym = "comparison", Visit(c) = DanglingCall(c)
  PROVE  VisitWhole(c)
<1> DEFINE node == Flagged(Node("CallExpr", c, c), "ExplicitTypeArgs", TRUE)
           error == Error(The(c, "GT"), The(c, "GT"), "expected '(' after type argument list")
           x == Nth(c, "infixExpr", 1)
<1>1. Made(node, "CallExpr", 0, FALSE)
  <2>1. /\ "CallExpr" \in Kinds /\ TRUE \in BOOLEAN /\ "CallExpr" \notin NamedByInfo
        /\ "ExplicitTypeArgs" \in ShownFlags("CallExpr") \cup {"decoded", "default", "raw"}
    BY KindsAre, FlagFacts DEF NamedByInfo
  <2>2. Made(node, "CallExpr", 0, TRUE /\ "ExplicitTypeArgs" = "IsMutable")
    BY <2>1, MadeFlagged
  <2>3. (TRUE /\ "ExplicitTypeArgs" = "IsMutable") = FALSE
    OBVIOUS
  <2> QED
    BY <2>2, <2>3
<1>2. Visit(c) = Visitor("Expr", << error, New(node), Get("Expr", x, "Callee") >> \o
                                 TypeArgs(c) \o Arguments(c))
  BY DEF DanglingCall, getExpr
<1>3. Makes(error, Start, Start)
  BY ErrorMakes
<1> HIDE DEF node, error, x
<1>4. PICK u : Childless(u, "CallExpr", 0, FALSE) /\ Makes(New(node), Start, Holding(u))
  BY <1>1, NewMakes
<1>5. u \in Views /\ u.kind = "CallExpr"
  BY <1>4 DEF Childless
<1>6. PICK v : /\ Adds(u, v, "Callee", 1)
               /\ Makes(Get("Expr", x, "Callee"), Holding(u), Holding(v))
  BY <1>5, ExprSuits, GetMakes DEF Result
<1>7. v \in Views /\ v.kind = "CallExpr" /\ v.has["Callee"] = 1
  BY <1>4, <1>6 DEF Childless, Adds, MemberNames
<1>8. PICK code : code = << error, New(node), Get("Expr", x, "Callee") >>
  OBVIOUS
<1>9. Makings(code, Start, Holding(v))
  BY <1>3, <1>4, <1>6, <1>8, MakingsThree
<1>10. PICK w \in Views : /\ w.kind = "CallExpr" /\ Whole(w)
                          /\ Makings(code \o TypeArgs(c) \o Arguments(c), Start, Holding(w))
  BY <1>7, <1>9, CalleeWhole
<1>11. "CallExpr" \in Yields("comparison")
  BY YieldsOf, Classes DEF ExprContexts
<1>12. Visit(c) = Visitor("Expr", code \o TypeArgs(c) \o Arguments(c))
  BY <1>2, <1>8
<1> QED
  BY <1>10, <1>11, <1>12, BlockWhole

\* A chain has an operator between any two operands.
LEMMA ChainWhole ==
  ASSUME TreeDone, NEW c \in DOMAIN tree, tree[c].sym = "comparison",
         NEW ops, IsSeq(ops), \A k \in DOMAIN ops : ops[k] \in Ordering,
         Len(Kids(c, "infixExpr")) = Len(ops) + 1, Visit(c) = ComparisonChain(c, ops)
  PROVE  VisitWhole(c)
<1> DEFINE node == [Node("ComparisonChainExpr", c, c) EXCEPT !.ops = ops]
           kids == Kids(c, "infixExpr")
           mixed == \E i \in DOMAIN ops : Ascending(ops[i]) # Ascending(ops[1])
           error == Error(c, c, "comparison chain with mixed operators")
<1>1. Made(node, "ComparisonChainExpr", Len(ops), FALSE)
  BY MadeChain
<1>2. Visit(c) = Visitor("Expr", << New(node) >> \o GetAll("Expr", kids, "Operands") \o
                                 If(mixed, << error >>))
  BY DEF ComparisonChain
<1>3. IsSeq(kids) /\ Len(ops) \in Nat /\ Len(kids) \in Nat
  BY KidsOK, SeqFacts
<1>4. \A s : Makes(error, s, s)
  BY ErrorMakes
<1>5. Len(kids) = Len(ops) + 1
  OBVIOUS
<1> HIDE DEF node, kids, mixed, error
<1>6. PICK u : /\ Childless(u, "ComparisonChainExpr", Len(ops), FALSE)
               /\ Makes(New(node), Start, Holding(u))
  BY <1>1, NewMakes
<1>7. u \in Views /\ u.kind = "ComparisonChainExpr"
  BY <1>6 DEF Childless
<1>8. PICK w : /\ Adds(u, w, "Operands", Len(kids))
               /\ Makings(GetAll("Expr", kids, "Operands"), Holding(u), Holding(w))
  BY <1>3, <1>7, ExprSuits, ListMakes DEF Result
<1>9. w \in Views /\ w.kind = "ComparisonChainExpr" /\ w.ops = w.has["Operands"] - 1
  BY <1>3, <1>5, <1>6, <1>8 DEF Childless, Adds, MemberNames
<1>10. Whole(w)
  BY <1>9, ExprWhole
<1>11. Makings(If(mixed, << error >>), Holding(w), Holding(w))
  <2>1. Makings(<< error >>, Holding(w), Holding(w))
    BY <1>4, MakingsOne
  <2> QED
    BY <2>1, MakingsNone DEF If
<1>12. PICK code : code = << New(node) >> \o GetAll("Expr", kids, "Operands")
  OBVIOUS
<1>13. Makings(code, Start, Holding(w))
  BY <1>6, <1>8, <1>12, MakingsOne, MakingsConcat
<1>14. Makings(code \o If(mixed, << error >>), Start, Holding(w))
  BY <1>11, <1>13, MakingsConcat
<1>15. "ComparisonChainExpr" \in Yields("comparison")
  BY YieldsOf, Classes DEF ExprContexts
<1> QED
  BY <1>2, <1>9, <1>10, <1>12, <1>14, <1>15, BlockWhole

\* visitComparison makes a call, a chain, a binary expression, or nothing.
LEMMA visitComparison_Whole ==
  ASSUME TreeDone, NEW c \in DOMAIN tree, tree[c].sym = "comparison"
  PROVE  VisitWhole(c)
<1> DEFINE kids == Kids(c, "comparisonOperator")
           ops == [i \in DOMAIN kids |-> getBinaryOp(kids[i])]
<1>1. CASE Has(c, "typeArguments")
  BY <1>1, DanglingWhole DEF Visit, visitComparison
<1>2. /\ Len(kids) \in Nat /\ DOMAIN kids = 1..Len(kids)
      /\ \A k \in 1..Len(kids) : kids[k] \in DOMAIN tree
                                 /\ tree[kids[k]].sym = "comparisonOperator"
  BY KidsOK, SeqFacts
<1>3. CASE ~ Has(c, "typeArguments")
  <2>1. Len(Kids(c, "infixExpr")) = Len(kids) + 1
    BY <1>3, OperatorsThere
  <2>2. Visit(c) = IF Len(ops) < 2 THEN foldLeftAssoc(c, "infixExpr", LAMBDA i : ops[i], Silent)
                   ELSE ComparisonChain(c, ops)
    BY <1>3 DEF Visit, visitComparison
  <2> HIDE DEF kids
  <2>3. /\ ops = [i \in 1..Len(kids) |-> ops[i]] /\ DOMAIN ops = 1..Len(kids)
        /\ \A k \in 1..Len(kids) : ops[k] = getBinaryOp(kids[k])
    BY <1>2
  <2> HIDE DEF ops
  <2>4. IsSeq(ops)
    BY <1>2, <2>3, FunSeq
  <2>5. Len(ops) = Len(kids)
    BY <1>2, <2>3, <2>4, SeqFacts
  <2>6. \A k \in DOMAIN ops : ops[k] \in Ordering
    BY <1>2, <2>3, BinaryOps
  <2>7. CASE Len(ops) < 2
    <3> DEFINE n == Len(Kids(c, "infixExpr")) - 1
               steps == [i \in 1..n |-> Fold(c, "infixExpr", i, ops[i], Silent(i))]
    <3>1. Visit(c) = Loop("Expr", << << getExpr(The(c, "infixExpr"), Result) >> >> \o steps)
      BY <2>2, <2>7 DEF foldLeftAssoc
    <3>2. \A i \in 1..n : ops[i] \in DOMAIN getOpSymbol
      BY <1>2, <2>1, <2>3, <2>6, Symbols DEF Ordering
    <3>3. \A i \in 1..n : steps[i] = Fold(c, "infixExpr", i, ops[i], << >>)
      BY DEF Silent
    <3>4. steps = [i \in 1..n |-> steps[i]]
      OBVIOUS
    <3>5. tree[c].sym \in ExprContexts
      BY DEF ExprContexts
    <3> HIDE DEF steps
    <3>6. \A i \in 1..n : \E o \in DOMAIN getOpSymbol : \E pre :
            (\A s : Makings(pre, s, s)) /\ steps[i] = Fold(c, "infixExpr", i, o, pre)
      BY <3>2, <3>3, MakingsNone
    <3> QED
      BY <3>1, <3>4, <3>5, <3>6, FoldsWhole
  <2>8. CASE ~ (Len(ops) < 2)
    BY <2>1, <2>2, <2>4, <2>5, <2>6, <2>8, ChainWhole
  <2> QED
    BY <2>7, <2>8
<1> QED
  BY <1>1, <1>3

\* A call fills a node beside its result.
Beside(V, p) == Stage("beside", V, {p})

\* The node is made.
LEMMA SubMakes ==
  ASSUME NEW s, s.at = "holds", NEW node, NEW kind, NEW ops, NEW mutable,
         Made(node, kind, ops, mutable), NEW V, s.res \subseteq V
  PROVE  \E p : Childless(p, kind, ops, mutable) /\ Makes(Sub(node), s, Beside(V, p))
<1>1. PICK i : i = Sub(node)
  OBVIOUS
<1>2. i.do = "sub" /\ i.node = node
  BY <1>1 DEF Sub
<1>3. PICK p, t : p = View(node) /\ t = Beside(V, p)
  OBVIOUS
<1>4. t.at = "beside" /\ t.res = V /\ t.obj = {p}
  BY <1>3 DEF Beside, Stage
<1>5. Makes(i, s, t)
  BY <1>2, <1>3, <1>4 DEF Makes, Made
<1> QED
  BY <1>1, <1>3, <1>5 DEF Made

\* A child is visited and stored in it.
LEMMA BesideMakes ==
  ASSUME NEW V, NEW p \in Views, NEW as, as # "any", NEW slot, slot # Result,
         Suits(p.kind, slot, as), NEW child
  PROVE  \E q : Adds(p, q, slot, 1) /\ Makes(Get(as, child, slot), Beside(V, p), Beside(V, q))
<1>1. PICK i : i = Get(as, child, slot)
  OBVIOUS
<1>2. i.do = "get" /\ i.slot = slot /\ i.as = as /\ i.child = child
  BY <1>1 DEF Get
<1>3. slot \in MemberNames
  BY DEF Suits
<1>4. PICK q : q = More(p, slot, 1)
  OBVIOUS
<1>5. \A g \in Given(i) : g \in Views /\ g.kind \in classof(as) /\ Whole(g)
  BY <1>2 DEF Given
<1>6. Accepts({p}, slot, Given(i), {q})
  BY <1>4, <1>5, SuitsFits DEF Accepts
<1>7. PICK s, t : s = Beside(V, p) /\ t = Beside(V, q)
  OBVIOUS
<1>8. s.at = "beside" /\ t.at = "beside" /\ s.res = V /\ t.res = V /\ s.obj = {p} /\ t.obj = {q}
  BY <1>7 DEF Beside, Stage
<1>9. Makes(i, s, t)
  BY <1>2, <1>6, <1>8 DEF Makes
<1>10. Adds(p, q, slot, 1)
  BY <1>3, <1>4, MoreAdds
<1> QED
  BY <1>1, <1>7, <1>9, <1>10

\* It becomes a child of the result.
LEMMA AttachMakes ==
  ASSUME NEW V, NEW p, NEW slot, NEW t, t.at = "holds", Accepts(V, slot, {p}, t.res)
  PROVE  Makes(Attach(slot), Beside(V, p), t)
<1>1. PICK i : i = Attach(slot)
  OBVIOUS
<1>2. i.do = "attach" /\ i.slot = slot
  BY <1>1 DEF Attach
<1>3. PICK s : s = Beside(V, p)
  OBVIOUS
<1>4. s.at = "beside" /\ s.res = V /\ s.obj = {p}
  BY <1>3 DEF Beside, Stage
<1>5. Makes(i, s, t)
  BY <1>2, <1>4 DEF Makes
<1> QED
  BY <1>1, <1>3, <1>5

\* visitCatchClause makes a parameter with a type, and stores it and a body.
LEMMA visitCatchClause_Whole ==
  ASSUME TreeDone, NEW c \in DOMAIN tree, tree[c].sym = "catchClause"
  PROVE  VisitWhole(c)
<1> DEFINE node == Node("CatchClause", c, c)
           param == Named(Node("Parameter", c, c), c)
           type == Get("Type", The(c, "type"), "Type")
           body == Get("Block", The(c, "block"), "Body")
<1>1. Made(node, "CatchClause", 0, FALSE)
  BY KindsAre, MadePlain DEF NamedByInfo
<1>2. Made(param, "Parameter", 0, FALSE)
  BY KindsAre, NamesHas, MadeNamed
<1>3. Visit(c) = Visitor("CatchClause", << New(node), Sub(param), type, Attach("Param"), body >>)
  BY DEF Visit, visitCatchClause, getType, getBlock
<1> HIDE DEF node, param
<1>4. PICK u : Childless(u, "CatchClause", 0, FALSE) /\ Makes(New(node), Start, Holding(u))
  BY <1>1, NewMakes
<1>5. u \in Views /\ u.kind = "CatchClause"
  BY <1>4 DEF Childless
<1>6. PICK p : /\ Childless(p, "Parameter", 0, FALSE)
               /\ Makes(Sub(param), Holding(u), Beside({u}, p))
  <2>1. Holding(u).at = "holds" /\ Holding(u).res \subseteq {u}
    BY HoldingIs
  <2> QED
    BY <1>2, <2>1, SubMakes
<1>7. p \in Views /\ p.kind = "Parameter"
  BY <1>6 DEF Childless
<1>8. PICK q : Adds(p, q, "Type", 1) /\ Makes(type, Beside({u}, p), Beside({u}, q))
  BY <1>7, DeclSuits, BesideMakes DEF Result
<1>9. q \in Views /\ q.kind = "Parameter" /\ q.has["Type"] = 1 /\ q.has["DefaultValue"] = 0
  BY <1>6, <1>8 DEF Childless, Adds, MemberNames
<1>10. Whole(q)
  BY <1>9, DeclWhole
<1>11. "Param" \in MemberNames
  BY DEF MemberNames
<1>12. PICK v : v = More(u, "Param", 1)
  OBVIOUS
<1>13. Adds(u, v, "Param", 1)
  BY <1>5, <1>11, <1>12, MoreAdds
<1>14. Fits("CatchClause", "Param", q)
  BY <1>9, <1>11, StmtMembersOf, Classes DEF Fits
<1>15. Makes(Attach("Param"), Beside({u}, q), Holding(v))
  <2>1. Holding(v).at = "holds" /\ Holding(v).res = {v}
    BY HoldingIs
  <2>2. Accepts({u}, "Param", {q}, Holding(v).res)
    BY <1>5, <1>10, <1>12, <1>14, <2>1 DEF Accepts
  <2> QED
    BY <2>1, <2>2, AttachMakes
<1>16. v \in Views /\ v.kind = "CatchClause"
  BY <1>5, <1>13 DEF Adds
<1>17. PICK w : Adds(v, w, "Body", 1) /\ Makes(body, Holding(v), Holding(w))
  BY <1>16, StmtSuits, GetMakes DEF Result
<1>18. w \in Views /\ w.kind = "CatchClause" /\ w.has["Param"] = 1 /\ w.has["Body"] = 1
  BY <1>4, <1>13, <1>17 DEF Childless, Adds, MemberNames
<1>19. Whole(w)
  BY <1>18, StmtWhole
<1>20. Makings(<< New(node), Sub(param), type, Attach("Param"), body >>, Start, Holding(w))
  BY <1>4, <1>6, <1>8, <1>15, <1>17, MakingsFive
<1>21. "CatchClause" \in Yields("catchClause")
  BY YieldsOf
<1> QED
  BY <1>3, <1>18, <1>19, <1>20, <1>21, BlockWhole

\* Instructions that each lead from two stages to the second of them.
LEMMA MakingsFrom ==
  ASSUME NEW x, IsSeq(x), x # << >>, NEW a, NEW b,
         \A k \in DOMAIN x : Makes(x[k], a, b) /\ Makes(x[k], b, b)
  PROVE  Makings(x, a, b)
<1> DEFINE st == [k \in 0..Len(x) |-> IF k = 0 THEN a ELSE b]
<1>1. Len(x) \in Nat /\ DOMAIN x = 1..Len(x) /\ 1 \in DOMAIN x
  BY SeqFacts, TailSeq
<1>2. /\ st[0] = a /\ st[Len(x)] = b
      /\ \A k \in 1..Len(x) : st[k - 1] \in {a, b} /\ st[k] = b
  BY <1>1
<1> HIDE DEF st
<1>3. \A k \in 1..Len(x) : Makes(x[k], st[k - 1], st[k])
  BY <1>1, <1>2
<1> QED
  BY <1>2, <1>3 DEF Makings

\* A class may be given more type parameters and members.
LEMMA ClassMore ==
  ASSUME NEW V, V = {v \in Views : v.kind \in {"ClassDecl"} /\ Whole(v)},
         NEW slot, NEW as, Suits("ClassDecl", slot, as), NEW W,
         \A w \in W : w \in Views /\ w.kind \in classof(as) /\ Whole(w)
  PROVE  Accepts(V, slot, W, V)
<1>1. slot \in MemberNames
  BY DEF Suits
<1>2. ASSUME NEW v \in V, NEW w \in W
      PROVE  Whole(w) /\ Fits(v.kind, slot, w) /\ More(v, slot, 1) \in V
  <2>1. v \in Views /\ v.kind = "ClassDecl"
    OBVIOUS
  <2>2. PICK u : u = More(v, slot, 1)
    OBVIOUS
  <2>3. u \in Views /\ u.kind = "ClassDecl"
    BY <1>1, <2>1, <2>2, MoreAdds DEF Adds
  <2>4. Whole(u)
    BY <2>3, DeclWhole
  <2> QED
    BY <2>1, <2>2, <2>3, <2>4, SuitsFits
<1> QED
  BY <1>2 DEF Accepts

\* visitClassDecl makes a type parameter for each of the list and visits the members.
LEMMA visitClassDecl_Whole ==
  ASSUME TreeDone, NEW c \in DOMAIN tree, tree[c].sym = "classDecl"
  PROVE  VisitWhole(c)
<1> DEFINE params == The(c, "typeParameters")
           body == The(c, "classBody")
           param(p) == Named(Node("TypeParam", p, p), p)
           type(p) == Get("Type", The(p, "type"), "DefaultType")
           typeParam(p) == << Sub(param(p)) >> \o If(Has(p, "type"), << type(p) >>) \o
                           << Attach("TypeParams") >>
           list == IF params # Null THEN Kids(params, "typeParameter") ELSE << >>
           turns == [i \in DOMAIN list |-> typeParam(list[i])]
           kids == Kids(body, "declaration")
           members == If(body # Null, GetAll("Declaration", kids, "Members"))
           node == Named(Node("ClassDecl", c, c), c)
           V == {v \in Views : v.kind \in {"ClassDecl"} /\ Whole(v)}
           s1 == Stage("holds", V, {})
<1>1. Visit(c) = Loop("Declaration", << << New(node) >> >> \o turns \o << members >>)
  BY DEF Visit, visitClassDecl, getType, getDecl
<1>2. Post(c) = V
  BY YieldsOf DEF Post
<1>3. s1.at = "holds" /\ s1.res = V /\ s1.obj = {}
  BY DEF Stage
<1>4. \A s : Final(c, s) <=> s.at = "holds" /\ s.res \subseteq V
  BY <1>2 DEF Final, Done
<1>5. Made(node, "ClassDecl", 0, FALSE)
  BY KindsAre, NamesHas, MadeNamed
<1> HIDE DEF node, V, s1
<1>6. \E t : Final(c, t) /\ Makings(<< New(node) >>, Start, t)
  <2>1. PICK v : Childless(v, "ClassDecl", 0, FALSE) /\ Makes(New(node), Start, Holding(v))
    BY <1>5, NewMakes
  <2>2. v \in Views /\ v.kind = "ClassDecl"
    BY <2>1 DEF Childless
  <2>3. Whole(v)
    BY <2>2, DeclWhole
  <2>4. Final(c, Holding(v))
    <3>1. v \in V
      BY <2>2, <2>3 DEF V
    <3> QED
      BY <1>4, <3>1, HoldingIs
  <2> QED
    BY <2>1, <2>4, MakingsOne
<1>7. Final(c, s1)
  BY <1>3, <1>4
<1>8. ASSUME NEW p \in DOMAIN tree, tree[p].sym = "typeParameter" PROVE Turn(c, typeParam(p))
  <2>1. Made(param(p), "TypeParam", 0, FALSE)
    BY <1>8, KindsAre, NamesHas, MadeNamed
  <2>2. PICK made, get, some : /\ made = param(p) /\ get = type(p)
                               /\ some = If(Has(p, "type"), << get >>)
    OBVIOUS
  <2>3. PICK code : code = << Sub(made) >> \o some \o << Attach("TypeParams") >>
    OBVIOUS
  <2>4. code = typeParam(p)
    BY <2>2, <2>3
  <2> HIDE DEF typeParam
  <2>5. ASSUME NEW s, Final(c, s) PROVE Makings(code, s, s1)
    <3>1. s.at = "holds" /\ s.res \subseteq V
      BY <1>4, <2>5
    <3>2. PICK u : /\ Childless(u, "TypeParam", 0, FALSE)
                   /\ Makes(Sub(made), s, Beside(V, u))
      BY <2>1, <2>2, <3>1, SubMakes
    <3>3. u \in Views /\ u.kind = "TypeParam"
      BY <3>2 DEF Childless
    <3>4. \E v, n : /\ n \in {0, 1} /\ Adds(u, v, "DefaultType", n)
                    /\ Makings(some, Beside(V, u), Beside(V, v))
      <4>1. CASE Has(p, "type")
        <5>1. some = << get >>
          BY <2>2, <4>1 DEF If
        <5>2. PICK v : Adds(u, v, "DefaultType", 1) /\ Makes(get, Beside(V, u), Beside(V, v))
          BY <2>2, <3>3, DeclSuits, BesideMakes DEF Result
        <5>3. Makings(some, Beside(V, u), Beside(V, v))
          BY <5>1, <5>2, MakingsOne
        <5> QED
          BY <5>2, <5>3
      <4>2. CASE ~ Has(p, "type")
        <5>1. some = << >>
          BY <2>2, <4>2 DEF If
        <5>2. Adds(u, u, "DefaultType", 0)
          BY <3>3, ViewFields DEF Adds, MemberNames
        <5> QED
          BY <5>1, <5>2, MakingsNone
      <4> QED
        BY <4>1, <4>2
    <3>5. PICK v, n : /\ n \in {0, 1} /\ Adds(u, v, "DefaultType", n)
                      /\ Makings(some, Beside(V, u), Beside(V, v))
      BY <3>4
    <3>6. v \in Views /\ v.kind = "TypeParam" /\ v.has["DefaultType"] \in {0, 1}
      BY <3>2, <3>5 DEF Childless, Adds, MemberNames
    <3>7. Whole(v)
      BY <3>6, DeclWhole
    <3>8. Accepts(V, "TypeParams", {v}, V)
      <4>1. \A w \in {v} : w \in Views /\ w.kind \in classof("TypeParam") /\ Whole(w)
        BY <3>6, <3>7, Classes
      <4>2. Suits("ClassDecl", "TypeParams", "TypeParam")
        BY DeclSuits
      <4>3. V = {w \in Views : w.kind \in {"ClassDecl"} /\ Whole(w)}
        BY DEF V
      <4> QED
        BY <4>1, <4>2, <4>3, ClassMore
    <3>9. Makes(Attach("TypeParams"), Beside(V, v), s1)
      BY <1>3, <3>8, AttachMakes
    <3>10. PICK first : first = << Sub(made) >> \o some
      OBVIOUS
    <3>11. Makings(first, s, Beside(V, v))
      BY <3>2, <3>5, <3>10, MakingsOne, MakingsConcat
    <3>12. Makings(<< Attach("TypeParams") >>, Beside(V, v), s1)
      BY <3>9, MakingsOne
    <3>13. Makings(first \o << Attach("TypeParams") >>, s, s1)
      BY <3>11, <3>12, MakingsConcat
    <3> QED
      BY <2>3, <3>10, <3>13
  <2> QED
    BY <1>7, <2>4, <2>5 DEF Turn
<1>9. /\ IsSeq(list) /\ Len(list) \in Nat /\ DOMAIN list = 1..Len(list)
      /\ \A i \in DOMAIN list : list[i] \in DOMAIN tree /\ tree[list[i]].sym = "typeParameter"
  <2>1. CASE params = Null
    <3>1. list = << >>
      BY <2>1
    <3>2. IsSeq(<< >>) /\ Len(<< >>) = 0 /\ DOMAIN << >> = {}
      BY DEF IsSeq
    <3> HIDE DEF list
    <3> QED
      BY <3>1, <3>2
  <2>2. CASE params # Null
    <3>1. params \in DOMAIN tree
      BY <2>2, TheOK
    <3>2. list = Kids(params, "typeParameter")
      BY <2>2
    <3> HIDE DEF list, params
    <3> QED
      BY <3>1, <3>2, KidsOK, SeqFacts
  <2> QED
    BY <2>1, <2>2
<1> HIDE DEF list, typeParam
<1>10. /\ turns = [i \in 1..Len(list) |-> turns[i]] /\ DOMAIN turns = 1..Len(list)
       /\ \A i \in 1..Len(list) : turns[i] = typeParam(list[i])
  BY <1>9
<1> HIDE DEF turns
<1>11. IsSeq(turns) /\ \A k \in DOMAIN turns : Turn(c, turns[k])
  BY <1>8, <1>9, <1>10, FunSeq
<1>12. Turn(c, members)
  <2>1. CASE body = Null
    <3>1. members = << >>
      BY <2>1 DEF If
    <3> HIDE DEF members
    <3> QED
      BY <3>1, MakingsNone DEF Turn
  <2>2. CASE body # Null
    <3>1. body \in DOMAIN tree
      BY <2>2, TheOK
    <3>2. members = GetAll("Declaration", kids, "Members")
      BY <2>2 DEF If
    <3> HIDE DEF members, body
    <3>3. IsSeq(kids) /\ Len(kids) \in Nat /\ DOMAIN kids = 1..Len(kids)
      BY <3>1, KidsOK, SeqFacts
    <3> HIDE DEF kids
    <3>4. members = [k \in 1..Len(kids) |-> Get("Declaration", kids[k], "Members")]
      BY <3>2, <3>3 DEF GetAll
    <3>5. members = [k \in 1..Len(kids) |-> members[k]] /\ DOMAIN members = 1..Len(kids)
          /\ \A k \in 1..Len(kids) : members[k] = Get("Declaration", kids[k], "Members")
      BY <3>4
    <3>6. IsSeq(members)
      BY <3>3, <3>5, FunSeq
    <3>7. ASSUME NEW s, Final(c, s), NEW k \in DOMAIN members
          PROVE  Makes(members[k], s, s1)
      <4>1. PICK i : i = members[k]
        OBVIOUS
      <4>2. i.do = "get" /\ i.slot = "Members" /\ i.as = "Declaration"
        BY <3>5, <4>1 DEF Get
      <4>3. \A g \in Given(i) : g \in Views /\ g.kind \in classof("Declaration") /\ Whole(g)
        BY <4>2 DEF Given
      <4>4. Accepts(V, "Members", Given(i), V)
        <5>1. Suits("ClassDecl", "Members", "Declaration")
          BY DeclSuits
        <5>2. V = {w \in Views : w.kind \in {"ClassDecl"} /\ Whole(w)}
          BY DEF V
        <5> QED
          BY <4>3, <5>1, <5>2, ClassMore
      <4>5. s.at = "holds" /\ s.res \subseteq V
        BY <1>4, <3>7
      <4>6. Accepts(s.res, "Members", Given(i), V)
        BY <4>4, <4>5 DEF Accepts
      <4>7. Makes(i, s, s1)
        BY <1>3, <4>2, <4>5, <4>6 DEF Makes, Result
      <4> QED
        BY <4>1, <4>7
    <3>8. CASE members = << >>
      BY <3>8, MakingsNone DEF Turn
    <3>9. CASE members # << >>
      <4>1. ASSUME NEW s, Final(c, s) PROVE Makings(members, s, s1)
        <5>1. \A k \in DOMAIN members : Makes(members[k], s, s1) /\ Makes(members[k], s1, s1)
          BY <1>7, <3>7, <4>1
        <5> QED
          BY <3>6, <3>9, <5>1, MakingsFrom
      <4> QED
        BY <1>7, <4>1 DEF Turn
    <3> QED
      BY <3>8, <3>9
  <2> QED
    BY <2>1, <2>2
<1> HIDE DEF members
<1>13. PICK blocks : blocks = turns \o << members >>
  OBVIOUS
<1>14. IsSeq(<< members >>) /\ DOMAIN << members >> = {1} /\ << members >>[1] = members
  BY DEF IsSeq
<1>15. IsSeq(blocks) /\ \A k \in DOMAIN blocks : Turn(c, blocks[k])
  <2>1. PICK last : last = << members >>
    OBVIOUS
  <2>2. IsSeq(last) /\ DOMAIN last = {1} /\ last[1] = members
    BY <1>14, <2>1
  <2>3. /\ IsSeq(turns \o last)
        /\ \A k \in DOMAIN (turns \o last) :
             \/ k \in DOMAIN turns /\ (turns \o last)[k] = turns[k]
             \/ k - Len(turns) \in DOMAIN last /\ (turns \o last)[k] = last[k - Len(turns)]
    BY <1>11, <2>2, ConcatSeq
  <2> QED
    BY <1>11, <1>12, <1>13, <2>1, <2>2, <2>3
<1>16. Visit(c) = Loop("Declaration", << << New(node) >> >> \o blocks)
  <2>1. PICK x, y : x = << << New(node) >> >> /\ y = << members >>
    OBVIOUS
  <2>2. IsSeq(x) /\ IsSeq(y)
    BY <2>1 DEF IsSeq
  <2>3. (x \o turns) \o y = x \o (turns \o y)
    BY <1>11, <2>2 DEF IsSeq
  <2> QED
    BY <1>1, <1>13, <2>1, <2>3
<1>17. PICK first, t : first = << New(node) >> /\ Final(c, t) /\ Makings(first, Start, t)
  BY <1>6
<1>18. Visit(c) = Loop("Declaration", << first >> \o blocks)
  BY <1>16, <1>17
<1> QED
  BY <1>15, <1>17, <1>18, LoopWhole

\* Every visitor ends with a whole node, unless its rule has none.
LEMMA AnyVisitWhole ==
  ASSUME TreeDone, NEW c \in DOMAIN tree, Answer(tree[c].sym) # "empty"
  PROVE  VisitWhole(c)
<1> DEFINE others == {"file", "topLevelObject", "parameter", "block", "catchClause", "label"}
           sym == tree[c].sym
<1>1. CASE sym \in DeclContexts
  BY <1>1, visitDeclaration_Whole, visitFunctionDecl_Whole, visitClassDecl_Whole,
     visitVariableDecl_Whole
  DEF DeclContexts
<1>2. CASE sym \in TypeContexts
  BY <1>2, visitType_Whole, visitParenType_Whole, visitTypeRef_Whole, visitFunctionType_Whole,
     visitBuiltinType_Whole
  DEF TypeContexts
<1>3. CASE sym \in StmtContexts
  BY <1>3, visitStatement_Whole, visitDeclStatement_Whole, visitAssignment_Whole,
     visitControlStatement_Whole, visitForStmt_Whole, visitForUpdate_Whole,
     visitForEachStmt_Whole, visitWhileStmt_Whole, visitDoWhileStmt_Whole, visitIfStmt_Whole,
     visitTryStatement_Whole, visitExprStmt_Whole
  DEF StmtContexts
<1>4. CASE sym \in ExprContexts
  BY <1>4, visitExpression_Whole, visitDisjunction_Whole, visitConjunction_Whole,
     visitEquality_Whole, visitComparison_Whole, visitInfixExpr_Whole, visitElvisExpr_Whole,
     visitBitwiseOr_Whole, visitBitwiseXor_Whole, visitBitwiseAnd_Whole,
     visitBitwiseShift_Whole, visitAddition_Whole, visitMultiplication_Whole, visitAsExpr_Whole,
     visitPrefixUnaryExpr_Whole, visitPostfixUnaryExpr_Whole, visitPrimaryExpr_Whole,
     visitParenExpr_Whole, visitLiteralConstant_Whole, visitCollectionLiteral_Whole,
     visitThisLiteral_Whole, visitIfExpression_Whole, visitJumpExpression_Whole
  DEF ExprContexts
<1>5. CASE sym \in others
  BY <1>5, visitFile_Whole, visitTopLevelObject_Whole, visitParameter_Whole, visitBlock_Whole,
     visitCatchClause_Whole, visitLabel_Whole
<1>6. CASE sym \notin DeclContexts \cup TypeContexts \cup StmtContexts \cup ExprContexts \cup others
  <2>1. Answer(sym) = "empty"
    BY <1>6 DEF Answer, DeclContexts, TypeContexts, StmtContexts, ExprContexts
  <2> QED
    BY <2>1
<1> QED
  BY <1>1, <1>2, <1>3, <1>4, <1>5, <1>6

-----------------------------------------------------------------------------
(* Chains of mixed direction.  One visitor alone allocates a comparison    *)
(* chain, and it reports the chain in the block that allocates it if the   *)
(* operators point both ways.                                              *)

Makers == {"new", "sub", "wrap"}

\* A chain some operators of which point up and others down.
Crossed(node) ==
  /\ node.kind = "ComparisonChainExpr"
  /\ ~ \A k \in DOMAIN node.ops : node.ops[k] \in {"Lt", "Le"}
  /\ ~ \A k \in DOMAIN node.ops : node.ops[k] \in {"Gt", "Ge"}

\* Code that allocates no chain.
Chainless(i) == i.do \in Makers => i.node.kind # "ComparisonChainExpr"
Plain(code) == IsSeq(code) /\ \A k \in DOMAIN code : Chainless(code[k])
PlainBlocks(blocks) == IsSeq(blocks) /\ \A b \in DOMAIN blocks : Plain(blocks[b])

\* Code that reports each crossed chain it allocates.
Warned(code) ==
  \A k \in DOMAIN code :
    (code[k].do \in Makers /\ Crossed(code[k].node)) =>
      \E j \in DOMAIN code : j > k /\ code[j].do = "report"

\* No instructions, one, two, three, five.
LEMMA PlainNone == Plain(<< >>)
  BY DEF Plain, IsSeq

LEMMA PlainOne == ASSUME NEW i, Chainless(i) PROVE Plain(<< i >>)
  BY DEF Plain, IsSeq

LEMMA PlainTwo == ASSUME NEW i, NEW j, Chainless(i), Chainless(j) PROVE Plain(<< i, j >>)
  BY DEF Plain, IsSeq

LEMMA PlainThree ==
  ASSUME NEW i, NEW j, NEW k, Chainless(i), Chainless(j), Chainless(k)
  PROVE  Plain(<< i, j, k >>)
  BY DEF Plain, IsSeq

LEMMA PlainFive ==
  ASSUME NEW i, NEW j, NEW k, NEW l, NEW m,
         Chainless(i), Chainless(j), Chainless(k), Chainless(l), Chainless(m)
  PROVE  Plain(<< i, j, k, l, m >>)
  BY DEF Plain, IsSeq

\* Code that runs after other code, or under a condition.
LEMMA PlainConcat == ASSUME NEW s, NEW t, Plain(s), Plain(t) PROVE Plain(s \o t)
  BY ConcatSeq DEF Plain

LEMMA PlainIf == ASSUME NEW cond, NEW code, cond => Plain(code) PROVE Plain(If(cond, code))
  BY PlainNone DEF If

\* The blocks of a loop.
LEMMA PlainFun ==
  ASSUME NEW n \in Int, NEW f, f = [i \in 1..n |-> f[i]], \A i \in 1..n : Plain(f[i])
  PROVE  PlainBlocks(f)
  BY FunSeq DEF PlainBlocks

LEMMA PlainBlockOne == ASSUME NEW s, Plain(s) PROVE PlainBlocks(<< s >>)
  BY DEF PlainBlocks, IsSeq

LEMMA PlainBlocksConcat ==
  ASSUME NEW s, NEW t, PlainBlocks(s), PlainBlocks(t)
  PROVE  PlainBlocks(s \o t)
  BY ConcatSeq DEF PlainBlocks

\* The constructors and what is set behind them do not change a kind.
LEMMA KindStays ==
  \A kind, from, to, c, op, flag, cond :
    LET node == Node(kind, from, to)
    IN  /\ node.kind = kind /\ Named(node, c).kind = kind /\ WithOp(node, op).kind = kind
        /\ Flagged(node, flag, cond).kind = kind
        /\ Flagged(Named(node, c), flag, cond).kind = kind
  BY DEF Node, Named, WithOp, Flagged

\* What the visitors allocate.
LEMMA PlainNodes ==
  \A kind, from, to, c, op, flag, cond, slot :
    kind # "ComparisonChainExpr" =>
      LET node == Node(kind, from, to)
      IN  /\ Chainless(New(node)) /\ Chainless(New(Named(node, c)))
          /\ Chainless(New(WithOp(node, op))) /\ Chainless(New(Flagged(node, flag, cond)))
          /\ Chainless(New(Flagged(Named(node, c), flag, cond)))
          /\ Chainless(Sub(Named(node, c)))
          /\ Chainless(Wrap(node, slot)) /\ Chainless(Wrap(WithOp(node, op), slot))
          /\ Chainless(Wrap(Flagged(node, flag, cond), slot))
          /\ Chainless(Wrap(Flagged(Named(node, c), flag, cond), slot))
  BY KindStays DEF Chainless, New, Sub, Wrap

\* The other instructions allocate nothing.
LEMMA PlainRest ==
  \A as, child, slot, vis, from, to, message :
    /\ Chainless(Get(as, child, slot)) /\ Chainless(getDecl(child, slot))
    /\ Chainless(getType(child, slot)) /\ Chainless(getStmt(child, slot))
    /\ Chainless(getBlock(child, slot)) /\ Chainless(getExpr(child, slot))
    /\ Chainless(Attach(slot)) /\ Chainless(SetVis(vis)) /\ Chainless(Error(from, to, message))
  BY DEF Chainless, Makers, Get, getDecl, getType, getStmt, getBlock, getExpr, Attach, SetVis, Error

\* A loop over the children of one rule.
LEMMA PlainAll ==
  ASSUME TreeDone, NEW c \in DOMAIN tree, NEW sym, NEW as, NEW slot
  PROVE  Plain(GetAll(as, Kids(c, sym), slot))
<1>1. PICK kids : kids = Kids(c, sym)
  OBVIOUS
<1>2. Len(kids) \in Int /\ DOMAIN kids = 1..Len(kids)
  BY <1>1, KidsOK, SeqFacts
<1>3. PICK code : code = GetAll(as, kids, slot)
  OBVIOUS
<1>4. DOMAIN code = 1..Len(kids) /\ \A k \in DOMAIN code : code[k] = Get(as, kids[k], slot)
  BY <1>2, <1>3 DEF GetAll
<1>5. code = [i \in 1..Len(kids) |-> code[i]]
  BY <1>2, <1>3 DEF GetAll
<1>6. IsSeq(code)
  BY <1>2, <1>5, FunSeq
<1> QED
  BY <1>1, <1>3, <1>4, <1>6, PlainRest DEF Plain

\* The type arguments and the arguments of a call.
LEMMA PlainTypeArgs == ASSUME TreeDone, NEW c \in DOMAIN tree PROVE Plain(TypeArgs(c))
<1> DEFINE args == The(c, "typeArguments")
           list == The(args, "typeArgument")
<1>1. CASE Has(c, "typeArguments") /\ Has(args, "typeArgument")
  <2>1. args \in DOMAIN tree
    BY <1>1, TheOK DEF Has
  <2>2. list \in DOMAIN tree
    BY <1>1, <2>1, TheOK DEF Has
  <2> HIDE DEF list
  <2>3. Plain(GetAll("Type", Kids(list, "type"), "TypeArgs"))
    BY <2>2, PlainAll
  <2> QED
    BY <2>3, PlainIf DEF TypeArgs, list
<1>2. CASE ~ (Has(c, "typeArguments") /\ Has(args, "typeArgument"))
  BY <1>2, PlainIf DEF TypeArgs
<1> QED
  BY <1>1, <1>2

LEMMA PlainArguments == ASSUME TreeDone, NEW c \in DOMAIN tree PROVE Plain(Arguments(c))
<1> DEFINE list == The(c, "valueArguments")
           args == Kids(list, "valueArgument")
           code == [i \in DOMAIN args |-> getExpr(The(args[i], "expression"), "Arguments")]
<1>1. CASE Has(c, "valueArguments")
  <2>1. list \in DOMAIN tree
    BY <1>1, TheOK DEF Has
  <2> HIDE DEF list
  <2>2. Len(args) \in Int /\ DOMAIN args = 1..Len(args)
    BY <2>1, KidsOK, SeqFacts
  <2> HIDE DEF args
  <2>3. IsSeq(code)
    BY <2>2, FunSeq
  <2>4. Plain(code)
    BY <2>3, PlainRest DEF Plain
  <2> QED
    BY <2>4, PlainIf DEF Arguments, args, list
<1>2. CASE ~ Has(c, "valueArguments")
  BY <1>2, PlainIf DEF Arguments
<1> QED
  BY <1>1, <1>2

\* What is shown of the visitor of c, whatever it returns.
VisitPlain(c) == PlainBlocks(Visit(c).code)

LEMMA PlainVisitor ==
  ASSUME NEW c, NEW any, NEW block, Visit(c) = Visitor(any, block), Plain(block)
  PROVE  VisitPlain(c)
  BY PlainBlockOne DEF VisitPlain, Visitor

LEMMA PlainLoop ==
  ASSUME NEW c, NEW any, NEW first, NEW blocks, Plain(first), PlainBlocks(blocks),
         Visit(c) = Loop(any, << first >> \o blocks)
  PROVE  VisitPlain(c)
  BY PlainBlockOne, PlainBlocksConcat DEF VisitPlain, Loop

LEMMA PlainForward == ASSUME NEW c, NEW x, Visit(c) = Forward(x) PROVE VisitPlain(c)
  BY PlainOne, PlainRest, PlainVisitor DEF Forward

\* The turns of foldLeftAssoc.
LEMMA PlainFold ==
  ASSUME NEW c, NEW sub, NEW i, NEW op, NEW reports, Plain(reports)
  PROVE  Plain(Fold(c, sub, i, op, reports))
<1>1. "BinaryExpr" # "ComparisonChainExpr"
  OBVIOUS
<1> QED
  BY <1>1, PlainOne, PlainConcat, PlainNodes, PlainRest DEF Fold

LEMMA PlainFolds ==
  ASSUME TreeDone, NEW c \in DOMAIN tree, NEW sub, NEW steps,
         steps = [i \in 1..(Len(Kids(c, sub)) - 1) |-> steps[i]],
         \A i \in 1..(Len(Kids(c, sub)) - 1) : \E pre, op :
            Plain(pre) /\ steps[i] = Fold(c, sub, i, op, pre),
         Visit(c) = Loop("Expr", << << getExpr(The(c, sub), Result) >> >> \o steps)
  PROVE  VisitPlain(c)
<1>1. Len(Kids(c, sub)) - 1 \in Int
  BY KidsOK, SeqFacts
<1>2. PlainBlocks(steps)
  BY <1>1, PlainFold, PlainFun
<1> QED
  BY <1>2, PlainOne, PlainRest, PlainLoop

-----------------------------------------------------------------------------
(* Every visitor but one is plain.                                         *)

\* visitFile.
LEMMA visitFile_Plain ==
  ASSUME TreeDone, NEW c \in DOMAIN tree, tree[c].sym = "file"
  PROVE  VisitPlain(c)
<1>1. Visit(c) = visitFile(c)
  BY DEF Visit
<1> QED
  BY <1>1, PlainAll, PlainOne, PlainConcat, PlainNodes, PlainVisitor DEF visitFile

\* visitTopLevelObject.
LEMMA visitTopLevelObject_Plain ==
  ASSUME TreeDone, NEW c \in DOMAIN tree, tree[c].sym = "topLevelObject"
  PROVE  VisitPlain(c)
<1>1. Visit(c) = visitTopLevelObject(c)
  BY DEF Visit
<1> QED
  BY <1>1, PlainTwo, PlainNodes, PlainRest, PlainVisitor DEF visitTopLevelObject

\* visitParameter.
LEMMA visitParameter_Plain ==
  ASSUME TreeDone, NEW c \in DOMAIN tree, tree[c].sym = "parameter"
  PROVE  VisitPlain(c)
<1>1. Visit(c) = visitParameter(c)
  BY DEF Visit
<1> QED
  BY <1>1, PlainOne, PlainTwo, PlainIf, PlainConcat, PlainNodes, PlainRest, PlainVisitor DEF visitParameter

\* visitBlock.
LEMMA visitBlock_Plain ==
  ASSUME TreeDone, NEW c \in DOMAIN tree, tree[c].sym = "block"
  PROVE  VisitPlain(c)
<1>1. Visit(c) = visitBlock(c)
  BY DEF Visit
<1> QED
  BY <1>1, PlainAll, PlainOne, PlainConcat, PlainNodes, PlainVisitor DEF visitBlock

\* visitCatchClause.
LEMMA visitCatchClause_Plain ==
  ASSUME TreeDone, NEW c \in DOMAIN tree, tree[c].sym = "catchClause"
  PROVE  VisitPlain(c)
<1>1. Visit(c) = visitCatchClause(c)
  BY DEF Visit
<1> QED
  BY <1>1, PlainFive, PlainNodes, PlainRest, PlainVisitor DEF visitCatchClause

\* visitLabel.
LEMMA visitLabel_Plain ==
  ASSUME TreeDone, NEW c \in DOMAIN tree, tree[c].sym = "label"
  PROVE  VisitPlain(c)
<1>1. Visit(c) = visitLabel(c)
  BY DEF Visit
<1> QED
  BY <1>1, PlainOne, PlainNodes, PlainVisitor DEF visitLabel

\* visitFunctionDecl.
LEMMA visitFunctionDecl_Plain ==
  ASSUME TreeDone, NEW c \in DOMAIN tree, tree[c].sym = "functionDecl"
  PROVE  VisitPlain(c)
<1>1. Visit(c) = visitFunctionDecl(c)
  BY DEF Visit
<1> QED
  BY <1>1, PlainAll, PlainThree, PlainConcat, PlainNodes, PlainRest, PlainVisitor DEF visitFunctionDecl

\* visitVariableDecl.
LEMMA visitVariableDecl_Plain ==
  ASSUME TreeDone, NEW c \in DOMAIN tree, tree[c].sym = "variableDecl"
  PROVE  VisitPlain(c)
<1>1. Visit(c) = visitVariableDecl(c)
  BY DEF Visit
<1> QED
  BY <1>1, PlainOne, PlainIf, PlainConcat, PlainNodes, PlainRest, PlainVisitor DEF visitVariableDecl

\* visitBuiltinType.
LEMMA visitBuiltinType_Plain ==
  ASSUME TreeDone, NEW c \in DOMAIN tree, tree[c].sym = "builtinType"
  PROVE  VisitPlain(c)
<1>1. Visit(c) = visitBuiltinType(c)
  BY DEF Visit
<1> QED
  BY <1>1, PlainOne, PlainNodes, PlainVisitor DEF visitBuiltinType

\* visitTypeRef.
LEMMA visitTypeRef_Plain ==
  ASSUME TreeDone, NEW c \in DOMAIN tree, tree[c].sym = "typeRef"
  PROVE  VisitPlain(c)
<1>1. Visit(c) = visitTypeRef(c)
  BY DEF Visit
<1> QED
  BY <1>1, PlainOne, PlainConcat, PlainNodes, PlainTypeArgs, PlainVisitor DEF visitTypeRef

\* visitDeclStatement.
LEMMA visitDeclStatement_Plain ==
  ASSUME TreeDone, NEW c \in DOMAIN tree, tree[c].sym = "declStatement"
  PROVE  VisitPlain(c)
<1>1. Visit(c) = visitDeclStatement(c)
  BY DEF Visit
<1> QED
  BY <1>1, PlainTwo, PlainNodes, PlainRest, PlainVisitor DEF visitDeclStatement

\* visitAssignment.
LEMMA visitAssignment_Plain ==
  ASSUME TreeDone, NEW c \in DOMAIN tree, tree[c].sym = "assignment"
  PROVE  VisitPlain(c)
<1>1. Visit(c) = visitAssignment(c)
  BY DEF Visit
<1> QED
  BY <1>1, PlainThree, PlainNodes, PlainRest, PlainVisitor DEF visitAssignment

\* visitForEachStmt.
LEMMA visitForEachStmt_Plain ==
  ASSUME TreeDone, NEW c \in DOMAIN tree, tree[c].sym = "forEachStmt"
  PROVE  VisitPlain(c)
<1>1. Visit(c) = visitForEachStmt(c)
  BY DEF Visit
<1> QED
  BY <1>1, PlainThree, PlainNodes, PlainRest, PlainVisitor DEF visitForEachStmt

\* visitWhileStmt.
LEMMA visitWhileStmt_Plain ==
  ASSUME TreeDone, NEW c \in DOMAIN tree, tree[c].sym = "whileStmt"
  PROVE  VisitPlain(c)
<1>1. Visit(c) = visitWhileStmt(c)
  BY DEF Visit
<1> QED
  BY <1>1, PlainThree, PlainNodes, PlainRest, PlainVisitor DEF visitWhileStmt

\* visitDoWhileStmt.
LEMMA visitDoWhileStmt_Plain ==
  ASSUME TreeDone, NEW c \in DOMAIN tree, tree[c].sym = "doWhileStmt"
  PROVE  VisitPlain(c)
<1>1. Visit(c) = visitDoWhileStmt(c)
  BY DEF Visit
<1> QED
  BY <1>1, PlainThree, PlainNodes, PlainRest, PlainVisitor DEF visitDoWhileStmt

\* visitExprStmt.
LEMMA visitExprStmt_Plain ==
  ASSUME TreeDone, NEW c \in DOMAIN tree, tree[c].sym = "exprStmt"
  PROVE  VisitPlain(c)
<1>1. Visit(c) = visitExprStmt(c)
  BY DEF Visit
<1> QED
  BY <1>1, PlainTwo, PlainNodes, PlainRest, PlainVisitor DEF visitExprStmt

\* visitForUpdate.
LEMMA visitForUpdate_Plain ==
  ASSUME TreeDone, NEW c \in DOMAIN tree, tree[c].sym = "forUpdate"
  PROVE  VisitPlain(c)
<1>1. Visit(c) = visitForUpdate(c)
  BY DEF Visit
<1> QED
  BY <1>1, PlainOne, PlainTwo, PlainNodes, PlainRest, PlainVisitor DEF visitForUpdate

\* visitIfStmt.
LEMMA visitIfStmt_Plain ==
  ASSUME TreeDone, NEW c \in DOMAIN tree, tree[c].sym = "ifStmt"
  PROVE  VisitPlain(c)
<1>1. Visit(c) = visitIfStmt(c)
  BY DEF Visit
<1> QED
  BY <1>1, PlainOne, PlainThree, PlainIf, PlainConcat, PlainNodes, PlainRest, PlainVisitor DEF visitIfStmt

\* visitTryStatement.
LEMMA visitTryStatement_Plain ==
  ASSUME TreeDone, NEW c \in DOMAIN tree, tree[c].sym = "tryStatement"
  PROVE  VisitPlain(c)
<1>1. Visit(c) = visitTryStatement(c)
  BY DEF Visit
<1> QED
  BY <1>1, PlainAll, PlainOne, PlainTwo, PlainIf, PlainConcat, PlainNodes, PlainRest, PlainVisitor DEF visitTryStatement

\* visitAsExpr.
LEMMA visitAsExpr_Plain ==
  ASSUME TreeDone, NEW c \in DOMAIN tree, tree[c].sym = "asExpr"
  PROVE  VisitPlain(c)
<1>1. Visit(c) = visitAsExpr(c)
  BY DEF Visit
<1> QED
  BY <1>1, PlainOne, PlainTwo, PlainIf, PlainConcat, PlainNodes, PlainRest, PlainVisitor DEF visitAsExpr

\* visitCollectionLiteral.
LEMMA visitCollectionLiteral_Plain ==
  ASSUME TreeDone, NEW c \in DOMAIN tree, tree[c].sym = "collectionLiteral"
  PROVE  VisitPlain(c)
<1>1. Visit(c) = visitCollectionLiteral(c)
  BY DEF Visit
<1> QED
  BY <1>1, PlainAll, PlainOne, PlainConcat, PlainNodes, PlainVisitor DEF visitCollectionLiteral

\* visitThisLiteral.
LEMMA visitThisLiteral_Plain ==
  ASSUME TreeDone, NEW c \in DOMAIN tree, tree[c].sym = "thisLiteral"
  PROVE  VisitPlain(c)
<1>1. Visit(c) = visitThisLiteral(c)
  BY DEF Visit
<1> QED
  BY <1>1, PlainOne, PlainNodes, PlainVisitor DEF visitThisLiteral

\* visitIfExpression.
LEMMA visitIfExpression_Plain ==
  ASSUME TreeDone, NEW c \in DOMAIN tree, tree[c].sym = "ifExpression"
  PROVE  VisitPlain(c)
<1>1. Visit(c) = visitIfExpression(c)
  BY DEF Visit
<1> QED
  BY <1>1, PlainOne, PlainThree, PlainIf, PlainConcat, PlainNodes, PlainRest, PlainVisitor DEF visitIfExpression

\* visitFunctionType.
LEMMA visitFunctionType_Plain ==
  ASSUME TreeDone, NEW c \in DOMAIN tree, tree[c].sym = "functionType"
  PROVE  VisitPlain(c)
<1> DEFINE list == The(c, "paramTypeList")
<1>1. list # Null => Plain(GetAll("Type", Kids(list, "type"), "Parameters"))
  BY TheOK, PlainAll
<1>2. Plain(<< New(Node("FunctionType", c, c)), getType(The(c, "type"), "ReturnType") >>)
  BY PlainNodes, PlainRest, PlainTwo
<1> QED
  BY <1>1, <1>2, PlainIf, PlainConcat, PlainVisitor DEF Visit, visitFunctionType

\* visitForStmt.
LEMMA visitForStmt_Plain ==
  ASSUME TreeDone, NEW c \in DOMAIN tree, tree[c].sym = "forStmt"
  PROVE  VisitPlain(c)
<1> DEFINE decls == The(c, "variableDecls")
           inits == GetAll("Declaration", Kids(decls, "variableDecl"), "InitStmts")
           condition == << getExpr(The(c, "expression"), "Condition") >>
           update == << getStmt(The(c, "forUpdate"), "Update") >>
           body == << getBlock(The(c, "block"), "Body") >>
           code == << New(Node("ForStmt", c, c)) >> \o If(decls # Null, inits) \o
             If(Has(c, "expression"), condition) \o If(Has(c, "forUpdate"), update) \o body
<1>1. Plain(If(decls # Null, inits))
  BY TheOK, PlainAll, PlainIf
<1>2. Plain(condition) /\ Plain(update) /\ Plain(body)
  BY PlainOne, PlainRest
<1>3. Plain(code)
  BY <1>1, <1>2, PlainNodes, PlainOne, PlainIf, PlainConcat
<1>4. Visit(c) = Visitor("Statement", code)
  BY DEF Visit, visitForStmt
<1> QED
  BY <1>3, <1>4, PlainVisitor

\* visitDeclaration.
LEMMA visitDeclaration_Plain ==
  ASSUME TreeDone, NEW c \in DOMAIN tree, tree[c].sym = "declaration"
  PROVE  VisitPlain(c)
  BY PlainRest, PlainOne, PlainIf, PlainConcat, PlainVisitor DEF Visit, visitDeclaration

\* The visitors that hand on what another returns.
LEMMA Forwards_Plain ==
  ASSUME TreeDone, NEW c \in DOMAIN tree,
         tree[c].sym \in {"parenType", "expression", "parenExpr", "statement", "controlStatement"}
  PROVE  VisitPlain(c)
<1>1. CASE tree[c].sym = "parenType"
  BY <1>1, PlainForward DEF Visit, visitParenType
<1>2. CASE tree[c].sym = "expression"
  BY <1>2, PlainForward DEF Visit, visitExpression
<1>3. CASE tree[c].sym = "parenExpr"
  BY <1>3, PlainForward DEF Visit, visitParenExpr
<1>4. CASE tree[c].sym = "statement"
  BY <1>4, PlainForward DEF Visit, visitStatement
<1>5. CASE tree[c].sym = "controlStatement"
  BY <1>5, PlainForward DEF Visit, visitControlStatement
<1> QED
  BY <1>1, <1>2, <1>3, <1>4, <1>5

\* visitPrimaryExpr.
LEMMA visitPrimaryExpr_Plain ==
  ASSUME TreeDone, NEW c \in DOMAIN tree, tree[c].sym = "primaryExpr"
  PROVE  VisitPlain(c)
<1>1. CASE Has(c, "IDENTIFIER")
  BY <1>1, PlainNodes, PlainOne, PlainVisitor DEF Visit, visitPrimaryExpr
<1>2. CASE ~ Has(c, "IDENTIFIER")
  BY <1>2, PlainForward DEF Visit, visitPrimaryExpr
<1> QED
  BY <1>1, <1>2

\* visitLiteralConstant: no literal is a chain.
LEMMA visitLiteralConstant_Plain ==
  ASSUME TreeDone, NEW c \in DOMAIN tree, tree[c].sym = "literalConstant"
  PROVE  VisitPlain(c)
<1> DEFINE token == GetToken(c, DOMAIN LiteralKind)
           bad == tree[The(c, token)].text = "bad"
           value == IF ~ bad THEN "decoded"
                    ELSE IF token \in {"INTEGER_LITERAL", "CHAR_LITERAL"} THEN "default"
                    ELSE "raw"
           new == << New(Flagged(Node(LiteralKind[token], c, c), value, TRUE)) >>
           error == << Error(c, c, LiteralFault[token]) >>
<1>1. LiteralKind[token] # "ComparisonChainExpr"
  BY OtherTokens
<1>2. Visit(c) = Visitor("Expr", new \o If(bad, error))
  BY DEF Visit, visitLiteralConstant
<1> HIDE DEF token, bad, value
<1>3. Plain(new) /\ Plain(error)
  BY <1>1, PlainNodes, PlainRest, PlainOne
<1> QED
  BY <1>2, <1>3, PlainIf, PlainConcat, PlainVisitor

\* visitJumpExpression.
LEMMA visitJumpExpression_Plain ==
  ASSUME TreeDone, NEW c \in DOMAIN tree, tree[c].sym = "jumpExpression"
  PROVE  VisitPlain(c)
<1>1. Visit(c) = visitJumpExpression(c)
  BY DEF Visit
<1> QED
  BY <1>1, PlainOne, PlainIf, PlainConcat, PlainNodes, PlainRest, PlainVisitor
  DEF visitJumpExpression

\* visitDisjunction.
LEMMA visitDisjunction_Plain ==
  ASSUME TreeDone, NEW c \in DOMAIN tree, tree[c].sym = "disjunction"
  PROVE  VisitPlain(c)
<1> DEFINE n == Len(Kids(c, "conjunction")) - 1
           op(i) == "Disj"
           steps == [i \in 1..n |-> Fold(c, "conjunction", i, op(i), Silent(i))]
<1>1. Visit(c) = Loop("Expr", << << getExpr(The(c, "conjunction"), Result) >> >> \o steps)
  BY DEF Visit, visitDisjunction, foldLeftAssoc
<1>2. \A i \in 1..n : \E pre, o : Plain(pre) /\ steps[i] = Fold(c, "conjunction", i, o, pre)
  BY PlainNone DEF Silent
<1>3. steps = [i \in 1..n |-> steps[i]]
  OBVIOUS
<1> HIDE DEF steps
<1> QED
  BY <1>1, <1>2, <1>3, PlainFolds

\* visitConjunction.
LEMMA visitConjunction_Plain ==
  ASSUME TreeDone, NEW c \in DOMAIN tree, tree[c].sym = "conjunction"
  PROVE  VisitPlain(c)
<1> DEFINE n == Len(Kids(c, "equality")) - 1
           op(i) == "Conj"
           steps == [i \in 1..n |-> Fold(c, "equality", i, op(i), Silent(i))]
<1>1. Visit(c) = Loop("Expr", << << getExpr(The(c, "equality"), Result) >> >> \o steps)
  BY DEF Visit, visitConjunction, foldLeftAssoc
<1>2. \A i \in 1..n : \E pre, o : Plain(pre) /\ steps[i] = Fold(c, "equality", i, o, pre)
  BY PlainNone DEF Silent
<1>3. steps = [i \in 1..n |-> steps[i]]
  OBVIOUS
<1> HIDE DEF steps
<1> QED
  BY <1>1, <1>2, <1>3, PlainFolds

\* visitEquality.
LEMMA visitEquality_Plain ==
  ASSUME TreeDone, NEW c \in DOMAIN tree, tree[c].sym = "equality"
  PROVE  VisitPlain(c)
<1> DEFINE n == Len(Kids(c, "comparison")) - 1
           op(i) == getBinaryOp(Nth(c, "equalityOperator", i))
           steps == [i \in 1..n |-> Fold(c, "comparison", i, op(i), Silent(i))]
<1>1. Visit(c) = Loop("Expr", << << getExpr(The(c, "comparison"), Result) >> >> \o steps)
  BY DEF Visit, visitEquality, foldLeftAssoc
<1>2. \A i \in 1..n : \E pre, o : Plain(pre) /\ steps[i] = Fold(c, "comparison", i, o, pre)
  BY PlainNone DEF Silent
<1>3. steps = [i \in 1..n |-> steps[i]]
  OBVIOUS
<1> HIDE DEF steps
<1> QED
  BY <1>1, <1>2, <1>3, PlainFolds

\* visitElvisExpr.
LEMMA visitElvisExpr_Plain ==
  ASSUME TreeDone, NEW c \in DOMAIN tree, tree[c].sym = "elvisExpr"
  PROVE  VisitPlain(c)
<1> DEFINE n == Len(Kids(c, "bitwiseOr")) - 1
           op(i) == "Elvis"
           steps == [i \in 1..n |-> Fold(c, "bitwiseOr", i, op(i), Silent(i))]
<1>1. Visit(c) = Loop("Expr", << << getExpr(The(c, "bitwiseOr"), Result) >> >> \o steps)
  BY DEF Visit, visitElvisExpr, foldLeftAssoc
<1>2. \A i \in 1..n : \E pre, o : Plain(pre) /\ steps[i] = Fold(c, "bitwiseOr", i, o, pre)
  BY PlainNone DEF Silent
<1>3. steps = [i \in 1..n |-> steps[i]]
  OBVIOUS
<1> HIDE DEF steps
<1> QED
  BY <1>1, <1>2, <1>3, PlainFolds

\* visitBitwiseOr.
LEMMA visitBitwiseOr_Plain ==
  ASSUME TreeDone, NEW c \in DOMAIN tree, tree[c].sym = "bitwiseOr"
  PROVE  VisitPlain(c)
<1> DEFINE n == Len(Kids(c, "bitwiseXor")) - 1
           op(i) == "BitOr"
           steps == [i \in 1..n |-> Fold(c, "bitwiseXor", i, op(i), Silent(i))]
<1>1. Visit(c) = Loop("Expr", << << getExpr(The(c, "bitwiseXor"), Result) >> >> \o steps)
  BY DEF Visit, visitBitwiseOr, foldLeftAssoc
<1>2. \A i \in 1..n : \E pre, o : Plain(pre) /\ steps[i] = Fold(c, "bitwiseXor", i, o, pre)
  BY PlainNone DEF Silent
<1>3. steps = [i \in 1..n |-> steps[i]]
  OBVIOUS
<1> HIDE DEF steps
<1> QED
  BY <1>1, <1>2, <1>3, PlainFolds

\* visitBitwiseXor.
LEMMA visitBitwiseXor_Plain ==
  ASSUME TreeDone, NEW c \in DOMAIN tree, tree[c].sym = "bitwiseXor"
  PROVE  VisitPlain(c)
<1> DEFINE n == Len(Kids(c, "bitwiseAnd")) - 1
           op(i) == "BitXor"
           steps == [i \in 1..n |-> Fold(c, "bitwiseAnd", i, op(i), Silent(i))]
<1>1. Visit(c) = Loop("Expr", << << getExpr(The(c, "bitwiseAnd"), Result) >> >> \o steps)
  BY DEF Visit, visitBitwiseXor, foldLeftAssoc
<1>2. \A i \in 1..n : \E pre, o : Plain(pre) /\ steps[i] = Fold(c, "bitwiseAnd", i, o, pre)
  BY PlainNone DEF Silent
<1>3. steps = [i \in 1..n |-> steps[i]]
  OBVIOUS
<1> HIDE DEF steps
<1> QED
  BY <1>1, <1>2, <1>3, PlainFolds

\* visitBitwiseAnd.
LEMMA visitBitwiseAnd_Plain ==
  ASSUME TreeDone, NEW c \in DOMAIN tree, tree[c].sym = "bitwiseAnd"
  PROVE  VisitPlain(c)
<1> DEFINE n == Len(Kids(c, "bitwiseShift")) - 1
           op(i) == "BitAnd"
           steps == [i \in 1..n |-> Fold(c, "bitwiseShift", i, op(i), Silent(i))]
<1>1. Visit(c) = Loop("Expr", << << getExpr(The(c, "bitwiseShift"), Result) >> >> \o steps)
  BY DEF Visit, visitBitwiseAnd, foldLeftAssoc
<1>2. \A i \in 1..n : \E pre, o : Plain(pre) /\ steps[i] = Fold(c, "bitwiseShift", i, o, pre)
  BY PlainNone DEF Silent
<1>3. steps = [i \in 1..n |-> steps[i]]
  OBVIOUS
<1> HIDE DEF steps
<1> QED
  BY <1>1, <1>2, <1>3, PlainFolds

\* visitAddition.
LEMMA visitAddition_Plain ==
  ASSUME TreeDone, NEW c \in DOMAIN tree, tree[c].sym = "addition"
  PROVE  VisitPlain(c)
<1> DEFINE n == Len(Kids(c, "multiplication")) - 1
           op(i) == getBinaryOp(Nth(c, "additionOperator", i))
           steps == [i \in 1..n |-> Fold(c, "multiplication", i, op(i), Silent(i))]
<1>1. Visit(c) = Loop("Expr", << << getExpr(The(c, "multiplication"), Result) >> >> \o steps)
  BY DEF Visit, visitAddition, foldLeftAssoc
<1>2. \A i \in 1..n : \E pre, o : Plain(pre) /\ steps[i] = Fold(c, "multiplication", i, o, pre)
  BY PlainNone DEF Silent
<1>3. steps = [i \in 1..n |-> steps[i]]
  OBVIOUS
<1> HIDE DEF steps
<1> QED
  BY <1>1, <1>2, <1>3, PlainFolds

\* visitMultiplication.
LEMMA visitMultiplication_Plain ==
  ASSUME TreeDone, NEW c \in DOMAIN tree, tree[c].sym = "multiplication"
  PROVE  VisitPlain(c)
<1> DEFINE n == Len(Kids(c, "asExpr")) - 1
           op(i) == getBinaryOp(Nth(c, "multiplicationOperator", i))
           steps == [i \in 1..n |-> Fold(c, "asExpr", i, op(i), Silent(i))]
<1>1. Visit(c) = Loop("Expr", << << getExpr(The(c, "asExpr"), Result) >> >> \o steps)
  BY DEF Visit, visitMultiplication, foldLeftAssoc
<1>2. \A i \in 1..n : \E pre, o : Plain(pre) /\ steps[i] = Fold(c, "asExpr", i, o, pre)
  BY PlainNone DEF Silent
<1>3. steps = [i \in 1..n |-> steps[i]]
  OBVIOUS
<1> HIDE DEF steps
<1> QED
  BY <1>1, <1>2, <1>3, PlainFolds

\* visitBitwiseShift, whose turns may report.
LEMMA visitBitwiseShift_Plain ==
  ASSUME TreeDone, NEW c \in DOMAIN tree, tree[c].sym = "bitwiseShift"
  PROVE  VisitPlain(c)
<1> DEFINE n == Len(Kids(c, "addition")) - 1
           ops == Kids(c, "bitwiseShiftOperator")
           apart(i) ==
             /\ ~ Has(ops[i], "LSHIFT")
             /\ tree[Nth(ops[i], "GT", 2)].start # tree[Nth(ops[i], "GT", 1)].stop + 1
           op(i) == IF Has(ops[i], "LSHIFT") THEN "LShift" ELSE "RShift"
           pre(i) == If(apart(i), << Error(Nth(ops[i], "GT", 1), Nth(ops[i], "GT", 2),
                       "right shift requires two adjacent '>' tokens") >>)
           steps == [i \in 1..n |-> Fold(c, "addition", i, op(i), pre(i))]
<1>1. Visit(c) = Loop("Expr", << << getExpr(The(c, "addition"), Result) >> >> \o steps)
  BY DEF Visit, visitBitwiseShift, foldLeftAssoc
<1>2. \A i : Plain(pre(i))
  BY PlainRest, PlainOne, PlainIf
<1>3. \A i \in 1..n : steps[i] = Fold(c, "addition", i, op(i), pre(i))
  OBVIOUS
<1>4. steps = [i \in 1..n |-> steps[i]]
  OBVIOUS
<1> HIDE DEF steps, pre, op
<1>5. \A i \in 1..n : \E p, o : Plain(p) /\ steps[i] = Fold(c, "addition", i, o, p)
  BY <1>2, <1>3
<1> QED
  BY <1>1, <1>4, <1>5, PlainFolds

\* visitClassDecl.
LEMMA visitClassDecl_Plain ==
  ASSUME TreeDone, NEW c \in DOMAIN tree, tree[c].sym = "classDecl"
  PROVE  VisitPlain(c)
<1> DEFINE params == The(c, "typeParameters")
           body == The(c, "classBody")
           typeParam(p) ==
             << Sub(Named(Node("TypeParam", p, p), p)) >> \o
             If(Has(p, "type"), << getType(The(p, "type"), "DefaultType") >>) \o
             << Attach("TypeParams") >>
           list == IF params # Null THEN Kids(params, "typeParameter") ELSE << >>
           steps == [i \in DOMAIN list |-> typeParam(list[i])]
           members == GetAll("Declaration", Kids(body, "declaration"), "Members")
           last == << If(body # Null, members) >>
           head == << New(Named(Node("ClassDecl", c, c), c)) >>
<1>1. IsSeq(list)
  <2>1. params # Null => params \in DOMAIN tree
    BY TheOK
  <2>2. IsSeq(<< >>)
    BY DEF IsSeq
  <2> HIDE DEF params
  <2> QED
    BY <2>1, <2>2, KidsOK
<1>2. PlainBlocks(steps)
  <2>1. \A p : Plain(typeParam(p))
    BY PlainNodes, PlainRest, PlainOne, PlainIf, PlainConcat
  <2>2. Len(list) \in Int /\ DOMAIN list = 1..Len(list)
    BY <1>1, SeqFacts
  <2> HIDE DEF typeParam, list
  <2>3. \A i \in 1..Len(list) : Plain(steps[i])
    BY <2>1, <2>2
  <2>4. steps = [i \in 1..Len(list) |-> steps[i]]
    BY <2>2
  <2> QED
    BY <2>2, <2>3, <2>4, PlainFun
<1>3. PlainBlocks(last) /\ Plain(head)
  BY TheOK, PlainAll, PlainIf, PlainNodes, PlainOne, PlainBlockOne
<1>4. Visit(c) = Loop("Declaration", << head >> \o steps \o last)
  BY DEF Visit, visitClassDecl
<1> HIDE DEF steps, last, head
<1>5. PlainBlocks(<< head >> \o steps \o last)
  BY <1>2, <1>3, PlainBlockOne, PlainBlocksConcat
<1> QED
  BY <1>4, <1>5 DEF VisitPlain, Loop

\* visitType.
LEMMA visitType_Plain ==
  ASSUME TreeDone, NEW c \in DOMAIN tree, tree[c].sym = "type"
  PROVE  VisitPlain(c)
<1> DEFINE sizes == Kids(c, "expression")
           first == << getType(available(c, << "parenType", "typeRef", "builtinType" >>), Result) >>
           step(i) == << Wrap(Node("ArrayType", c, Nth(c, "RBRACKET", i)), "ElementType"),
                         getExpr(sizes[i], "Size") >>
           steps == [i \in DOMAIN sizes |-> step(i)]
<1>1. CASE Has(c, "functionType")
  BY <1>1, PlainForward DEF Visit, visitType
<1>2. CASE ~ Has(c, "functionType")
  <2>1. Plain(first)
    BY PlainRest, PlainOne
  <2>2. Len(sizes) \in Int /\ DOMAIN sizes = 1..Len(sizes)
    BY KidsOK, SeqFacts
  <2>3. \A i : Plain(step(i))
    BY PlainNodes, PlainRest, PlainTwo
  <2>4. Visit(c) = Loop("Type", << first >> \o steps)
    BY <1>2 DEF Visit, visitType
  <2>5. PlainBlocks(steps)
    <3> HIDE DEF step, sizes
    <3>1. steps = [i \in 1..Len(sizes) |-> steps[i]] /\ \A i \in 1..Len(sizes) : Plain(steps[i])
      BY <2>2, <2>3
    <3> QED
      BY <2>2, <3>1, PlainFun
  <2> HIDE DEF steps, first
  <2> QED
    BY <2>1, <2>4, <2>5, PlainLoop
<1> QED
  BY <1>1, <1>2

\* visitInfixExpr.
LEMMA visitInfixExpr_Plain ==
  ASSUME TreeDone, NEW c \in DOMAIN tree, tree[c].sym = "infixExpr"
  PROVE  VisitPlain(c)
<1> DEFINE first == The(c, "elvisExpr")
           ins == Elements(c, "inOperator")
           ops == ins \cup Elements(c, "isOperator")
           upTo(o, S) == Cardinality({p \in S : tree[p].start <= tree[o].start})
           op(i) == CHOOSE o \in ops : upTo(o, ops) = i
           in(sub) == << Wrap(WithOp(Node("BinaryExpr", first, sub), "In"), "LHS"),
                         getExpr(sub, "RHS") >>
           is(type) == << Wrap(Node("IsExpr", first, type), "Operand"),
                          getType(type, "CheckType") >>
           step(i) == IF op(i) \in ins THEN in(Nth(c, "elvisExpr", upTo(op(i), ins) + 1))
                      ELSE is(Nth(c, "type", i - upTo(op(i), ins)))
           n == Len(Kids(c, "inOperator")) + Len(Kids(c, "isOperator"))
           steps == [i \in 1..n |-> step(i)]
<1>1. Visit(c) = Loop("Expr", << << getExpr(first, Result) >> >> \o steps)
  BY DEF Visit, visitInfixExpr, Elements
<1>2. \A x : Plain(in(x)) /\ Plain(is(x))
  BY PlainNodes, PlainRest, PlainTwo
<1>3. \A i : Plain(step(i))
  <2> HIDE DEF in, is, op, upTo, ins
  <2> QED
    BY <1>2
<1>4. n \in Int
  BY KidsOK, SeqFacts
<1>5. PlainBlocks(steps)
  <2> HIDE DEF step, n
  <2> QED
    BY <1>3, <1>4, PlainFun
<1> HIDE DEF steps
<1> QED
  BY <1>1, <1>5, PlainOne, PlainRest, PlainLoop

\* visitPrefixUnaryExpr.
LEMMA visitPrefixUnaryExpr_Plain ==
  ASSUME TreeDone, NEW c \in DOMAIN tree, tree[c].sym = "prefixUnaryExpr"
  PROVE  VisitPlain(c)
<1> DEFINE operand == The(c, "postfixUnaryExpr")
           prefixes == Kids(c, "unaryPrefix")
           n == Len(prefixes)
           unary(p) ==
             << Wrap(WithOp(Node("UnaryExpr", p, operand),
                            getPrefixUnaryOp(The(p, "prefixUnaryOperator"))), "Operand") >>
           steps == [i \in 1..n |-> unary(prefixes[n + 1 - i])]
<1>1. Visit(c) = Loop("Expr", << << getExpr(operand, Result) >> >> \o steps)
  BY DEF Visit, visitPrefixUnaryExpr
<1>2. \A p : Plain(unary(p))
  BY PlainNodes, PlainOne
<1>3. n \in Int
  BY KidsOK, SeqFacts
<1>4. PlainBlocks(steps)
  <2> HIDE DEF unary, n
  <2> QED
    BY <1>2, <1>3, PlainFun
<1> HIDE DEF steps
<1> QED
  BY <1>1, <1>4, PlainOne, PlainRest, PlainLoop

\* visitPostfixUnaryExpr.
LEMMA visitPostfixUnaryExpr_Plain ==
  ASSUME TreeDone, NEW c \in DOMAIN tree, tree[c].sym = "postfixUnaryExpr"
  PROVE  VisitPlain(c)
<1> DEFINE posts == Kids(c, "unaryPostfix")
           steps == [i \in DOMAIN posts |-> Suffix(c, posts[i])]
<1>1. Visit(c) = Loop("Expr", << << getExpr(The(c, "primaryExpr"), Result) >> >> \o steps)
  BY DEF Visit, visitPostfixUnaryExpr
<1>2. ASSUME NEW p \in DOMAIN tree PROVE Plain(Suffix(c, p))
  <2>1. PICK call, index, nav : /\ call = The(p, "callSuffix") /\ index = The(p, "indexingSuffix")
                                /\ nav = The(p, "navigationSuffix")
    OBVIOUS
  <2>2. call # Null => call \in DOMAIN tree
    BY <2>1, TheOK
  <2>3. call # Null => Plain(TypeArgs(call)) /\ Plain(Arguments(call))
    BY <2>2, PlainTypeArgs, PlainArguments
  <2>4. CASE call # Null
    BY <2>1, <2>3, <2>4, PlainNodes, PlainOne, PlainConcat DEF Suffix
  <2>5. CASE call = Null
    BY <2>1, <2>5, PlainNodes, PlainRest, PlainOne, PlainTwo DEF Suffix
  <2> QED
    BY <2>4, <2>5
<1>3. Len(posts) \in Int /\ DOMAIN posts = 1..Len(posts)
      /\ \A i \in DOMAIN posts : posts[i] \in DOMAIN tree
  BY KidsOK, SeqFacts
<1>4. PlainBlocks(steps)
  <2> HIDE DEF posts
  <2>1. steps = [i \in 1..Len(posts) |-> steps[i]] /\ \A i \in 1..Len(posts) : Plain(steps[i])
    BY <1>2, <1>3
  <2> QED
    BY <1>3, <2>1, PlainFun
<1> HIDE DEF steps
<1> QED
  BY <1>1, <1>4, PlainOne, PlainRest, PlainLoop

\* What is shown of every visitor.
VisitWarned(c) == \A b \in DOMAIN Visit(c).code : Warned(Visit(c).code[b])

LEMMA PlainWarned == ASSUME NEW c, VisitPlain(c) PROVE VisitWarned(c)
  BY DEF VisitPlain, VisitWarned, PlainBlocks, Plain, Chainless, Warned, Crossed

\* Every element of u is one of its parts s and t of lengths m and n.
Parts(u, s, t, m, n) ==
  /\ IsSeq(u) /\ m \in Nat /\ n \in Nat
  /\ DOMAIN u = 1..(m + n) /\ DOMAIN s = 1..m /\ DOMAIN t = 1..n
  /\ \A i \in 1..(m + n) : (i \in 1..m /\ u[i] = s[i]) \/ (i - m \in 1..n /\ u[i] = t[i - m])

LEMMA Parted ==
  ASSUME NEW s, NEW t, IsSeq(s), IsSeq(t)
  PROVE  Parts(s \o t, s, t, Len(s), Len(t))
<1>1. PICK w, m, n : w = s \o t /\ m = Len(s) /\ n = Len(t)
  OBVIOUS
<1>2. DOMAIN s = 1..m /\ DOMAIN t = 1..n /\ m \in Nat /\ n \in Nat
  BY <1>1, SeqFacts
<1>3. /\ IsSeq(w) /\ Len(w) = m + n
      /\ \A i \in DOMAIN w : \/ i \in DOMAIN s /\ w[i] = s[i]
                             \/ i - m \in DOMAIN t /\ w[i] = t[i - m]
  BY <1>1, <1>2, ConcatSeq
<1>4. DOMAIN w = 1..(m + n)
  BY <1>3, SeqFacts
<1>5. ASSUME NEW i \in 1..(m + n)
      PROVE  (i \in 1..m /\ w[i] = s[i]) \/ (i - m \in 1..n /\ w[i] = t[i - m])
  <2>1. (i \in DOMAIN s /\ w[i] = s[i]) \/ (i - m \in DOMAIN t /\ w[i] = t[i - m])
    BY <1>3, <1>4
  <2> QED
    BY <1>2, <2>1
<1>6. Parts(w, s, t, m, n)
  BY <1>2, <1>3, <1>4, <1>5 DEF Parts
<1> QED
  BY <1>1, <1>6

\* visitComparison looks at every operator of a chain before it lets it pass.
LEMMA visitComparison_Warned ==
  ASSUME TreeDone, NEW c \in DOMAIN tree, tree[c].sym = "comparison"
  PROVE  VisitWarned(c)
<1> DEFINE kids == Kids(c, "comparisonOperator")
           ops == [i \in DOMAIN kids |-> getBinaryOp(kids[i])]
<1>1. CASE Has(c, "typeArguments")
  <2> DEFINE code ==
        << Error(The(c, "GT"), The(c, "GT"), "expected '(' after type argument list"),
           New(Flagged(Node("CallExpr", c, c), "ExplicitTypeArgs", TRUE)),
           getExpr(Nth(c, "infixExpr", 1), "Callee") >> \o TypeArgs(c) \o Arguments(c)
  <2>1. Plain(code)
    BY PlainNodes, PlainRest, PlainThree, PlainTypeArgs, PlainArguments, PlainConcat
  <2>2. Visit(c) = Visitor("Expr", code)
    BY <1>1 DEF Visit, visitComparison, DanglingCall
  <2> QED
    BY <2>1, <2>2, PlainVisitor, PlainWarned
<1>2. CASE ~ Has(c, "typeArguments") /\ Len(ops) < 2
  <2> DEFINE n == Len(Kids(c, "infixExpr")) - 1
             steps == [i \in 1..n |-> Fold(c, "infixExpr", i, ops[i], Silent(i))]
  <2>1. Visit(c) = Loop("Expr", << << getExpr(The(c, "infixExpr"), Result) >> >> \o steps)
    BY <1>2 DEF Visit, visitComparison, foldLeftAssoc
  <2>2. \A i \in 1..n : \E pre, o : Plain(pre) /\ steps[i] = Fold(c, "infixExpr", i, o, pre)
    BY PlainNone DEF Silent
  <2>3. steps = [i \in 1..n |-> steps[i]]
    OBVIOUS
  <2> HIDE DEF steps
  <2> QED
    BY <2>1, <2>2, <2>3, PlainFolds, PlainWarned
<1>3. CASE ~ Has(c, "typeArguments") /\ ~ (Len(ops) < 2)
  <2> DEFINE node == [Node("ComparisonChainExpr", c, c) EXCEPT !.ops = ops]
             mixed == \E i \in DOMAIN ops : Ascending(ops[i]) # Ascending(ops[1])
             first == << New(node) >>
             rest == GetAll("Expr", Kids(c, "infixExpr"), "Operands")
             last == If(mixed, << Error(c, c, "comparison chain with mixed operators") >>)
  <2>1. Visit(c) = Visitor("Expr", first \o rest \o last)
    BY <1>3 DEF Visit, visitComparison, ComparisonChain
  <2>2. /\ Len(kids) \in Nat /\ DOMAIN kids = 1..Len(kids)
        /\ \A k \in 1..Len(kids) : kids[k] \in DOMAIN tree
                                   /\ tree[kids[k]].sym = "comparisonOperator"
    BY KidsOK, SeqFacts
  <2>3. node.ops = ops
    BY DEF Node
  <2>4. \A k \in DOMAIN ops : ops[k] \in Ordering
    <3> HIDE DEF kids
    <3> QED
      BY <2>2, BinaryOps
  <2>5. Crossed(node) => mixed
    <3> SUFFICES ASSUME Crossed(node), ~ mixed PROVE FALSE
      OBVIOUS
    <3> HIDE DEF ops, node
    <3>1. \A i \in DOMAIN ops : Ascending(ops[i]) <=> Ascending(ops[1])
      OBVIOUS
    <3> QED
      BY <2>3, <2>4, <3>1 DEF Crossed, Ascending, Ordering
  <2>6. Plain(rest)
    BY PlainAll
  <2> HIDE DEF node, mixed, rest
  <2>7. Plain(last)
    BY PlainOne, PlainRest, PlainIf
  <2>8. IsSeq(first) /\ Len(first) = 1 /\ first[1] = New(node)
    BY DEF IsSeq
  <2>9. mixed => Len(last) = 1 /\ last[1].do = "report"
    BY DEF If, Error
  <2> HIDE DEF first, last
  <2>10. PICK o, r, l : o = Len(first) /\ r = Len(rest) /\ l = Len(last)
    OBVIOUS
  <2>11. IsSeq(rest) /\ IsSeq(last)
    BY <2>6, <2>7 DEF Plain
  <2>12. PICK front, f : front = first \o rest /\ f = Len(front)
    OBVIOUS
  <2>13. Parts(front, first, rest, o, r)
    <3>1. Parts(first \o rest, first, rest, Len(first), Len(rest))
      BY <2>8, <2>11, Parted
    <3> QED
      BY <2>10, <2>12, <3>1
  <2>14. PICK code : code = front \o last
    OBVIOUS
  <2>15. Parts(code, front, last, f, l)
    <3>1. IsSeq(front)
      BY <2>13 DEF Parts
    <3>2. Parts(front \o last, front, last, Len(front), Len(last))
      BY <2>11, <3>1, Parted
    <3> QED
      BY <2>10, <2>12, <2>14, <3>2
  <2>16. o = 1 /\ f = 1 + r
    <3>1. PICK m : m = o + r
      OBVIOUS
    <3>2. IsSeq(front) /\ DOMAIN front = 1..m /\ m \in Nat
      BY <2>13, <3>1 DEF Parts
    <3>3. f \in Nat /\ DOMAIN front = 1..f
      BY <2>12, <3>2, SeqFacts
    <3>4. f = m
      BY <3>2, <3>3
    <3> QED
      BY <2>8, <2>10, <3>1, <3>4
  <2>17. 1 \in DOMAIN code /\ code[1] = New(node)
    BY <2>8, <2>13, <2>15, <2>16 DEF Parts
  <2>18. ASSUME NEW k \in DOMAIN code, k # 1 PROVE Chainless(code[k])
    <3>1. CASE k \in 1..f /\ code[k] = front[k]
      <4>1. k - 1 \in 1..r /\ front[k] = rest[k - 1]
        BY <2>13, <2>16, <2>18, <3>1 DEF Parts
      <4> QED
        BY <2>6, <2>13, <3>1, <4>1 DEF Plain, Parts
    <3>2. CASE k - f \in 1..l /\ code[k] = last[k - f]
      BY <2>7, <2>15, <3>2 DEF Plain, Parts
    <3> QED
      BY <2>15, <3>1, <3>2 DEF Parts
  <2>19. mixed => \E j \in DOMAIN code : j > 1 /\ code[j].do = "report"
    <3> SUFFICES ASSUME mixed PROVE \E j \in DOMAIN code : j > 1 /\ code[j].do = "report"
      OBVIOUS
    <3>1. PICK j : j = f + 1
      OBVIOUS
    <3>2. l = 1
      BY <2>9, <2>10
    <3>3. j > 1 /\ j \in 1..(f + l) /\ j \notin 1..f /\ j - f = 1
      BY <2>13, <2>15, <2>16, <3>1, <3>2 DEF Parts
    <3>4. code[j] = last[1]
      BY <2>15, <3>3 DEF Parts
    <3> QED
      BY <2>9, <2>15, <3>3, <3>4 DEF Parts
  <2>20. Warned(code)
    <3>1. New(node).node = node
      BY DEF New
    <3> QED
      BY <2>5, <2>17, <2>18, <2>19, <3>1 DEF Warned, Chainless, Crossed
  <2>21. Visit(c).code = << code >>
    BY <2>1, <2>12, <2>14 DEF Visitor
  <2> QED
    BY <2>20, <2>21 DEF VisitWarned
<1> QED
  BY <1>1, <1>2, <1>3

\* Every visitor reports the crossed chains it allocates.
LEMMA AnyVisitWarned ==
  ASSUME TreeDone, NEW c \in DOMAIN tree
  PROVE  VisitWarned(c)
<1>1. CASE tree[c].sym \in {"file", "topLevelObject", "parameter", "block", "catchClause", "label",
                           "declaration", "functionDecl", "classDecl", "variableDecl"}
  BY <1>1, PlainWarned, visitFile_Plain, visitTopLevelObject_Plain, visitParameter_Plain,
     visitBlock_Plain, visitCatchClause_Plain, visitLabel_Plain, visitDeclaration_Plain,
     visitFunctionDecl_Plain, visitClassDecl_Plain, visitVariableDecl_Plain
<1>2. CASE tree[c].sym \in TypeContexts
  BY <1>2, PlainWarned, visitType_Plain, Forwards_Plain, visitTypeRef_Plain,
     visitFunctionType_Plain, visitBuiltinType_Plain
  DEF TypeContexts
<1>3. CASE tree[c].sym \in StmtContexts
  BY <1>3, PlainWarned, Forwards_Plain, visitDeclStatement_Plain, visitAssignment_Plain,
     visitForStmt_Plain, visitForUpdate_Plain, visitForEachStmt_Plain, visitWhileStmt_Plain,
     visitDoWhileStmt_Plain, visitIfStmt_Plain, visitTryStatement_Plain, visitExprStmt_Plain
  DEF StmtContexts
<1>4. CASE tree[c].sym \in ExprContexts
  BY <1>4, PlainWarned, Forwards_Plain, visitDisjunction_Plain, visitConjunction_Plain,
     visitEquality_Plain, visitComparison_Warned, visitInfixExpr_Plain, visitElvisExpr_Plain,
     visitBitwiseOr_Plain, visitBitwiseXor_Plain, visitBitwiseAnd_Plain,
     visitBitwiseShift_Plain, visitAddition_Plain, visitMultiplication_Plain, visitAsExpr_Plain,
     visitPrefixUnaryExpr_Plain, visitPostfixUnaryExpr_Plain, visitPrimaryExpr_Plain,
     visitLiteralConstant_Plain, visitCollectionLiteral_Plain, visitThisLiteral_Plain,
     visitIfExpression_Plain, visitJumpExpression_Plain
  DEF ExprContexts
<1>5. CASE tree[c].sym \notin {"file", "topLevelObject", "parameter", "block", "catchClause",
                              "label", "declaration", "functionDecl", "classDecl", "variableDecl"}
             \cup TypeContexts \cup StmtContexts \cup ExprContexts
  <2>1. Visit(c) = Visitor("empty", << >>)
    BY <1>5 DEF Visit, TypeContexts, StmtContexts, ExprContexts
  <2> QED
    BY <2>1, PlainNone, PlainVisitor, PlainWarned
<1> QED
  BY <1>1, <1>2, <1>3, <1>4, <1>5
==============================================================================
