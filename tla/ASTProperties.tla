---------------------------- MODULE ASTProperties -----------------------------
(***************************************************************************)
(* What the AST that parse() returns owes to the file it was built from.   *)
(* The properties of the finished AST are stated for the state in which    *)
(* visitFile is about to return.                                           *)
(***************************************************************************)
EXTENDS Parse

Tags == {"Program", "TopLevelObject", "Declaration", "Parameter", "Type", "Statement",
         "Block", "CatchClause", "Expr", "Label", "any", "empty"}

\* The type invariant of the composition of parser, builder and engine.
TypeOK ==
  /\ \A c \in DOMAIN tree :
       /\ tree[c].start \in Offset /\ tree[c].stop \in Offset
       /\ \A s \in DOMAIN tree[c].kids :
            \A i \in DOMAIN tree[c].kids[s] :
              /\ tree[c].kids[s][i] \in DOMAIN tree
              /\ tree[tree[c].kids[s][i]].sym = s
  /\ bufferSize \in Offset /\ offset \in Offset /\ lastStop \in Offset
  /\ \A f \in DOMAIN stack :
       /\ stack[f].ctx \in DOMAIN tree /\ stack[f].any \in Tags
       /\ stack[f].res \in 0..Len(arena) /\ stack[f].obj \in 0..Len(arena)
  /\ crash \in {"none", "bad_any_cast", "null_visit"}
  /\ HasErrors \in BOOLEAN /\ erred \in BOOLEAN
  /\ phase \in {"idle", "parsing", "building"}
  /\ table \in DOMAIN Tables /\ fuel \in Nat /\ calls \in 0..MaxCalls /\ program \in 0..Len(arena)

-----------------------------------------------------------------------------
(* The recursion.                                                          *)

\* Every any_cast in the builder asks for exactly the type the visitor it
\* called has put into its std::any, through any number of visitors that
\* hand the any on (visitStatement, visitPrimaryExpr, ...): std::any needs
\* the exact type, a derived pointer would throw.
NoBadAnyCast == crash # "bad_any_cast"

\* No visitor visits a child the grammar did not give its context.
NoNullVisit == crash # "null_visit"

-----------------------------------------------------------------------------
(* The finished AST.                                                       *)

Complete == phase = "building" /\ Built
Root == Top.res

\* The pointers between nodes: parent, member, position, child.
Edges ==
  UNION {UNION {{<< p, s, i, arena[p].slots[s][i] >> : i \in DOMAIN arena[p].slots[s]} :
                s \in DOMAIN arena[p].slots} : p \in DOMAIN arena}

Within(n, m) == arena[m].start <= arena[n].start /\ arena[n].end <= arena[m].end
Before(n, m) == arena[n].end <= arena[m].start

\* Every node the visitors have allocated since the Program at the root is
\* stored in exactly one member of one other of them, below the root: no node
\* is dropped on the way up or shared, not even with the AST of another file
\* in the same arena, and no member points to null.
ASTIsTree ==
  Complete =>
    LET own == Root..Len(arena)
        edges == {e \in Edges : e[1] \in own \/ e[4] \in own}
        below[k \in 0..Len(arena)] ==
          IF k = 0 THEN {Root}
          ELSE LET above == below[k - 1]
               IN  above \cup {e[4] : e \in {e \in edges : e[1] \in above}}
    IN  /\ \A e \in edges : e[1] \in own /\ e[4] \in own \ {Root}
        /\ \A n \in own \ {Root} : Cardinality({e \in edges : e[4] = n}) = 1
        /\ below[Len(arena)] = own

\* The range of a node lies in the range of its parent, across transparent
\* parentheses, wrapped operands and nodes allocated by another visitor.
RangesNest ==
  Complete => \A e \in Edges : Within(e[4], e[1])

\* The ranges of the children of a node do not overlap, and the elements of
\* a list come in source order, whatever order the visitor built them in.
\* (The parameter of a catch clause takes the range of the clause.)
SiblingsInOrder ==
  Complete =>
    LET edges == Edges
    IN \A e, f \in edges :
         (e[1] = f[1] /\ e # f /\ "Param" \notin {e[2], f[2]}) =>
           IF e[2] = f[2] THEN (e[3] < f[3] => Before(e[4], f[4]))
           ELSE Before(e[4], f[4]) \/ Before(f[4], e[4])

\* The same with no exception: Node.h calls Range "the source range spanned
\* by the node".
AllSiblingsInOrder ==
  Complete =>
    LET edges == Edges
    IN \A e, f \in edges :
         (e[1] = f[1] /\ e # f) => Before(e[4], f[4]) \/ Before(f[4], e[4])

\* getRange clamps the stop "so `+1` never wraps past the buffer": no range
\* ends behind the last byte.
RangesInBuffer ==
  Complete => \A n \in DOMAIN arena : arena[n].end <= bufferSize

\* The names of arguments are the only identifiers the AST forgets.
ArgumentNames == UNION {{Kids(c, "IDENTIFIER")[i] : i \in DOMAIN Kids(c, "IDENTIFIER")} :
                        c \in {c \in DOMAIN tree : tree[c].sym = "valueArgument"}}

\* Every identifier of the file names exactly one node, and that node is the
\* innermost one whose range covers the identifier: no name is lost, kept
\* twice, or given to a neighbour.
NamesKept ==
  Complete =>
    \A t \in {t \in DOMAIN tree : tree[t].sym = "IDENTIFIER"} \ ArgumentNames :
      \E n \in DOMAIN arena :
        /\ {m \in DOMAIN arena : arena[m].name = t} = {n}
        /\ \A m \in DOMAIN arena :
             (arena[m].start <= tree[t].start /\ tree[t].stop < arena[m].end) => Within(n, m)

\* How tightly an expression binds, by the levels of the grammar.
BinaryLevel == [
  Disj |-> 1, Conj |-> 2, Eq |-> 3, Neq |-> 3, Lt |-> 4, Gt |-> 4, Le |-> 4, Ge |-> 4,
  In |-> 5, Elvis |-> 6, BitOr |-> 7, BitXor |-> 8, BitAnd |-> 9, LShift |-> 10,
  RShift |-> 10, Add |-> 11, Sub |-> 11, Mult |-> 12, Div |-> 12, Mod |-> 12]

Level(n) ==
  CASE arena[n].kind = "BinaryExpr" -> BinaryLevel[arena[n].ops[1]]
    [] arena[n].kind = "ComparisonChainExpr" -> 4
    [] arena[n].kind = "IsExpr" -> 5
    [] arena[n].kind = "AsExpr" -> 13
    [] arena[n].kind = "UnaryExpr" -> 14
    [] arena[n].kind \in {"CallExpr", "IndexExpr", "MemberExpr"} -> 15
    [] OTHER -> 16

\* Levels whose operator cannot be applied to its own result.
NonAssociative == {3, 4, 13}

\* An operand that shares the left end of its parent, so that no parenthesis
\* stands between them, binds tighter or associates to the left; one that
\* shares the right end binds tighter, or is the operand of a prefix; and a
\* left operand is left of the right one.  This determines the tree of a file
\* the builder has nothing to report about.
Precedence ==
  (Complete /\ Diagnostics = << >>) =>
    LET edges == {e \in Edges : Level(e[1]) < 16} IN
    \A e \in edges :
      LET p == e[1]
          n == e[4]
      IN  /\ e[2] = "LHS" => \A f \in edges : (f[1] = p /\ f[2] = "RHS") => Before(n, f[4])
          /\ (/\ e[2] \in {"LHS", "Operand", "Operands", "Callee", "Base"}
              /\ arena[n].start = arena[p].start)
             => (Level(n) > Level(p) \/ (Level(n) = Level(p) /\ Level(p) \notin NonAssociative))
          /\ (/\ e[2] \in {"RHS", "Operand", "Operands"}
              /\ arena[n].end = arena[p].end)
             => (Level(n) > Level(p) \/ (Level(n) = Level(p) /\ Level(p) = 14))

-----------------------------------------------------------------------------
(* Diagnostics.                                                            *)

\* The errors the grammar accepts and the builder must report: where they
\* start, in the words of the message.
Expected ==
  LET nodes(sym) == {c \in DOMAIN tree : tree[c].sym = sym}
      gts(c) == Kids(c, "GT")
      directions(c) == {Has(o, "LT") \/ Has(o, "LE") : o \in
        {Kids(c, "comparisonOperator")[i] : i \in DOMAIN Kids(c, "comparisonOperator")}}
  IN  {<< tree[c].start, "right shift requires two adjacent '>' tokens" >> : c \in
        {c \in nodes("bitwiseShiftOperator") :
           Len(gts(c)) = 2 /\ tree[gts(c)[2]].start > tree[gts(c)[1]].start + 1}}
      \cup
      {<< tree[c].start, "comparison chain with mixed operators" >> : c \in
        {c \in nodes("comparison") : directions(c) = BOOLEAN}}
      \cup
      {<< tree[The(c, "GT")].start, "expected '(' after type argument list" >> : c \in
        {c \in nodes("comparison") : Has(c, "typeArguments")}}
      \cup
      {<< tree[t].start, LiteralFault[tree[t].sym] >> : t \in
        {t \in DOMAIN tree : tree[t].text = "bad"}}

\* A file without syntax errors gets each error it deserves exactly once,
\* however deep the construct is nested and whatever visitor it is under.
DiagnosticsExact ==
  Complete =>
    /\ {<< d.start, d.message >> : d \in {Diagnostics[i] : i \in DOMAIN Diagnostics}} = Expected
    /\ Len(Diagnostics) = Cardinality(Expected)

\* The engine knows of an error exactly while one waits to be printed, so
\* neither parse() nor the driver takes a faulty file for a clean one.
ErrorsPending == HasErrors <=> Diagnostics # << >>

\* A file with a syntax error never yields a Program.
NoProgramOnSyntaxError == (phase = "idle" /\ erred) => program = Null

\* Parse.h: parse() "returns nullptr if any syntax error was reported".
NullOnlyOnSyntaxError ==
  (phase = "idle" /\ calls > 0 /\ ~ erred) => program # Null

\* How many nodes the arena holds of finished ASTs: all of them between
\* calls, else those allocated before the Program under construction.
OldNodes ==
  IF stack = << >> \/ stack[Len(stack)].res = Null THEN Len(arena) ELSE stack[Len(stack)].res - 1

\* parse() only adds nodes: an AST an earlier call returned is never changed
\* by a later one that shares the ASTContext.
EarlierASTKept ==
  [][\A n \in 1..OldNodes : n \in DOMAIN arena' /\ arena'[n] = arena[n]]_vars

Promise == INSTANCE ParseContract WITH
  parsing <- phase # "idle", pending <- Diagnostics, refused <- erred,
  asts <- SubSeq(arena, 1, OldNodes), result <- program

\* parse() keeps what its signature promises a caller: it returns nullptr or
\* a fresh Program, never the former without a pending diagnostic nor the
\* latter after a syntax error, and leaves other ASTs and earlier
\* diagnostics as they are.
ParsePromise == Promise!Contract

\* Every call of parse() returns.
Termination == <>[](phase = "idle" /\ calls = MaxCalls)
=============================================================================
