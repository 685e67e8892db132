---------------------------- MODULE DriverProofs -----------------------------
(***************************************************************************)
(* The driver never fails in silence: SaysWhy, for every file, whether it  *)
(* can be opened or not, and for either setting of --dump-ast.  Until the  *)
(* dump begins every step of main() is one of parse() or its caller, or    *)
(* leaves them alone, so the invariants of parse() carry over.  The dump   *)
(* then relies on what MemberProofs says of a finished AST: NoNullName and *)
(* HeadersTell.                                                            *)
(***************************************************************************)
EXTENDS MemberProofs, Astra

Parsing == {"start", "opened", "parsing"}

\* What one call of parse() has left to report.
OneCall ==
  /\ stage \in {"start", "opened"} => calls = 0
  /\ stage = "parsing" => calls = 1
  /\ (stage = "parsing" /\ phase = "idle") => program # Null \/ HasErrors

\* Nothing is printed, in either way, before main() knows how it ends.
Mute == exitCode = 0 /\ printed = << >> /\ OS = << >> /\ todo = << >>

\* The dump that is being written has at least the line of the Program.
Lines == Len(OS) \in Nat \ {0} /\ \E S : OS \in Seq(S)

Dumping == exitCode = 0 /\ printed = << >> /\ dumpAST = TRUE /\ Lines

\* Before the dump the invariants of parse() hold; after it, what main()
\* owes its caller.
DriverInv ==
  /\ stage \in Parsing \cup {"dumping", "exited"} /\ dumpAST \in BOOLEAN
  /\ stage \in Parsing => IInv /\ OwnInv /\ OneCall /\ Mute
  /\ stage = "dumping" => Dumping
  /\ SaysWhy

LEMMA DriverInit == AstraInit => DriverInv
<1> SUFFICES ASSUME AstraInit PROVE DriverInv
  OBVIOUS
<1>1. IInv /\ OwnInv
  BY InitInv DEF AstraInit, Init, OwnInv
<1>2. OneCall /\ Mute /\ stage = "start" /\ dumpAST \in BOOLEAN
  BY DumpASTAssumption DEF AstraInit, Init, NotDumping, OneCall, Mute
<1> QED
  BY <1>1, <1>2, Zenon DEF DriverInv, Parsing, SaysWhy

\* main() leaves parse() alone.
LEMMA StartDriver ==
  ASSUME DriverInv, CannotOpen \/ Open
  PROVE  DriverInv'
<1>1. /\ stage = "start" /\ UNCHANGED vars /\ UNCHANGED << OS, todo, dumpAST >>
      /\ IInv /\ OwnInv /\ OneCall /\ Mute /\ dumpAST \in BOOLEAN
  BY DEF CannotOpen, Open, dumpVars, DriverInv, Parsing
<1>2. IInv' /\ OwnInv'
  BY <1>1, NextInv, NextOwn
<1>3. OneCall' /\ (stage' \in {"opened", "exited"})
  BY <1>1 DEF OneCall, CannotOpen, Open, exit, vars, callVars
<1>4. CASE CannotOpen
  <2>1. stage' = "exited" /\ exitCode' = 1 /\ OS' = << >>
    BY <1>1, <1>4 DEF CannotOpen, exit, Mute
  <2>2. printed' # << >>
    <3>1. << "cannot open" >> # << >>
      OBVIOUS
    <3> QED
      BY <1>4, <3>1, Zenon DEF CannotOpen
  <2>3. SaysWhy'
    BY <2>1, <2>2 DEF SaysWhy
  <2>4. dumpAST' \in BOOLEAN
    BY <1>1
  <2> QED
    BY <2>1, <2>3, <2>4 DEF DriverInv, Parsing
<1>5. CASE Open
  <2>1. stage' = "opened" /\ Mute'
    BY <1>1, <1>5 DEF Open, Mute
  <2> QED
    BY <1>1, <1>2, <1>3, <2>1, Zenon DEF DriverInv, Parsing, SaysWhy
<1> QED
  BY <1>4, <1>5

\* The call of parse(), and its steps.
LEMMA ParseDriver ==
  ASSUME DriverInv, CallParse \/ InParse
  PROVE  DriverInv'
<1>1. /\ stage \in {"opened", "parsing"} /\ stage' = "parsing"
      /\ UNCHANGED << OS, todo, dumpAST, printed, exitCode >>
      /\ IInv /\ OwnInv /\ OneCall /\ Mute /\ dumpAST \in BOOLEAN
  BY DEF CallParse, InParse, dumpVars, driverVars, DriverInv, Parsing
<1>2. Next
  BY DEF CallParse, InParse, Next
<1>3. IInv' /\ OwnInv'
  BY <1>1, <1>2, NextInv, NextOwn
<1>4. calls' = 1 /\ (phase' = "idle" => program' # Null \/ HasErrors')
  <2>1. CASE CallParse
    BY <1>1, <2>1 DEF CallParse, StartParse, OneCall
  <2>2. CASE InParse
    <3>1. calls = 1
      BY <1>1, <2>2 DEF InParse, OneCall
    <3>2. CASE RunParser \/ SyntaxError \/ AcceptTree \/ RunBuilder
      BY <3>1, <3>2 DEF RunParser, SyntaxError, AcceptTree, RunBuilder, callVars
    <3>3. CASE RefuseTree
      BY <3>1, <3>3 DEF RefuseTree, diagVars
    <3>4. CASE ReturnProgram
      <4>1. program' = OldNodes + 1 /\ OldNodes \in Nat
        BY <1>1, <1>3, <3>4, ReturnProgramOwn
      <4> QED
        BY <3>1, <3>4, <4>1 DEF ReturnProgram, Null
    <3> QED
      BY <2>2, <3>2, <3>3, <3>4 DEF InParse
  <2> QED
    BY <2>1, <2>2
<1>5. OneCall' /\ Mute'
  BY <1>1, <1>4 DEF OneCall, Mute
<1> QED
  BY <1>1, <1>3, <1>5, Zenon DEF DriverInv, Parsing, SaysWhy

\* What a failure prints is what made it one.
LEMMA FailDriver ==
  ASSUME DriverInv, ReportErrors
  PROVE  DriverInv'
<1>1. /\ stage = "parsing" /\ phase = "idle" /\ (program = Null \/ HasErrors)
      /\ stage' = "exited" /\ exitCode' = 1 /\ printed' = Diagnostics
      /\ UNCHANGED << OS, todo, dumpAST >>
  BY DEF ReportErrors, Returned, Failed, exit, dumpVars
<1>2. IInv /\ OneCall /\ Mute /\ dumpAST \in BOOLEAN
  BY <1>1 DEF DriverInv, Parsing
<1>3. HasErrors
  BY <1>1, <1>2 DEF OneCall
<1>4. Diagnostics # << >>
  BY <1>2, <1>3 DEF IInv, EngineOK, ErrorsPending
<1> QED
  BY <1>1, <1>2, <1>4 DEF DriverInv, Parsing, SaysWhy, Mute

\* Nothing was reported: the Program is dumped or not, as the option says.
LEMMA SucceedDriver ==
  ASSUME DriverInv, DumpProgram \/ SkipDump
  PROVE  DriverInv'
<1>1. stage = "parsing" /\ UNCHANGED << dumpAST, printed >>
  BY DEF DumpProgram, SkipDump, Returned
<1>2. Mute /\ dumpAST \in BOOLEAN
  BY <1>1 DEF DriverInv, Parsing
<1>3. CASE DumpProgram
  <2>1. stage' = "dumping" /\ dumpAST /\ exitCode' = 0 /\ printed' = << >>
    BY <1>2, <1>3 DEF DumpProgram, Mute
  <2>2. PICK line : OS' = << line >>
    BY <1>3 DEF DumpProgram, StartDump
  <2>3. OS' \in Seq({line}) /\ Len(OS') = 1
    BY <2>2
  <2> QED
    BY <1>1, <1>2, <2>1, <2>3 DEF DriverInv, Parsing, Dumping, Lines, SaysWhy
<1>4. CASE SkipDump
  BY <1>1, <1>2, <1>4 DEF SkipDump, exit, dumpVars, DriverInv, Parsing, Mute, SaysWhy
<1> QED
  BY <1>3, <1>4

\* A dump only grows.
LEMMA DumpDriver ==
  ASSUME DriverInv, InDump \/ EndDump
  PROVE  DriverInv'
<1>1. stage = "dumping" /\ Dumping /\ UNCHANGED << dumpAST, printed >> /\ dumpAST \in BOOLEAN
  BY DEF InDump, EndDump, driverVars, DriverInv
<1>2. CASE EndDump
  <2>1. OS # << >>
    BY <1>1 DEF Dumping, Lines
  <2> QED
    BY <1>1, <1>2, <2>1 DEF EndDump, exit, dumpVars, DriverInv, Parsing, Dumping, SaysWhy
<1>3. CASE InDump
  <2>1. stage' = "dumping" /\ exitCode' = exitCode
    BY <1>1, <1>3 DEF InDump, driverVars
  <2>2. OS' = OS \/ \E c : OS' = OS \o LinesOf(c)
    BY <1>3 DEF InDump, dumpChild, dumpVars
  <2>3. Lines'
    <3>1. CASE OS' = OS
      BY <1>1, <3>1 DEF Dumping, Lines
    <3>2. CASE \E c : OS' = OS \o LinesOf(c)
      <4>1. PICK c : OS' = OS \o LinesOf(c)
        BY <3>2
      <4>2. \E T : LinesOf(c) \in Seq(T)
        <5> DEFINE a == Line(c.prefix, c.last, dumpHeader(c.child.node))
                   b == Line(c.prefix, c.last, LabelText(c.child.label))
                   d == Line(Append(c.prefix, ~ c.last), TRUE, dumpHeader(c.child.node))
        <5>1. LinesOf(c) = << a >> \/ LinesOf(c) = << b, d >>
          BY Zenon DEF LinesOf
        <5> HIDE DEF a, b, d
        <5>2. << a >> \in Seq({a, b, d}) /\ << b, d >> \in Seq({a, b, d})
          OBVIOUS
        <5> QED
          BY <5>1, <5>2
      <4>3. PICK S, T : OS \in Seq(S) /\ LinesOf(c) \in Seq(T)
        BY <1>1, <4>2 DEF Dumping, Lines
      <4> DEFINE more == LinesOf(c)
      <4> HIDE DEF more
      <4>4. OS \in Seq(S \cup T) /\ more \in Seq(S \cup T)
        BY <4>3 DEF more
      <4>5. OS \o more \in Seq(S \cup T) /\ Len(OS \o more) = Len(OS) + Len(more)
            /\ Len(more) \in Nat
        BY <4>4
      <4> QED
        BY <1>1, <4>1, <4>5 DEF Dumping, Lines, more
    <3> QED
      BY <2>2, <3>1, <3>2
  <2> QED
    BY <1>1, <2>1, <2>3, Zenon DEF DriverInv, Parsing, Dumping, SaysWhy
<1> QED
  BY <1>2, <1>3

LEMMA IdleDriver ==
  ASSUME DriverInv, UNCHANGED allVars
  PROVE  DriverInv'
<1>1. UNCHANGED << vars, OS, todo, stage, dumpAST, printed, exitCode >>
  BY DEF allVars, dumpVars, driverVars
<1>2. (IInv /\ OwnInv) => (IInv /\ OwnInv)'
  BY <1>1, NextInv, NextOwn
<1>3. OneCall => OneCall'
  BY <1>1 DEF OneCall, vars, callVars, diagVars
<1> QED
  BY <1>1, <1>2, <1>3 DEF DriverInv, Parsing, Mute, Dumping, Lines, SaysWhy

LEMMA DriverStep == DriverInv /\ [AstraNext]_allVars => DriverInv'
  BY StartDriver, ParseDriver, FailDriver, SucceedDriver, DumpDriver, IdleDriver
  DEF AstraNext, Exited

\* The driver fails exactly if it has printed why, be it that the file cannot
\* be opened or what parse() reported, and then dumps nothing; it dumps
\* exactly if it succeeds and was asked to (main).
THEOREM SaysWhyHolds == AstraSpec => []SaysWhy
<1>1. DriverInv => SaysWhy
  BY DEF DriverInv
<1> QED
  BY <1>1, DriverInit, DriverStep, PTL DEF AstraSpec

-----------------------------------------------------------------------------
(* The names in a dump.                                                    *)

\* Every element of list has its node in D.
Points(list, D) == IsSeq(list) /\ \A i \in DOMAIN list : list[i].node \in D

LEMMA PointsConcat ==
  ASSUME NEW s, NEW t, NEW D, Points(s, D), Points(t, D)
  PROVE  Points(s \o t, D)
<1>1. PICK u : u = s \o t
  OBVIOUS
<1>2. IsSeq(s) /\ IsSeq(t)
  BY DEF Points
<1>3. /\ IsSeq(u)
      /\ \A i \in DOMAIN u : \/ i \in DOMAIN s /\ u[i] = s[i]
                             \/ i - Len(s) \in DOMAIN t /\ u[i] = t[i - Len(s)]
  BY <1>1, <1>2, ConcatSeq
<1>4. \A i \in DOMAIN u : u[i].node \in D
  BY <1>3 DEF Points
<1> QED
  BY <1>1, <1>3, <1>4 DEF Points

\* What FlattenSeq computes for a list of lists.
Flattens(f, s) == f = [i \in 1..Len(s) |-> IF i = 1 THEN s[i] ELSE f[i - 1] \o s[i]]

\* A handful of lists can be written down one behind the other.
LEMMA FlattensSome ==
  ASSUME NEW s, Len(s) \in 1..4
  PROVE  \E f : Flattens(f, s)
<1>1. PICK n : n = Len(s)
  OBVIOUS
<1> DEFINE a == s[1]
           b == a \o s[2]
           c == b \o s[3]
           d == c \o s[4]
           g == [i \in 1..n |-> IF i = 1 THEN a ELSE IF i = 2 THEN b ELSE IF i = 3 THEN c ELSE d]
<1>2. a = s[1] /\ b = a \o s[2] /\ c = b \o s[3] /\ d = c \o s[4]
  OBVIOUS
<1> HIDE DEF a, b, c, d
<1>3. \A i \in 1..n : g[i] = IF i = 1 THEN s[i] ELSE g[i - 1] \o s[i]
  <2> SUFFICES ASSUME NEW i \in 1..n
               PROVE  g[i] = IF i = 1 THEN s[i] ELSE g[i - 1] \o s[i]
    OBVIOUS
  <2>1. i = 1 \/ i = 2 \/ i = 3 \/ i = 4
    BY <1>1
  <2>2. CASE i = 1
    BY <1>2, <2>2
  <2>3. CASE i = 2
    <3>1. 1 \in 1..n /\ i - 1 = 1
      BY <2>3, <1>1
    <3>2. g[1] = a /\ g[i] = b
      BY <2>3, <3>1
    <3> QED
      BY <1>2, <2>3, <3>1, <3>2
  <2>4. CASE i = 3
    <3>1. 2 \in 1..n /\ i - 1 = 2
      BY <2>4, <1>1
    <3>2. g[2] = b /\ g[i] = c
      BY <2>4, <3>1
    <3> QED
      BY <1>2, <2>4, <3>1, <3>2
  <2>5. CASE i = 4
    <3>1. 3 \in 1..n /\ i - 1 = 3
      BY <2>5, <1>1
    <3>2. g[3] = c /\ g[i] = d
      BY <2>5, <3>1
    <3> QED
      BY <1>2, <2>5, <3>1, <3>2
  <2> QED
    BY <2>1, <2>2, <2>3, <2>4, <2>5
<1>4. DOMAIN g = 1..n /\ g = [i \in 1..n |-> g[i]]
  OBVIOUS
<1> HIDE DEF g
<1>5. g = [i \in 1..n |-> IF i = 1 THEN s[i] ELSE g[i - 1] \o s[i]]
  BY <1>3, <1>4
<1> QED
  BY <1>1, <1>5 DEF Flattens

LEMMA PointsFlat ==
  ASSUME NEW s, Len(s) \in 0..4, NEW D, Len(s) = 0 => s = << >>,
         \A i \in 1..Len(s) : Points(s[i], D)
  PROVE  Points(Seqs!FlattenSeq(s), D)
<1>1. CASE Len(s) = 0
  <2>1. Seqs!FlattenSeq(s) = << >>
    BY <1>1 DEF Seqs!FlattenSeq
  <2> QED
    BY <2>1 DEF Points, IsSeq
<1>2. CASE Len(s) # 0
  <2>1. Seqs!FlattenSeq(s) = (CHOOSE f : Flattens(f, s))[Len(s)]
    BY <1>2, Zenon DEF Seqs!FlattenSeq, Flattens
  <2>2. PICK f : f = CHOOSE g : Flattens(g, s)
    OBVIOUS
  <2>3. Flattens(f, s)
    BY <1>2, <2>2, FlattensSome
  <2>4. f[1] = s[1]
    BY <1>2, <2>3 DEF Flattens
  <2>5. ASSUME NEW i \in 2..Len(s) PROVE f[i] = f[i - 1] \o s[i]
    <3>1. PICK g : g = [k \in 1..Len(s) |-> IF k = 1 THEN s[k] ELSE f[k - 1] \o s[k]]
      OBVIOUS
    <3>2. f = g
      BY <2>3, <3>1 DEF Flattens
    <3>3. i \in 1..Len(s) /\ i # 1
      OBVIOUS
    <3>4. g[i] = f[i - 1] \o s[i]
      BY <3>1, <3>3
    <3> QED
      BY <3>2, <3>4, Zenon
  <2>6. Points(f[1], D)
    BY <1>2, <2>4
  <2>7. ASSUME NEW i \in 2..Len(s), Points(f[i - 1], D) PROVE Points(f[i], D)
    <3>1. PICK u, v, w : u = f[i - 1] /\ v = s[i] /\ w = f[i]
      OBVIOUS
    <3>2. w = u \o v /\ Points(u, D)
      BY <2>5, <2>7, <3>1, Zenon
    <3>3. i \in 1..Len(s)
      OBVIOUS
    <3>4. Points(v, D)
      BY <3>1, <3>3, Zenon
    <3> QED
      BY <3>1, <3>2, <3>4, PointsConcat
  <2>8. Len(s) = 1 \/ Len(s) = 2 \/ Len(s) = 3 \/ Len(s) = 4
    BY <1>2
  <2>9. Len(s) >= 2 => Points(f[2], D)
    <3>1. 2 - 1 = 1
      OBVIOUS
    <3> QED
      BY <2>6, <2>7, <2>8, <3>1
  <2>10. Len(s) >= 3 => Points(f[3], D)
    <3>1. 3 - 1 = 2
      OBVIOUS
    <3> QED
      BY <2>7, <2>8, <2>9, <3>1
  <2>11. Len(s) = 4 => Points(f[4], D)
    <3>1. 4 - 1 = 3
      OBVIOUS
    <3> QED
      BY <2>7, <2>8, <2>10, <3>1
  <2>12. Points(f[Len(s)], D)
    BY <2>6, <2>8, <2>9, <2>10, <2>11
  <2> QED
    BY <2>1, <2>2, <2>12, Zenon
<1> QED
  BY <1>1, <1>2

-----------------------------------------------------------------------------
(* What the dumper finds in the arena.                                     *)

\* The children of the nodes of a whole arena are nodes of it.
LEMMA ChildrenIn ==
  ASSUME Settled(arena, {}), SlotsOK(arena), NEW n \in DOMAIN arena, NEW m
  PROVE  /\ IsSeq(Children(n, m))
         /\ \A i \in DOMAIN Children(n, m) :
              /\ Children(n, m)[i] \in DOMAIN arena
              /\ Fits(arena[n].kind, m, View(arena[Children(n, m)[i]]))
<1>1. CASE m \in DOMAIN arena[n].slots
  <2>1. IsSeq(arena[n].slots[m])
    BY <1>1 DEF SlotsOK
  <2>2. \A i \in DOMAIN arena[n].slots[m] :
          /\ arena[n].slots[m][i] \in DOMAIN arena
          /\ Fits(arena[n].kind, m, View(arena[arena[n].slots[m][i]]))
    BY <1>1 DEF Settled, Suited
  <2>3. Children(n, m) = arena[n].slots[m]
    BY <1>1 DEF Children
  <2> QED
    BY <2>1, <2>2, <2>3
<1>2. CASE m \notin DOMAIN arena[n].slots
  <2>1. Children(n, m) = << >>
    BY <1>2 DEF Children
  <2> QED
    BY <2>1 DEF IsSeq
<1> QED
  BY <1>1, <1>2

LEMMA PushIn ==
  ASSUME Settled(arena, {}), SlotsOK(arena), NEW n \in DOMAIN arena, NEW m
  PROVE  Points(pushChild(m, n), DOMAIN arena)
<1>1. PICK s : s = Children(n, m)
  OBVIOUS
<1>2. IsSeq(s) /\ \A i \in DOMAIN s : s[i] \in DOMAIN arena
  BY <1>1, ChildrenIn
<1>3. CASE s = << >>
  <2>1. pushChild(m, n) = << >>
    BY <1>1, <1>3 DEF pushChild, If
  <2> QED
    BY <2>1 DEF Points, IsSeq
<1>4. CASE s # << >>
  <2>1. PICK c : c = Child(m, s[1])
    OBVIOUS
  <2>2. pushChild(m, n) = << c >>
    BY <1>1, <1>4, <2>1 DEF pushChild, If
  <2>3. 1 \in DOMAIN s
    BY <1>2, <1>4, TailSeq
  <2>4. c.node \in DOMAIN arena
    BY <1>2, <2>1, <2>3 DEF Child
  <2> QED
    BY <2>2, <2>4 DEF Points, IsSeq
<1> QED
  BY <1>3, <1>4

LEMMA AppendIn ==
  ASSUME Settled(arena, {}), SlotsOK(arena), NEW n \in DOMAIN arena, NEW m
  PROVE  Points(appendChildren(m, n), DOMAIN arena)
<1>1. PICK s : s = Children(n, m)
  OBVIOUS
<1>2. IsSeq(s) /\ \A i \in DOMAIN s : s[i] \in DOMAIN arena
  BY <1>1, ChildrenIn
<1>3. PICK label : appendChildren(m, n) = [i \in DOMAIN s |-> Child(label, s[i])]
  BY <1>1, Zenon DEF appendChildren
<1>4. PICK t : t = [i \in DOMAIN s |-> Child(label, s[i])]
  OBVIOUS
<1>5. Len(s) \in Nat /\ DOMAIN s = 1..Len(s)
  BY <1>2, SeqFacts
<1>6. t = [i \in 1..Len(s) |-> t[i]] /\ DOMAIN t = DOMAIN s
  BY <1>4, <1>5
<1>7. IsSeq(t)
  BY <1>5, <1>6, FunSeq
<1>8. \A i \in DOMAIN t : t[i].node \in DOMAIN arena
  BY <1>2, <1>4 DEF Child
<1> QED
  BY <1>3, <1>4, <1>7, <1>8 DEF Points

\* No header has more than four members to show.
Handful(s) == IsSeq(s) /\ Len(s) \in 0..4

LEMMA Handfuls ==
  /\ Handful(<< >>) /\ \A a : Handful(<< a >>) /\ \A b : Handful(<< a, b >>)
  /\ \A a, b, c : Handful(<< a, b, c >>) /\ \A d : Handful(<< a, b, c, d >>)
<1>1. Handful(<< >>) /\ \A a : Handful(<< a >>)
  BY DEF Handful, IsSeq
<1>2. ASSUME NEW a, NEW b PROVE Handful(<< a, b >>)
  BY DEF Handful, IsSeq
<1>3. ASSUME NEW a, NEW b, NEW c PROVE Handful(<< a, b, c >>)
  BY DEF Handful, IsSeq
<1>4. ASSUME NEW a, NEW b, NEW c, NEW d PROVE Handful(<< a, b, c, d >>)
  BY DEF Handful, IsSeq
<1> QED
  BY <1>1, <1>2, <1>3, <1>4

LEMMA Orders == \A kind : Handful(ChildOrder(kind))
<1>1. \A kind \in DOMAIN DeclChildren : Handful(DeclChildren[kind])
  <2>1. DOMAIN DeclChildren = {"TopLevelObject", "FunctionDecl", "ClassDecl", "VarDecl",
        "Parameter", "ArrayType", "FunctionType"}
    BY DEF DeclChildren
  <2>2. /\ DeclChildren["TopLevelObject"] = << "Decl" >>
        /\ DeclChildren["FunctionDecl"] = << "Parameters", "ReturnType", "Body" >>
        /\ DeclChildren["ClassDecl"] = << "TypeParams", "Members" >>
        /\ DeclChildren["VarDecl"] = << "VarType", "Value" >>
        /\ DeclChildren["Parameter"] = << "Type", "DefaultValue" >>
        /\ DeclChildren["ArrayType"] = << "ElementType", "Size" >>
        /\ DeclChildren["FunctionType"] = << "Parameters", "ReturnType" >>
    BY DEF DeclChildren
  <2> QED
    BY <2>1, <2>2, Handfuls
<1>2. \A kind \in DOMAIN StmtChildren : Handful(StmtChildren[kind])
  <2>1. DOMAIN StmtChildren = {"Block", "DeclStatement", "ExprStmt", "AssignmentStmt", "IfStmt",
        "ForStmt", "ForEachStmt", "WhileStmt", "DoWhileStmt", "TryStmt"}
    BY DEF StmtChildren
  <2>2. /\ StmtChildren["Block"] = << "Statements" >>
        /\ StmtChildren["DeclStatement"] = << "Declaration" >>
        /\ StmtChildren["ExprStmt"] = << "Expression" >>
        /\ StmtChildren["AssignmentStmt"] = << "LHS", "RHS" >>
        /\ StmtChildren["IfStmt"] = << "Condition", "Then", "Else" >>
        /\ StmtChildren["ForStmt"] = << "InitStmts", "Condition", "Update", "Body" >>
        /\ StmtChildren["ForEachStmt"] = << "Scope", "Body" >>
        /\ StmtChildren["WhileStmt"] = << "Condition", "Body" >>
        /\ StmtChildren["DoWhileStmt"] = << "Body", "Condition" >>
        /\ StmtChildren["TryStmt"] = << "Body", "CatchClauses", "Finally" >>
    BY DEF StmtChildren
  <2> QED
    BY <2>1, <2>2, Handfuls
<1>3. \A kind \in DOMAIN ExprChildren : Handful(ExprChildren[kind])
  <2>1. DOMAIN ExprChildren = {"IfExpr", "ThrowExpr", "ReturnExpr", "UnaryExpr", "BinaryExpr",
        "ComparisonChainExpr", "CallExpr", "IndexExpr", "MemberExpr", "IsExpr", "AsExpr",
        "CollectionExpr", "TypeRef", "TypeParam", "CatchClause"}
    BY DEF ExprChildren
  <2>2. /\ ExprChildren["IfExpr"] = << "Condition", "Then", "Else" >>
        /\ ExprChildren["ThrowExpr"] = << "Content" >>
        /\ ExprChildren["ReturnExpr"] = << "Value" >>
        /\ ExprChildren["UnaryExpr"] = << "Operand" >>
        /\ ExprChildren["BinaryExpr"] = << "LHS", "RHS" >>
        /\ ExprChildren["ComparisonChainExpr"] = << "Operands" >>
        /\ ExprChildren["CallExpr"] = << "Callee", "TypeArgs", "Arguments" >>
        /\ ExprChildren["IndexExpr"] = << "Base", "Index" >>
        /\ ExprChildren["MemberExpr"] = << "Base" >>
        /\ ExprChildren["IsExpr"] = << "Operand", "CheckType" >>
        /\ ExprChildren["AsExpr"] = << "Operand", "TargetType" >>
        /\ ExprChildren["CollectionExpr"] = << "Elements" >>
        /\ ExprChildren["TypeRef"] = << "TypeArgs" >>
        /\ ExprChildren["TypeParam"] = << "DefaultType" >>
        /\ ExprChildren["CatchClause"] = << "Param", "Body" >>
    BY DEF ExprChildren
  <2> QED
    BY <2>1, <2>2, Handfuls
<1> QED
  BY <1>1, <1>2, <1>3, Handfuls, Zenon DEF ChildOrder

\* What is still to be dumped below a node is in the arena.
LEMMA CollectIn ==
  ASSUME Settled(arena, {}), SlotsOK(arena), NEW n \in DOMAIN arena
  PROVE  Points(collectChildren(n), DOMAIN arena)
<1>1. PICK order : order = ChildOrder(arena[n].kind)
  OBVIOUS
<1>2. Len(order) \in 0..4 /\ DOMAIN order = 1..Len(order)
  BY <1>1, Orders, SeqFacts DEF Handful
<1>3. PICK s : s = [i \in DOMAIN order |->
                      IF order[i] \in ListMembers THEN appendChildren(order[i], n)
                      ELSE pushChild(order[i], n)]
  OBVIOUS
<1>4. collectChildren(n) = Seqs!FlattenSeq(s)
  BY <1>1, <1>3, Zenon DEF collectChildren
<1>5. \A i \in DOMAIN order : Points(s[i], DOMAIN arena)
  BY <1>3, PushIn, AppendIn
<1>6. Len(s) = Len(order) /\ (Len(s) = 0 => s = << >>)
  BY <1>2, <1>3
<1>7. Points(Seqs!FlattenSeq(s), DOMAIN arena)
  BY <1>2, <1>5, <1>6, PointsFlat
<1> QED
  BY <1>4, <1>7

\* Every name the dumper follows is set.
LEMMA NamesSet ==
  ASSUME Settled(arena, {}), SlotsOK(arena), NEW n \in DOMAIN arena
  PROVE  ~ BadName(n)
<1>1. \A k \in DOMAIN arena : arena[k].kind \in NamedByInfo => arena[k].name # Null
  BY DEF Settled, Sound, Legible
<1>2. PICK kind : kind = arena[n].kind
  OBVIOUS
<1>3. CASE kind \in NamedByInfo \cup NamedByText
  <2>1. NameHolder(n) = n
    BY <1>2, <1>3 DEF NameHolder
  <2> QED
    BY <1>1, <1>2, <1>3, <2>1 DEF BadName
<1>4. CASE kind \in Jumps /\ Children(n, "Pos") # << >>
  <2>1. PICK s : s = Children(n, "Pos")
    OBVIOUS
  <2>2. kind \notin NamedByInfo \cup NamedByText
    BY <1>4 DEF Jumps, NamedByInfo, NamedByText
  <2>3. NameHolder(n) = s[1]
    BY <1>2, <1>4, <2>1, <2>2 DEF NameHolder
  <2>4. 1 \in DOMAIN s
    BY <1>4, <2>1, ChildrenIn, TailSeq
  <2>5. s[1] \in DOMAIN arena /\ Fits(kind, "Pos", View(arena[s[1]]))
    BY <1>2, <2>1, <2>4, ChildrenIn
  <2>6. arena[s[1]].kind = "Label"
    <3>1. MembersOf(kind)["Pos"] = "Label"
      BY <1>4, ExprMembersOf DEF Jumps
    <3>2. View(arena[s[1]]).kind = arena[s[1]].kind
      BY DEF View
    <3>3. classof("Label") = {"Label"}
      BY Classes
    <3> QED
      BY <2>5, <3>1, <3>2, <3>3 DEF Fits
  <2> QED
    BY <1>1, <2>3, <2>5, <2>6 DEF BadName, NamedByInfo
<1>5. CASE kind = "CatchClause"
  <2>1. PICK s : s = Children(n, "Param")
    OBVIOUS
  <2>2. kind \notin NamedByInfo \cup NamedByText \cup Jumps
    BY <1>5 DEF Jumps, NamedByInfo, NamedByText
  <2>3. NameHolder(n) = s[1]
    BY <1>2, <1>5, <2>1, <2>2 DEF NameHolder
  <2>4. 1 \in DOMAIN s
    <3>1. PICK v : v = View(arena[n])
      OBVIOUS
    <3>2. "Param" \in Pointers(kind) /\ << kind, "Param" >> \notin Optional /\ "Param" \in MemberNames
      BY <1>5, StmtMembersOf DEF Pointers, ListMembers, Optional, MemberNames
    <3>3. Whole(v) /\ v.kind = kind
      BY <1>2, <3>1, HeldMembers
    <3>4. v.has["Param"] = 1
      BY <3>2, <3>3 DEF Whole
    <3>5. v.has["Param"] = IF "Param" \in DOMAIN arena[n].slots THEN Len(arena[n].slots["Param"]) ELSE 0
      BY <3>1, <3>2, HeldMembers
    <3>6. s # << >>
      BY <2>1, <3>4, <3>5, SomeOrNone DEF Children
    <3> QED
      BY <2>1, <3>6, ChildrenIn, TailSeq
  <2>5. s[1] \in DOMAIN arena /\ Fits(kind, "Param", View(arena[s[1]]))
    BY <1>2, <2>1, <2>4, ChildrenIn
  <2>6. arena[s[1]].kind = "Parameter"
    <3>1. MembersOf(kind)["Param"] = "Parameter"
      BY <1>5, StmtMembersOf
    <3>2. View(arena[s[1]]).kind = arena[s[1]].kind
      BY DEF View
    <3>3. classof("Parameter") = {"Parameter"}
      BY Classes
    <3> QED
      BY <2>5, <3>1, <3>2, <3>3 DEF Fits
  <2> QED
    BY <1>1, <2>3, <2>5, <2>6 DEF BadName, NamedByInfo
<1>6. CASE /\ kind \notin NamedByInfo \cup NamedByText /\ kind # "CatchClause"
           /\ ~ (kind \in Jumps /\ Children(n, "Pos") # << >>)
  <2>1. NameHolder(n) = Null
    BY <1>2, <1>6 DEF NameHolder
  <2> QED
    BY <2>1 DEF BadName
<1> QED
  BY <1>3, <1>4, <1>5, <1>6

-----------------------------------------------------------------------------
(* The driver with the members of the AST.                                 *)

\* Every child that waits to be dumped is a node in D.
Waits(list, D) == IsSeq(list) /\ \A i \in DOMAIN list : list[i].child.node \in D

LEMMA PendingWaits ==
  ASSUME NEW s, NEW D, Points(s, D), NEW prefix
  PROVE  Waits(Pending(s, prefix), D)
<1>1. PICK t : t = Pending(s, prefix)
  OBVIOUS
<1>2. Len(s) \in Nat /\ DOMAIN s = 1..Len(s)
  BY SeqFacts DEF Points
<1>3. DOMAIN t = DOMAIN s /\ \A i \in DOMAIN s : t[i].child = s[i]
  BY <1>1 DEF Pending
<1>4. t = [i \in 1..Len(s) |-> t[i]]
  BY <1>1, <1>2 DEF Pending
<1>5. IsSeq(t)
  BY <1>2, <1>4, FunSeq
<1> QED
  BY <1>1, <1>3, <1>5 DEF Points, Waits

LEMMA WaitsConcat ==
  ASSUME NEW s, NEW t, NEW D, Waits(s, D), Waits(t, D)
  PROVE  Waits(s \o t, D)
<1>1. PICK u : u = s \o t
  OBVIOUS
<1>2. IsSeq(s) /\ IsSeq(t)
  BY DEF Waits
<1>3. /\ IsSeq(u)
      /\ \A i \in DOMAIN u : \/ i \in DOMAIN s /\ u[i] = s[i]
                             \/ i - Len(s) \in DOMAIN t /\ u[i] = t[i - Len(s)]
  BY <1>1, <1>2, ConcatSeq
<1>4. \A i \in DOMAIN u : u[i].child.node \in D
  BY <1>3 DEF Waits
<1> QED
  BY <1>1, <1>3, <1>4 DEF Waits

\* Until the dump the members are as MemberInv says; from then on the AST
\* lacks nothing, and what waits to be dumped is part of it.
Ready == Settled(arena, {}) /\ SlotsOK(arena)

TellInv ==
  /\ stage \in Parsing => TreeInv /\ MemberInv
  /\ stage = "dumping" => Waits(todo, DOMAIN arena)
  /\ (stage = "dumping" \/ OS # << >>) => Ready
  /\ crash = "none"

LEMMA TellInit == AstraInit => TellInv
<1> SUFFICES ASSUME AstraInit PROVE TellInv
  OBVIOUS
<1>1. Init /\ OS = << >> /\ stage = "start" /\ crash = "none"
  BY DEF AstraInit, Init, NotDumping
<1>2. TreeInv
  BY <1>1, InitTree
<1>3. MemberInv
  BY <1>1 DEF Init, MemberInv, Settled
<1> QED
  BY <1>1, <1>2, <1>3, Zenon DEF TellInv

\* Before the dump every step is one of parse() or leaves it alone.
LEMMA ParseTell ==
  ASSUME DriverInv, TellInv, CannotOpen \/ Open \/ CallParse \/ InParse \/ ReportErrors \/ SkipDump
  PROVE  TellInv'
<1>1. /\ stage \in Parsing /\ stage' \in Parsing \cup {"exited"} /\ OS' = OS
      /\ stage' \in Parsing => [Next]_vars
  BY DEF CannotOpen, Open, CallParse, InParse, ReportErrors, SkipDump, Returned, exit, dumpVars,
         driverVars, Parsing, Next
<1>2. IInv /\ OwnInv /\ TreeInv /\ MemberInv /\ OS = << >>
  BY <1>1 DEF DriverInv, TellInv, Mute
<1>3. ASSUME stage' \in Parsing PROVE TreeInv' /\ MemberInv' /\ crash' = "none"
  <2>1. IInv'
    BY <1>1, <1>2, <1>3, NextInv
  <2> QED
    BY <1>1, <1>2, <1>3, <2>1, NextTree, NextMembers DEF IInv, ScalarsOK
<1>4. ASSUME stage' = "exited" PROVE crash' = "none"
  <2>1. CannotOpen \/ ReportErrors \/ SkipDump
    <3>1. stage' # "exited" \/ ~ (Open \/ CallParse \/ InParse)
      BY <1>1 DEF Open, CallParse, InParse, driverVars, Parsing
    <3> QED
      BY <1>4, <3>1
  <2>2. crash' = crash
    BY <2>1 DEF CannotOpen, ReportErrors, SkipDump, vars, astVars
  <2> QED
    BY <2>2 DEF TellInv
<1> QED
  BY <1>1, <1>2, <1>3, <1>4, Zenon DEF TellInv, Parsing

\* The dump begins with the objects of the Program.
LEMMA DumpTell ==
  ASSUME DriverInv, TellInv, DumpProgram
  PROVE  TellInv'
<1>1. /\ stage = "parsing" /\ phase = "idle" /\ program # Null /\ stage' = "dumping"
      /\ UNCHANGED vars /\ todo' = Pending(appendChildren("Objects", program), << >>)
  BY DEF DumpProgram, Returned, Failed, StartDump
<1>2. IInv /\ TreeInv /\ MemberInv
  BY <1>1 DEF DriverInv, TellInv, Parsing
<1>3. program \in DOMAIN arena
  <2>1. program \in 0..Len(arena) /\ IsSeq(arena)
    BY <1>2 DEF IInv, LocalsOK
  <2> QED
    BY <1>1, <2>1, SeqFacts DEF Null
<1>4. Ready
  <2>1. stack = << >>
    BY <1>1, <1>2, NoCalls
  <2>2. HeldBy(stack) = {}
    BY <2>1, NothingHeld
  <2> QED
    BY <1>2, <2>2 DEF Ready, MemberInv, TreeInv, SlotsOK
<1>5. Waits(Pending(appendChildren("Objects", program), << >>), DOMAIN arena)
  BY <1>3, <1>4, AppendIn, PendingWaits DEF Ready
<1>6. arena' = arena /\ crash' = crash
  BY <1>1 DEF vars, astVars
<1>7. Ready'
  BY <1>4, <1>6 DEF Ready
<1>8. Waits(todo', DOMAIN arena')
  BY <1>1, <1>5, <1>6
<1> QED
  BY <1>1, <1>6, <1>7, <1>8 DEF TellInv, Parsing

\* The dump follows the members of the AST.
LEMMA FollowTell ==
  ASSUME TellInv, InDump
  PROVE  TellInv'
<1>1. /\ stage = "dumping" /\ stage' = stage /\ arena' = arena /\ todo # << >>
      /\ Waits(todo, DOMAIN arena) /\ Ready
  BY DEF InDump, dumpChild, driverVars, TellInv
<1>2. PICK c : c = Head(todo)
  OBVIOUS
<1>3. PICK rest : rest = Tail(todo)
  OBVIOUS
<1>4. /\ c.child.node \in DOMAIN arena
      /\ IsSeq(rest) /\ \A i \in DOMAIN rest : i + 1 \in DOMAIN todo /\ rest[i] = todo[i + 1]
  BY <1>1, <1>2, <1>3, TailSeq DEF Waits
<1>5. Waits(rest, DOMAIN arena)
  BY <1>1, <1>4 DEF Waits
<1>6. ~ BadName(c.child.node)
  BY <1>1, <1>4, NamesSet DEF Ready
<1>7. /\ todo' = Pending(collectChildren(c.child.node), SubPrefix(c)) \o rest
      /\ crash' = crash
  BY <1>2, <1>3, <1>6, Zenon DEF InDump, dumpChild
<1>8. Waits(Pending(collectChildren(c.child.node), SubPrefix(c)), DOMAIN arena)
  BY <1>1, <1>4, CollectIn, PendingWaits DEF Ready
<1>9. Waits(todo', DOMAIN arena')
  BY <1>1, <1>5, <1>7, <1>8, WaitsConcat
<1>10. Ready'
  BY <1>1 DEF Ready
<1> QED
  BY <1>1, <1>7, <1>9, <1>10 DEF TellInv, Parsing

LEMMA TellStep == DriverInv /\ TellInv /\ [AstraNext]_allVars => TellInv'
<1> SUFFICES ASSUME DriverInv, TellInv, [AstraNext]_allVars PROVE TellInv'
  OBVIOUS
<1>1. CASE UNCHANGED allVars \/ EndDump
  <2>1. /\ UNCHANGED vars /\ OS' = OS /\ todo' = todo
        /\ stage' = stage \/ (stage = "dumping" /\ stage' = "exited")
    BY <1>1 DEF allVars, EndDump, exit, dumpVars, driverVars
  <2>2. UNCHANGED << arena, stack, crash, tree >>
    BY <2>1 DEF vars, astVars, parserVars
  <2>3. Ready => Ready'
    BY <2>2 DEF Ready
  <2>4. stage \in Parsing => TreeInv' /\ MemberInv'
    BY <2>1, NextTree, NextMembers DEF DriverInv, TellInv
  <2> QED
    BY <2>1, <2>2, <2>3, <2>4 DEF TellInv, Parsing
<1> QED
  BY <1>1, ParseTell, DumpTell, FollowTell DEF AstraNext, Exited

LEMMA Telling == AstraSpec => [](DriverInv /\ TellInv)
  BY DriverInit, DriverStep, TellInit, TellStep, PTL DEF AstraSpec

\* What dumpHeader dereferences the builder has set, in every program without
\* errors (ASTDumper).
THEOREM NoNullNameHolds == AstraSpec => []NoNullName
<1>1. TellInv => NoNullName
  BY DEF TellInv, NoNullName
<1> QED
  BY <1>1, Telling, PTL

-----------------------------------------------------------------------------
(* What the headers of a dump tell apart.                                  *)

\* The spellings are all different.
LEMMA Spelled ==
  /\ \A x, y \in DOMAIN getVisibilityName : getVisibilityName[x] = getVisibilityName[y] => x = y
  /\ \A x, y \in DOMAIN getBuiltinTypeName :
       getBuiltinTypeName[x] = getBuiltinTypeName[y] => x = y
<1>1. \A x, y \in DOMAIN getVisibilityName : getVisibilityName[x] = getVisibilityName[y] => x = y
  BY DEF getVisibilityName
<1>2. \A x, y \in DOMAIN getBuiltinTypeName :
        getBuiltinTypeName[x] = getBuiltinTypeName[y] => x = y
  BY DEF getBuiltinTypeName
<1> QED
  BY <1>1, <1>2

LEMMA OpsSpelled == \A x, y \in DOMAIN getOpSymbol : getOpSymbol[x] = getOpSymbol[y] => x = y
<1>1. PICK f : f = getOpSymbol
  OBVIOUS
<1>2. /\ f["Add"] = "+" /\ f["Sub"] = "-" /\ f["Mult"] = "*" /\ f["Div"] = "/"
      /\ f["Mod"] = "%" /\ f["Not"] = "!" /\ f["Eq"] = "==" /\ f["Neq"] = "!="
      /\ f["LShift"] = "<<" /\ f["RShift"] = ">>" /\ f["BitAnd"] = "&" /\ f["BitXor"] = "^"
      /\ f["BitOr"] = "|" /\ f["BitNot"] = "~" /\ f["Lt"] = "<" /\ f["Gt"] = ">"
      /\ f["Le"] = "<=" /\ f["Ge"] = ">=" /\ f["Disj"] = "||" /\ f["Conj"] = "&&"
      /\ f["In"] = "in" /\ f["Is"] = "is" /\ f["As"] = "as" /\ f["AsQuest"] = "as?"
      /\ f["Elvis"] = "?:" /\ f["Assignment"] = "="
  BY <1>1 DEF getOpSymbol
<1>3. DOMAIN f = {"Add", "Sub", "Mult", "Div", "Mod", "Not", "Eq", "Neq", "LShift", "RShift",
        "BitAnd", "BitXor", "BitOr", "BitNot", "Lt", "Gt", "Le", "Ge", "Disj", "Conj", "In",
        "Is", "As", "AsQuest", "Elvis", "Assignment"}
  BY <1>1, Symbols
<1>4. ASSUME NEW x \in DOMAIN f, NEW y \in DOMAIN f, f[x] = f[y] PROVE x = y
  <2>1. CASE x \in {"Add", "Sub", "Mult", "Div", "Mod", "Not", "Eq", "Neq", "LShift"}
    BY <1>2, <1>3, <1>4, <2>1
  <2>2. CASE x \in {"RShift", "BitAnd", "BitXor", "BitOr", "BitNot", "Lt", "Gt", "Le", "Ge"}
    BY <1>2, <1>3, <1>4, <2>2
  <2>3. CASE x \in {"Disj", "Conj", "In", "Is", "As", "AsQuest", "Elvis", "Assignment"}
    BY <1>2, <1>3, <1>4, <2>3
  <2> QED
    BY <1>3, <2>1, <2>2, <2>3
<1> QED
  BY <1>1, <1>4

\* A mark that is there or not, alone or behind the visibility.
LEMMA OneMark ==
  /\ \A u, v : << u >> = << v >> => u = v
  /\ \A p, q \in BOOLEAN : \A w : If(p, << w >>) = If(q, << w >>) => p = q
<1>1. ASSUME NEW u, NEW v, << u >> = << v >> PROVE u = v
  BY <1>1
<1>2. ASSUME NEW p \in BOOLEAN, NEW q \in BOOLEAN, NEW w, If(p, << w >>) = If(q, << w >>)
      PROVE  p = q
  <2>1. << w >> # << >>
    OBVIOUS
  <2>2. p => If(p, << w >>) = << w >>
    BY Zenon DEF If
  <2>3. ~ p => If(p, << w >>) = << >>
    BY Zenon DEF If
  <2>4. q => If(q, << w >>) = << w >>
    BY Zenon DEF If
  <2>5. ~ q => If(q, << w >>) = << >>
    BY Zenon DEF If
  <2>6. p <=> q
    BY <1>2, <2>1, <2>2, <2>3, <2>4, <2>5
  <2> QED
    BY <2>6
<1> QED
  BY <1>1, <1>2

Marking(s, u, p, w) == s = << u >> \o If(p, << w >>)

LEMMA MarkBehind ==
  ASSUME NEW s, NEW u, NEW p \in BOOLEAN, NEW w, Marking(s, u, p, w)
  PROVE  s[1] = u /\ (p => Len(s) = 2) /\ (~ p => Len(s) = 1)
<1>1. PICK a, b : a = << u >> /\ b = If(p, << w >>)
  OBVIOUS
<1>2. IsSeq(a) /\ Len(a) = 1 /\ a[1] = u /\ 1 \in DOMAIN a
  BY <1>1 DEF IsSeq
<1>3. IsSeq(b) /\ (p => Len(b) = 1) /\ (~ p => Len(b) = 0)
  <2>1. CASE p
    <3>1. b = << w >>
      BY <1>1, <2>1 DEF If
    <3> QED
      BY <2>1, <3>1 DEF IsSeq
  <2>2. CASE ~ p
    <3>1. b = << >>
      BY <1>1, <2>2 DEF If
    <3> QED
      BY <2>2, <3>1 DEF IsSeq
  <2> QED
    BY <2>1, <2>2
<1>4. s = a \o b
  BY <1>1 DEF Marking
<1>5. /\ IsSeq(s) /\ Len(s) = Len(a) + Len(b)
      /\ \A i \in DOMAIN s : \/ i \in DOMAIN a /\ s[i] = a[i]
                             \/ i - Len(a) \in DOMAIN b /\ s[i] = b[i - Len(a)]
  BY <1>2, <1>3, <1>4, ConcatSeq
<1>6. 1 \in DOMAIN s /\ 1 - Len(a) \notin DOMAIN b
  BY <1>2, <1>3, <1>5, SeqFacts
<1> QED
  BY <1>2, <1>3, <1>5, <1>6

\* Two nodes with one header agree in what the header is about.
LEMMA HeadersAlike ==
  ASSUME Settled(arena, {}), NEW n \in DOMAIN arena, NEW m \in DOMAIN arena,
         arena[n].kind = arena[m].kind, Marks(n) = Marks(m)
  PROVE  /\ arena[n].ops = arena[m].ops
         /\ arena[n].flags \ {"decoded", "default", "raw"}
              = arena[m].flags \ {"decoded", "default", "raw"}
         /\ arena[n].vis = arena[m].vis
<1>1. PICK x, y, kind : x = arena[n] /\ y = arena[m] /\ kind = x.kind
  OBVIOUS
<1>2. kind = y.kind
  BY <1>1
<1>3. IsSeq(x.ops) /\ IsSeq(y.ops) /\ Legible(x) /\ Legible(y)
  BY <1>1 DEF Settled, Sound
<1>4. PICK X, Y : /\ X = x.flags \ {"decoded", "default", "raw"}
                  /\ Y = y.flags \ {"decoded", "default", "raw"}
  OBVIOUS
<1>5. X \subseteq ShownFlags(kind) /\ Y \subseteq ShownFlags(kind)
  BY <1>1, <1>2, <1>3, <1>4 DEF Legible
<1>6. \A f : f \notin {"decoded", "default", "raw"} =>
        (f \in X <=> f \in x.flags) /\ (f \in Y <=> f \in y.flags)
  BY <1>4
<1>7. /\ x.vis \in DOMAIN getVisibilityName /\ y.vis \in DOMAIN getVisibilityName
      /\ kind \notin classof("Declaration") => x.vis = y.vis
  BY <1>1, <1>2, <1>3 DEF Legible
<1>8. kind \notin Chained \cup {"BuiltinType"} => x.ops = y.ops
  BY <1>1, <1>2, <1>3 DEF Legible
<1>9. PICK a, b : a = Marks(n) /\ b = Marks(m)
  OBVIOUS
<1>10. a = b
  BY <1>9
<1>11. x.ops = y.ops /\ X = Y /\ x.vis = y.vis
  <2>1. CASE kind \in {"FunctionDecl", "ClassDecl"}
    <3>1. a = << getVisibilityName[x.vis] >> /\ b = << getVisibilityName[y.vis] >>
      BY <1>1, <1>2, <1>9, <2>1 DEF Marks
    <3>2. getVisibilityName[x.vis] = getVisibilityName[y.vis]
      BY <1>10, <3>1, OneMark
    <3>3. X = {} /\ Y = {}
      BY <1>5, <2>1 DEF ShownFlags
    <3>4. x.ops = y.ops
      BY <1>8, <2>1 DEF Chained
    <3> QED
      BY <1>7, <3>2, <3>3, <3>4, Spelled
  <2>2. CASE kind = "VarDecl"
    <3>1. PICK u, v : u = getVisibilityName[x.vis] /\ v = getVisibilityName[y.vis]
      OBVIOUS
    <3>2. /\ a = << u >> \o If("IsMutable" \in x.flags, << "mutable" >>)
          /\ b = << v >> \o If("IsMutable" \in y.flags, << "mutable" >>)
      BY <1>1, <1>2, <1>9, <2>2, <3>1 DEF Marks
    <3>3. u = v /\ ("IsMutable" \in x.flags <=> "IsMutable" \in y.flags)
      <4>1. PICK p, q : p = ("IsMutable" \in x.flags) /\ q = ("IsMutable" \in y.flags)
        OBVIOUS
      <4>2. p \in BOOLEAN /\ q \in BOOLEAN
        BY <4>1
      <4>3. PICK w : Marking(a, u, p, w) /\ Marking(b, v, q, w)
        BY <3>2, <4>1, Zenon DEF Marking
      <4>4. a[1] = u /\ (p => Len(a) = 2) /\ (~ p => Len(a) = 1)
        BY <4>2, <4>3, MarkBehind
      <4>5. b[1] = v /\ (q => Len(b) = 2) /\ (~ q => Len(b) = 1)
        BY <4>2, <4>3, MarkBehind
      <4>6. u = v /\ p = q
        BY <1>10, <4>2, <4>4, <4>5
      <4> QED
        BY <4>1, <4>6
    <3>4. X \subseteq {"IsMutable"} /\ Y \subseteq {"IsMutable"}
      BY <1>5, <2>2 DEF ShownFlags
    <3>5. X = Y
      BY <1>6, <3>3, <3>4
    <3>6. x.ops = y.ops
      BY <1>8, <2>2 DEF Chained
    <3> QED
      BY <1>7, <3>1, <3>3, <3>5, <3>6, Spelled
  <2>3. CASE kind = "BuiltinType"
    <3>1. /\ a = << getBuiltinTypeName[x.ops[1]] >> /\ b = << getBuiltinTypeName[y.ops[1]] >>
      BY <1>1, <1>2, <1>9, <2>3 DEF Marks
    <3>2. getBuiltinTypeName[x.ops[1]] = getBuiltinTypeName[y.ops[1]]
      BY <1>10, <3>1, OneMark
    <3>3. /\ Len(x.ops) = 1 /\ x.ops[1] \in DOMAIN getBuiltinTypeName
          /\ Len(y.ops) = 1 /\ y.ops[1] \in DOMAIN getBuiltinTypeName
      BY <1>1, <1>2, <1>3, <2>3 DEF Legible
    <3>4. x.ops[1] = y.ops[1]
      BY <3>2, <3>3, Spelled
    <3>5. x.ops = y.ops
      BY <1>3, <3>3, <3>4 DEF IsSeq
    <3>6. X = {} /\ Y = {}
      BY <1>5, <2>3 DEF ShownFlags
    <3>7. x.vis = y.vis
      BY <1>7, <2>3, Classes
    <3> QED
      BY <3>5, <3>6, <3>7
  <2>4. CASE kind \in Chained
    <3>1. /\ a = [i \in DOMAIN x.ops |-> getOpSymbol[x.ops[i]]]
          /\ b = [i \in DOMAIN y.ops |-> getOpSymbol[y.ops[i]]]
      BY <1>1, <1>2, <1>9, <2>4 DEF Marks, Chained
    <3>2. DOMAIN x.ops = DOMAIN y.ops
      BY <1>10, <3>1
    <3>3. \A i \in DOMAIN x.ops : getOpSymbol[x.ops[i]] = getOpSymbol[y.ops[i]]
      BY <1>10, <3>1, <3>2
    <3>4. \A i \in DOMAIN x.ops : x.ops[i] \in DOMAIN getOpSymbol /\ y.ops[i] \in DOMAIN getOpSymbol
      BY <1>1, <1>2, <1>3, <2>4, <3>2 DEF Legible
    <3>5. \A i \in DOMAIN x.ops : x.ops[i] = y.ops[i]
      BY <3>3, <3>4, OpsSpelled
    <3>6. x.ops = y.ops
      BY <1>3, <3>2, <3>5, SeqFacts DEF IsSeq
    <3>7. X = {} /\ Y = {}
      BY <1>5, <2>4 DEF ShownFlags, Chained
    <3>8. x.vis = y.vis
      BY <1>7, <2>4, Classes DEF Chained
    <3> QED
      BY <3>6, <3>7, <3>8
  <2>5. CASE kind \in {"TypeRef", "CallExpr", "MemberExpr", "AsExpr"}
    <3>1. PICK f : f = IF kind \in {"TypeRef", "CallExpr"} THEN "ExplicitTypeArgs" ELSE "NullSafe"
      OBVIOUS
    <3>2. PICK word : a = If(f \in x.flags, << word >>) /\ b = If(f \in y.flags, << word >>)
      BY <1>1, <1>2, <1>9, <2>5, <3>1 DEF Marks
    <3>3. f \in x.flags <=> f \in y.flags
      <4>1. PICK p, q : p = (f \in x.flags) /\ q = (f \in y.flags)
        OBVIOUS
      <4>2. p \in BOOLEAN /\ q \in BOOLEAN
        BY <4>1
      <4>3. If(p, << word >>) = If(q, << word >>)
        BY <1>10, <3>2, <4>1, Zenon
      <4>4. p = q
        BY <4>2, <4>3, OneMark
      <4> QED
        BY <4>1, <4>4
    <3>4. X \subseteq {f} /\ Y \subseteq {f} /\ f \notin {"decoded", "default", "raw"}
      BY <1>5, <2>5, <3>1 DEF ShownFlags
    <3>5. X = Y
      BY <1>6, <3>3, <3>4
    <3>6. x.vis = y.vis /\ x.ops = y.ops
      BY <1>7, <1>8, <2>5, Classes DEF Chained
    <3> QED
      BY <3>5, <3>6
  <2>6. CASE kind \notin {"FunctionDecl", "ClassDecl", "VarDecl", "BuiltinType", "TypeRef",
                          "CallExpr", "MemberExpr", "AsExpr"} \cup Chained
    <3>1. X = {} /\ Y = {}
      BY <1>5, <2>6 DEF ShownFlags
    <3>2. x.vis = y.vis /\ x.ops = y.ops
      BY <1>7, <1>8, <2>6, Classes
    <3> QED
      BY <3>1, <3>2
  <2> QED
    BY <2>1, <2>2, <2>3, <2>4, <2>5, <2>6
<1> QED
  BY <1>1, <1>4, <1>11

\* The dump tells apart what the tests compare dumps for: nodes with the same
\* header agree in kind, operators, visibility, mutability, null safety and
\* explicit type arguments (ASTDumper).
THEOREM HeadersTellHolds == AstraSpec => []HeadersTell
<1>1. TellInv => HeadersTell
  <2> SUFFICES ASSUME TellInv, Dumped, NEW n \in DOMAIN arena, NEW m \in DOMAIN arena,
                      arena[n].kind = arena[m].kind, Marks(n) = Marks(m)
               PROVE  /\ arena[n].ops = arena[m].ops
                      /\ arena[n].flags \ {"decoded", "default", "raw"}
                           = arena[m].flags \ {"decoded", "default", "raw"}
                      /\ arena[n].vis = arena[m].vis
    BY DEF HeadersTell
  <2>1. Settled(arena, {})
    BY DEF TellInv, Dumped, Ready
  <2> QED
    BY <2>1, HeadersAlike
<1> QED
  BY <1>1, Telling, PTL

-----------------------------------------------------------------------------
(* The drawing of a dump.                                                  *)

\* In the widths d of n lines, line j > i is the first after i that is not
\* wider than k, and is k wide.
Reaches(d, n, i, k) ==
  \E j \in (i + 1)..n : d[j] = k /\ \A m \in (i + 1)..j : d[m] >= k

\* e is d with m lines one wider than line a behind it.
Widened(d, n, e, a, m) ==
  /\ n \in Nat /\ a \in 1..n /\ m \in Nat
  /\ \A i \in 1..n : d[i] \in Nat
  /\ \A i \in 1..a : e[i] = d[i]
  /\ \A i \in (a + 1)..(a + m) : e[i] = d[a] + 1
  /\ \A i \in (a + 1)..n : e[i + m] = d[i]

\* The lines behind the new ones, from their new places.
LEMMA WidenedBehind ==
  ASSUME NEW d, NEW n, NEW e, NEW a, NEW m, Widened(d, n, e, a, m)
  PROVE  \A j \in (a + m + 1)..(n + m) : e[j] = d[j - m]
<1>1. TAKE j \in (a + m + 1)..(n + m)
<1>2. PICK i : i = j - m
  OBVIOUS
<1>3. i \in (a + 1)..n /\ j = i + m
  BY <1>2 DEF Widened
<1>4. e[i + m] = d[i]
  BY <1>3 DEF Widened
<1> QED
  BY <1>2, <1>3, <1>4

\* A line above a continues as before.
LEMMA ReachesAbove ==
  ASSUME NEW d, NEW n, NEW e, NEW a, NEW m, Widened(d, n, e, a, m),
         NEW i \in 1..n, i < a, NEW k \in Nat
  PROVE  Reaches(e, n + m, i, k) <=> Reaches(d, n, i, k)
<1>0. /\ n \in Nat /\ a \in 1..n /\ m \in Nat /\ i \in Nat
      /\ \A j \in 1..n : d[j] \in Nat
  BY DEF Widened
<1>1. \A j \in 1..a : e[j] = d[j]
  BY DEF Widened
<1>2. \A j \in (a + 1)..(a + m) : e[j] = d[a] + 1
  BY DEF Widened
<1>3. /\ \A j \in (a + m + 1)..(n + m) : e[j] = d[j - m]
      /\ \A j \in (a + 1)..n : e[j + m] = d[j]
  BY WidenedBehind DEF Widened
<1>4. ASSUME NEW j \in (i + 1)..(n + m), e[j] = k, \A l \in (i + 1)..j : e[l] >= k
      PROVE  \E q \in (i + 1)..n : d[q] = k /\ \A l \in (i + 1)..q : d[l] >= k
  <2>1. CASE j <= a
    <3>1. j \in (i + 1)..n /\ d[j] = k
      BY <1>0, <1>1, <1>4, <2>1
    <3>2. \A l \in (i + 1)..j : d[l] >= k
      <4> SUFFICES ASSUME NEW l \in (i + 1)..j PROVE d[l] >= k
        OBVIOUS
      <4>1. l \in 1..a /\ e[l] >= k
        BY <1>0, <1>4, <2>1
      <4> QED
        BY <1>1, <4>1
    <3> QED
      BY <3>1, <3>2
  <2>2. CASE j > a
    <3>1. d[a] >= k
      <4>1. a \in (i + 1)..j /\ a \in 1..a
        BY <1>0, <2>2
      <4> QED
        BY <1>1, <1>4, <4>1
    <3>2. j > a + m
      <4>1. CASE j <= a + m
        <5>1. j \in (a + 1)..(a + m)
          BY <1>0, <2>2, <4>1
        <5>2. e[j] = d[a] + 1 /\ d[a] \in Nat
          BY <1>0, <1>2, <5>1
        <5> QED
          BY <1>4, <3>1, <5>2
      <4> QED
        BY <1>0, <4>1
    <3>3. j - m \in (i + 1)..n /\ d[j - m] = k
      <4>1. j \in (a + m + 1)..(n + m) /\ j - m \in (i + 1)..n
        BY <1>0, <3>2
      <4> QED
        BY <1>3, <1>4, <4>1
    <3>4. ASSUME NEW l \in (i + 1)..(j - m) PROVE d[l] >= k
      <4>1. CASE l <= a
        <5>1. l \in 1..a /\ l \in (i + 1)..j
          BY <1>0, <4>1, <2>2
        <5> QED
          BY <1>1, <1>4, <5>1
      <4>2. CASE l > a
        <5>1. l \in (a + 1)..n /\ l + m \in (i + 1)..j
          BY <1>0, <4>2
        <5>2. e[l + m] = d[l]
          BY <1>3, <5>1
        <5>3. e[l + m] >= k
          BY <1>4, <5>1
        <5> QED
          BY <5>2, <5>3
      <4> QED
        BY <1>0, <4>1, <4>2
    <3> QED
      BY <3>3, <3>4
  <2> QED
    BY <1>0, <2>1, <2>2
<1>5. ASSUME NEW j \in (i + 1)..n, d[j] = k, \A l \in (i + 1)..j : d[l] >= k
      PROVE  \E q \in (i + 1)..(n + m) : e[q] = k /\ \A l \in (i + 1)..q : e[l] >= k
  <2>1. CASE j <= a
    <3>1. j \in (i + 1)..(n + m) /\ e[j] = k
      BY <1>0, <1>1, <1>5, <2>1
    <3>2. \A l \in (i + 1)..j : e[l] >= k
      <4> SUFFICES ASSUME NEW l \in (i + 1)..j PROVE e[l] >= k
        OBVIOUS
      <4>1. l \in 1..a /\ d[l] >= k
        BY <1>0, <1>5, <2>1
      <4> QED
        BY <1>1, <4>1
    <3> QED
      BY <3>1, <3>2
  <2>2. CASE j > a
    <3>1. d[a] >= k
      <4>1. a \in (i + 1)..j
        BY <1>0, <2>2
      <4> QED
        BY <1>5, <4>1
    <3>2. j + m \in (i + 1)..(n + m) /\ e[j + m] = k
      <4>1. j \in (a + 1)..n /\ j + m \in (i + 1)..(n + m)
        BY <1>0, <2>2
      <4> QED
        BY <1>3, <1>5, <4>1
    <3>3. ASSUME NEW l \in (i + 1)..(j + m) PROVE e[l] >= k
      <4>1. CASE l <= a
        <5>1. l \in 1..a /\ l \in (i + 1)..j
          BY <1>0, <4>1, <2>2
        <5> QED
          BY <1>1, <1>5, <5>1
      <4>2. CASE l > a /\ l <= a + m
        <5>1. l \in (a + 1)..(a + m) /\ d[a] \in Nat
          BY <1>0, <4>2
        <5>2. e[l] = d[a] + 1
          BY <1>2, <5>1
        <5> QED
          BY <3>1, <5>1, <5>2
      <4>3. CASE l > a + m
        <5>1. l \in (a + m + 1)..(n + m) /\ l - m \in (i + 1)..j
          BY <1>0, <4>3
        <5> QED
          BY <1>3, <1>5, <5>1
      <4> QED
        BY <1>0, <4>1, <4>2, <4>3
    <3> QED
      BY <3>2, <3>3
  <2> QED
    BY <1>0, <2>1, <2>2
<1> QED
  BY <1>4, <1>5 DEF Reaches

\* In the columns of line a, the new lines continue as that line did.
LEMMA ReachesBelow ==
  ASSUME NEW d, NEW n, NEW e, NEW a, NEW m, Widened(d, n, e, a, m),
         NEW i \in a..(a + m), NEW k \in Nat, k <= d[a]
  PROVE  Reaches(e, n + m, i, k) <=> Reaches(d, n, a, k)
<1>0. /\ n \in Nat /\ a \in 1..n /\ m \in Nat /\ i \in Nat /\ d[a] \in Nat
      /\ \A j \in 1..n : d[j] \in Nat
  BY DEF Widened
<1>2. \A j \in (a + 1)..(a + m) : e[j] = d[a] + 1
  BY DEF Widened
<1>3. /\ \A j \in (a + m + 1)..(n + m) : e[j] = d[j - m]
      /\ \A j \in (a + 1)..n : e[j + m] = d[j]
  BY WidenedBehind DEF Widened
<1>4. ASSUME NEW j \in (i + 1)..(n + m), e[j] = k, \A l \in (i + 1)..j : e[l] >= k
      PROVE  \E q \in (a + 1)..n : d[q] = k /\ \A l \in (a + 1)..q : d[l] >= k
  <2>1. j > a + m
    <3>1. CASE j <= a + m
      <4>1. j \in (a + 1)..(a + m)
        BY <1>0, <3>1
      <4>2. e[j] = d[a] + 1
        BY <1>2, <4>1
      <4> QED
        BY <1>0, <1>4, <4>2
    <3> QED
      BY <1>0, <3>1
  <2>2. j - m \in (a + 1)..n /\ j \in (a + m + 1)..(n + m)
    BY <1>0, <2>1
  <2>3. d[j - m] = k
    BY <1>3, <1>4, <2>2
  <2>4. ASSUME NEW l \in (a + 1)..(j - m) PROVE d[l] >= k
    <3>1. l \in (a + 1)..n /\ l + m \in (i + 1)..j
      BY <1>0, <2>2
    <3>2. e[l + m] = d[l]
      BY <1>3, <3>1
    <3>3. e[l + m] >= k
      BY <1>4, <3>1
    <3> QED
      BY <3>2, <3>3
  <2> QED
    BY <2>2, <2>3, <2>4
<1>5. ASSUME NEW j \in (a + 1)..n, d[j] = k, \A l \in (a + 1)..j : d[l] >= k
      PROVE  \E q \in (i + 1)..(n + m) : e[q] = k /\ \A l \in (i + 1)..q : e[l] >= k
  <2>1. j + m \in (i + 1)..(n + m) /\ j \in (a + 1)..n
    BY <1>0
  <2>2. e[j + m] = k
    BY <1>3, <1>5, <2>1
  <2>3. ASSUME NEW l \in (i + 1)..(j + m) PROVE e[l] >= k
    <3>1. CASE l <= a + m
      <4>1. l \in (a + 1)..(a + m)
        BY <1>0, <3>1
      <4>2. e[l] = d[a] + 1
        BY <1>2, <4>1
      <4> QED
        BY <1>0, <4>2
    <3>2. CASE l > a + m
      <4>1. l \in (a + m + 1)..(n + m) /\ l - m \in (a + 1)..j
        BY <1>0, <3>2
      <4> QED
        BY <1>3, <1>5, <4>1
    <3> QED
      BY <1>0, <3>1, <3>2
  <2> QED
    BY <2>1, <2>2, <2>3
<1> QED
  BY <1>4, <1>5 DEF Reaches

\* A line behind a continues as before.
LEMMA ReachesBehind ==
  ASSUME NEW d, NEW n, NEW e, NEW a, NEW m, Widened(d, n, e, a, m),
         NEW i \in (a + 1)..n, NEW k \in Nat
  PROVE  Reaches(e, n + m, i + m, k) <=> Reaches(d, n, i, k)
<1>0. n \in Nat /\ a \in 1..n /\ m \in Nat /\ i \in Nat
  BY DEF Widened
<1>3. /\ \A j \in (a + m + 1)..(n + m) : e[j] = d[j - m]
      /\ \A j \in (a + 1)..n : e[j + m] = d[j]
  BY WidenedBehind DEF Widened
<1>4. ASSUME NEW j \in (i + m + 1)..(n + m), e[j] = k, \A l \in (i + m + 1)..j : e[l] >= k
      PROVE  \E q \in (i + 1)..n : d[q] = k /\ \A l \in (i + 1)..q : d[l] >= k
  <2>1. j - m \in (i + 1)..n /\ j \in (a + m + 1)..(n + m)
    BY <1>0
  <2>2. d[j - m] = k
    BY <1>3, <1>4, <2>1
  <2>3. ASSUME NEW l \in (i + 1)..(j - m) PROVE d[l] >= k
    <3>1. l \in (a + 1)..n /\ l + m \in (i + m + 1)..j
      BY <1>0
    <3>2. e[l + m] = d[l]
      BY <1>3, <3>1
    <3>3. e[l + m] >= k
      BY <1>4, <3>1
    <3> QED
      BY <3>2, <3>3
  <2> QED
    BY <2>1, <2>2, <2>3
<1>5. ASSUME NEW j \in (i + 1)..n, d[j] = k, \A l \in (i + 1)..j : d[l] >= k
      PROVE  \E q \in (i + m + 1)..(n + m) : e[q] = k /\ \A l \in (i + m + 1)..q : e[l] >= k
  <2>1. j \in (a + 1)..n /\ j + m \in (i + m + 1)..(n + m)
    BY <1>0
  <2>2. e[j + m] = k
    BY <1>3, <1>5, <2>1
  <2>3. ASSUME NEW l \in (i + m + 1)..(j + m) PROVE e[l] >= k
    <3>1. l \in (a + m + 1)..(n + m) /\ l - m \in (i + 1)..j
      BY <1>0
    <3> QED
      BY <1>3, <1>5, <3>1
  <2> QED
    BY <2>1, <2>2, <2>3
<1> QED
  BY <1>4, <1>5 DEF Reaches

\* Among themselves the new lines continue up to the last of them, if the
\* line behind them is not wider than line a.
LEMMA ReachesNew ==
  ASSUME NEW d, NEW n, NEW e, NEW a, NEW m, Widened(d, n, e, a, m), a < n => d[a + 1] <= d[a],
         NEW i \in (a + 1)..(a + m)
  PROVE  Reaches(e, n + m, i, d[a] + 1) <=> i # a + m
<1>0. /\ n \in Nat /\ a \in 1..n /\ m \in Nat /\ i \in Nat /\ d[a] \in Nat
      /\ \A j \in 1..n : d[j] \in Nat
  BY DEF Widened
<1>2. \A j \in (a + 1)..(a + m) : e[j] = d[a] + 1
  BY DEF Widened
<1>3. /\ \A j \in (a + m + 1)..(n + m) : e[j] = d[j - m]
      /\ \A j \in (a + 1)..n : e[j + m] = d[j]
  BY WidenedBehind DEF Widened
<1>4. ASSUME NEW j \in (i + 1)..(n + m), \A l \in (i + 1)..j : e[l] >= d[a] + 1, i = a + m
      PROVE  FALSE
  <2>1. a + m + 1 \in (a + m + 1)..(n + m) /\ a + m + 1 \in (i + 1)..j /\ a + m + 1 - m = a + 1
        /\ a < n /\ a + 1 \in 1..n
    BY <1>0, <1>4
  <2>2. e[a + m + 1] = d[a + 1] /\ d[a + 1] \in Nat
    BY <1>0, <1>3, <2>1
  <2> QED
    BY <1>0, <1>4, <2>1, <2>2
<1>5. ASSUME i # a + m
      PROVE  \E q \in (i + 1)..(n + m) :
               e[q] = d[a] + 1 /\ \A l \in (i + 1)..q : e[l] >= d[a] + 1
  <2>1. i + 1 \in (i + 1)..(n + m) /\ i + 1 \in (a + 1)..(a + m)
    BY <1>0, <1>5
  <2>2. e[i + 1] = d[a] + 1
    BY <1>2, <2>1
  <2>3. ASSUME NEW l \in (i + 1)..(i + 1) PROVE e[l] >= d[a] + 1
    <3>1. l = i + 1
      BY <1>0
    <3> QED
      BY <1>0, <2>2, <3>1
  <2> QED
    BY <2>1, <2>2, <2>3
<1> QED
  BY <1>4, <1>5 DEF Reaches

\* What is drawn of a line: its prefix and its connector.
LineOK(x) == x.prefix \in Seq(BOOLEAN) /\ x.last \in BOOLEAN
Alike(x, y) == x.prefix = y.prefix /\ (x.last <=> y.last)

Widths(V, n) == [i \in 1..n |-> Len(V[i].prefix)]

\* The connectors and bars of n lines are as BarsConnect says.
DrawnLine(V, n, i) ==
  LET d == Widths(V, n)
  IN  /\ V[i].last <=> ~ Reaches(d, n, i, d[i])
      /\ \A k \in 1..d[i] : V[i].prefix[k] <=> Reaches(d, n, i, k - 1)
Drawn(V, n) == \A i \in 2..n : DrawnLine(V, n, i)

\* From line a on no line is wider than the one above it.
Falling(V, n, a) == \A i \in a..(n - 1) : Widths(V, n)[i + 1] <= Widths(V, n)[i]

\* W is V with m lines that hang from line a.
Branches(V, n, W, a, m) ==
  /\ n \in Nat /\ a \in 2..n /\ m \in Nat
  /\ \A i \in 1..n : LineOK(V[i])
  /\ \A i \in 1..a : LineOK(W[i]) /\ Alike(W[i], V[i])
  /\ \A i \in (a + 1)..(a + m) :
       /\ LineOK(W[i]) /\ W[i].prefix = Append(V[a].prefix, ~ V[a].last)
       /\ W[i].last <=> i = a + m
  /\ \A i \in (a + 1)..n : LineOK(W[i + m]) /\ Alike(W[i + m], V[i])

LEMMA BranchWidens ==
  ASSUME NEW V, NEW n, NEW W, NEW a, NEW m, Branches(V, n, W, a, m)
  PROVE  Widened(Widths(V, n), n, Widths(W, n + m), a, m)
<1> DEFINE d == Widths(V, n)
           e == Widths(W, n + m)
<1>0. n \in Nat /\ a \in 2..n /\ m \in Nat /\ n + m \in Nat /\ a + m \in Nat
  BY DEF Branches
<1>1. /\ \A i \in 1..n : d[i] = Len(V[i].prefix)
      /\ \A i \in 1..(n + m) : e[i] = Len(W[i].prefix)
  BY DEF Widths
<1> HIDE DEF d, e
<1>2. \A i \in 1..n : d[i] \in Nat
  <2>1. TAKE i \in 1..n
  <2>2. V[i].prefix \in Seq(BOOLEAN)
    BY DEF Branches, LineOK
  <2>3. Len(V[i].prefix) \in Nat
    BY <2>2
  <2> QED
    BY <1>1, <2>3
<1>3. \A i \in 1..a : e[i] = d[i]
  <2>1. TAKE i \in 1..a
  <2>2. W[i].prefix = V[i].prefix /\ i \in 1..n /\ i \in 1..(n + m)
    BY <1>0 DEF Branches, Alike
  <2> QED
    BY <1>1, <2>2
<1>4. \A i \in (a + 1)..(a + m) : e[i] = d[a] + 1
  <2>1. TAKE i \in (a + 1)..(a + m)
  <2>2. W[i].prefix = Append(V[a].prefix, ~ V[a].last) /\ i \in 1..(n + m) /\ a \in 1..n
    BY <1>0 DEF Branches
  <2>3. V[a].prefix \in Seq(BOOLEAN) /\ (~ V[a].last) \in BOOLEAN
    BY <2>2 DEF Branches, LineOK
  <2>4. PICK p, b : p = V[a].prefix /\ b = ~ V[a].last
    OBVIOUS
  <2>5. p \in Seq(BOOLEAN) /\ b \in BOOLEAN
    BY <2>3, <2>4
  <2>6. Len(Append(p, b)) = Len(p) + 1
    BY <2>5
  <2>7. W[i].prefix = Append(p, b)
    BY <2>2, <2>4
  <2>8. e[i] = Len(Append(p, b)) /\ d[a] = Len(p)
    BY <1>1, <2>2, <2>4, <2>7
  <2> QED
    BY <2>6, <2>8
<1>5. \A i \in (a + 1)..n : e[i + m] = d[i]
  <2>1. TAKE i \in (a + 1)..n
  <2>2. W[i + m].prefix = V[i].prefix /\ i \in 1..n /\ i + m \in 1..(n + m)
    BY <1>0 DEF Branches, Alike
  <2> QED
    BY <1>1, <2>2
<1>6. a \in 1..n
  BY <1>0
<1> QED
  BY <1>0, <1>2, <1>3, <1>4, <1>5, <1>6 DEF Widened, d, e

\* The new lines keep the drawing right.
LEMMA BranchDrawn ==
  ASSUME NEW V, NEW n, NEW W, NEW a, NEW m, Branches(V, n, W, a, m), Drawn(V, n), Falling(V, n, a)
  PROVE  Drawn(W, n + m) /\ Falling(W, n + m, a + 1)
<1>d. PICK d, e : d = Widths(V, n) /\ e = Widths(W, n + m)
  OBVIOUS
<1>w. Widened(d, n, e, a, m)
  BY <1>d, BranchWidens
<1>0. /\ n \in Nat /\ a \in 2..n /\ m \in Nat /\ n + m \in Nat /\ a + m \in Nat
      /\ \A i \in 1..n : d[i] \in Nat
  BY <1>w DEF Branches, Widened
<1>3. /\ \A i \in 1..a : e[i] = d[i]
      /\ \A i \in (a + 1)..(a + m) : e[i] = d[a] + 1
      /\ \A i \in (a + 1)..n : e[i + m] = d[i]
  BY <1>w DEF Widened
<1>4. a < n => d[a + 1] <= d[a]
  BY <1>0, <1>d DEF Falling
<1>5. \A i \in 2..n : /\ V[i].last <=> ~ Reaches(d, n, i, d[i])
                      /\ \A k \in 1..d[i] : V[i].prefix[k] <=> Reaches(d, n, i, k - 1)
  BY <1>d DEF Drawn, DrawnLine
<1>6. ASSUME NEW i \in 2..(n + m)
      PROVE  /\ W[i].last <=> ~ Reaches(e, n + m, i, e[i])
             /\ \A k \in 1..e[i] : W[i].prefix[k] <=> Reaches(e, n + m, i, k - 1)
  <2>1. CASE i < a
    <3>1. i \in 1..n /\ i \in 1..a /\ i \in 2..n /\ d[i] \in Nat
      BY <1>0, <2>1
    <3>2. e[i] = d[i] /\ W[i].prefix = V[i].prefix /\ (W[i].last <=> V[i].last)
      BY <1>3, <3>1 DEF Branches, Alike
    <3>3. \A k \in Nat : Reaches(e, n + m, i, k) <=> Reaches(d, n, i, k)
      BY <1>w, <2>1, <3>1, ReachesAbove
    <3>4. \A k \in 1..d[i] : k - 1 \in Nat
      BY <3>1
    <3> QED
      BY <1>5, <3>1, <3>2, <3>3, <3>4
  <2>2. CASE i = a
    <3>1. a \in 1..a /\ a \in 2..n /\ d[a] \in Nat /\ a \in a..(a + m)
      BY <1>0
    <3>2. e[a] = d[a] /\ W[a].prefix = V[a].prefix /\ (W[a].last <=> V[a].last)
      BY <1>3, <3>1 DEF Branches, Alike
    <3>3. \A k \in Nat : k <= d[a] => (Reaches(e, n + m, a, k) <=> Reaches(d, n, a, k))
      BY <1>w, <3>1, ReachesBelow
    <3>4. /\ \A k \in 1..d[a] : k - 1 \in Nat /\ k - 1 <= d[a]
          /\ d[a] <= d[a]
      BY <3>1
    <3> QED
      BY <1>5, <2>2, <3>1, <3>2, <3>3, <3>4
  <2>3. CASE i > a /\ i <= a + m
    <3>1. /\ i \in (a + 1)..(a + m) /\ i \in a..(a + m) /\ a \in 2..n /\ d[a] \in Nat /\ i \in Nat
          /\ a \in 1..n
      BY <1>0, <2>3
    <3>2. PICK p, b : p = V[a].prefix /\ b = ~ V[a].last
      OBVIOUS
    <3>3. p \in Seq(BOOLEAN) /\ b \in BOOLEAN
      BY <3>1, <3>2 DEF Branches, LineOK
    <3>4. e[i] = d[a] + 1 /\ W[i].prefix = Append(p, b) /\ (W[i].last <=> i = a + m)
      BY <1>3, <3>1, <3>2 DEF Branches
    <3>5. Len(p) = d[a]
      BY <1>d, <3>1, <3>2 DEF Widths
    <3>6. /\ Append(p, b)[d[a] + 1] = b
          /\ \A k \in 1..d[a] : Append(p, b)[k] = p[k]
      BY <3>3, <3>5
    <3>7. Reaches(e, n + m, i, d[a] + 1) <=> i # a + m
      BY <1>4, <1>w, <3>1, ReachesNew
    <3>8. \A k \in Nat : k <= d[a] => (Reaches(e, n + m, i, k) <=> Reaches(d, n, a, k))
      BY <1>w, <3>1, ReachesBelow
    <3>9. ASSUME NEW k \in 1..(d[a] + 1)
          PROVE  W[i].prefix[k] <=> Reaches(e, n + m, i, k - 1)
      <4>1. CASE k = d[a] + 1
        <5>1. W[i].prefix[k] <=> ~ V[a].last
          BY <3>2, <3>4, <3>6, <4>1
        <5>2. k - 1 = d[a] /\ d[a] <= d[a]
          BY <3>1, <4>1
        <5>3. Reaches(e, n + m, i, d[a]) <=> Reaches(d, n, a, d[a])
          BY <3>1, <3>8, <5>2
        <5> QED
          BY <1>5, <3>1, <5>1, <5>2, <5>3
      <4>2. CASE k # d[a] + 1
        <5>1. k \in 1..d[a] /\ k - 1 \in Nat /\ k - 1 <= d[a]
          BY <3>1, <4>2
        <5>2. W[i].prefix[k] <=> V[a].prefix[k]
          BY <3>2, <3>4, <3>6, <5>1
        <5>3. Reaches(e, n + m, i, k - 1) <=> Reaches(d, n, a, k - 1)
          BY <3>8, <5>1
        <5> QED
          BY <1>5, <3>1, <5>1, <5>2, <5>3
      <4> QED
        BY <4>1, <4>2
    <3> QED
      BY <3>4, <3>7, <3>9
  <2>4. CASE i > a + m
    <3>1. PICK j : j = i - m
      OBVIOUS
    <3>2. j \in (a + 1)..n /\ i = j + m /\ j \in 2..n /\ j \in 1..n
      BY <1>0, <2>4, <3>1
    <3>3. e[j + m] = d[j] /\ W[j + m].prefix = V[j].prefix /\ (W[j + m].last <=> V[j].last)
      BY <1>3, <3>2 DEF Branches, Alike
    <3>4. \A k \in Nat : Reaches(e, n + m, j + m, k) <=> Reaches(d, n, j, k)
      BY <1>w, <3>2, ReachesBehind
    <3>5. d[j] \in Nat /\ \A k \in 1..d[j] : k - 1 \in Nat
      BY <1>0, <3>2
    <3> QED
      BY <1>5, <3>2, <3>3, <3>4, <3>5
  <2> QED
    BY <1>0, <2>1, <2>2, <2>3, <2>4
<1>7. ASSUME NEW i \in (a + 1)..((n + m) - 1) PROVE e[i + 1] <= e[i]
  <2>1. CASE i < a + m
    <3>1. i \in (a + 1)..(a + m) /\ i + 1 \in (a + 1)..(a + m) /\ d[a] \in Nat
      BY <1>0, <2>1
    <3> QED
      BY <1>3, <3>1
  <2>2. CASE i = a + m
    <3>1. a + 1 \in (a + 1)..n /\ i \in (a + 1)..(a + m) /\ a < n /\ i + 1 = (a + 1) + m
          /\ d[a] \in Nat /\ d[a + 1] \in Nat
      BY <1>0, <2>2
    <3>2. e[(a + 1) + m] = d[a + 1] /\ e[i] = d[a] + 1
      BY <1>3, <3>1
    <3> QED
      BY <1>4, <3>1, <3>2
  <2>3. CASE i > a + m
    <3>1. PICK j : j = i - m
      OBVIOUS
    <3>2. /\ j \in (a + 1)..n /\ j + 1 \in (a + 1)..n /\ i = j + m /\ i + 1 = (j + 1) + m
          /\ j \in a..(n - 1)
      BY <1>0, <2>3, <3>1
    <3>3. e[j + m] = d[j] /\ e[(j + 1) + m] = d[j + 1]
      BY <1>3, <3>2
    <3>4. d[j + 1] <= d[j]
      BY <1>d, <3>2 DEF Falling
    <3> QED
      BY <3>2, <3>3, <3>4
  <2> QED
    BY <1>0, <2>1, <2>2, <2>3
<1>8. Drawn(W, n + m)
  BY <1>d, <1>6 DEF Drawn, DrawnLine
<1>9. \A i \in (a + 1)..((n + m) - 1) : e[i + 1] <= e[i]
  BY <1>7
<1>10. Falling(W, n + m, a + 1)
  BY <1>d, <1>9 DEF Falling
<1> QED
  BY <1>8, <1>10

-----------------------------------------------------------------------------
(* What is printed and what waits to be, as one drawing.                   *)

Picture(os, td) ==
  [i \in 1..(Len(os) + Len(td)) |-> IF i <= Len(os) THEN os[i] ELSE td[i - Len(os)]]

Sketch(os, td) ==
  LET V == Picture(os, td)
      n == Len(os) + Len(td)
  IN  /\ IsSeq(os) /\ IsSeq(td) /\ os # << >>
      /\ \A i \in 1..n : LineOK(V[i])
      /\ Drawn(V, n) /\ Falling(V, n, Len(os) + 1)

\* The lines of P hang from c, and are all that do.
Hanging(P, c) ==
  /\ IsSeq(P)
  /\ \A i \in DOMAIN P : /\ LineOK(P[i]) /\ P[i].prefix = Append(c.prefix, ~ c.last)
                         /\ P[i].last <=> i = Len(P)

\* The first of td is printed as x, and P waits in its place.
Turned(os, td, x, P, os2, td2) ==
  /\ IsSeq(os2) /\ Len(os2) = Len(os) + 1
  /\ \A i \in 1..Len(os) : os2[i] = os[i]
  /\ os2[Len(os) + 1] = x
  /\ IsSeq(td2) /\ Len(td2) + 1 = Len(P) + Len(td)
  /\ \A i \in 1..Len(P) : td2[i] = P[i]
  /\ \A i \in 2..Len(td) : td2[Len(P) + (i - 1)] = td[i]

LEMMA SketchTurn ==
  ASSUME NEW os, NEW td, Sketch(os, td), td # << >>,
         NEW x, LineOK(x), Alike(x, td[1]), NEW P, Hanging(P, td[1]),
         NEW os2, NEW td2, Turned(os, td, x, P, os2, td2)
  PROVE  Sketch(os2, td2)
<1>1. PICK V : V = Picture(os, td)
  OBVIOUS
<1>2. PICK W : W = Picture(os2, td2)
  OBVIOUS
<1>3. PICK lo, lt, m : lo = Len(os) /\ lt = Len(td) /\ m = Len(P)
  OBVIOUS
<1>4. /\ lo \in Nat /\ lt \in Nat /\ m \in Nat /\ lo >= 1 /\ lt >= 1
      /\ Len(os2) = lo + 1 /\ Len(td2) = m + (lt - 1)
  <2>1. /\ IsSeq(os) /\ IsSeq(td) /\ os # << >> /\ IsSeq(P) /\ IsSeq(td2)
        /\ Len(os2) = lo + 1 /\ Len(td2) + 1 = m + lt
    BY <1>3 DEF Sketch, Hanging, Turned
  <2>2. lo \in Nat /\ lt \in Nat /\ m \in Nat /\ Len(td2) \in Nat
    BY <1>3, <2>1, SeqFacts
  <2>3. lo # 0 /\ lt # 0
    BY <1>3, <2>1 DEF IsSeq
  <2> QED
    BY <2>1, <2>2, <2>3
<1>5. /\ \A i \in 1..(lo + lt) : V[i] = IF i <= lo THEN os[i] ELSE td[i - lo]
      /\ \A i \in 1..(lo + lt) : LineOK(V[i])
      /\ Drawn(V, lo + lt) /\ Falling(V, lo + lt, lo + 1)
  BY <1>1, <1>3 DEF Sketch, Picture
<1>6. \A i \in 1..(lo + 1 + (m + (lt - 1))) :
        W[i] = IF i <= lo + 1 THEN os2[i] ELSE td2[i - (lo + 1)]
  BY <1>2, <1>4 DEF Picture
<1>7. /\ \A i \in 1..lo : os2[i] = os[i]
      /\ os2[lo + 1] = x
      /\ \A i \in 1..m : td2[i] = P[i]
      /\ \A i \in 2..lt : td2[m + (i - 1)] = td[i]
  BY <1>3 DEF Turned
<1>8. V[lo + 1] = td[1]
  BY <1>4, <1>5
<1>9. ASSUME NEW i \in 1..(lo + 1) PROVE LineOK(W[i]) /\ Alike(W[i], V[i])
  <2>1. W[i] = os2[i]
    BY <1>4, <1>6
  <2>2. CASE i = lo + 1
    BY <1>7, <1>8, <2>1, <2>2
  <2>3. CASE i # lo + 1
    <3>1. i \in 1..lo /\ i \in 1..(lo + lt) /\ i <= lo
      BY <1>4, <2>3
    <3>2. W[i] = V[i]
      BY <1>5, <1>7, <2>1, <3>1
    <3> QED
      BY <1>5, <3>1, <3>2 DEF Alike
  <2> QED
    BY <2>2, <2>3
<1>10. ASSUME NEW i \in (lo + 1 + 1)..(lo + 1 + m)
       PROVE  /\ LineOK(W[i]) /\ W[i].prefix = Append(V[lo + 1].prefix, ~ V[lo + 1].last)
              /\ W[i].last <=> i = lo + 1 + m
  <2>1. PICK j : j = i - (lo + 1)
    OBVIOUS
  <2>2. j \in 1..m /\ i \in 1..(lo + 1 + (m + (lt - 1))) /\ ~ (i <= lo + 1)
    BY <1>4, <2>1
  <2>3. W[i] = P[j]
    BY <1>6, <1>7, <2>1, <2>2
  <2>4. j \in DOMAIN P
    BY <1>3, <2>2, SeqFacts DEF Hanging
  <2>5. /\ LineOK(P[j]) /\ P[j].prefix = Append(td[1].prefix, ~ td[1].last)
        /\ P[j].last <=> j = m
    BY <1>3, <2>4 DEF Hanging
  <2>6. j = m <=> i = lo + 1 + m
    BY <1>4, <2>1
  <2> QED
    BY <1>8, <2>3, <2>5, <2>6
<1>11. ASSUME NEW i \in (lo + 1 + 1)..(lo + lt) PROVE LineOK(W[i + m]) /\ Alike(W[i + m], V[i])
  <2>1. PICK j : j = i - lo
    OBVIOUS
  <2>2. /\ j \in 2..lt /\ i \in 1..(lo + lt) /\ ~ (i <= lo)
        /\ i + m \in 1..(lo + 1 + (m + (lt - 1))) /\ ~ (i + m <= lo + 1)
    BY <1>4, <2>1
  <2>3. V[i] = td[j]
    BY <1>5, <2>1, <2>2
  <2>4. (i + m) - (lo + 1) = m + (j - 1)
    BY <1>4, <2>1
  <2>5. W[i + m] = td2[(i + m) - (lo + 1)]
    BY <1>6, <2>2
  <2>6. W[i + m] = V[i]
    BY <1>7, <2>2, <2>3, <2>4, <2>5
  <2> QED
    BY <1>5, <2>2, <2>6 DEF Alike
<1>12. PICK n, a : n = lo + lt /\ a = lo + 1
  OBVIOUS
<1>13. n \in Nat /\ a \in 2..n /\ lo + 1 + (m + (lt - 1)) = n + m
  BY <1>4, <1>12
<1>14. Branches(V, n, W, a, m)
  BY <1>4, <1>5, <1>9, <1>10, <1>11, <1>12, <1>13 DEF Branches
<1>15. Drawn(W, n + m) /\ Falling(W, n + m, a + 1)
  BY <1>5, <1>12, <1>14, BranchDrawn
<1>16. \A i \in 1..(n + m) : LineOK(W[i])
  <2>1. TAKE i \in 1..(n + m)
  <2>2. CASE i <= a
    BY <1>9, <1>12, <2>2
  <2>3. CASE i > a /\ i <= a + m
    <3>1. i \in (lo + 1 + 1)..(lo + 1 + m)
      BY <1>4, <1>12, <2>3
    <3> QED
      BY <1>10, <3>1
  <2>4. CASE i > a + m
    <3>1. PICK j : j = i - m
      OBVIOUS
    <3>2. j \in (lo + 1 + 1)..(lo + lt) /\ i = j + m
      BY <1>4, <1>12, <2>4, <3>1
    <3> QED
      BY <1>11, <3>2
  <2> QED
    BY <1>13, <1>4, <2>2, <2>3, <2>4
<1>17. IsSeq(os2) /\ IsSeq(td2) /\ os2 # << >>
  <2>1. IsSeq(os2) /\ IsSeq(td2)
    BY DEF Turned
  <2>2. Len(os2) # 0
    BY <1>4
  <2> QED
    BY <2>1, <2>2
<1>18. Len(os2) + Len(td2) = n + m /\ Len(os2) + 1 = a + 1
  BY <1>4, <1>12, <1>13
<1> QED
  BY <1>2, <1>15, <1>16, <1>17, <1>18 DEF Sketch

\* u is s and then t.
Joined(u, s, t) ==
  /\ IsSeq(u) /\ Len(u) = Len(s) + Len(t)
  /\ \A i \in 1..Len(s) : u[i] = s[i]
  /\ \A i \in 1..Len(t) : u[Len(s) + i] = t[i]

LEMMA ConcatJoins == ASSUME NEW s, NEW t, IsSeq(s), IsSeq(t) PROVE Joined(s \o t, s, t)
<1>1. PICK S : S = {s[i] : i \in DOMAIN s} \cup {t[i] : i \in DOMAIN t}
  OBVIOUS
<1>2. s \in Seq(S) /\ t \in Seq(S)
  BY <1>1 DEF IsSeq
<1>3. PICK u : u = s \o t
  OBVIOUS
<1>4. /\ Len(u) = Len(s) + Len(t)
      /\ \A i \in 1..Len(u) : u[i] = IF i <= Len(s) THEN s[i] ELSE t[i - Len(s)]
  BY <1>2, <1>3
<1>5. IsSeq(u)
  BY <1>3, ConcatSeq
<1>6. Len(s) \in Nat /\ Len(t) \in Nat
  BY <1>2
<1>7. \A i \in 1..Len(s) : u[i] = s[i]
  BY <1>4, <1>6
<1>8. \A i \in 1..Len(t) : u[Len(s) + i] = t[i]
  <2>1. TAKE i \in 1..Len(t)
  <2>2. PICK j : j = Len(s) + i
    OBVIOUS
  <2>3. j \in 1..Len(u) /\ ~ (j <= Len(s)) /\ j - Len(s) = i
    BY <1>4, <1>6, <2>2
  <2> QED
    BY <1>4, <2>2, <2>3
<1> QED
  BY <1>3, <1>4, <1>5, <1>7, <1>8 DEF Joined

\* One or two lines.
LEMMA FewLines ==
  ASSUME NEW x, NEW y
  PROVE  /\ IsSeq(<< x >>) /\ Len(<< x >>) = 1 /\ << x >>[1] = x
         /\ IsSeq(<< x, y >>) /\ Len(<< x, y >>) = 2
         /\ << x, y >>[1] = x /\ << x, y >>[2] = y
<1>1. << x >> \in Seq({x}) /\ << x, y >> \in Seq({x, y})
  OBVIOUS
<1>2. << x >> = [i \in 1..1 |-> x] /\ << x, y >> = [i \in 1..2 |-> IF i = 1 THEN x ELSE y]
  OBVIOUS
<1>3. IsSeq(<< x >>)
  BY <1>1, FunSeq DEF IsSeq
<1>4. IsSeq(<< x, y >>)
  BY <1>1, FunSeq DEF IsSeq
<1> QED
  BY <1>3, <1>4

LEMMA SeqAppend == ASSUME NEW S, NEW s \in Seq(S), NEW x \in S PROVE Append(s, x) \in Seq(S)
  OBVIOUS

\* The children of a node wait as lines that hang from it.
LEMMA PendingHangs ==
  ASSUME NEW kids, IsSeq(kids), NEW c, LineOK(c), NEW q, q = Append(c.prefix, ~ c.last)
  PROVE  Hanging(Pending(kids, q), c)
<1>1. PICK P : P = Pending(kids, q)
  OBVIOUS
<1>2. Len(kids) \in Nat /\ DOMAIN kids = 1..Len(kids)
  BY SeqFacts
<1>3. /\ DOMAIN P = 1..Len(kids)
      /\ \A i \in 1..Len(kids) : P[i].prefix = q /\ P[i].last = (i = Len(kids))
  BY <1>1, <1>2 DEF Pending
<1>4. P = [i \in 1..Len(kids) |-> P[i]]
  BY <1>1, <1>2 DEF Pending
<1>5. IsSeq(P)
  BY <1>2, <1>4, FunSeq
<1>6. Len(P) = Len(kids)
  <2>1. Len(P) \in Nat /\ DOMAIN P = 1..Len(P)
    BY <1>5, SeqFacts
  <2>2. 1..Len(P) = 1..Len(kids)
    BY <1>3, <2>1
  <2>3. \A i : i \in 1..Len(P) <=> i \in 1..Len(kids)
    BY <2>2
  <2>4. PICK a, b : a = Len(P) /\ b = Len(kids)
    OBVIOUS
  <2>5. a \in Nat /\ b \in Nat
    BY <1>2, <2>1, <2>4
  <2>6. (a \in 1..a => a \in 1..b) /\ (b \in 1..b => b \in 1..a)
    BY <2>3, <2>4
  <2>7. a = b
    BY <2>5, <2>6
  <2> QED
    BY <2>4, <2>7
<1>7. q \in Seq(BOOLEAN)
  <2>1. PICK p, b : p = c.prefix /\ b = ~ c.last
    OBVIOUS
  <2>2. p \in Seq(BOOLEAN) /\ b \in BOOLEAN
    BY <2>1 DEF LineOK
  <2>3. q = Append(p, b)
    BY <2>1
  <2>4. Append(p, b) \in Seq(BOOLEAN)
    BY <2>2, SeqAppend
  <2> QED
    BY <2>3, <2>4
<1>8. \A i \in 1..Len(kids) : LineOK(P[i])
  BY <1>3, <1>7 DEF LineOK
<1> QED
  BY <1>1, <1>3, <1>5, <1>6, <1>8 DEF Hanging

LEMMA ConcatIn ==
  ASSUME NEW S, NEW s \in Seq(S), NEW t \in Seq(S), NEW v, v = s \o t
  PROVE  /\ v \in Seq(S) /\ Len(v) = Len(s) + Len(t)
         /\ \A i \in 1..Len(v) : v[i] = IF i <= Len(s) THEN s[i] ELSE t[i - Len(s)]
  OBVIOUS

LEMMA AppendTwice ==
  ASSUME NEW S, NEW s \in Seq(S), NEW x \in S, NEW y \in S
  PROVE  Append(Append(s, x), y) = s \o << x, y >>
<1>1. PICK r : r = Append(s, x)
  OBVIOUS
<1>2. r \in Seq(S) /\ Len(r) = Len(s) + 1 /\ \A i \in 1..Len(r) : r[i] = IF i <= Len(s) THEN s[i] ELSE x
  BY <1>1
<1>3. PICK u : u = Append(r, y)
  OBVIOUS
<1>4. u \in Seq(S) /\ Len(u) = Len(r) + 1 /\ \A i \in 1..Len(u) : u[i] = IF i <= Len(r) THEN r[i] ELSE y
  BY <1>2, <1>3
<1>5. PICK t : t = << x, y >>
  OBVIOUS
<1>6. t \in Seq(S) /\ Len(t) = 2 /\ t[1] = x /\ t[2] = y
  BY <1>5
<1>7. PICK v : v = s \o t
  OBVIOUS
<1>8. /\ v \in Seq(S) /\ Len(v) = Len(s) + 2
      /\ \A i \in 1..Len(v) : v[i] = IF i <= Len(s) THEN s[i] ELSE t[i - Len(s)]
  <2>1. /\ v \in Seq(S) /\ Len(v) = Len(s) + Len(t)
        /\ \A i \in 1..Len(v) : v[i] = IF i <= Len(s) THEN s[i] ELSE t[i - Len(s)]
    <3>1. t \in Seq(S)
      BY <1>6
    <3> QED
      BY <1>7, <3>1, ConcatIn
  <2> QED
    BY <1>6, <2>1
<1>9. Len(s) \in Nat /\ Len(u) = Len(v)
  BY <1>2, <1>4, <1>8
<1>10. \A i \in 1..Len(v) : u[i] = v[i]
  <2>1. TAKE i \in 1..Len(v)
  <2>2. CASE i <= Len(s)
    BY <1>2, <1>4, <1>8, <1>9, <2>2
  <2>3. CASE i = Len(s) + 1
    <3>1. u[i] = r[i] /\ r[i] = x
      BY <1>2, <1>4, <1>9, <2>3
    <3>2. v[i] = t[i - Len(s)] /\ i - Len(s) = 1
      BY <1>8, <1>9, <2>3
    <3> QED
      BY <1>6, <3>1, <3>2
  <2>4. CASE i = Len(s) + 2
    <3>1. u[i] = y
      BY <1>2, <1>4, <1>9, <2>4
    <3>2. v[i] = t[i - Len(s)] /\ i - Len(s) = 2
      BY <1>8, <1>9, <2>4
    <3> QED
      BY <1>6, <3>1, <3>2
  <2> QED
    BY <1>8, <1>9, <2>2, <2>3, <2>4
<1>11. u = [i \in 1..Len(u) |-> u[i]] /\ v = [i \in 1..Len(v) |-> v[i]]
  BY <1>4, <1>8
<1>12. u = v
  BY <1>9, <1>10, <1>11
<1> QED
  BY <1>1, <1>3, <1>5, <1>7, <1>12

\* What a child is printed as: one line, or one that hangs from its label.
LEMMA LinesSplit ==
  ASSUME NEW c
  PROVE  \/ \E h : /\ LinesOf(c) = << Line(c.prefix, c.last, h) >>
                   /\ SubPrefix(c) = Append(c.prefix, ~ c.last)
         \/ \E l, h : /\ LinesOf(c) = << Line(c.prefix, c.last, l),
                                         Line(Append(c.prefix, ~ c.last), TRUE, h) >>
                      /\ SubPrefix(c) = c.prefix \o << ~ c.last, FALSE >>
<1>1. PICK none : none <=> c.child.label = ""
  BY Zenon
<1>2. PICK h : h = dumpHeader(c.child.node)
  OBVIOUS
<1>3. PICK l : l = LabelText(c.child.label)
  OBVIOUS
<1>4. CASE none
  <2>1. LinesOf(c) = << Line(c.prefix, c.last, h) >>
    BY <1>1, <1>2, <1>4, Zenon DEF LinesOf
  <2>2. SubPrefix(c) = Append(c.prefix, ~ c.last)
    BY <1>1, <1>4, Zenon DEF SubPrefix
  <2> QED
    BY <2>1, <2>2, Zenon
<1>5. CASE ~ none
  <2>1. LinesOf(c) = << Line(c.prefix, c.last, l), Line(Append(c.prefix, ~ c.last), TRUE, h) >>
    BY <1>1, <1>2, <1>3, <1>5, Zenon DEF LinesOf
  <2>2. SubPrefix(c) = c.prefix \o << ~ c.last, FALSE >>
    BY <1>1, <1>5, Zenon DEF SubPrefix
  <2> QED
    BY <2>1, <2>2, Zenon
<1> QED
  BY <1>4, <1>5, Zenon

\* A child is printed and its own children wait in its place.
LEMMA SketchChild ==
  ASSUME NEW os, NEW td, Sketch(os, td), td # << >>, NEW kids, IsSeq(kids), NEW c, c = td[1],
         LineOK(c)
  PROVE  Sketch(os \o LinesOf(c), Pending(kids, SubPrefix(c)) \o Tail(td))
<1>0. /\ IsSeq(os) /\ IsSeq(td) /\ Len(os) \in Nat /\ Len(td) \in Nat
      /\ c.prefix \in Seq(BOOLEAN) /\ c.last \in BOOLEAN
  BY SeqFacts DEF Sketch, LineOK
<1>1. PICK rest : rest = Tail(td)
  OBVIOUS
<1>2. /\ IsSeq(rest) /\ Len(rest) = Len(td) - 1
      /\ \A i \in 1..(Len(td) - 1) : rest[i] = td[i + 1]
  BY <1>0, <1>1, TailSeq
<1>3. PICK P : P = Pending(kids, SubPrefix(c))
  OBVIOUS
<1>4. PICK td2 : td2 = P \o rest
  OBVIOUS
<1>5. CASE \E h : /\ LinesOf(c) = << Line(c.prefix, c.last, h) >>
                  /\ SubPrefix(c) = Append(c.prefix, ~ c.last)
  <2>1. PICK h : /\ LinesOf(c) = << Line(c.prefix, c.last, h) >>
                 /\ SubPrefix(c) = Append(c.prefix, ~ c.last)
    BY <1>5
  <2>2. PICK x : x = Line(c.prefix, c.last, h)
    OBVIOUS
  <2>3. LineOK(x) /\ Alike(x, c)
    BY <1>0, <2>2 DEF Line, LineOK, Alike
  <2>4. Hanging(P, c)
    BY <1>3, <2>1, PendingHangs
  <2>5. Joined(td2, P, rest)
    BY <1>2, <1>4, <2>4, ConcatJoins DEF Hanging
  <2>6. PICK os2 : os2 = os \o << x >>
    OBVIOUS
  <2>7. Joined(os2, os, << x >>)
    BY <1>0, <2>6, FewLines, ConcatJoins
  <2>8. Turned(os, td, x, P, os2, td2)
    <3>1. /\ IsSeq(os2) /\ Len(os2) = Len(os) + 1 /\ os2[Len(os) + 1] = x
          /\ \A i \in 1..Len(os) : os2[i] = os[i]
      BY <2>7, FewLines DEF Joined
    <3>2. Len(P) \in Nat
      BY <2>4, SeqFacts DEF Hanging
    <3>3. /\ IsSeq(td2) /\ Len(td2) + 1 = Len(P) + Len(td)
          /\ \A i \in 1..Len(P) : td2[i] = P[i]
      BY <1>0, <1>2, <2>5, <3>2 DEF Joined
    <3>4. ASSUME NEW i \in 2..Len(td) PROVE td2[Len(P) + (i - 1)] = td[i]
      <4>1. i - 1 \in 1..Len(rest) /\ i - 1 \in 1..(Len(td) - 1) /\ (i - 1) + 1 = i
        BY <1>0, <1>2
      <4>2. td2[Len(P) + (i - 1)] = rest[i - 1]
        BY <2>5, <4>1 DEF Joined
      <4>3. rest[i - 1] = td[(i - 1) + 1]
        BY <1>2, <4>1
      <4> QED
        BY <4>1, <4>2, <4>3
    <3> QED
      BY <3>1, <3>3, <3>4 DEF Turned
  <2>9. Sketch(os2, td2)
    BY <2>3, <2>4, <2>8, SketchTurn
  <2> QED
    BY <1>1, <1>3, <1>4, <2>1, <2>2, <2>6, <2>9
<1>6. CASE \E l, h : /\ LinesOf(c) = << Line(c.prefix, c.last, l),
                                        Line(Append(c.prefix, ~ c.last), TRUE, h) >>
                     /\ SubPrefix(c) = c.prefix \o << ~ c.last, FALSE >>
  <2>1. PICK l, h : /\ LinesOf(c) = << Line(c.prefix, c.last, l),
                                       Line(Append(c.prefix, ~ c.last), TRUE, h) >>
                    /\ SubPrefix(c) = c.prefix \o << ~ c.last, FALSE >>
    BY <1>6
  <2>2. PICK x : x = Line(c.prefix, c.last, l)
    OBVIOUS
  <2>3. PICK b : b = ~ c.last
    OBVIOUS
  <2>4. PICK q : q = Append(c.prefix, b)
    OBVIOUS
  <2>5. PICK y : y = Line(q, TRUE, h)
    OBVIOUS
  <2>6. LineOK(x) /\ Alike(x, c)
    BY <1>0, <2>2 DEF Line, LineOK, Alike
  <2>7. q \in Seq(BOOLEAN) /\ b \in BOOLEAN
    BY <1>0, <2>3, <2>4, SeqAppend
  <2>8. LineOK(y) /\ y.prefix = q /\ y.last = TRUE
    BY <2>5, <2>7 DEF Line, LineOK
  <2>9. PICK Q : Q = << y >>
    OBVIOUS
  <2>10. IsSeq(Q) /\ Len(Q) = 1 /\ Q[1] = y /\ DOMAIN Q = 1..1
    BY <2>9, FewLines, SeqFacts
  <2>11. Hanging(Q, c)
    <3>1. \A i \in DOMAIN Q : Q[i] = y /\ i = Len(Q)
      BY <2>10
    <3> QED
      BY <2>3, <2>4, <2>8, <2>10, <3>1 DEF Hanging
  <2>12. PICK os1 : os1 = os \o << x >>
    OBVIOUS
  <2>13. PICK td1 : td1 = Q \o rest
    OBVIOUS
  <2>14. Joined(os1, os, << x >>) /\ Joined(td1, Q, rest)
    BY <1>0, <1>2, <2>10, <2>12, <2>13, FewLines, ConcatJoins
  <2>15. /\ IsSeq(os1) /\ Len(os1) = Len(os) + 1 /\ os1[Len(os) + 1] = x
         /\ \A i \in 1..Len(os) : os1[i] = os[i]
    BY <2>14, FewLines DEF Joined
  <2>16. /\ IsSeq(td1) /\ Len(td1) = Len(td) /\ td1[1] = y
    BY <1>0, <1>2, <2>10, <2>14 DEF Joined
  <2>17. ASSUME NEW i \in 2..Len(td) PROVE td1[1 + (i - 1)] = td[i] /\ td1[i] = td[i]
    <3>1. i - 1 \in 1..Len(rest) /\ i - 1 \in 1..(Len(td) - 1) /\ (i - 1) + 1 = i /\ 1 + (i - 1) = i
      BY <1>0, <1>2
    <3>2. td1[1 + (i - 1)] = rest[i - 1]
      BY <2>10, <2>14, <3>1 DEF Joined
    <3>3. rest[i - 1] = td[(i - 1) + 1]
      BY <1>2, <3>1
    <3> QED
      BY <3>1, <3>2, <3>3
  <2>18. Turned(os, td, x, Q, os1, td1)
    <3>1. Len(td1) + 1 = Len(Q) + Len(td)
      BY <1>0, <2>10, <2>16
    <3>2. \A i \in 1..Len(Q) : td1[i] = Q[i]
      BY <2>14 DEF Joined
    <3> QED
      BY <2>10, <2>15, <2>16, <2>17, <3>1, <3>2 DEF Turned
  <2>19. Sketch(os1, td1)
    BY <2>6, <2>11, <2>18, SketchTurn
  <2>20. SubPrefix(c) = Append(y.prefix, ~ y.last)
    <3>1. PICK no : no = FALSE
      OBVIOUS
    <3>2. no \in BOOLEAN /\ SubPrefix(c) = c.prefix \o << b, no >>
      BY <2>1, <2>3, <3>1
    <3>3. SubPrefix(c) = Append(q, no)
      BY <1>0, <2>4, <2>7, <3>2, AppendTwice
    <3> QED
      BY <2>8, <3>1, <3>3
  <2>21. Hanging(P, y)
    BY <1>3, <2>8, <2>20, PendingHangs
  <2>22. Joined(td2, P, rest)
    BY <1>2, <1>4, <2>21, ConcatJoins DEF Hanging
  <2>23. PICK two : two = << x, y >>
    OBVIOUS
  <2>24. PICK os2 : os2 = os \o two
    OBVIOUS
  <2>25. IsSeq(two) /\ Len(two) = 2 /\ two[1] = x /\ two[2] = y
    BY <2>23, FewLines
  <2>26. Joined(os2, os, two)
    BY <1>0, <2>24, <2>25, ConcatJoins
  <2>27. Turned(os1, td1, y, P, os2, td2)
    <3>1. Len(P) \in Nat
      BY <2>21, SeqFacts DEF Hanging
    <3>2. IsSeq(os2) /\ Len(os2) = Len(os1) + 1
      BY <1>0, <2>15, <2>25, <2>26 DEF Joined
    <3>3. os2[Len(os) + 1] = x /\ os2[Len(os) + 2] = y
      BY <2>25, <2>26 DEF Joined
    <3>4. os2[Len(os1) + 1] = y
      BY <1>0, <2>15, <3>3
    <3>5. ASSUME NEW i \in 1..Len(os1) PROVE os2[i] = os1[i]
      <4>1. CASE i = Len(os) + 1
        BY <2>15, <3>3, <4>1
      <4>2. CASE i # Len(os) + 1
        <5>1. i \in 1..Len(os)
          BY <1>0, <2>15, <4>2
        <5> QED
          BY <2>15, <2>26, <5>1 DEF Joined
      <4> QED
        BY <4>1, <4>2
    <3>6. /\ IsSeq(td2) /\ Len(td2) + 1 = Len(P) + Len(td1)
          /\ \A i \in 1..Len(P) : td2[i] = P[i]
      BY <1>0, <1>2, <2>16, <2>22, <3>1 DEF Joined
    <3>7. ASSUME NEW i \in 2..Len(td1) PROVE td2[Len(P) + (i - 1)] = td1[i]
      <4>1. /\ i - 1 \in 1..Len(rest) /\ i - 1 \in 1..(Len(td) - 1) /\ (i - 1) + 1 = i
            /\ i \in 2..Len(td)
        BY <1>0, <1>2, <2>16
      <4>2. td2[Len(P) + (i - 1)] = rest[i - 1]
        BY <2>22, <4>1 DEF Joined
      <4>3. rest[i - 1] = td[(i - 1) + 1]
        BY <1>2, <4>1
      <4> QED
        BY <2>17, <4>1, <4>2, <4>3
    <3> QED
      BY <3>2, <3>4, <3>5, <3>6, <3>7 DEF Turned
  <2>28. td1 # << >> /\ Alike(y, td1[1])
    <3>1. Len(td1) # 0
      BY <1>0, <2>16 DEF IsSeq
    <3> QED
      BY <2>16, <3>1 DEF Alike
  <2>29. Sketch(os2, td2)
    BY <2>8, <2>16, <2>19, <2>21, <2>27, <2>28, SketchTurn
  <2> QED
    BY <1>1, <1>3, <1>4, <2>1, <2>2, <2>3, <2>4, <2>5, <2>23, <2>24, <2>29
<1> QED
  BY <1>5, <1>6, LinesSplit

LEMMA EmptyIn == ASSUME NEW S PROVE << >> \in Seq(S) /\ Len(<< >>) = 0
  OBVIOUS

\* A dump begins with the Program and what hangs from it.
LEMMA SketchRoot ==
  ASSUME NEW kids, IsSeq(kids), NEW h
  PROVE  Sketch(<< Line(<< >>, FALSE, h) >>, Pending(kids, << >>))
<1>1. PICK x, e, no : x = Line(e, no, h) /\ e = << >> /\ no = FALSE
  OBVIOUS
<1>2. e \in Seq(BOOLEAN) /\ Len(e) = 0 /\ no \in BOOLEAN
  <2>1. e \in Seq(BOOLEAN) /\ Len(e) = 0
    BY <1>1, EmptyIn
  <2>2. no \in BOOLEAN
    BY <1>1
  <2> QED
    BY <2>1, <2>2
<1>3. PICK os : os = << x >>
  OBVIOUS
<1>4. PICK P : P = Pending(kids, e)
  OBVIOUS
<1>5. IsSeq(os) /\ Len(os) = 1 /\ os[1] = x
  BY <1>3, FewLines
<1>6. PICK m : m = Len(kids)
  OBVIOUS
<1>7. m \in Nat /\ DOMAIN kids = 1..m
  BY <1>6, SeqFacts
<1>8. /\ DOMAIN P = 1..m
      /\ \A i \in 1..m : P[i].prefix = e /\ P[i].last = (i = m)
  BY <1>4, <1>6, <1>7 DEF Pending
<1>9. IsSeq(P) /\ Len(P) = m
  <2>1. P = [i \in 1..m |-> P[i]]
    BY <1>4, <1>6, <1>7 DEF Pending
  <2>2. IsSeq(P)
    BY <1>7, <2>1, FunSeq
  <2> HIDE <1>4, <1>6
  <2>3. Len(P) \in Nat /\ 1..Len(P) = 1..m
    BY <1>8, <2>2, SeqFacts
  <2>4. PICK a : a = Len(P)
    OBVIOUS
  <2>5. \A i : i \in 1..a <=> i \in 1..m
    BY <2>3, <2>4
  <2>6. (a \in 1..a => a \in 1..m) /\ (m \in 1..m => m \in 1..a) /\ a \in Nat
    BY <2>3, <2>4, <2>5
  <2>7. a = m
    BY <1>7, <2>6
  <2> QED
    BY <2>2, <2>4, <2>7
<1>10. PICK V, n : V = Picture(os, P) /\ n = 1 + m
  OBVIOUS
<1>11. \A i \in 1..n : V[i] = IF i <= 1 THEN os[i] ELSE P[i - 1]
  BY <1>5, <1>9, <1>10 DEF Picture
<1>12. V[1] = x
  BY <1>5, <1>7, <1>10, <1>11
<1>13. ASSUME NEW i \in 2..n PROVE V[i].prefix = e /\ (V[i].last <=> i = n) /\ LineOK(V[i])
  <2>1. PICK j : j = i - 1
    OBVIOUS
  <2>2. j \in 1..m /\ i \in 1..n /\ ~ (i <= 1) /\ (j = m <=> i = n)
    BY <1>7, <1>10, <2>1
  <2>3. V[i] = P[j]
    BY <1>11, <2>1, <2>2
  <2>4. V[i].prefix = e /\ V[i].last = (j = m)
    BY <1>8, <2>2, <2>3
  <2> QED
    BY <1>2, <2>2, <2>4 DEF LineOK
<1>14. LineOK(x) /\ x.prefix = e
  BY <1>1, <1>2 DEF Line, LineOK
<1>15. PICK d : d = Widths(V, n)
  OBVIOUS
<1>16. \A i \in 1..n : d[i] = 0
  <2>1. TAKE i \in 1..n
  <2>2. d[i] = Len(V[i].prefix)
    BY <1>15 DEF Widths
  <2>3. V[i].prefix = e
    <3>1. CASE i = 1
      BY <1>12, <1>14, <3>1
    <3>2. CASE i # 1
      <4>1. i \in 2..n
        BY <1>7, <1>10, <3>2
      <4> QED
        BY <1>13, <4>1
    <3> QED
      BY <3>1, <3>2
  <2> QED
    BY <1>2, <2>2, <2>3
<1>17. ASSUME NEW i \in 2..n PROVE Reaches(d, n, i, 0) <=> i # n
  <2>1. CASE i = n
    <3>1. (i + 1)..n = {}
      BY <1>7, <1>10, <2>1
    <3> QED
      BY <2>1, <3>1 DEF Reaches
  <2>2. CASE i # n
    <3>1. i + 1 \in (i + 1)..n /\ i + 1 \in 1..n
      BY <1>7, <1>10, <2>2
    <3>2. \A l \in (i + 1)..(i + 1) : d[l] >= 0
      <4>1. TAKE l \in (i + 1)..(i + 1)
      <4>2. l \in 1..n
        BY <3>1
      <4>3. d[l] = 0
        BY <1>16, <4>2
      <4> QED
        BY <4>3
    <3>3. d[i + 1] = 0
      BY <1>16, <3>1
    <3>4. Reaches(d, n, i, 0)
      BY <3>1, <3>2, <3>3 DEF Reaches
    <3> QED
      BY <2>2, <3>4
  <2> QED
    BY <2>1, <2>2
<1>18. Drawn(V, n)
  <2> SUFFICES ASSUME NEW i \in 2..n PROVE DrawnLine(V, n, i)
    BY DEF Drawn
  <2>1. d[i] = 0 /\ 1..0 = {}
    BY <1>7, <1>10, <1>16
  <2>2. V[i].last <=> ~ Reaches(d, n, i, 0)
    BY <1>13, <1>17
  <2>3. /\ V[i].last <=> ~ Reaches(d, n, i, d[i])
        /\ \A k \in 1..d[i] : V[i].prefix[k] <=> Reaches(d, n, i, k - 1)
    BY <2>1, <2>2
  <2> QED
    BY <1>15, <2>3, Zenon DEF DrawnLine
<1>19. Falling(V, n, 2)
  <2> SUFFICES ASSUME NEW i \in 2..(n - 1) PROVE Widths(V, n)[i + 1] <= Widths(V, n)[i]
    BY DEF Falling
  <2>1. i \in 1..n /\ i + 1 \in 1..n
    BY <1>7, <1>10
  <2>2. d[i] = 0 /\ d[i + 1] = 0
    BY <1>16, <2>1
  <2> QED
    BY <1>15, <2>2
<1>20. \A i \in 1..n : LineOK(V[i])
  <2>1. TAKE i \in 1..n
  <2>2. CASE i = 1
    BY <1>12, <1>14, <2>2
  <2>3. CASE i # 1
    <3>1. i \in 2..n
      BY <1>7, <1>10, <2>3
    <3> QED
      BY <1>13, <3>1
  <2> QED
    BY <2>2, <2>3
<1>21. os # << >>
  <2>1. Len(os) # 0
    BY <1>5
  <2> QED
    BY <2>1, EmptyIn
<1>22. Len(os) + Len(P) = n /\ Len(os) + 1 = 2
  BY <1>5, <1>9, <1>10
<1>23. Sketch(os, P)
  BY <1>5, <1>9, <1>10, <1>18, <1>19, <1>20, <1>21, <1>22 DEF Sketch
<1> QED
  BY <1>1, <1>3, <1>4, <1>23

\* While the dump is written, and when it is, it is drawn right.
BarInv ==
  /\ (stage = "dumping" \/ OS # << >>) => Sketch(OS, todo)
  /\ (stage = "exited" /\ OS # << >>) => todo = << >>

LEMMA BarStep == DriverInv /\ TellInv /\ BarInv /\ [AstraNext]_allVars => BarInv'
<1> SUFFICES ASSUME DriverInv, TellInv, BarInv, [AstraNext]_allVars PROVE BarInv'
  OBVIOUS
<1>1. CASE CannotOpen \/ Open \/ CallParse \/ InParse \/ ReportErrors \/ SkipDump
  <2>1. stage \in Parsing /\ stage' \in Parsing \cup {"exited"} /\ OS' = OS
    BY <1>1 DEF CannotOpen, Open, CallParse, InParse, ReportErrors, SkipDump, Returned, exit,
                dumpVars, driverVars, Parsing
  <2>2. OS = << >>
    BY <2>1 DEF DriverInv, Mute
  <2>3. stage' # "dumping"
    BY <2>1 DEF Parsing
  <2> QED
    BY <2>1, <2>2, <2>3, Zenon DEF BarInv
<1>2. CASE DumpProgram
  <2>1. /\ stage = "parsing" /\ phase = "idle" /\ program # Null /\ stage' = "dumping"
        /\ OS' = << Line(<< >>, FALSE, dumpHeader(program)) >>
        /\ todo' = Pending(appendChildren("Objects", program), << >>)
    BY <1>2 DEF DumpProgram, Returned, Failed, StartDump
  <2>2. IInv /\ TreeInv /\ MemberInv
    BY <2>1 DEF DriverInv, TellInv, Parsing
  <2>3. program \in DOMAIN arena
    <3>1. program \in 0..Len(arena) /\ IsSeq(arena)
      BY <2>2 DEF IInv, LocalsOK
    <3> QED
      BY <2>1, <3>1, SeqFacts DEF Null
  <2>4. Ready
    <3>1. stack = << >>
      BY <2>1, <2>2, NoCalls
    <3>2. HeldBy(stack) = {}
      BY <3>1, NothingHeld
    <3> QED
      BY <2>2, <3>2 DEF Ready, MemberInv, TreeInv, SlotsOK
  <2>5. IsSeq(appendChildren("Objects", program))
    BY <2>3, <2>4, AppendIn DEF Ready, Points
  <2>6. Sketch(OS', todo')
    BY <2>1, <2>5, SketchRoot
  <2> QED
    BY <2>1, <2>6 DEF BarInv
<1>3. CASE InDump
  <2>1. /\ stage = "dumping" /\ stage' = stage /\ todo # << >>
        /\ Waits(todo, DOMAIN arena) /\ Ready /\ Sketch(OS, todo)
    BY <1>3 DEF InDump, dumpChild, driverVars, TellInv, BarInv
  <2>2. PICK c : c = todo[1]
    OBVIOUS
  <2>3. c = Head(todo) /\ c.child.node \in DOMAIN arena
    BY <2>1, <2>2, TailSeq DEF Waits
  <2>4. ~ BadName(c.child.node)
    BY <2>1, <2>3, NamesSet DEF Ready
  <2>5. /\ OS' = OS \o LinesOf(c)
        /\ todo' = Pending(collectChildren(c.child.node), SubPrefix(c)) \o Tail(todo)
    BY <1>3, <2>3, <2>4, Zenon DEF InDump, dumpChild
  <2>6. IsSeq(collectChildren(c.child.node))
    BY <2>1, <2>3, CollectIn DEF Ready, Points
  <2>7. LineOK(c)
    <3>1. IsSeq(OS) /\ IsSeq(todo) /\ Len(todo) # 0
      BY <2>1 DEF Sketch, IsSeq
    <3>2. Len(OS) \in Nat /\ Len(todo) \in Nat
      BY <3>1, SeqFacts
    <3>3. PICK k, n : k = Len(OS) + 1 /\ n = Len(OS) + Len(todo)
      OBVIOUS
    <3>4. k \in 1..n /\ ~ (k <= Len(OS)) /\ k - Len(OS) = 1
      BY <3>1, <3>2, <3>3
    <3>5. Picture(OS, todo)[k] = todo[k - Len(OS)]
      BY <3>3, <3>4 DEF Picture
    <3>6. LineOK(Picture(OS, todo)[k])
      BY <2>1, <3>3, <3>4 DEF Sketch
    <3> QED
      BY <2>2, <3>4, <3>5, <3>6
  <2>8. Sketch(OS', todo')
    BY <2>1, <2>2, <2>5, <2>6, <2>7, SketchChild
  <2> QED
    BY <2>1, <2>8 DEF BarInv
<1>4. CASE EndDump
  <2>1. OS' = OS /\ todo' = todo /\ todo = << >> /\ stage = "dumping" /\ stage' = "exited"
    BY <1>4 DEF EndDump, exit, dumpVars
  <2> QED
    BY <2>1 DEF BarInv
<1>5. CASE UNCHANGED allVars
  <2>1. OS' = OS /\ todo' = todo /\ stage' = stage
    BY <1>5 DEF allVars, dumpVars, driverVars
  <2> QED
    BY <2>1 DEF BarInv
<1> QED
  BY <1>1, <1>2, <1>3, <1>4, <1>5 DEF AstraNext, Exited

\* A finished dump is drawn without gaps or loose ends: every connector and
\* every bar agrees with the lines below it (dumpChildren).
THEOREM BarsConnectHolds == AstraSpec => []BarsConnect
<1>1. ASSUME BarInv, Dumped, NEW i \in 2..Len(OS)
      PROVE  /\ OS[i].last <=> ~ Continues(i, Len(OS[i].prefix))
             /\ \A k \in DOMAIN OS[i].prefix : OS[i].prefix[k] <=> Continues(i, k - 1)
  <2>1. Sketch(OS, todo) /\ todo = << >>
    BY <1>1 DEF BarInv, Dumped
  <2>2. PICK V, n, d : V = Picture(OS, todo) /\ n = Len(OS) /\ d = Widths(V, n)
    OBVIOUS
  <2>3. IsSeq(OS) /\ n \in Nat /\ Len(todo) = 0 /\ n + 0 = n
    BY <2>1, <2>2, SeqFacts DEF Sketch
  <2>4. \A j \in 1..n : V[j] = OS[j]
    BY <2>2, <2>3 DEF Picture
  <2>5. Drawn(V, n) /\ \A j \in 1..n : LineOK(V[j])
    BY <2>1, <2>2, <2>3 DEF Sketch
  <2>6. \A j \in 1..n : d[j] = Len(OS[j].prefix)
    BY <2>2, <2>4 DEF Widths
  <2>7. i \in 1..n /\ i \in 2..n
    BY <2>2, <2>3
  <2>8. /\ V[i].last <=> ~ Reaches(d, n, i, d[i])
        /\ \A k \in 1..d[i] : V[i].prefix[k] <=> Reaches(d, n, i, k - 1)
    BY <2>2, <2>5, <2>7 DEF Drawn, DrawnLine
  <2>9. ASSUME NEW k PROVE Reaches(d, n, i, k) <=> Continues(i, k)
    <3>1. \A j \in (i + 1)..n : j \in 1..n /\ \A m \in (i + 1)..j : m \in 1..n
      BY <2>3, <2>7
    <3>2. ASSUME NEW j \in (i + 1)..n
          PROVE  (\A m \in (i + 1)..j : d[m] >= k) <=> \A m \in (i + 1)..j : Len(OS[m].prefix) >= k
      <4>1. \A m \in (i + 1)..j : d[m] = Len(OS[m].prefix)
        BY <2>6, <3>1
      <4> QED
        BY <4>1
    <3>3. \A j \in (i + 1)..n : d[j] = Len(OS[j].prefix)
      BY <2>6, <3>1
    <3>4. Reaches(d, n, i, k) <=>
            \E j \in (i + 1)..n : d[j] = k /\ \A m \in (i + 1)..j : d[m] >= k
      BY DEF Reaches
    <3>5. Continues(i, k) <=>
            \E j \in (i + 1)..n :
              Len(OS[j].prefix) = k /\ \A m \in (i + 1)..j : Len(OS[m].prefix) >= k
      BY <2>2 DEF Continues
    <3> QED
      BY <3>2, <3>3, <3>4, <3>5, Zenon
  <2>10. V[i] = OS[i] /\ d[i] = Len(OS[i].prefix) /\ DOMAIN OS[i].prefix = 1..d[i]
    <3>1. V[i] = OS[i] /\ d[i] = Len(OS[i].prefix)
      BY <2>4, <2>6, <2>7
    <3>2. OS[i].prefix \in Seq(BOOLEAN)
      BY <2>5, <2>7, <3>1 DEF LineOK
    <3> QED
      BY <3>1, <3>2
  <2> QED
    BY <2>8, <2>9, <2>10
<1>2. BarInv => BarsConnect
  BY <1>1, Zenon DEF BarsConnect
<1>3. AstraInit => BarInv
  BY Zenon DEF AstraInit, NotDumping, BarInv
<1> QED
  BY <1>2, <1>3, DriverInit, DriverStep, TellInit, TellStep, BarStep, PTL DEF AstraSpec
==============================================================================
