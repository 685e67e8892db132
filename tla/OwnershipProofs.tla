--------------------------- MODULE OwnershipProofs ---------------------------
(***************************************************************************)
(* Whose nodes the builder writes to and who owns them.                    *)
(*                                                                         *)
(* parse() keeps what it promises a caller who parses one file after       *)
(* another: ParsePromise, and with it EarlierASTKept, by OwnInv: a call    *)
(* only writes through its locals, its locals only ever hold nodes         *)
(* allocated since the Program of the file was, and visitFile allocates    *)
(* the Program before it visits anything.                                  *)
(*                                                                         *)
(* The AST is a tree: ASTIsTree, for every file and however many ASTs      *)
(* share the arena.  The argument follows each node from its allocation to *)
(* the member that owns it.  Until then exactly one call holds it, in a    *)
(* local; the code of every visitor, one block after the other, neither    *)
(* forgets a node it holds nor stores it twice.                            *)
(***************************************************************************)
EXTENDS ASTBuilderProofs

-----------------------------------------------------------------------------
(* The call of visitFile, at the bottom of the stack.                      *)

Bottom == stack[Len(stack)]

\* What the locals of visitFile say about the nodes of earlier ASTs.
LEMMA BottomFacts ==
  ASSUME IInv, OwnInv, stack # << >>
  PROVE  /\ IsSeq(stack) /\ Len(stack) \in Nat \ {0} /\ DOMAIN stack = 1..Len(stack)
         /\ Top = stack[1] /\ FileFrame(Bottom, Len(stack))
         /\ Len(arena) \in Nat /\ OldNodes \in 0..Len(arena)
         /\ Bottom.res = 0 => Len(stack) = 1 /\ OldNodes = Len(arena)
         /\ Bottom.res # 0 => OldNodes = Bottom.res - 1 /\ OldNodes < Len(arena)
         /\ \A k \in DOMAIN stack : Fresh(stack[k]) /\ FrameOK(stack[k])
<1>1. /\ IsSeq(stack) /\ Len(stack) \in Nat \ {0} /\ DOMAIN stack = 1..Len(stack)
      /\ Top = stack[1] /\ Len(stack) \in DOMAIN stack
      /\ \A k \in DOMAIN stack : FrameOK(stack[k])
  BY StackFacts DEF IInv, CallsOK
<1>2. Len(arena) \in Nat /\ Bottom.res \in 0..Len(arena)
  BY <1>1, SeqFacts DEF IInv, LocalsOK, Bottom
<1>3. FileFrame(Bottom, Len(stack)) /\ \A k \in DOMAIN stack : Fresh(stack[k])
  BY DEF OwnInv, Bottom
<1>4. OldNodes = IF Bottom.res = 0 THEN Len(arena) ELSE Bottom.res - 1
  BY DEF OldNodes, Bottom, Null
<1>5. Bottom.res = 0 => Len(stack) = 1
  BY <1>3 DEF FileFrame, Null
<1> QED
  BY <1>1, <1>2, <1>3, <1>4, <1>5

\* Between two calls of parse() all nodes are of finished ASTs.
LEMMA QuietOld ==
  ASSUME IInv, stack = << >>
  PROVE  OldNodes = Len(arena) /\ Len(arena) \in Nat
  BY SeqFacts DEF IInv, LocalsOK, OldNodes

\* visitFile goes on with the Program it has allocated.
LEMMA KeepBottom ==
  ASSUME stack # << >>, Bottom.res # 0, stack' # << >>, Bottom'.res = Bottom.res
  PROVE  OldNodes' = OldNodes
  BY DEF OldNodes, Bottom, Null

\* visitFile allocates first, and then stores what it visits in members.
LEMMA FileFrameStarts ==
  ASSUME TreeTyped, 1 \in DOMAIN tree, tree[1].sym = "file"
  PROVE  FileFrame(Frame(1), 1)
<1>1. PICK kids, f : kids = Kids(1, "topLevelObject") /\ f = Frame(1)
  OBVIOUS
<1>2. PICK new, gets :
        new = New(Node("Program", 1, 1)) /\ gets = GetAll("TopLevelObject", kids, "Objects")
  OBVIOUS
<1>3. new.do = "new"
  BY <1>2 DEF New
<1>4. /\ f.now = << new >> \o gets /\ f.later = << >>
      /\ f.res = Null /\ f.obj = Null
  <2>1. PICK block : block = << new >> \o gets
    OBVIOUS
  <2>2. Visit(1) = Visitor("Program", block)
    BY <1>1, <1>2, <2>1 DEF Visit, visitFile
  <2>3. f.now = block /\ f.later = << >> /\ f.res = Null /\ f.obj = Null
    <3>1. PICK v : v = Visitor("Program", block)
      OBVIOUS
    <3>2. v.code = << block >>
      BY <3>1 DEF Visitor
    <3>3. v.code[1] = block /\ Tail(v.code) = << >>
      BY <3>2
    <3>4. f.now = v.code[1] /\ f.later = Tail(v.code) /\ f.res = Null /\ f.obj = Null
      BY <1>1, <2>2, <3>1 DEF Frame
    <3> QED
      BY <3>3, <3>4
  <2> QED
    BY <2>1, <2>3
<1>5. /\ IsSeq(gets)
      /\ \A k \in DOMAIN gets : gets[k].do = "get" /\ gets[k].slot = "Objects"
  <2>1. Len(kids) \in Nat /\ DOMAIN kids = 1..Len(kids)
    BY <1>1, KidsOK, SeqFacts
  <2>2. gets = [i \in 1..Len(kids) |-> gets[i]] /\ DOMAIN gets = DOMAIN kids
    BY <1>2, <2>1 DEF GetAll
  <2>3. ASSUME NEW k \in DOMAIN gets PROVE gets[k].do = "get" /\ gets[k].slot = "Objects"
    <3>1. gets[k] = Get("TopLevelObject", kids[k], "Objects")
      BY <1>2, <2>2 DEF GetAll
    <3> QED
      BY <3>1 DEF Get
  <2> QED
    BY <2>1, <2>2, <2>3, FunSeq
<1>6. Pushed(f.now, new, gets)
  BY <1>4 DEF Pushed
<1>7. /\ IsSeq(f.now) /\ Len(f.now) = Len(gets) + 1 /\ DOMAIN f.now = 1..(Len(gets) + 1)
      /\ Len(gets) \in Nat /\ f.now[1] = new
      /\ \A i \in DOMAIN gets : f.now[i + 1] = gets[i]
  BY <1>5, <1>6, PushSeq
<1>8. DOMAIN gets = 1..Len(gets) /\ f.now # << >>
  BY <1>5, <1>7, SeqFacts
<1>9. ASSUME NEW k \in DOMAIN f.now, k > 1
      PROVE  f.now[k].do = "get" /\ f.now[k].slot # Result
  <2>1. k - 1 \in DOMAIN gets /\ (k - 1) + 1 = k
    BY <1>7, <1>8, <1>9
  <2> QED
    BY <1>5, <1>7, <2>1 DEF Result
<1> QED
  BY <1>1, <1>3, <1>4, <1>7, <1>8, <1>9 DEF FileFrame

-----------------------------------------------------------------------------
(* The steps of the builder.                                               *)

\* Nodes of finished ASTs that a step leaves alone.
Kept == \A k \in 1..OldNodes : k \in DOMAIN arena' /\ arena'[k] = arena[k]

\* An instruction other than a visit only sets locals of the innermost call;
\* in visitFile it is the allocation of the Program.
LEMMA AdvanceOwn ==
  ASSUME IInv, OwnInv, stack # << >>, Top.now # << >>, Head(Top.now).do # "get",
         NEW res, NEW obj, Advance(res, obj),
         res \notin 1..OldNodes, obj \notin 1..OldNodes,
         Head(Top.now).do = "new" => res = Len(arena) + 1
  PROVE  OwnInv' /\ OldNodes' = OldNodes
<1>1. PICK top, f, n : top = Top /\ f = [top EXCEPT !.now = Tail(@), !.res = res, !.obj = obj]
                      /\ n = Len(stack)
  OBVIOUS
<1>2. /\ IsSeq(stack) /\ n \in Nat \ {0} /\ DOMAIN stack = 1..n /\ top = stack[1]
      /\ FileFrame(stack[n], n) /\ Len(arena) \in Nat
      /\ OldNodes \in 0..Len(arena)
      /\ \A k \in 1..n : Fresh(stack[k]) /\ FrameOK(stack[k])
      /\ stack[n].res = 0 => OldNodes = Len(arena)
  BY <1>1, BottomFacts DEF Bottom
<1>3. top.now # << >> /\ top.now[1].do # "get" /\ Head(Top.now) = top.now[1] /\ FrameOK(top)
  BY <1>1, <1>2, NowFacts DEF IInv
<1>4. /\ FrameOK(f) /\ f.res = res /\ f.obj = obj
      /\ f.now = Tail(top.now) /\ f.later = top.later
  <2>1. Stepped(top, f, res, obj)
    BY <1>1 DEF Stepped
  <2>2. f.now = Tail(top.now) /\ f.later = top.later
    BY <1>1, <1>3 DEF FrameOK, FrameFields
  <2> QED
    BY <1>3, <2>1, <2>2, StepFrame
<1>5. /\ IsSeq(stack') /\ Len(stack') = n /\ DOMAIN stack' = 1..n /\ stack' # << >>
      /\ stack'[1] = f /\ \A i \in 2..n : stack'[i] = stack[i]
  <2>1. Pushed(stack', f, Tail(stack))
    BY <1>1 DEF Advance, Pushed
  <2>2. /\ IsSeq(stack') /\ Len(stack') = n /\ stack'[1] = f
        /\ \A i \in 2..n : stack'[i] = stack[i]
    BY <1>1, <1>2, <2>1, ReplaceHead
  <2> QED
    BY <1>2, <2>2, SeqFacts
<1>6. OldNodes' = OldNodes /\ FileFrame(stack'[n], n)
  <2>1. CASE n = 1
    <3>1. top.res = Null /\ top.now[1].do = "new" /\ 1 \in DOMAIN top.now /\ IsSeq(top.now)
      BY <1>2, <1>3, <2>1, TailSeq DEF FileFrame
    <3>2. f.res = Len(arena) + 1 /\ OldNodes = Len(arena)
      BY <1>2, <1>3, <1>4, <2>1, <3>1 DEF Null
    <3>3. OldNodes' = OldNodes
      BY <1>2, <1>5, <2>1, <3>2 DEF OldNodes, Null
    <3>4. IsSeq(f.now) /\ \A k \in DOMAIN f.now : f.now[k].do = "get" /\ f.now[k].slot # Result
      <4>1. /\ IsSeq(f.now)
            /\ \A k \in DOMAIN f.now :
                 k \in Nat /\ k + 1 > 1 /\ k + 1 \in DOMAIN top.now /\ f.now[k] = top.now[k + 1]
        <5>1. /\ IsSeq(Tail(top.now)) /\ DOMAIN Tail(top.now) = 1..(Len(top.now) - 1)
              /\ \A k \in DOMAIN Tail(top.now) :
                   k + 1 \in DOMAIN top.now /\ Tail(top.now)[k] = top.now[k + 1]
          BY <1>3, <3>1, TailSeq
        <5> QED
          BY <1>4, <5>1, <3>1, SeqFacts
      <4> QED
        BY <1>2, <2>1, <4>1 DEF FileFrame
    <3>5. f.later = << >> /\ f.res # Null /\ stack'[n] = f
      BY <1>2, <1>4, <1>5, <2>1, <3>2 DEF FileFrame, Null
    <3>6. FileFrame(f, n)
      BY <3>4, <3>5 DEF FileFrame
    <3> QED
      BY <3>3, <3>5, <3>6
  <2>2. CASE n # 1
    <3>1. stack'[n] = stack[n] /\ stack[n].res # 0
      BY <1>2, <1>5, <2>2 DEF FileFrame, Null
    <3>2. OldNodes' = OldNodes
      BY <1>1, <1>2, <1>5, <3>1, KeepBottom DEF Bottom
    <3> QED
      BY <1>2, <3>1, <3>2
  <2> QED
    BY <2>1, <2>2
<1>7. ASSUME NEW k \in 1..n PROVE Fresh(stack[k])'
  <2>1. stack'[k].res \notin 1..OldNodes /\ stack'[k].obj \notin 1..OldNodes
    <3>1. k = 1 \/ k \in 2..n
      BY <1>2
    <3> QED
      BY <1>2, <1>4, <1>5, <3>1 DEF Fresh
  <2> QED
    BY <1>6, <2>1 DEF Fresh
<1>8. FileFrame(stack[Len(stack)], Len(stack))'
  BY <1>5, <1>6 DEF FileFrame
<1> QED
  BY <1>5, <1>6, <1>7, <1>8 DEF OwnInv

\* visit(child): the new call has no locals yet, and visitFile is past its
\* allocation when it visits.
LEMMA CallOwn ==
  ASSUME IInv, OwnInv, Call
  PROVE  OwnInv' /\ OldNodes' = OldNodes /\ Kept
<1>1. PICK n, child, f : n = Len(stack) /\ child = Head(Top.now).child /\ f = Frame(child)
  OBVIOUS
<1>2. /\ stack # << >> /\ Top.now # << >> /\ Head(Top.now).do = "get" /\ arena' = arena
      /\ IF child = Null THEN stack' = stack ELSE stack' = << f >> \o stack
  BY <1>1 DEF Call, Executing, Running
<1>3. /\ IsSeq(stack) /\ n \in Nat \ {0} /\ DOMAIN stack = 1..n /\ Top = stack[1]
      /\ FileFrame(stack[n], n) /\ Len(arena) \in Nat /\ OldNodes \in 0..Len(arena)
      /\ \A k \in 1..n : Fresh(stack[k])
  BY <1>1, <1>2, BottomFacts DEF Bottom
<1>4. Kept
  <2>1. DOMAIN arena = 1..Len(arena)
    BY SeqFacts DEF IInv, LocalsOK
  <2> QED
    BY <1>2, <1>3, <2>1 DEF Kept
<1>5. CASE child = Null
  <2>1. UNCHANGED << stack, arena >>
    BY <1>2, <1>5
  <2> QED
    BY <1>4, <2>1 DEF OwnInv, FileFrame, Fresh, OldNodes
<1>6. CASE child # Null
  <2>1. Head(Top.now) = Top.now[1]
    BY <1>2, NowFacts DEF IInv
  <2>2. stack[n].res # Null
    <3>1. ASSUME stack[n].res = Null PROVE FALSE
      <4>1. n = 1 /\ stack[n].now[1].do = "new"
        BY <1>3, <3>1 DEF FileFrame
      <4> QED
        BY <1>2, <1>3, <2>1, <4>1
    <3> QED
      BY <3>1
  <2>3. /\ IsSeq(stack') /\ Len(stack') = n + 1 /\ DOMAIN stack' = 1..(n + 1)
        /\ stack'[1] = f /\ \A i \in 1..n : stack'[i + 1] = stack[i]
    <3>1. Pushed(stack', f, stack)
      BY <1>2, <1>6 DEF Pushed
    <3>2. /\ IsSeq(stack') /\ Len(stack') = Len(stack) + 1
          /\ DOMAIN stack' = 1..(Len(stack) + 1)
          /\ stack'[1] = f /\ \A i \in DOMAIN stack : stack'[i + 1] = stack[i]
      BY <1>3, <3>1, PushSeq
    <3> QED
      BY <1>1, <1>3, <3>2
  <2>4. stack'[n + 1] = stack[n] /\ stack' # << >>
    BY <1>3, <2>3
  <2>5. OldNodes' = OldNodes
    BY <1>1, <1>2, <2>2, <2>3, <2>4, KeepBottom DEF Bottom, Null
  <2>6. FileFrame(stack'[n + 1], n + 1)
    BY <1>3, <2>2, <2>4 DEF FileFrame
  <2>7. ASSUME NEW k \in 1..(n + 1) PROVE Fresh(stack[k])'
    <3>1. f.res = 0 /\ f.obj = 0
      BY <1>1 DEF Frame, Null
    <3>2. stack'[k].res \notin 1..OldNodes /\ stack'[k].obj \notin 1..OldNodes
      <4>1. CASE k = 1
        BY <1>3, <2>3, <3>1, <4>1
      <4>2. CASE k # 1
        <5>1. k - 1 \in 1..n /\ (k - 1) + 1 = k
          BY <1>3, <4>2
        <5> QED
          BY <1>3, <2>3, <5>1 DEF Fresh
      <4> QED
        BY <4>1, <4>2
    <3> QED
      BY <2>5, <3>2 DEF Fresh
  <2>8. FileFrame(stack[Len(stack)], Len(stack))'
    BY <2>3, <2>6 DEF FileFrame
  <2> QED
    BY <1>4, <2>3, <2>5, <2>7, <2>8 DEF OwnInv
<1> QED
  BY <1>5, <1>6

\* Only visitors other than visitFile loop, and an iteration keeps the locals.
LEMMA NextIterationOwn ==
  ASSUME IInv, OwnInv, NextIteration
  PROVE  OwnInv' /\ OldNodes' = OldNodes /\ Kept
<1>1. PICK n, top, f : n = Len(stack) /\ top = Top
                       /\ f = [top EXCEPT !.now = Head(top.later), !.later = Tail(@)]
  OBVIOUS
<1>2. /\ stack # << >> /\ top.now = << >> /\ top.later # << >> /\ arena' = arena
      /\ stack' = << f >> \o Tail(stack)
  BY <1>1 DEF NextIteration, Running
<1>3. /\ IsSeq(stack) /\ n \in Nat \ {0} /\ DOMAIN stack = 1..n /\ top = stack[1]
      /\ FileFrame(stack[n], n) /\ Len(arena) \in Nat /\ OldNodes \in 0..Len(arena)
      /\ \A k \in 1..n : Fresh(stack[k]) /\ FrameOK(stack[k])
  BY <1>1, <1>2, BottomFacts DEF Bottom
<1>4. Kept
  <2>1. DOMAIN arena = 1..Len(arena)
    BY SeqFacts DEF IInv, LocalsOK
  <2> QED
    BY <1>2, <1>3, <2>1 DEF Kept
<1>5. n # 1
  BY <1>2, <1>3 DEF FileFrame
<1>6. /\ IsSeq(stack') /\ Len(stack') = n /\ DOMAIN stack' = 1..n /\ stack' # << >>
      /\ stack'[1] = f /\ \A i \in 2..n : stack'[i] = stack[i]
  <2>1. Pushed(stack', f, Tail(stack))
    BY <1>2 DEF Pushed
  <2>2. /\ IsSeq(stack') /\ Len(stack') = n /\ stack'[1] = f
        /\ \A i \in 2..n : stack'[i] = stack[i]
    BY <1>1, <1>2, <1>3, <2>1, ReplaceHead
  <2> QED
    BY <1>3, <2>2, SeqFacts
<1>7. f.res = top.res /\ f.obj = top.obj
  <2>1. DOMAIN top = FrameFields
    BY <1>3 DEF FrameOK
  <2> QED
    BY <1>1, <2>1 DEF FrameFields
<1>8. stack'[n] = stack[n] /\ stack[n].res # 0
  BY <1>3, <1>5, <1>6 DEF FileFrame, Null
<1>9. OldNodes' = OldNodes
  BY <1>1, <1>2, <1>6, <1>8, KeepBottom DEF Bottom
<1>10. ASSUME NEW k \in 1..n PROVE Fresh(stack[k])'
  <2>1. k = 1 \/ k \in 2..n
    BY <1>3
  <2>2. stack'[k].res = stack[k].res /\ stack'[k].obj = stack[k].obj
    BY <1>3, <1>6, <1>7, <2>1
  <2> QED
    BY <1>3, <1>9, <2>2 DEF Fresh
<1>11. FileFrame(stack[Len(stack)], Len(stack))'
  BY <1>3, <1>6, <1>8 DEF FileFrame
<1> QED
  BY <1>4, <1>6, <1>9, <1>10, <1>11 DEF OwnInv

\* A return hands the pointer of one fresh call to another, and stores it in
\* a node of the caller's or in the caller's result; never in visitFile's.
LEMMA ReturnOwn ==
  ASSUME IInv, OwnInv, Return
  PROVE  OwnInv' /\ OldNodes' = OldNodes /\ Kept
<1>1. PICK n, top, caller, i, old :
        n = Len(stack) /\ top = Top /\ caller = Caller /\ i = caller.now[1] /\ old = OldNodes
  OBVIOUS
<1>2. /\ crash = "none" /\ stack # << >> /\ top.now = << >> /\ n > 1
      /\ IF Head(caller.now).as \notin {"any", top.any} THEN UNCHANGED << arena, stack >>
         ELSE /\ Popped(stack', IF Head(caller.now).slot # Result
                               THEN [caller EXCEPT !.now = Tail(@)]
                               ELSE [[caller EXCEPT !.now = Tail(@)] EXCEPT !.res = top.res,
                                 !.any = IF Head(caller.now).as = "any" THEN top.any ELSE @],
                      stack)
              /\ arena' = IF Head(caller.now).slot = Result THEN arena
                          ELSE [arena EXCEPT ![caller.obj].slots =
                                  AppendAt(@, Head(caller.now).slot, top.res)]
  BY <1>1 DEF Return, Finished, Running, Popped, Pushed
<1>3. /\ IsSeq(stack) /\ n \in Nat \ {0} /\ DOMAIN stack = 1..n /\ top = stack[1]
      /\ caller = stack[2] /\ 2 \in DOMAIN stack /\ 1 \in DOMAIN stack
      /\ FileFrame(stack[n], n) /\ Len(arena) \in Nat /\ old \in 0..Len(arena)
      /\ \A k \in 1..n : Fresh(stack[k]) /\ FrameOK(stack[k])
  BY <1>1, <1>2, BottomFacts DEF Bottom, Caller
<1>4. /\ caller.now # << >> /\ Head(caller.now) = i /\ i.do = "get" /\ DOMAIN caller = FrameFields
      /\ 1 \in DOMAIN caller.now /\ IsSeq(caller.now)
  <2>1. Awaits(stack[1 + 1], stack[1])
    BY <1>1, <1>2, <1>3 DEF IInv, CallsOK
  <2>2. IsSeq(caller.now) /\ DOMAIN caller = FrameFields
    <3>1. FrameOK(caller)
      BY <1>3
    <3>2. IsSeq(caller.now)
      BY <3>1 DEF FrameOK, Forwarding, CodeOK, IsSeq
    <3>3. DOMAIN caller = FrameFields
      BY <3>1 DEF FrameOK
    <3> QED
      BY <3>2, <3>3
  <2> QED
    BY <1>1, <1>3, <2>1, <2>2, TailSeq DEF Awaits
<1>5. DOMAIN arena = 1..Len(arena) /\ IsSeq(arena)
  BY SeqFacts DEF IInv, LocalsOK
<1>6. stack[n].res # 0
  BY <1>2, <1>3 DEF FileFrame, Null
<1>7. Kept
  <2>1. caller.obj \notin 1..old
    BY <1>1, <1>3 DEF Fresh
  <2>2. \A k \in 1..old : k \in DOMAIN arena' /\ arena'[k] = arena[k]
    BY <1>2, <1>3, <1>5, <2>1
  <2> QED
    BY <1>1, <2>2 DEF Kept
<1>8. CASE i.as \notin {"any", top.any}
  <2>1. UNCHANGED << stack, arena >>
    BY <1>2, <1>4, <1>8
  <2> QED
    BY <1>7, <2>1 DEF OwnInv, FileFrame, Fresh, OldNodes
<1>9. CASE i.as \in {"any", top.any}
  <2>1. PICK g : Resumed(caller, g, i, top.res, top.any)
    BY DEF Resumed
  <2>2. Popped(stack', g, stack)
    BY <1>1, <1>2, <1>4, <1>9, <2>1 DEF Resumed
  <2>3. g.obj = caller.obj /\ g.res \in {caller.res, top.res}
    <3>1. CASE i.slot # Result
      BY <1>4, <2>1, <3>1 DEF Resumed, FrameFields
    <3>2. CASE i.slot = Result
      <4>1. g = [[caller EXCEPT !.now = Tail(@)] EXCEPT !.res = top.res,
                  !.any = IF i.as = "any" THEN top.any ELSE @]
        BY <2>1, <3>2 DEF Resumed
      <4> QED
        BY <1>4, <4>1 DEF FrameFields
    <3> QED
      BY <3>1, <3>2
  <2>4. /\ IsSeq(stack') /\ Len(stack') = n - 1 /\ DOMAIN stack' = 1..(n - 1)
        /\ stack'[1] = g /\ \A j \in 2..(n - 1) : stack'[j] = stack[j + 1]
    <3>1. /\ IsSeq(stack') /\ Len(stack') = n - 1 /\ stack'[1] = g
          /\ \A j \in 2..(n - 1) : stack'[j] = stack[j + 1]
      BY <1>1, <1>2, <1>3, <2>2, DropTwo
    <3> QED
      BY <1>3, <3>1, SeqFacts
  <2>5. FileFrame(stack'[n - 1], n - 1) /\ stack'[n - 1].res = stack[n].res
    <3>1. CASE n = 2
      <4>1. i.slot # Result /\ caller = stack[n] /\ caller.res # Null
        BY <1>1, <1>3, <1>4, <1>6, <3>1 DEF FileFrame, Null
      <4>2. g = [caller EXCEPT !.now = Tail(@)]
        BY <2>1, <4>1 DEF Resumed
      <4>3. g.now = Tail(caller.now) /\ g.later = caller.later /\ g.res = caller.res
        BY <1>4, <4>2 DEF FrameFields
      <4>4. /\ IsSeq(g.now)
            /\ \A k \in DOMAIN g.now : k + 1 \in DOMAIN caller.now /\ g.now[k] = caller.now[k + 1]
        BY <1>4, <4>3, TailSeq
      <4>5. FileFrame(g, n - 1)
        BY <1>3, <4>1, <4>3, <4>4 DEF FileFrame
      <4> QED
        BY <2>4, <3>1, <4>1, <4>3, <4>5
    <3>2. CASE n # 2
      <4>1. n - 1 \in 2..(n - 1) /\ (n - 1) + 1 = n
        BY <1>2, <1>3, <3>2
      <4>2. stack'[n - 1] = stack[n]
        BY <2>4, <4>1
      <4> QED
        BY <1>3, <1>6, <4>2 DEF FileFrame, Null
    <3> QED
      BY <3>1, <3>2
  <2>6. stack' # << >> /\ n - 1 \in 1..(n - 1)
    BY <1>2, <1>3, <2>4
  <2>7. OldNodes' = OldNodes
    BY <1>1, <1>2, <1>6, <2>4, <2>5, <2>6, KeepBottom DEF Bottom
  <2>8. ASSUME NEW k \in 1..(n - 1) PROVE Fresh(stack[k])'
    <3>1. stack'[k].res \notin 1..OldNodes /\ stack'[k].obj \notin 1..OldNodes
      <4>1. CASE k = 1
        BY <1>3, <2>3, <2>4, <4>1 DEF Fresh
      <4>2. CASE k # 1
        <5>1. k \in 2..(n - 1) /\ k + 1 \in 1..n
          BY <1>3, <4>2
        <5> QED
          BY <1>3, <2>4, <5>1 DEF Fresh
      <4> QED
        BY <4>1, <4>2
    <3> QED
      BY <2>7, <3>1 DEF Fresh
  <2>9. FileFrame(stack[Len(stack)], Len(stack))'
    BY <2>4, <2>5 DEF FileFrame
  <2> QED
    BY <1>7, <2>4, <2>7, <2>8, <2>9 DEF OwnInv
<1> QED
  BY <1>8, <1>9

\* Every instruction of the builder keeps OwnInv and the nodes of other ASTs.
LEMMA BuilderOwn ==
  ASSUME IInv, OwnInv, BuilderStep
  PROVE  OwnInv' /\ OldNodes' = OldNodes /\ Kept
<1>1. CASE Call
  BY <1>1, CallOwn
<1>2. CASE NextIteration
  BY <1>2, NextIterationOwn
<1>3. CASE Return
  BY <1>3, ReturnOwn
<1>4. CASE Allocate \/ AttachSub \/ SetVisibility \/ ReportError
  <2>1. PICK i, old : i = Head(Top.now) /\ old = OldNodes
    OBVIOUS
  <2>2. /\ stack # << >> /\ Top.now # << >>
        /\ i.do \in {"new", "sub", "wrap", "attach", "vis", "report"}
    BY <1>4, <2>1 DEF Allocate, AttachSub, SetVisibility, ReportError, Executing, Running
  <2>3. /\ old \in 0..Len(arena) /\ Len(arena) \in Nat /\ Top.res \notin 1..old
        /\ Top.obj \notin 1..old
    BY <2>1, <2>2, BottomFacts DEF Fresh
  <2>4. IsSeq(arena) /\ DOMAIN arena = 1..Len(arena)
    BY SeqFacts DEF IInv, LocalsOK
  <2>5. CASE Allocate
    <3>1. PICK node : arena' = Append(arena, node)
      BY <2>5 DEF Allocate
    <3>2. Kept
      <4> DEFINE S == {arena[j] : j \in DOMAIN arena} \cup {node}
      <4>1. arena \in Seq(S) /\ node \in S
        BY <2>4 DEF IsSeq
      <4> HIDE DEF S
      <4>2. \A k \in 1..Len(arena) : k \in DOMAIN arena' /\ arena'[k] = arena[k]
        BY <2>3, <3>1, <4>1
      <4> QED
        BY <2>1, <2>3, <4>2 DEF Kept
    <3>3. PICK id : id = Len(arena) + 1
      OBVIOUS
    <3>4. Advance(IF i.do = "sub" THEN Top.res ELSE id, id)
      BY <2>1, <2>5, <3>3 DEF Allocate
    <3>5. id \notin 1..OldNodes /\ Top.res \notin 1..OldNodes
      BY <2>1, <2>3, <3>3
    <3>6. PICK res : res = IF i.do = "sub" THEN Top.res ELSE id
      OBVIOUS
    <3>7. Advance(res, id) /\ res \notin 1..OldNodes /\ (i.do = "new" => res = Len(arena) + 1)
      BY <3>3, <3>4, <3>5, <3>6
    <3>8. Head(Top.now).do # "get" /\ (Head(Top.now).do = "new" => res = Len(arena) + 1)
      BY <2>1, <2>2, <3>7
    <3> QED
      BY <2>2, <3>2, <3>5, <3>7, <3>8, AdvanceOwn
  <2>6. CASE AttachSub \/ SetVisibility \/ ReportError
    <3>1. PICK res, obj : Advance(res, obj) /\ res = Top.res /\ obj \in {Top.res, Top.obj}
      BY <2>6 DEF AttachSub, SetVisibility, ReportError
    <3>2. i.do \in {"attach", "vis", "report"}
      BY <2>1, <2>6 DEF AttachSub, SetVisibility, ReportError, Executing
    <3>3. Kept
      <4>1. \A k \in 1..old : k \in DOMAIN arena' /\ arena'[k] = arena[k]
        BY <2>3, <2>4, <2>6 DEF AttachSub, SetVisibility, ReportError
      <4> QED
        BY <2>1, <4>1 DEF Kept
    <3>4. res \notin 1..OldNodes /\ obj \notin 1..OldNodes
      BY <2>1, <2>3, <3>1
    <3>5. Head(Top.now).do # "get" /\ Head(Top.now).do # "new"
      BY <2>1, <3>2
    <3> QED
      BY <2>2, <3>1, <3>3, <3>4, <3>5, AdvanceOwn
  <2> QED
    BY <1>4, <2>5, <2>6
<1> QED
  BY <1>1, <1>2, <1>3, <1>4 DEF BuilderStep

-----------------------------------------------------------------------------
(* The steps of parse().                                                   *)

\* The builder starts on a file with the nodes of all others before it.
LEMMA AcceptOwn ==
  ASSUME IInv, AcceptTree
  PROVE  OwnInv' /\ OldNodes' = OldNodes /\ arena' = arena
<1>1. /\ phase = "parsing" /\ work = << >> /\ ~ HasErrors
      /\ stack' = << Frame(1) >> /\ arena' = arena
  BY DEF AcceptTree, StartBuild, Parsed
<1>2. TreeTyped /\ tree # << >> /\ tree[1].sym = "file"
  BY <1>1 DEF IInv, FileFirst
<1>3. 1 \in DOMAIN tree
  BY <1>2, TailSeq DEF TreeTyped
<1>4. PICK f : f = Frame(1)
  OBVIOUS
<1>5. FileFrame(f, 1) /\ f.res = 0 /\ f.obj = 0
  <2>1. f.res = 0 /\ f.obj = 0
    BY <1>4 DEF Frame, Null
  <2> QED
    BY <1>2, <1>3, <1>4, <2>1, FileFrameStarts
<1>6. stack' # << >> /\ Len(stack') = 1 /\ DOMAIN stack' = {1} /\ stack'[1] = f
  <2>1. stack' = << f >>
    BY <1>1, <1>4
  <2> QED
    BY <2>1
<1>7. OldNodes' = OldNodes
  BY <1>1, <1>5, <1>6, NoCalls DEF OldNodes, Null
<1>8. FileFrame(stack[Len(stack)], Len(stack))'
  BY <1>5, <1>6 DEF FileFrame
<1>9. \A k \in DOMAIN stack' : Fresh(stack[k])'
  BY <1>5, <1>6 DEF Fresh
<1> QED
  BY <1>1, <1>7, <1>8, <1>9 DEF OwnInv

\* parse() returns the Program that visitFile allocated.
LEMMA ReturnProgramOwn ==
  ASSUME IInv, OwnInv, ReturnProgram
  PROVE  /\ OwnInv' /\ arena' = arena /\ program' = OldNodes + 1
         /\ OldNodes \in Nat /\ OldNodes' = Len(arena) /\ OldNodes < Len(arena)
<1>1. /\ program' = Top.res /\ arena' = arena
      /\ stack # << >> /\ Top.now = << >> /\ Len(stack) = 1 /\ crash = "none"
  BY DEF ReturnProgram, EndBuild, Built, Finished, Running
<1>2. crash' = "none"
  <2>1. IInv'
    BY ReturnProgramInv
  <2>2. crash' \in {"none", "null_visit"} /\ crash' \in {crash, "bad_any_cast"}
    BY <2>1 DEF IInv, ScalarsOK, ReturnProgram, EndBuild
  <2> QED
    BY <1>1, <2>2
<1>3. stack' = << >>
  BY <1>2 DEF ReturnProgram, EndBuild
<1>4. Bottom = Top /\ FileFrame(Top, 1) /\ Top.res # 0
  BY <1>1, BottomFacts DEF Bottom, FileFrame, Null
<1>5. /\ OldNodes = Top.res - 1 /\ OldNodes < Len(arena)
      /\ OldNodes \in 0..Len(arena) /\ Len(arena) \in Nat
  BY <1>1, <1>4, BottomFacts
<1>6. OldNodes + 1 = Top.res
  <2>1. Top.res \in Int
    BY <1>1, BottomFacts DEF IInv, LocalsOK
  <2> QED
    BY <1>5, <2>1
<1>7. OldNodes' = Len(arena)
  BY <1>1, <1>3 DEF OldNodes
<1>8. OwnInv'
  BY <1>3 DEF OwnInv
<1> QED
  BY <1>1, <1>5, <1>6, <1>7, <1>8

\* Every other step leaves the calls and the arena alone.
LEMMA QuietOwn ==
  ASSUME OwnInv, UNCHANGED << stack, arena >>
  PROVE  OwnInv' /\ OldNodes' = OldNodes
  BY DEF OwnInv, FileFrame, Fresh, OldNodes

\* The nodes of finished ASTs are nodes of the arena.
LEMMA OldInArena ==
  ASSUME IInv, OwnInv
  PROVE  OldNodes \in 0..Len(arena) /\ Len(arena) \in Nat /\ DOMAIN arena = 1..Len(arena)
<1>1. Len(arena) \in Nat /\ DOMAIN arena = 1..Len(arena)
  BY SeqFacts DEF IInv, LocalsOK
<1> QED
  BY <1>1, BottomFacts, QuietOld

\* Steps with which no call of the builder begins, goes on or ends.
LEMMA Outside ==
  ASSUME StartParse \/ RunParser \/ SyntaxError \/ RefuseTree \/ PrintDiagnostics
         \/ Terminated \/ UNCHANGED vars
  PROVE  UNCHANGED << stack, arena >>
  BY DEF StartParse, RunParser, SyntaxError, RefuseTree, PrintDiagnostics, Terminated, vars,
         astVars

\* Every step keeps OwnInv and the nodes of the ASTs finished before it.
LEMMA NextOwn ==
  ASSUME IInv, OwnInv, [Next]_vars
  PROVE  OwnInv' /\ Kept
<1>1. CASE arena' = arena
  <2>1. Kept
    BY <1>1, OldInArena DEF Kept
  <2>2. CASE UNCHANGED stack
    BY <1>1, <2>1, <2>2, QuietOwn
  <2>3. CASE RunBuilder
    BY <2>3, BuilderOwn DEF RunBuilder
  <2>4. CASE AcceptTree
    BY <2>1, <2>4, AcceptOwn
  <2>5. CASE ReturnProgram
    BY <2>1, <2>5, ReturnProgramOwn
  <2> QED
    BY <2>2, <2>3, <2>4, <2>5, Outside DEF Next
<1>2. CASE arena' # arena
  <2>1. RunBuilder
    BY <1>2, Outside, AcceptOwn, ReturnProgramOwn DEF Next
  <2> QED
    BY <2>1, BuilderOwn DEF RunBuilder
<1> QED
  BY <1>1, <1>2

\* OwnInv holds throughout.
LEMMA Ownership == Spec => [](IInv /\ OwnInv)
<1>1. Init => OwnInv
  BY DEF Init, OwnInv
<1>2. IInv /\ OwnInv /\ [Next]_vars => (IInv /\ OwnInv)'
  BY NextInv, NextOwn
<1> QED
  BY <1>1, <1>2, InitInv, PTL DEF Spec

-----------------------------------------------------------------------------
(* The theorems.                                                           *)

\* parse() only adds nodes: whatever it allocates, sets and attaches, and
\* however often it fails, the ASTs of earlier calls stay as they are.
THEOREM EarlierASTsStay == Spec => EarlierASTKept
<1>1. IInv /\ OwnInv /\ [Next]_vars =>
        [\A n \in 1..OldNodes : n \in DOMAIN arena' /\ arena'[n] = arena[n]]_vars
  BY NextOwn DEF Kept
<1> QED
  BY <1>1, Ownership, PTL DEF Spec, EarlierASTKept

\* Equal beginnings of two sequences.
LEMMA SameBeginning ==
  ASSUME NEW s, IsSeq(s), NEW t, IsSeq(t), NEW m \in Nat, m <= Len(s), m <= Len(t),
         \A k \in 1..m : t[k] = s[k]
  PROVE  SubSeq(t, 1, m) = SubSeq(s, 1, m) /\ Len(SubSeq(s, 1, m)) = m
<1> DEFINE S == {s[i] : i \in DOMAIN s} \cup {t[i] : i \in DOMAIN t}
<1>1. /\ s \in Seq(S) /\ t \in Seq(S) /\ Len(s) \in Nat /\ Len(t) \in Nat
      /\ DOMAIN s = 1..Len(s) /\ DOMAIN t = 1..Len(t)
  BY DEF IsSeq
<1>2. \A i \in 1..m : s[i] \in S /\ t[i] \in S
  BY <1>1
<1> HIDE DEF S
<1>3. PICK a, b : a = SubSeq(s, 1, m) /\ b = SubSeq(t, 1, m)
  OBVIOUS
<1>4. a \in Seq(S) /\ Len(a) = m /\ \A i \in 1..m : a[i] = s[i]
  <2>1. /\ a \in Seq(S) /\ Len(a) = IF 1 <= m THEN m - 1 + 1 ELSE 0
        /\ \A i \in 1..(m - 1 + 1) : a[i] = s[1 + i - 1]
    BY <1>1, <1>2, <1>3, SubSeqProperties
  <2> QED
    BY <2>1
<1>5. b \in Seq(S) /\ Len(b) = m /\ \A i \in 1..m : b[i] = t[i]
  <2>1. /\ b \in Seq(S) /\ Len(b) = IF 1 <= m THEN m - 1 + 1 ELSE 0
        /\ \A i \in 1..(m - 1 + 1) : b[i] = t[1 + i - 1]
    BY <1>1, <1>2, <1>3, SubSeqProperties
  <2> QED
    BY <2>1
<1>6. \A i \in 1..m : a[i] = b[i]
  BY <1>4, <1>5
<1> QED
  BY <1>3, <1>4, <1>5, <1>6, SeqEqual

\* What a caller sees of the arena.
Finishing == SubSeq(arena, 1, OldNodes)

\* A step that ends no AST leaves the caller's nodes as they are.
LEMMA SameASTs ==
  ASSUME IInv, OwnInv, IInv', OwnInv', OldNodes' = OldNodes, Kept
  PROVE  Finishing' = Finishing
<1>1. /\ OldNodes \in Nat /\ OldNodes <= Len(arena) /\ IsSeq(arena) /\ IsSeq(arena')
      /\ OldNodes' <= Len(arena')
  <2>1. OldNodes \in 0..Len(arena) /\ Len(arena) \in Nat
    BY OldInArena
  <2>2. OldNodes' <= Len(arena') 
    <3>1. Len(arena') \in Nat /\ DOMAIN arena' = 1..Len(arena')
      BY SeqFacts DEF IInv, LocalsOK
    <3>2. OldNodes = 0 \/ OldNodes \in 1..OldNodes
      BY <2>1
    <3> QED
      BY <2>1, <3>1, <3>2 DEF Kept
  <2> QED
    BY <2>1, <2>2 DEF IInv, LocalsOK
<1>2. \A k \in 1..OldNodes : arena'[k] = arena[k]
  BY DEF Kept
<1>3. SubSeq(arena', 1, OldNodes) = SubSeq(arena, 1, OldNodes)
  BY <1>1, <1>2, SameBeginning
<1> QED
  BY <1>3 DEF Finishing

\* report() adds a diagnostic behind those that wait.
LEMMA Reported ==
  ASSUME IInv, NEW from, NEW to, NEW level, NEW message, report(from, to, level, message)
  PROVE  Promise!Prefix(Diagnostics, Diagnostics') /\ Len(Diagnostics') = Len(Diagnostics) + 1
<1>1. PICK d : Diagnostics' = Append(Diagnostics, d)
  BY DEF report
<1>2. IsSeq(Diagnostics) /\ Len(Diagnostics) \in Nat /\ DOMAIN Diagnostics = 1..Len(Diagnostics)
  BY SeqFacts DEF IInv, EngineOK
<1>3. /\ IsSeq(Diagnostics') /\ Len(Diagnostics') = Len(Diagnostics) + 1
      /\ \A k \in 1..Len(Diagnostics) : Diagnostics'[k] = Diagnostics[k]
  <2> DEFINE S == {Diagnostics[j] : j \in DOMAIN Diagnostics} \cup {d}
  <2>1. Diagnostics \in Seq(S) /\ d \in S
    BY <1>2 DEF IsSeq
  <2> HIDE DEF S
  <2>2. \A k \in 1..Len(Diagnostics) : Diagnostics'[k] = Diagnostics[k]
    BY <1>1, <1>2, <2>1
  <2> QED
    BY <1>1, <1>2, <2>2, AppendSeq
<1>4. SubSeq(Diagnostics', 1, Len(Diagnostics)) = Diagnostics
  <2>1. SubSeq(Diagnostics', 1, Len(Diagnostics)) = SubSeq(Diagnostics, 1, Len(Diagnostics))
    BY <1>2, <1>3, SameBeginning
  <2>2. SubSeq(Diagnostics, 1, Len(Diagnostics)) = Diagnostics
    BY <1>2 DEF IsSeq
  <2> QED
    BY <2>1, <2>2
<1> QED
  BY <1>2, <1>3, <1>4 DEF Promise!Prefix

\* A step of the builder changes nothing a caller sees but the diagnostics.
LEMMA RunBuilderKeeps ==
  ASSUME IInv, OwnInv, IInv', OwnInv', RunBuilder
  PROVE  Promise!Report \/ UNCHANGED Promise!vars
<1>1. /\ phase = "building" /\ phase' = "building" /\ BuilderStep
      /\ UNCHANGED << erred, program >>
  BY DEF RunBuilder, callVars
<1>2. Finishing' = Finishing
  BY <1>1, BuilderOwn, SameASTs
<1>3. CASE ReportError
  <2>1. PICK i : report(i.start, i.end, "error", i.message)
    BY <1>3 DEF ReportError
  <2>2. Promise!Prefix(Diagnostics, Diagnostics') /\ Len(Diagnostics') = Len(Diagnostics) + 1
    BY <2>1, Reported
  <2> QED
    BY <1>1, <1>2, <2>2 DEF Promise!Report, Finishing
<1>4. CASE ~ ReportError
  <2>1. UNCHANGED Diagnostics
    BY <1>1, <1>4 DEF BuilderStep, Allocate, AttachSub, SetVisibility, Call, NextIteration, Return
  <2> QED
    BY <1>1, <1>2, <2>1 DEF Promise!vars, Finishing
<1> QED
  BY <1>3, <1>4

\* The Program that is returned is the first node after those of other ASTs.
LEMMA ReturnProgramDelivers ==
  ASSUME IInv, OwnInv, IInv', OwnInv', ReturnProgram
  PROVE  Promise!Deliver
<1>1. /\ phase = "building" /\ phase' = "idle" /\ UNCHANGED << Diagnostics, erred >> /\ ~ erred
  BY DEF ReturnProgram, EndBuild, IInv, ErrorBars
<1>2. /\ arena' = arena /\ program' = OldNodes + 1
      /\ OldNodes \in Nat /\ OldNodes' = Len(arena) /\ OldNodes < Len(arena)
  BY ReturnProgramOwn
<1>3. IsSeq(arena) /\ Len(arena) \in Nat
  BY SeqFacts DEF IInv, LocalsOK
<1>4. Len(Finishing) = OldNodes
  BY <1>2, <1>3, SameBeginning DEF Finishing
<1>5. Finishing' = arena
  <2>1. SubSeq(arena, 1, Len(arena)) = arena
    BY <1>3 DEF IsSeq
  <2> QED
    BY <1>2, <2>1 DEF Finishing
<1>6. Promise!Prefix(Finishing, Finishing')
  BY <1>2, <1>4, <1>5 DEF Promise!Prefix, Finishing
<1> QED
  BY <1>1, <1>2, <1>4, <1>6 DEF Promise!Deliver, Finishing

\* Every step of parse() and of its caller is one of the contract's, or
\* nothing the caller can see.
LEMMA StepKeepsPromise ==
  ASSUME IInv, OwnInv, IInv', OwnInv', [Next]_vars
  PROVE  [Promise!Step]_(Promise!vars)
<1>1. CASE UNCHANGED << stack, arena >>
  <2>1. Finishing' = Finishing
    BY <1>1, QuietOwn DEF Finishing
  <2>2. CASE StartParse
    BY <2>1, <2>2 DEF StartParse, diagVars, Finishing, Promise!Step, Promise!Call
  <2>3. CASE RunParser
    BY <2>1, <2>3 DEF RunParser, diagVars, callVars, Finishing, Promise!vars
  <2>4. CASE SyntaxError
    <3>1. Promise!Prefix(Diagnostics, Diagnostics') /\ Len(Diagnostics') = Len(Diagnostics) + 1
      BY <2>4, Reported DEF SyntaxError
    <3> QED
      BY <2>1, <2>4, <3>1 DEF SyntaxError, Finishing, Promise!Step, Promise!Report
  <2>5. CASE RefuseTree
    BY <2>1, <2>5 DEF RefuseTree, diagVars, Finishing, Promise!Step, Promise!Refuse, IInv,
                      EngineOK, ErrorsPending, Null
  <2>6. CASE PrintDiagnostics
    BY <2>1, <2>6 DEF PrintDiagnostics, print, callVars, Finishing, Promise!Step,
                      Promise!PrintOut
  <2>7. CASE Terminated \/ UNCHANGED vars
    BY <2>1, <2>7 DEF Terminated, vars, diagVars, callVars, Finishing, Promise!vars
  <2>8. CASE AcceptTree
    BY <2>1, <2>8 DEF AcceptTree, diagVars, callVars, Finishing, Promise!vars
  <2>9. CASE RunBuilder
    BY <2>9, RunBuilderKeeps DEF Promise!Step
  <2>10. CASE ReturnProgram
    BY <2>10, ReturnProgramDelivers DEF Promise!Step
  <2> QED
    BY <2>2, <2>3, <2>4, <2>5, <2>6, <2>7, <2>8, <2>9, <2>10 DEF Next
<1>2. CASE AcceptTree
  <2>1. Finishing' = Finishing
    BY <1>2, AcceptOwn DEF Finishing
  <2> QED
    BY <1>2, <2>1 DEF AcceptTree, diagVars, callVars, Finishing, Promise!vars
<1>3. CASE RunBuilder
  BY <1>3, RunBuilderKeeps DEF Promise!Step
<1>4. CASE ReturnProgram
  BY <1>4, ReturnProgramDelivers DEF Promise!Step
<1> QED
  BY <1>1, <1>2, <1>3, <1>4, Outside DEF Next

\* parse() implements ParseContract: a caller who parses any number of files
\* gets a fresh Program or nullptr, never the latter without a diagnostic nor
\* the former after a syntax error, and finds other ASTs and the diagnostics
\* of earlier calls unchanged.
THEOREM ParseKeepsPromise == Spec => ParsePromise
<1>1. Init => Promise!Start
  <2>1. << >> = SubSeq(<< >>, 1, 0)
    OBVIOUS
  <2> QED
    BY <2>1 DEF Init, NoDiagnostics, OldNodes, Promise!Start, Null
<1>2. (IInv /\ OwnInv) /\ (IInv /\ OwnInv)' /\ [Next]_vars => [Promise!Step]_(Promise!vars)
  BY StepKeepsPromise
<1> QED
  BY <1>1, <1>2, Ownership, PTL DEF Spec, ParsePromise, Promise!Contract

-----------------------------------------------------------------------------
(* Nodes and their owners.                                                 *)

States == {"empty", "holds", "passes", "beside"}

-----------------------------------------------------------------------------
(* Flows: what code makes of what a call holds.                            *)

\* No instructions change nothing.
LEMMA FlowEmpty == ASSUME NEW a \in States PROVE Flow(<< >>, a, a)
<1> DEFINE st == [k \in 0..0 |-> a]
<1>1. st \in [0..Len(<< >>) -> States] /\ st[0] = a /\ st[Len(<< >>)] = a /\ Len(<< >>) = 0
  OBVIOUS
<1>2. IsSeq(<< >>)
  BY DEF IsSeq
<1> HIDE DEF st
<1> QED
  BY <1>1, <1>2 DEF Flow, States

\* One instruction.
LEMMA FlowOne ==
  ASSUME NEW i, NEW a \in States, NEW b \in States, Moves(i, a, b)
  PROVE  Flow(<< i >>, a, b)
<1> DEFINE st == [k \in 0..1 |-> IF k = 0 THEN a ELSE b]
           code == << i >>
<1>1. st \in [0..1 -> States] /\ st[0] = a /\ st[1] = b
  OBVIOUS
<1>2. IsSeq(code) /\ Len(code) = 1 /\ code[1] = i
  BY DEF IsSeq
<1> HIDE DEF st, code
<1>3. \A k \in 1..1 : Moves(code[k], st[k - 1], st[k])
  BY <1>1, <1>2
<1>4. Flow(code, a, b)
  BY <1>1, <1>2, <1>3 DEF Flow, States
<1> QED
  BY <1>4 DEF code

\* Two instructions.
LEMMA FlowTwo ==
  ASSUME NEW i, NEW j, NEW a \in States, NEW b \in States, NEW c \in States,
         Moves(i, a, b), Moves(j, b, c)
  PROVE  Flow(<< i, j >>, a, c)
<1> DEFINE st == [k \in 0..2 |-> IF k = 0 THEN a ELSE IF k = 1 THEN b ELSE c]
           code == << i, j >>
<1>1. st \in [0..2 -> States] /\ st[0] = a /\ st[1] = b /\ st[2] = c
  OBVIOUS
<1>2. IsSeq(code) /\ Len(code) = 2 /\ code[1] = i /\ code[2] = j
  BY DEF IsSeq
<1> HIDE DEF st, code
<1>3. \A k \in 1..2 : Moves(code[k], st[k - 1], st[k])
  BY <1>1, <1>2
<1>4. Flow(code, a, c)
  BY <1>1, <1>2, <1>3 DEF Flow, States
<1> QED
  BY <1>4 DEF code

\* Three instructions.
LEMMA FlowThree ==
  ASSUME NEW i, NEW j, NEW l, NEW a \in States, NEW b \in States, NEW c \in States,
         NEW d \in States, Moves(i, a, b), Moves(j, b, c), Moves(l, c, d)
  PROVE  Flow(<< i, j, l >>, a, d)
<1> DEFINE st == [k \in 0..3 |-> IF k = 0 THEN a ELSE IF k = 1 THEN b ELSE IF k = 2 THEN c ELSE d]
           code == << i, j, l >>
<1>1. st \in [0..3 -> States] /\ st[0] = a /\ st[1] = b /\ st[2] = c /\ st[3] = d
  OBVIOUS
<1>2. IsSeq(code) /\ Len(code) = 3 /\ code[1] = i /\ code[2] = j /\ code[3] = l
  BY DEF IsSeq
<1> HIDE DEF st, code
<1>3. \A k \in 1..3 : Moves(code[k], st[k - 1], st[k])
  BY <1>1, <1>2
<1>4. Flow(code, a, d)
  BY <1>1, <1>2, <1>3 DEF Flow, States
<1> QED
  BY <1>4 DEF code

\* Five instructions.
LEMMA FlowFive ==
  ASSUME NEW i1, NEW i2, NEW i3, NEW i4, NEW i5, NEW a0 \in States, NEW a1 \in States,
         NEW a2 \in States, NEW a3 \in States, NEW a4 \in States, NEW a5 \in States,
         Moves(i1, a0, a1), Moves(i2, a1, a2), Moves(i3, a2, a3), Moves(i4, a3, a4),
         Moves(i5, a4, a5)
  PROVE  Flow(<< i1, i2, i3, i4, i5 >>, a0, a5)
<1> DEFINE st == [k \in 0..5 |-> CASE k = 0 -> a0 [] k = 1 -> a1 [] k = 2 -> a2
                                   [] k = 3 -> a3 [] k = 4 -> a4 [] OTHER -> a5]
           code == << i1, i2, i3, i4, i5 >>
<1>1. /\ st \in [0..5 -> States] /\ st[0] = a0 /\ st[1] = a1 /\ st[2] = a2
      /\ st[3] = a3 /\ st[4] = a4 /\ st[5] = a5
  OBVIOUS
<1>2. /\ IsSeq(code) /\ Len(code) = 5 /\ code[1] = i1 /\ code[2] = i2 /\ code[3] = i3
      /\ code[4] = i4 /\ code[5] = i5
  BY DEF IsSeq
<1> HIDE DEF st, code
<1>3. \A k \in 1..5 : Moves(code[k], st[k - 1], st[k])
  <2>1. \A k \in 1..5 : k = 1 \/ k = 2 \/ k = 3 \/ k = 4 \/ k = 5
    OBVIOUS
  <2> QED
    BY <1>1, <1>2, <2>1
<1>4. Flow(code, a0, a5)
  BY <1>1, <1>2, <1>3 DEF Flow, States
<1> QED
  BY <1>4 DEF code

\* Code that runs after other code.
LEMMA FlowConcat ==
  ASSUME NEW x, NEW y, NEW a, NEW b, NEW c, Flow(x, a, b), Flow(y, b, c)
  PROVE  Flow(x \o y, a, c)
<1>1. PICK z, m, n : z = x \o y /\ m = Len(x) /\ n = Len(y)
  OBVIOUS
<1>2. PICK s \in [0..m -> States] :
        s[0] = a /\ s[m] = b /\ \A k \in 1..m : Moves(x[k], s[k - 1], s[k])
  BY <1>1 DEF Flow, States
<1>3. PICK t \in [0..n -> States] :
        t[0] = b /\ t[n] = c /\ \A k \in 1..n : Moves(y[k], t[k - 1], t[k])
  BY <1>1 DEF Flow, States
<1>4. /\ IsSeq(x) /\ IsSeq(y) /\ m \in Nat /\ n \in Nat /\ DOMAIN x = 1..m /\ DOMAIN y = 1..n
  BY <1>1, SeqFacts DEF Flow
<1>5. /\ IsSeq(z) /\ Len(z) = m + n
      /\ \A k \in DOMAIN z : \/ k \in DOMAIN x /\ z[k] = x[k]
                             \/ k - m \in DOMAIN y /\ z[k] = y[k - m]
  BY <1>1, <1>4, ConcatSeq
<1>6. DOMAIN z = 1..(m + n)
  BY <1>5, SeqFacts
<1> DEFINE u == [k \in 0..(m + n) |-> IF k <= m THEN s[k] ELSE t[k - m]]
<1>7. u \in [0..(m + n) -> States]
  BY <1>4
<1>8. /\ \A k \in 0..m : u[k] = s[k]
      /\ \A k \in m..(m + n) : u[k] = t[k - m]
  BY <1>2, <1>3, <1>4
<1> HIDE DEF u
<1>9. u[0] = a /\ u[m + n] = c
  BY <1>2, <1>3, <1>4, <1>8
<1>10. ASSUME NEW k \in 1..(m + n) PROVE Moves(z[k], u[k - 1], u[k])
  <2>1. CASE k \in DOMAIN x /\ z[k] = x[k]
    <3>1. k \in 1..m /\ k - 1 \in 0..m /\ k \in 0..m
      BY <1>4, <2>1
    <3> QED
      BY <1>2, <1>8, <2>1, <3>1
  <2>2. CASE k - m \in DOMAIN y /\ z[k] = y[k - m]
    <3>1. k - m \in 1..n /\ k - 1 \in m..(m + n) /\ k \in m..(m + n)
          /\ (k - m) - 1 = (k - 1) - m
      BY <1>4, <2>2
    <3>2. u[k - 1] = t[(k - m) - 1] /\ u[k] = t[k - m]
      BY <1>8, <3>1
    <3> QED
      BY <1>3, <2>2, <3>1, <3>2
  <2> QED
    BY <1>5, <1>6, <2>1, <2>2
<1>11. Flow(z, a, c)
  BY <1>5, <1>7, <1>9, <1>10 DEF Flow, States
<1> QED
  BY <1>1, <1>11

\* An instruction, and what is left.
LEMMA FlowTail ==
  ASSUME NEW x, NEW a, NEW b, Flow(x, a, b), x # << >>
  PROVE  /\ IsSeq(x) /\ 1 \in DOMAIN x
         /\ \E m \in States : Moves(x[1], a, m) /\ Flow(Tail(x), m, b)
<1>1. PICK n, y : n = Len(x) /\ y = Tail(x)
  OBVIOUS
<1>2. PICK s \in [0..n -> States] :
        s[0] = a /\ s[n] = b /\ \A k \in 1..n : Moves(x[k], s[k - 1], s[k])
  BY <1>1 DEF Flow, States
<1>3. /\ IsSeq(y) /\ Len(y) = n - 1 /\ DOMAIN y = 1..(n - 1) /\ 1 \in DOMAIN x
      /\ \A i \in DOMAIN y : y[i] = x[i + 1]
      /\ IsSeq(x) /\ n \in Nat /\ DOMAIN x = 1..n
  BY <1>1, TailSeq, SeqFacts DEF Flow
<1>4. Moves(x[1], a, s[1]) /\ s[1] \in States
  BY <1>2, <1>3
<1> DEFINE t == [k \in 0..(n - 1) |-> s[k + 1]]
<1>5. t \in [0..(n - 1) -> States] /\ t[0] = s[1] /\ t[n - 1] = b
  BY <1>2, <1>3
<1>6. ASSUME NEW k \in 1..(n - 1) PROVE Moves(y[k], t[k - 1], t[k])
  <2>1. k + 1 \in 1..n /\ (k + 1) - 1 = k /\ k - 1 \in 0..(n - 1) /\ (k - 1) + 1 = k
        /\ k \in 0..(n - 1)
    BY <1>3
  <2>2. t[k - 1] = s[k] /\ t[k] = s[k + 1]
    BY <2>1
  <2> HIDE DEF t
  <2>3. y[k] = x[k + 1]
    BY <1>3
  <2>4. Moves(x[k + 1], s[(k + 1) - 1], s[k + 1])
    BY <1>2, <2>1
  <2> QED
    BY <2>1, <2>2, <2>3, <2>4
<1> HIDE DEF t
<1>7. Flow(y, s[1], b)
  BY <1>3, <1>5, <1>6 DEF Flow, States
<1> QED
  BY <1>1, <1>3, <1>4, <1>7

\* Instructions that each leave things as they are.
LEMMA FlowStays ==
  ASSUME NEW x, IsSeq(x), NEW a \in States, \A k \in DOMAIN x : Moves(x[k], a, a)
  PROVE  Flow(x, a, a)
<1> DEFINE st == [k \in 0..Len(x) |-> a]
<1>1. Len(x) \in Nat /\ DOMAIN x = 1..Len(x)
  BY SeqFacts
<1>2. /\ st \in [0..Len(x) -> States] /\ st[0] = a /\ st[Len(x)] = a
      /\ \A k \in 1..Len(x) : st[k - 1] = a /\ st[k] = a
  BY <1>1
<1> HIDE DEF st
<1> QED
  BY <1>1, <1>2 DEF Flow, States

-----------------------------------------------------------------------------
(* The pieces visitors are made of.                                        *)

\* Code that allocates the result of a visitor, that takes over what another
\* visitor returned, that goes on with the result, and that wraps it.
Builds(code) == Flow(code, "empty", "holds")
Takes(code) == Flow(code, "empty", "passes")
Keeps(code) == Flow(code, "holds", "holds")
Wraps(code) == Keeps(code) /\ Flow(code, "passes", "holds")

\* An instruction that stores into the result or beside it.
Fills(i) == Moves(i, "holds", "holds") /\ Moves(i, "beside", "beside")

\* A visitor whose code ends with a node to return.
VisitCareful(c) ==
  LET v == Visit(c)
  IN  /\ IsSeq(v.code) /\ v.code # << >>
      /\ \E t \in Done : Flow(v.code[1], "empty", t) /\ Turns(Tail(v.code), t)

\* Constructors leave nodes without children, and so does what the visitors
\* set before they visit any.
LEMMA BareNodes ==
  /\ \A kind, from, to : Bare(Node(kind, from, to))
  /\ \A node, c : Bare(node) => Bare(Named(node, c))
  /\ \A node, op : Bare(node) => Bare(WithOp(node, op))
  /\ \A node, ops : Bare(node) => Bare([node EXCEPT !.ops = ops])
  /\ \A node, flag, cond : Bare(node) => Bare(Flagged(node, flag, cond))
  BY DEF Bare, Node, Named, WithOp, Flagged

\* What an instruction makes of what a call holds.
LEMMA Moving ==
  /\ \A node : Bare(node) => Moves(New(node), "empty", "holds")
  /\ \A node : Bare(node) => Moves(Sub(node), "holds", "beside")
  /\ \A node, slot, a : Bare(node) /\ a \in Done => Moves(Wrap(node, slot), a, "holds")
  /\ \A slot : Moves(Attach(slot), "beside", "holds")
  /\ \A vis, a : a \in Done => Moves(SetVis(vis), a, a)
  /\ \A from, to, message, a : Moves(Error(from, to, message), a, a)
  /\ \A as, child : as # "empty" => Moves(Get(as, child, Result), "empty", "passes")
  BY DEF Moves, New, Sub, Wrap, Attach, SetVis, Error, Get

\* Visits whose results are stored in a member.
LEMMA GetFills ==
  ASSUME NEW as, as \notin {"any", "empty"}, NEW slot, slot # Result
  PROVE  \A child : Fills(Get(as, child, slot))
  BY DEF Moves, Get, Fills

\* The same for the getters of ASTBuilder.
LEMMA GettersFill ==
  ASSUME NEW slot, slot # Result
  PROVE  \A child : /\ Fills(getDecl(child, slot)) /\ Fills(getType(child, slot))
                    /\ Fills(getStmt(child, slot)) /\ Fills(getBlock(child, slot))
                    /\ Fills(getExpr(child, slot))
  BY GetFills DEF getDecl, getType, getStmt, getBlock, getExpr

\* The getters, where the result of the child is the result of the visitor.
LEMMA GettersTake ==
  \A child : /\ Takes(<< getDecl(child, Result) >>) /\ Takes(<< getType(child, Result) >>)
             /\ Takes(<< getStmt(child, Result) >>) /\ Takes(<< getExpr(child, Result) >>)
             /\ Takes(<< Get("any", child, Result) >>)
<1>1. \A child, as : as # "empty" => Takes(<< Get(as, child, Result) >>)
  BY Moving, FlowOne DEF States, Takes
<1> QED
  BY <1>1 DEF getDecl, getType, getStmt, getExpr

\* An instruction that stores, on its own.
LEMMA KeepsOne == ASSUME NEW i, Fills(i) PROVE Keeps(<< i >>)
  BY FlowOne DEF Keeps, Fills, States

\* What is reported does not matter.
LEMMA KeepsReport == \A from, to, message : Keeps(<< Error(from, to, message) >>)
  BY Moving, FlowOne DEF Keeps, States

\* Nothing at all.
LEMMA KeepsEmpty == Keeps(<< >>)
  BY FlowEmpty DEF Keeps, States

\* The loop over the children of a rule.
LEMMA KeepsAll ==
  ASSUME NEW as, as \notin {"any", "empty"}, NEW slot, slot # Result, NEW kids, IsSeq(kids)
  PROVE  Keeps(GetAll(as, kids, slot))
<1> DEFINE code == GetAll(as, kids, slot)
<1>1. Len(kids) \in Nat /\ DOMAIN kids = 1..Len(kids)
  BY SeqFacts
<1>2. code = [i \in 1..Len(kids) |-> code[i]] /\ DOMAIN code = DOMAIN kids
  BY <1>1 DEF GetAll
<1>3. \A i \in DOMAIN code : Fills(code[i])
  BY <1>2, GetFills DEF GetAll
<1>4. IsSeq(code)
  BY <1>1, <1>2, FunSeq
<1> HIDE DEF code
<1>5. Keeps(code)
  BY <1>3, <1>4, FlowStays DEF Keeps, Fills, States
<1> QED
  BY <1>5 DEF code

\* Code under a condition of the source.
LEMMA KeepsIf == ASSUME NEW cond, NEW code, cond => Keeps(code) PROVE Keeps(If(cond, code))
  BY KeepsEmpty DEF If

\* Pieces one after the other.
LEMMA KeepsConcat == ASSUME NEW x, NEW y, Keeps(x), Keeps(y) PROVE Keeps(x \o y)
  BY FlowConcat DEF Keeps

LEMMA BuildsConcat == ASSUME NEW x, NEW y, Builds(x), Keeps(y) PROVE Builds(x \o y)
  BY FlowConcat DEF Builds, Keeps

LEMMA WrapsConcat == ASSUME NEW x, NEW y, Wraps(x), Keeps(y) PROVE Wraps(x \o y)
  BY FlowConcat DEF Wraps, Keeps

\* A node is allocated and its first members are filled.
LEMMA BuildsNew ==
  ASSUME NEW node, Bare(node)
  PROVE  /\ Builds(<< New(node) >>)
         /\ \A i : Fills(i) => Builds(<< New(node), i >>)
         /\ \A i, j : Fills(i) /\ Fills(j) => Builds(<< New(node), i, j >>)
<1>1. Builds(<< New(node) >>)
  BY Moving, FlowOne DEF Builds, States
<1>2. ASSUME NEW i, Fills(i) PROVE Builds(<< New(node), i >>)
  BY <1>2, Moving, FlowTwo DEF Builds, Fills, States
<1>3. ASSUME NEW i, NEW j, Fills(i), Fills(j) PROVE Builds(<< New(node), i, j >>)
  BY <1>3, Moving, FlowThree DEF Builds, Fills, States
<1> QED
  BY <1>1, <1>2, <1>3

\* A node is wrapped around the result, and a member of it is filled.
LEMMA WrapsNew ==
  ASSUME NEW node, Bare(node), NEW slot
  PROVE  /\ Wraps(<< Wrap(node, slot) >>)
         /\ \A i : Fills(i) => Wraps(<< Wrap(node, slot), i >>)
<1>1. Wraps(<< Wrap(node, slot) >>)
  BY Moving, FlowOne DEF Wraps, Keeps, States, Done
<1>2. ASSUME NEW i, Fills(i) PROVE Wraps(<< Wrap(node, slot), i >>)
  BY <1>2, Moving, FlowTwo DEF Wraps, Keeps, Fills, States, Done
<1> QED
  BY <1>1, <1>2

-----------------------------------------------------------------------------
(* Whole visitors.                                                         *)

\* One block of code.
LEMMA OneBlock ==
  ASSUME NEW block, NEW any
  PROVE  LET v == Visitor(any, block)
         IN  IsSeq(v.code) /\ v.code # << >> /\ v.code[1] = block /\ Tail(v.code) = << >>
<1>1. PICK v : v = Visitor(any, block)
  OBVIOUS
<1>2. v.code = << block >>
  BY <1>1 DEF Visitor
<1>3. IsSeq(v.code) /\ v.code # << >> /\ v.code[1] = block /\ Tail(v.code) = << >>
  BY <1>2 DEF IsSeq
<1> QED
  BY <1>1, <1>3

\* A visitor without a loop.
LEMMA CarefulBlock ==
  ASSUME NEW c, NEW any, NEW block, Visit(c) = Visitor(any, block),
         Builds(block) \/ Takes(block)
  PROVE  VisitCareful(c)
<1>1. \A t : Turns(<< >>, t)
  BY DEF Turns, IsSeq
<1>2. PICK v : v = Visit(c)
  OBVIOUS
<1>3. IsSeq(v.code) /\ v.code # << >> /\ v.code[1] = block /\ Tail(v.code) = << >>
  BY <1>2, OneBlock
<1>4. \E t \in Done : Flow(block, "empty", t)
  BY DEF Builds, Takes, Done
<1> QED
  BY <1>1, <1>2, <1>3, <1>4 DEF VisitCareful

\* A visitor that hands on the any of a child.
LEMMA CarefulForward ==
  ASSUME NEW c, NEW x, Visit(c) = Forward(x)
  PROVE  VisitCareful(c)
  BY GettersTake, CarefulBlock DEF Forward

\* A visitor that runs a block per operand, suffix or type parameter.
LEMMA CarefulLoop ==
  ASSUME NEW c, NEW any, NEW first, NEW blocks, Visit(c) = Loop(any, << first >> \o blocks),
         IsSeq(blocks),
         \/ Builds(first) /\ \A k \in DOMAIN blocks : Keeps(blocks[k])
         \/ Takes(first) /\ \A k \in DOMAIN blocks : Wraps(blocks[k])
  PROVE  VisitCareful(c)
<1>1. PICK code : code = << first >> \o blocks
  OBVIOUS
<1>2. /\ IsSeq(code) /\ code[1] = first /\ Len(code) = Len(blocks) + 1
      /\ Len(blocks) \in Nat /\ DOMAIN code = 1..(Len(blocks) + 1)
      /\ \A i \in DOMAIN blocks : code[i + 1] = blocks[i]
  <2>1. Pushed(code, first, blocks)
    BY <1>1 DEF Pushed
  <2> QED
    BY <2>1, PushSeq
<1>3. code # << >>
  BY <1>2
<1>4. PICK rest : rest = Tail(code)
  OBVIOUS
<1>5. /\ IsSeq(rest) /\ DOMAIN rest = DOMAIN blocks
      /\ \A i \in DOMAIN blocks : rest[i] = blocks[i]
      /\ rest # << >> => 1 \in DOMAIN blocks
  <2>1. /\ IsSeq(rest) /\ DOMAIN rest = 1..(Len(code) - 1)
        /\ \A i \in DOMAIN rest : rest[i] = code[i + 1]
    BY <1>2, <1>3, <1>4, TailSeq
  <2>2. DOMAIN rest = DOMAIN blocks
    BY <1>2, <2>1, SeqFacts
  <2>3. rest # << >> => 1 \in DOMAIN rest
    BY <2>1, TailSeq
  <2> QED
    BY <1>2, <2>1, <2>2, <2>3
<1>6. CASE Builds(first) /\ \A k \in DOMAIN blocks : Keeps(blocks[k])
  <2>1. Turns(rest, "holds")
    BY <1>5, <1>6 DEF Turns, Keeps
  <2>2. Flow(first, "empty", "holds") /\ "holds" \in Done
    BY <1>6 DEF Builds, Done
  <2>3. Visit(c).code = code
    BY <1>1 DEF Loop
  <2> QED
    BY <1>2, <1>3, <1>4, <2>1, <2>2, <2>3 DEF VisitCareful
<1>7. CASE Takes(first) /\ \A k \in DOMAIN blocks : Wraps(blocks[k])
  <2>1. Turns(rest, "passes")
    BY <1>5, <1>7 DEF Turns, Wraps, Keeps
  <2>2. Flow(first, "empty", "passes") /\ "passes" \in Done
    BY <1>7 DEF Takes, Done
  <2>3. Visit(c).code = code
    BY <1>1 DEF Loop
  <2> QED
    BY <1>2, <1>3, <1>4, <2>1, <2>2, <2>3 DEF VisitCareful
<1> QED
  BY <1>6, <1>7

-----------------------------------------------------------------------------
(* The visitors, one by one.                                               *)

\* The children of a rule are listed in a sequence.
LEMMA KidsSeq ==
  ASSUME TreeDone, NEW c
  PROVE  \A sym : c \in DOMAIN tree => IsSeq(Kids(c, sym)) /\ Len(Kids(c, sym)) \in Nat /\
                    DOMAIN Kids(c, sym) = 1..Len(Kids(c, sym))
  BY KidsOK, SeqFacts

\* The Program is filled with the objects of the file.
LEMMA visitFile_Careful ==
  ASSUME TreeDone, NEW c \in DOMAIN tree, tree[c].sym = "file"
  PROVE  VisitCareful(c)
<1>1. Visit(c) = visitFile(c)
  BY DEF Visit
<1> QED
  BY <1>1, BareNodes, BuildsNew, KidsSeq, KeepsAll, BuildsConcat, CarefulBlock
  DEF visitFile, Result

\* One node with one member.
LEMMA visitTopLevelObject_Careful ==
  ASSUME TreeDone, NEW c \in DOMAIN tree, tree[c].sym = "topLevelObject"
  PROVE  VisitCareful(c)
<1>1. Visit(c) = visitTopLevelObject(c)
  BY DEF Visit
<1> QED
  BY <1>1, BareNodes, BuildsNew, GettersFill, CarefulBlock
  DEF visitTopLevelObject, Result

\* The body is stored before the parameters.
LEMMA visitFunctionDecl_Careful ==
  ASSUME TreeDone, NEW c \in DOMAIN tree, tree[c].sym = "functionDecl"
  PROVE  VisitCareful(c)
<1>1. Visit(c) = visitFunctionDecl(c)
  BY DEF Visit
<1> QED
  BY <1>1, BareNodes, BuildsNew, GettersFill, KidsSeq, KeepsAll, BuildsConcat, CarefulBlock
  DEF visitFunctionDecl, Result

\* A default value that is there is stored.
LEMMA visitParameter_Careful ==
  ASSUME TreeDone, NEW c \in DOMAIN tree, tree[c].sym = "parameter"
  PROVE  VisitCareful(c)
<1>1. Visit(c) = visitParameter(c)
  BY DEF Visit
<1> QED
  BY <1>1, BareNodes, BuildsNew, GettersFill, KeepsOne, KeepsIf, BuildsConcat, CarefulBlock
  DEF visitParameter, Result

\* A type and an initializer are stored where they are there.
LEMMA visitVariableDecl_Careful ==
  ASSUME TreeDone, NEW c \in DOMAIN tree, tree[c].sym = "variableDecl"
  PROVE  VisitCareful(c)
<1>1. Visit(c) = visitVariableDecl(c)
  BY DEF Visit
<1> QED
  BY <1>1, BareNodes, BuildsNew, GettersFill, KeepsOne, KeepsIf, BuildsConcat, CarefulBlock
  DEF visitVariableDecl, Result

\* A leaf.
LEMMA visitBuiltinType_Careful ==
  ASSUME TreeDone, NEW c \in DOMAIN tree, tree[c].sym = "builtinType"
  PROVE  VisitCareful(c)
<1>1. Visit(c) = visitBuiltinType(c)
  BY DEF Visit
<1> QED
  BY <1>1, BareNodes, BuildsNew, CarefulBlock
  DEF visitBuiltinType

\* The statements of a block are stored in it.
LEMMA visitBlock_Careful ==
  ASSUME TreeDone, NEW c \in DOMAIN tree, tree[c].sym = "block"
  PROVE  VisitCareful(c)
<1>1. Visit(c) = visitBlock(c)
  BY DEF Visit
<1> QED
  BY <1>1, BareNodes, BuildsNew, KidsSeq, KeepsAll, BuildsConcat, CarefulBlock
  DEF visitBlock, Result

\* One node with one member.
LEMMA visitDeclStatement_Careful ==
  ASSUME TreeDone, NEW c \in DOMAIN tree, tree[c].sym = "declStatement"
  PROVE  VisitCareful(c)
<1>1. Visit(c) = visitDeclStatement(c)
  BY DEF Visit
<1> QED
  BY <1>1, BareNodes, BuildsNew, GettersFill, CarefulBlock
  DEF visitDeclStatement, Result

\* One node with two members.
LEMMA visitAssignment_Careful ==
  ASSUME TreeDone, NEW c \in DOMAIN tree, tree[c].sym = "assignment"
  PROVE  VisitCareful(c)
<1>1. Visit(c) = visitAssignment(c)
  BY DEF Visit
<1> QED
  BY <1>1, BareNodes, BuildsNew, GettersFill, CarefulBlock
  DEF visitAssignment, Result

\* One node with two members.
LEMMA visitForEachStmt_Careful ==
  ASSUME TreeDone, NEW c \in DOMAIN tree, tree[c].sym = "forEachStmt"
  PROVE  VisitCareful(c)
<1>1. Visit(c) = visitForEachStmt(c)
  BY DEF Visit
<1> QED
  BY <1>1, BareNodes, BuildsNew, GettersFill, CarefulBlock
  DEF visitForEachStmt, Result

\* One node with two members.
LEMMA visitWhileStmt_Careful ==
  ASSUME TreeDone, NEW c \in DOMAIN tree, tree[c].sym = "whileStmt"
  PROVE  VisitCareful(c)
<1>1. Visit(c) = visitWhileStmt(c)
  BY DEF Visit
<1> QED
  BY <1>1, BareNodes, BuildsNew, GettersFill, CarefulBlock
  DEF visitWhileStmt, Result

\* One node with two members.
LEMMA visitDoWhileStmt_Careful ==
  ASSUME TreeDone, NEW c \in DOMAIN tree, tree[c].sym = "doWhileStmt"
  PROVE  VisitCareful(c)
<1>1. Visit(c) = visitDoWhileStmt(c)
  BY DEF Visit
<1> QED
  BY <1>1, BareNodes, BuildsNew, GettersFill, CarefulBlock
  DEF visitDoWhileStmt, Result

\* One node with one member.
LEMMA visitExprStmt_Careful ==
  ASSUME TreeDone, NEW c \in DOMAIN tree, tree[c].sym = "exprStmt"
  PROVE  VisitCareful(c)
<1>1. Visit(c) = visitExprStmt(c)
  BY DEF Visit
<1> QED
  BY <1>1, BareNodes, BuildsNew, GettersFill, CarefulBlock
  DEF visitExprStmt, Result

\* The node of the assignment is handed on, or a new one filled.
LEMMA visitForUpdate_Careful ==
  ASSUME TreeDone, NEW c \in DOMAIN tree, tree[c].sym = "forUpdate"
  PROVE  VisitCareful(c)
<1>1. Visit(c) = visitForUpdate(c)
  BY DEF Visit
<1> QED
  BY <1>1, BareNodes, BuildsNew, GettersFill, GettersTake, CarefulBlock
  DEF visitForUpdate, Result

\* Catch clauses and an optional last block are stored.
LEMMA visitTryStatement_Careful ==
  ASSUME TreeDone, NEW c \in DOMAIN tree, tree[c].sym = "tryStatement"
  PROVE  VisitCareful(c)
<1>1. Visit(c) = visitTryStatement(c)
  BY DEF Visit
<1> QED
  BY <1>1, BareNodes, BuildsNew, GettersFill, KidsSeq, KeepsAll, KeepsOne, KeepsIf,
     BuildsConcat, CarefulBlock
  DEF visitTryStatement, Result

\* An else of either kind is stored.
LEMMA visitIfStmt_Careful ==
  ASSUME TreeDone, NEW c \in DOMAIN tree, tree[c].sym = "ifStmt"
  PROVE  VisitCareful(c)
<1>1. Visit(c) = visitIfStmt(c)
  BY DEF Visit
<1> QED
  BY <1>1, BareNodes, BuildsNew, GettersFill, KeepsOne, KeepsIf, BuildsConcat, CarefulBlock
  DEF visitIfStmt, Result

\* A leaf, with a report when its text is bad.
LEMMA visitLiteralConstant_Careful ==
  ASSUME TreeDone, NEW c \in DOMAIN tree, tree[c].sym = "literalConstant"
  PROVE  VisitCareful(c)
<1>1. Visit(c) = visitLiteralConstant(c)
  BY DEF Visit
<1> QED
  BY <1>1, BareNodes, BuildsNew, KeepsReport, KeepsIf, BuildsConcat, CarefulBlock
  DEF visitLiteralConstant

\* The elements are stored in order.
LEMMA visitCollectionLiteral_Careful ==
  ASSUME TreeDone, NEW c \in DOMAIN tree, tree[c].sym = "collectionLiteral"
  PROVE  VisitCareful(c)
<1>1. Visit(c) = visitCollectionLiteral(c)
  BY DEF Visit
<1> QED
  BY <1>1, BareNodes, BuildsNew, KidsSeq, KeepsAll, BuildsConcat, CarefulBlock
  DEF visitCollectionLiteral, Result

\* A leaf.
LEMMA visitThisLiteral_Careful ==
  ASSUME TreeDone, NEW c \in DOMAIN tree, tree[c].sym = "thisLiteral"
  PROVE  VisitCareful(c)
<1>1. Visit(c) = visitThisLiteral(c)
  BY DEF Visit
<1> QED
  BY <1>1, BareNodes, BuildsNew, CarefulBlock
  DEF visitThisLiteral

\* One node with two or three members.
LEMMA visitIfExpression_Careful ==
  ASSUME TreeDone, NEW c \in DOMAIN tree, tree[c].sym = "ifExpression"
  PROVE  VisitCareful(c)
<1>1. Visit(c) = visitIfExpression(c)
  BY DEF Visit
<1> QED
  BY <1>1, BareNodes, BuildsNew, GettersFill, KeepsOne, KeepsIf, BuildsConcat, CarefulBlock
  DEF visitIfExpression, Result

\* A value or a label is stored where it is there.
LEMMA visitJumpExpression_Careful ==
  ASSUME TreeDone, NEW c \in DOMAIN tree, tree[c].sym = "jumpExpression"
  PROVE  VisitCareful(c)
<1>1. Visit(c) = visitJumpExpression(c)
  BY DEF Visit
<1> QED
  BY <1>1, BareNodes, BuildsNew, GetFills, GettersFill, KeepsOne, KeepsIf, BuildsConcat,
     CarefulBlock
  DEF visitJumpExpression, Result

\* A leaf.
LEMMA visitLabel_Careful ==
  ASSUME TreeDone, NEW c \in DOMAIN tree, tree[c].sym = "label"
  PROVE  VisitCareful(c)
<1>1. Visit(c) = visitLabel(c)
  BY DEF Visit
<1> QED
  BY <1>1, BareNodes, BuildsNew, CarefulBlock
  DEF visitLabel

\* The node of the type is handed on.
LEMMA visitParenType_Careful ==
  ASSUME TreeDone, NEW c \in DOMAIN tree, tree[c].sym = "parenType"
  PROVE  VisitCareful(c)
<1>1. Visit(c) = visitParenType(c)
  BY DEF Visit
<1> QED
  BY <1>1, CarefulForward
  DEF visitParenType

\* The node of the disjunction is handed on.
LEMMA visitExpression_Careful ==
  ASSUME TreeDone, NEW c \in DOMAIN tree, tree[c].sym = "expression"
  PROVE  VisitCareful(c)
<1>1. Visit(c) = visitExpression(c)
  BY DEF Visit
<1> QED
  BY <1>1, CarefulForward
  DEF visitExpression

\* The node of the expression is handed on.
LEMMA visitParenExpr_Careful ==
  ASSUME TreeDone, NEW c \in DOMAIN tree, tree[c].sym = "parenExpr"
  PROVE  VisitCareful(c)
<1>1. Visit(c) = visitParenExpr(c)
  BY DEF Visit
<1> QED
  BY <1>1, CarefulForward
  DEF visitParenExpr

\* The node of one of four rules is handed on.
LEMMA visitStatement_Careful ==
  ASSUME TreeDone, NEW c \in DOMAIN tree, tree[c].sym = "statement"
  PROVE  VisitCareful(c)
<1>1. Visit(c) = visitStatement(c)
  BY DEF Visit
<1> QED
  BY <1>1, CarefulForward
  DEF visitStatement

\* The node of one of six rules is handed on.
LEMMA visitControlStatement_Careful ==
  ASSUME TreeDone, NEW c \in DOMAIN tree, tree[c].sym = "controlStatement"
  PROVE  VisitCareful(c)
<1>1. Visit(c) = visitControlStatement(c)
  BY DEF Visit
<1> QED
  BY <1>1, CarefulForward
  DEF visitControlStatement

\* A leaf, or the node of one of six rules is handed on.
LEMMA visitPrimaryExpr_Careful ==
  ASSUME TreeDone, NEW c \in DOMAIN tree, tree[c].sym = "primaryExpr"
  PROVE  VisitCareful(c)
<1>1. Visit(c) = visitPrimaryExpr(c)
  BY DEF Visit
<1> QED
  BY <1>1, BareNodes, BuildsNew, CarefulForward, CarefulBlock
  DEF visitPrimaryExpr

\* The node of one of three rules is handed on, with its visibility set.
LEMMA visitDeclaration_Careful ==
  ASSUME TreeDone, NEW c \in DOMAIN tree, tree[c].sym = "declaration"
  PROVE  VisitCareful(c)
<1> DEFINE first == << getDecl(available(c, << "functionDecl", "variableDecl", "classDecl" >>),
                               Result) >>
           mod == The(c, "visibilityModifier")
           last == If(mod # Null, << SetVis(getVisibility(mod)) >>)
<1>1. Visit(c) = Visitor("Declaration", first \o last)
  BY DEF Visit, visitDeclaration
<1>2. Takes(first)
  BY GettersTake
<1>3. Flow(last, "passes", "passes")
  BY Moving, FlowOne, FlowEmpty DEF If, States, Done
<1> HIDE DEF first, last
<1>4. Takes(first \o last)
  BY <1>2, <1>3, FlowConcat DEF Takes
<1> QED
  BY <1>1, <1>4, CarefulBlock

\* The parameter is made beside the clause and attached to it.
LEMMA visitCatchClause_Careful ==
  ASSUME TreeDone, NEW c \in DOMAIN tree, tree[c].sym = "catchClause"
  PROVE  VisitCareful(c)
<1>1. Visit(c) = visitCatchClause(c)
  BY DEF Visit
<1>2. PICK new, sub, type, attach, body :
        /\ new = New(Node("CatchClause", c, c))
        /\ sub = Sub(Named(Node("Parameter", c, c), c))
        /\ type = getType(The(c, "type"), "Type") /\ attach = Attach("Param")
        /\ body = getBlock(The(c, "block"), "Body")
  OBVIOUS
<1>3. /\ Moves(new, "empty", "holds") /\ Moves(sub, "holds", "beside")
      /\ Moves(attach, "beside", "holds")
  BY <1>2, BareNodes, Moving
<1>4. Fills(type) /\ Fills(body)
  BY <1>2, GettersFill DEF Result
<1>5. Builds(<< new, sub, type, attach, body >>)
  BY <1>3, <1>4, FlowFive DEF Builds, Fills, States
<1> QED
  BY <1>1, <1>2, <1>5, CarefulBlock DEF visitCatchClause

\* The operand is handed on, or wrapped once.
LEMMA visitAsExpr_Careful ==
  ASSUME TreeDone, NEW c \in DOMAIN tree, tree[c].sym = "asExpr"
  PROVE  VisitCareful(c)
<1> DEFINE first == << getExpr(The(c, "prefixUnaryExpr"), Result) >>
           op == The(c, "asOperator")
           wrap == << Wrap(Flagged(Node("AsExpr", c, c), "NullSafe", Has(op, "QUEST")), "Operand"),
                      getType(The(c, "type"), "TargetType") >>
           last == If(op # Null, wrap)
<1>1. Visit(c) = Visitor("Expr", first \o last)
  BY DEF Visit, visitAsExpr
<1>2. Takes(first)
  BY GettersTake
<1>3. Wraps(wrap)
  BY BareNodes, WrapsNew, GettersFill DEF Result
<1>4. Flow(last, "passes", "passes") \/ Flow(last, "passes", "holds")
  BY <1>3, FlowEmpty DEF If, States, Wraps
<1> HIDE DEF first, last
<1>5. Takes(first \o last) \/ Builds(first \o last)
  BY <1>2, <1>4, FlowConcat DEF Takes, Builds
<1> QED
  BY <1>1, <1>5, CarefulBlock

\* One turn of foldLeftAssoc wraps the result so far.
LEMMA FoldWraps ==
  ASSUME NEW c, NEW sub, NEW i, NEW op, NEW pre, Keeps(pre)
  PROVE  Wraps(Fold(c, sub, i, op, pre))
  BY BareNodes, WrapsNew, GettersFill, KeepsOne, WrapsConcat DEF Fold, Result

\* All turns of foldLeftAssoc.
LEMMA FoldsCareful ==
  ASSUME TreeDone, NEW c \in DOMAIN tree, NEW sub, NEW steps,
         steps = [i \in 1..(Len(Kids(c, sub)) - 1) |-> steps[i]],
         \A i \in 1..(Len(Kids(c, sub)) - 1) :
            \E pre, op : Keeps(pre) /\ steps[i] = Fold(c, sub, i, op, pre),
         Visit(c) = Loop("Expr", << << getExpr(The(c, sub), Result) >> >> \o steps)
  PROVE  VisitCareful(c)
<1>1. Len(Kids(c, sub)) - 1 \in Int
  BY KidsSeq
<1>2. IsSeq(steps) /\ DOMAIN steps = 1..(Len(Kids(c, sub)) - 1)
  BY <1>1, FunSeq
<1>3. \A k \in DOMAIN steps : Wraps(steps[k])
  BY <1>2, FoldWraps
<1> QED
  BY <1>2, <1>3, GettersTake, CarefulLoop

\* The operands are folded from the left.
LEMMA visitDisjunction_Careful ==
  ASSUME TreeDone, NEW c \in DOMAIN tree, tree[c].sym = "disjunction"
  PROVE  VisitCareful(c)
<1> DEFINE n == Len(Kids(c, "conjunction")) - 1
           op(i) == "Disj"
           steps == [i \in 1..n |-> Fold(c, "conjunction", i, op(i), Silent(i))]
<1>1. Visit(c) = Loop("Expr", << << getExpr(The(c, "conjunction"), Result) >> >> \o steps)
  BY DEF Visit, visitDisjunction, foldLeftAssoc
<1>2. \A i \in 1..n : \E pre, o : Keeps(pre) /\ steps[i] = Fold(c, "conjunction", i, o, pre)
  BY KeepsEmpty DEF Silent
<1>3. steps = [i \in 1..n |-> steps[i]]
  OBVIOUS
<1> HIDE DEF steps
<1> QED
  BY <1>1, <1>2, <1>3, FoldsCareful

\* The operands are folded from the left.
LEMMA visitConjunction_Careful ==
  ASSUME TreeDone, NEW c \in DOMAIN tree, tree[c].sym = "conjunction"
  PROVE  VisitCareful(c)
<1> DEFINE n == Len(Kids(c, "equality")) - 1
           op(i) == "Conj"
           steps == [i \in 1..n |-> Fold(c, "equality", i, op(i), Silent(i))]
<1>1. Visit(c) = Loop("Expr", << << getExpr(The(c, "equality"), Result) >> >> \o steps)
  BY DEF Visit, visitConjunction, foldLeftAssoc
<1>2. \A i \in 1..n : \E pre, o : Keeps(pre) /\ steps[i] = Fold(c, "equality", i, o, pre)
  BY KeepsEmpty DEF Silent
<1>3. steps = [i \in 1..n |-> steps[i]]
  OBVIOUS
<1> HIDE DEF steps
<1> QED
  BY <1>1, <1>2, <1>3, FoldsCareful

\* The operands are folded from the left.
LEMMA visitEquality_Careful ==
  ASSUME TreeDone, NEW c \in DOMAIN tree, tree[c].sym = "equality"
  PROVE  VisitCareful(c)
<1> DEFINE n == Len(Kids(c, "comparison")) - 1
           op(i) == getBinaryOp(Nth(c, "equalityOperator", i))
           steps == [i \in 1..n |-> Fold(c, "comparison", i, op(i), Silent(i))]
<1>1. Visit(c) = Loop("Expr", << << getExpr(The(c, "comparison"), Result) >> >> \o steps)
  BY DEF Visit, visitEquality, foldLeftAssoc
<1>2. \A i \in 1..n : \E pre, o : Keeps(pre) /\ steps[i] = Fold(c, "comparison", i, o, pre)
  BY KeepsEmpty DEF Silent
<1>3. steps = [i \in 1..n |-> steps[i]]
  OBVIOUS
<1> HIDE DEF steps
<1> QED
  BY <1>1, <1>2, <1>3, FoldsCareful

\* The operands are folded from the left.
LEMMA visitElvisExpr_Careful ==
  ASSUME TreeDone, NEW c \in DOMAIN tree, tree[c].sym = "elvisExpr"
  PROVE  VisitCareful(c)
<1> DEFINE n == Len(Kids(c, "bitwiseOr")) - 1
           op(i) == "Elvis"
           steps == [i \in 1..n |-> Fold(c, "bitwiseOr", i, op(i), Silent(i))]
<1>1. Visit(c) = Loop("Expr", << << getExpr(The(c, "bitwiseOr"), Result) >> >> \o steps)
  BY DEF Visit, visitElvisExpr, foldLeftAssoc
<1>2. \A i \in 1..n : \E pre, o : Keeps(pre) /\ steps[i] = Fold(c, "bitwiseOr", i, o, pre)
  BY KeepsEmpty DEF Silent
<1>3. steps = [i \in 1..n |-> steps[i]]
  OBVIOUS
<1> HIDE DEF steps
<1> QED
  BY <1>1, <1>2, <1>3, FoldsCareful

\* The operands are folded from the left.
LEMMA visitBitwiseOr_Careful ==
  ASSUME TreeDone, NEW c \in DOMAIN tree, tree[c].sym = "bitwiseOr"
  PROVE  VisitCareful(c)
<1> DEFINE n == Len(Kids(c, "bitwiseXor")) - 1
           op(i) == "BitOr"
           steps == [i \in 1..n |-> Fold(c, "bitwiseXor", i, op(i), Silent(i))]
<1>1. Visit(c) = Loop("Expr", << << getExpr(The(c, "bitwiseXor"), Result) >> >> \o steps)
  BY DEF Visit, visitBitwiseOr, foldLeftAssoc
<1>2. \A i \in 1..n : \E pre, o : Keeps(pre) /\ steps[i] = Fold(c, "bitwiseXor", i, o, pre)
  BY KeepsEmpty DEF Silent
<1>3. steps = [i \in 1..n |-> steps[i]]
  OBVIOUS
<1> HIDE DEF steps
<1> QED
  BY <1>1, <1>2, <1>3, FoldsCareful

\* The operands are folded from the left.
LEMMA visitBitwiseXor_Careful ==
  ASSUME TreeDone, NEW c \in DOMAIN tree, tree[c].sym = "bitwiseXor"
  PROVE  VisitCareful(c)
<1> DEFINE n == Len(Kids(c, "bitwiseAnd")) - 1
           op(i) == "BitXor"
           steps == [i \in 1..n |-> Fold(c, "bitwiseAnd", i, op(i), Silent(i))]
<1>1. Visit(c) = Loop("Expr", << << getExpr(The(c, "bitwiseAnd"), Result) >> >> \o steps)
  BY DEF Visit, visitBitwiseXor, foldLeftAssoc
<1>2. \A i \in 1..n : \E pre, o : Keeps(pre) /\ steps[i] = Fold(c, "bitwiseAnd", i, o, pre)
  BY KeepsEmpty DEF Silent
<1>3. steps = [i \in 1..n |-> steps[i]]
  OBVIOUS
<1> HIDE DEF steps
<1> QED
  BY <1>1, <1>2, <1>3, FoldsCareful

\* The operands are folded from the left.
LEMMA visitBitwiseAnd_Careful ==
  ASSUME TreeDone, NEW c \in DOMAIN tree, tree[c].sym = "bitwiseAnd"
  PROVE  VisitCareful(c)
<1> DEFINE n == Len(Kids(c, "bitwiseShift")) - 1
           op(i) == "BitAnd"
           steps == [i \in 1..n |-> Fold(c, "bitwiseShift", i, op(i), Silent(i))]
<1>1. Visit(c) = Loop("Expr", << << getExpr(The(c, "bitwiseShift"), Result) >> >> \o steps)
  BY DEF Visit, visitBitwiseAnd, foldLeftAssoc
<1>2. \A i \in 1..n : \E pre, o : Keeps(pre) /\ steps[i] = Fold(c, "bitwiseShift", i, o, pre)
  BY KeepsEmpty DEF Silent
<1>3. steps = [i \in 1..n |-> steps[i]]
  OBVIOUS
<1> HIDE DEF steps
<1> QED
  BY <1>1, <1>2, <1>3, FoldsCareful

\* The operands are folded from the left.
LEMMA visitAddition_Careful ==
  ASSUME TreeDone, NEW c \in DOMAIN tree, tree[c].sym = "addition"
  PROVE  VisitCareful(c)
<1> DEFINE n == Len(Kids(c, "multiplication")) - 1
           op(i) == getBinaryOp(Nth(c, "additionOperator", i))
           steps == [i \in 1..n |-> Fold(c, "multiplication", i, op(i), Silent(i))]
<1>1. Visit(c) = Loop("Expr", << << getExpr(The(c, "multiplication"), Result) >> >> \o steps)
  BY DEF Visit, visitAddition, foldLeftAssoc
<1>2. \A i \in 1..n : \E pre, o : Keeps(pre) /\ steps[i] = Fold(c, "multiplication", i, o, pre)
  BY KeepsEmpty DEF Silent
<1>3. steps = [i \in 1..n |-> steps[i]]
  OBVIOUS
<1> HIDE DEF steps
<1> QED
  BY <1>1, <1>2, <1>3, FoldsCareful

\* The operands are folded from the left.
LEMMA visitMultiplication_Careful ==
  ASSUME TreeDone, NEW c \in DOMAIN tree, tree[c].sym = "multiplication"
  PROVE  VisitCareful(c)
<1> DEFINE n == Len(Kids(c, "asExpr")) - 1
           op(i) == getBinaryOp(Nth(c, "multiplicationOperator", i))
           steps == [i \in 1..n |-> Fold(c, "asExpr", i, op(i), Silent(i))]
<1>1. Visit(c) = Loop("Expr", << << getExpr(The(c, "asExpr"), Result) >> >> \o steps)
  BY DEF Visit, visitMultiplication, foldLeftAssoc
<1>2. \A i \in 1..n : \E pre, o : Keeps(pre) /\ steps[i] = Fold(c, "asExpr", i, o, pre)
  BY KeepsEmpty DEF Silent
<1>3. steps = [i \in 1..n |-> steps[i]]
  OBVIOUS
<1> HIDE DEF steps
<1> QED
  BY <1>1, <1>2, <1>3, FoldsCareful

\* What is reported between two turns does not matter.
LEMMA visitBitwiseShift_Careful ==
  ASSUME TreeDone, NEW c \in DOMAIN tree, tree[c].sym = "bitwiseShift"
  PROVE  VisitCareful(c)
<1> DEFINE n == Len(Kids(c, "addition")) - 1
           ops == Kids(c, "bitwiseShiftOperator")
           apart(i) ==
             /\ ~ Has(ops[i], "LSHIFT")
             /\ tree[Nth(ops[i], "GT", 2)].start # tree[Nth(ops[i], "GT", 1)].stop + 1
           op(i) == IF Has(ops[i], "LSHIFT") THEN "LShift" ELSE "RShift"
           pre(i) == If(apart(i), << Error(Nth(ops[i], "GT", 1), Nth(ops[i], "GT", 2),
                       "right shift requires two adjacent '>' tokens") >>)
           steps == [i \in 1..n |-> Fold(c, "addition", i, op(i), pre(i))]
<1>1. Visit(c) = Loop("Expr", << << getExpr(The(c, "addition"), Result) >> >> \o steps)
  BY DEF Visit, visitBitwiseShift, foldLeftAssoc
<1>2. \A i : Keeps(pre(i))
  BY KeepsReport, KeepsIf
<1>3. \A i \in 1..n : steps[i] = Fold(c, "addition", i, op(i), pre(i))
  OBVIOUS
<1>4. steps = [i \in 1..n |-> steps[i]]
  OBVIOUS
<1> HIDE DEF steps, pre, op
<1>5. \A i \in 1..n : \E p, o : Keeps(p) /\ steps[i] = Fold(c, "addition", i, o, p)
  BY <1>2, <1>3
<1> QED
  BY <1>1, <1>4, <1>5, FoldsCareful

\* The type arguments a child lists.
LEMMA TypeArgsKeep ==
  ASSUME TreeDone, NEW c \in DOMAIN tree
  PROVE  Keeps(TypeArgs(c))
<1> DEFINE args == The(c, "typeArguments")
           list == The(args, "typeArgument")
<1>1. CASE Has(c, "typeArguments") /\ Has(args, "typeArgument")
  <2>1. args \in DOMAIN tree
    BY <1>1, TheOK DEF Has
  <2>2. list \in DOMAIN tree
    BY <1>1, <2>1, TheOK DEF Has
  <2> HIDE DEF list
  <2>3. Keeps(GetAll("Type", Kids(list, "type"), "TypeArgs"))
    BY <2>2, KidsSeq, KeepsAll DEF Result
  <2> QED
    BY <2>3, KeepsIf DEF TypeArgs, list
<1>2. CASE ~ (Has(c, "typeArguments") /\ Has(args, "typeArgument"))
  BY <1>2, KeepsIf DEF TypeArgs
<1> QED
  BY <1>1, <1>2

\* The arguments of a call.
LEMMA ArgumentsKeep ==
  ASSUME TreeDone, NEW c \in DOMAIN tree
  PROVE  Keeps(Arguments(c))
<1> DEFINE list == The(c, "valueArguments")
           args == Kids(list, "valueArgument")
           code == [i \in DOMAIN args |-> getExpr(The(args[i], "expression"), "Arguments")]
<1>1. CASE Has(c, "valueArguments")
  <2>1. list \in DOMAIN tree
    BY <1>1, TheOK DEF Has
  <2> HIDE DEF list
  <2>2. Len(args) \in Nat /\ DOMAIN args = 1..Len(args)
    BY <2>1, KidsSeq
  <2> HIDE DEF args
  <2>3. \A i \in DOMAIN code : Fills(code[i])
    BY GettersFill DEF Result
  <2>4. IsSeq(code)
    BY <2>2, FunSeq
  <2> HIDE DEF code
  <2>5. Keeps(code)
    BY <2>3, <2>4, FlowStays DEF Keeps, Fills, States
  <2> QED
    BY <2>5, KeepsIf DEF Arguments, args, list, code
<1>2. CASE ~ Has(c, "valueArguments")
  BY <1>2, KeepsIf DEF Arguments
<1> QED
  BY <1>1, <1>2

\* The type arguments are stored in the reference.
LEMMA visitTypeRef_Careful ==
  ASSUME TreeDone, NEW c \in DOMAIN tree, tree[c].sym = "typeRef"
  PROVE  VisitCareful(c)
  BY TypeArgsKeep, BareNodes, BuildsNew, BuildsConcat, CarefulBlock DEF Visit, visitTypeRef

\* The return type is stored before the parameters.
LEMMA visitFunctionType_Careful ==
  ASSUME TreeDone, NEW c \in DOMAIN tree, tree[c].sym = "functionType"
  PROVE  VisitCareful(c)
<1> DEFINE list == The(c, "paramTypeList")
           first == << New(Node("FunctionType", c, c)), getType(The(c, "type"), "ReturnType") >>
           last == If(list # Null, GetAll("Type", Kids(list, "type"), "Parameters"))
<1>1. Keeps(last)
  BY TheOK, KidsSeq, KeepsAll, KeepsIf DEF Result
<1>2. Builds(first)
  BY BareNodes, GettersFill, BuildsNew DEF Result
<1>3. Visit(c) = Visitor("Type", first \o last)
  BY DEF Visit, visitFunctionType
<1> HIDE DEF first, last
<1> QED
  BY <1>1, <1>2, <1>3, BuildsConcat, CarefulBlock

\* The initializers, the condition and the update are stored where they are there.
LEMMA visitForStmt_Careful ==
  ASSUME TreeDone, NEW c \in DOMAIN tree, tree[c].sym = "forStmt"
  PROVE  VisitCareful(c)
<1> DEFINE decls == The(c, "variableDecls")
           inits == If(decls # Null,
                       GetAll("Declaration", Kids(decls, "variableDecl"), "InitStmts"))
           condition == If(Has(c, "expression"), << getExpr(The(c, "expression"), "Condition") >>)
           update == If(Has(c, "forUpdate"), << getStmt(The(c, "forUpdate"), "Update") >>)
           body == << getBlock(The(c, "block"), "Body") >>
           first == << New(Node("ForStmt", c, c)) >>
<1>1. Keeps(inits)
  BY TheOK, KidsSeq, KeepsAll, KeepsIf DEF Result
<1>2. Keeps(condition) /\ Keeps(update) /\ Keeps(body)
  BY GettersFill, KeepsOne, KeepsIf DEF Result
<1>3. Builds(first)
  BY BareNodes, BuildsNew
<1>4. Visit(c) = Visitor("Statement", first \o inits \o condition \o update \o body)
  BY DEF Visit, visitForStmt
<1> HIDE DEF first, inits, condition, update, body
<1>5. Builds(first \o inits \o condition)
  BY <1>1, <1>2, <1>3, BuildsConcat
<1>6. Builds(first \o inits \o condition \o update \o body)
  BY <1>2, <1>5, BuildsConcat
<1> QED
  BY <1>4, <1>6, CarefulBlock

\* Turns of a loop and a last block.
LEMMA LastBlock ==
  ASSUME NEW first, NEW steps, NEW last, NEW blocks, IsSeq(steps),
         blocks = steps \o << last >>, Keeps(last), \A k \in DOMAIN steps : Keeps(steps[k])
  PROVE  << first >> \o steps \o << last >> = << first >> \o blocks /\ IsSeq(blocks) /\
         \A k \in DOMAIN blocks : Keeps(blocks[k])
<1> DEFINE S == {steps[i] : i \in DOMAIN steps} \cup {first, last}
<1>1. steps \in Seq(S) /\ << first >> \in Seq(S) /\ << last >> \in Seq(S)
  <2>1. steps \in Seq({steps[i] : i \in DOMAIN steps})
    BY DEF IsSeq
  <2>2. steps \in Seq(S)
    BY <2>1
  <2> QED
    BY <2>2
<1>2. /\ Len(blocks) = Len(steps) + 1 /\ blocks \in Seq(S) /\ Len(steps) \in Nat
      /\ DOMAIN steps = 1..Len(steps) /\ DOMAIN blocks = 1..(Len(steps) + 1)
      /\ \A i \in 1..Len(steps) : blocks[i] = steps[i]
      /\ blocks[Len(steps) + 1] = last
  BY <1>1
<1>3. << first >> \o steps \o << last >> = << first >> \o blocks
  BY <1>1
<1>4. \A k \in DOMAIN blocks : Keeps(blocks[k])
  BY <1>2
<1>5. IsSeq(blocks)
  BY <1>2, SeqFacts DEF IsSeq
<1> QED
  BY <1>3, <1>4, <1>5

\* The type parameters are made beside the class and attached one by one.
LEMMA visitClassDecl_Careful ==
  ASSUME TreeDone, NEW c \in DOMAIN tree, tree[c].sym = "classDecl"
  PROVE  VisitCareful(c)
<1> DEFINE params == The(c, "typeParameters")
           body == The(c, "classBody")
           default(p) == If(Has(p, "type"), << getType(The(p, "type"), "DefaultType") >>)
           typeParam(p) == << Sub(Named(Node("TypeParam", p, p), p)) >> \o default(p) \o
                           << Attach("TypeParams") >>
           list == IF params # Null THEN Kids(params, "typeParameter") ELSE << >>
           steps == [i \in DOMAIN list |-> typeParam(list[i])]
           last == If(body # Null, GetAll("Declaration", Kids(body, "declaration"), "Members"))
           first == << New(Named(Node("ClassDecl", c, c), c)) >>
<1>1. Visit(c) = Loop("Declaration", << first >> \o steps \o << last >>)
  BY DEF Visit, visitClassDecl
<1>2. Keeps(last)
  BY TheOK, KidsSeq, KeepsAll, KeepsIf DEF Result
<1>3. Builds(first)
  BY BareNodes, BuildsNew
<1>4. \A p : Keeps(typeParam(p))
  <2> TAKE p
  <2>1. Flow(<< Sub(Named(Node("TypeParam", p, p), p)) >>, "holds", "beside")
    BY BareNodes, Moving, FlowOne DEF States
  <2>2. Flow(default(p), "beside", "beside")
    <3>1. Flow(<< getType(The(p, "type"), "DefaultType") >>, "beside", "beside")
      BY GettersFill, FlowOne DEF Fills, States, Result
    <3>2. Flow(<< >>, "beside", "beside")
      BY FlowEmpty DEF States
    <3> QED
      BY <3>1, <3>2 DEF If
  <2>3. Flow(<< Attach("TypeParams") >>, "beside", "holds")
    BY Moving, FlowOne DEF States
  <2> HIDE DEF default
  <2>4. Flow(<< Sub(Named(Node("TypeParam", p, p), p)) >> \o default(p), "holds", "beside")
    BY <2>1, <2>2, FlowConcat
  <2> QED
    BY <2>3, <2>4, FlowConcat DEF Keeps
<1>5. IsSeq(list) /\ Len(list) \in Nat /\ DOMAIN list = 1..Len(list)
  <2>1. CASE params # Null
    BY <2>1, TheOK, KidsSeq
  <2>2. CASE params = Null
    BY <2>2 DEF IsSeq
  <2> QED
    BY <2>1, <2>2
<1> HIDE DEF first, last, typeParam, list
<1>6. IsSeq(steps) /\ DOMAIN steps = 1..Len(list) /\ \A k \in DOMAIN steps : Keeps(steps[k])
  <2>1. steps = [i \in 1..Len(list) |-> steps[i]]
    BY <1>5
  <2>2. IsSeq(steps) /\ DOMAIN steps = 1..Len(list)
    BY <1>5, <2>1, FunSeq
  <2> QED
    BY <1>4, <1>5, <2>2
<1> HIDE DEF steps
<1>7. PICK blocks : blocks = steps \o << last >>
  OBVIOUS
<1>8. << first >> \o steps \o << last >> = << first >> \o blocks /\ IsSeq(blocks) /\
      \A k \in DOMAIN blocks : Keeps(blocks[k])
  BY <1>2, <1>6, <1>7, LastBlock, ZenonT(40)
<1> QED
  BY <1>1, <1>3, <1>8, CarefulLoop

\* Every size wraps the type so far in an array.
LEMMA visitType_Careful ==
  ASSUME TreeDone, NEW c \in DOMAIN tree, tree[c].sym = "type"
  PROVE  VisitCareful(c)
<1> DEFINE sizes == Kids(c, "expression")
           first == << getType(available(c, << "parenType", "typeRef", "builtinType" >>), Result) >>
           steps == [i \in DOMAIN sizes |->
                      << Wrap(Node("ArrayType", c, Nth(c, "RBRACKET", i)), "ElementType"),
                         getExpr(sizes[i], "Size") >>]
<1>1. CASE Has(c, "functionType")
  BY <1>1, CarefulForward DEF Visit, visitType
<1>2. CASE ~ Has(c, "functionType")
  <2>1. Visit(c) = Loop("Type", << first >> \o steps)
    BY <1>2 DEF Visit, visitType
  <2>2. Takes(first)
    BY GettersTake
  <2>3. \A k \in DOMAIN steps : Wraps(steps[k])
    BY BareNodes, WrapsNew, GettersFill DEF Result
  <2>4. Len(sizes) \in Nat /\ DOMAIN sizes = 1..Len(sizes)
    BY KidsSeq
  <2>5. steps = [i \in 1..Len(sizes) |-> steps[i]]
    BY <2>4
  <2> HIDE DEF first, steps, sizes
  <2>6. IsSeq(steps)
    BY <2>4, <2>5, FunSeq
  <2> QED
    BY <2>1, <2>2, <2>3, <2>6, CarefulLoop
<1> QED
  BY <1>1, <1>2

\* A call without arguments, a chain, or operands folded from the left.
LEMMA visitComparison_Careful ==
  ASSUME TreeDone, NEW c \in DOMAIN tree, tree[c].sym = "comparison"
  PROVE  VisitCareful(c)
<1> DEFINE kids == Kids(c, "comparisonOperator")
           ops == [i \in DOMAIN kids |-> getBinaryOp(kids[i])]
<1>1. CASE Has(c, "typeArguments")
  <2> DEFINE message == Error(The(c, "GT"), The(c, "GT"), "expected '(' after type argument list")
             new == New(Flagged(Node("CallExpr", c, c), "ExplicitTypeArgs", TRUE))
             callee == getExpr(Nth(c, "infixExpr", 1), "Callee")
  <2>1. Visit(c) = Visitor("Expr", << message, new, callee >> \o TypeArgs(c) \o Arguments(c))
    BY <1>1 DEF Visit, visitComparison, DanglingCall
  <2>2. Moves(message, "empty", "empty") /\ Moves(new, "empty", "holds") /\
        Moves(callee, "holds", "holds")
    BY Moving, BareNodes, GettersFill DEF Fills, Result
  <2> HIDE DEF message, new, callee
  <2>3. Builds(<< message, new, callee >>)
    BY <2>2, FlowThree DEF Builds, States
  <2>4. Builds(<< message, new, callee >> \o TypeArgs(c))
    BY <2>3, TypeArgsKeep, BuildsConcat
  <2>5. Builds(<< message, new, callee >> \o TypeArgs(c) \o Arguments(c))
    BY <2>4, ArgumentsKeep, BuildsConcat
  <2> QED
    BY <2>1, <2>5, CarefulBlock
<1>2. CASE ~ Has(c, "typeArguments") /\ Len(ops) < 2
  <2> DEFINE n == Len(Kids(c, "infixExpr")) - 1
             op(i) == ops[i]
             steps == [i \in 1..n |-> Fold(c, "infixExpr", i, op(i), Silent(i))]
  <2>1. Visit(c) = Loop("Expr", << << getExpr(The(c, "infixExpr"), Result) >> >> \o steps)
    BY <1>2 DEF Visit, visitComparison, foldLeftAssoc
  <2>2. \A i \in 1..n : \E pre, o : Keeps(pre) /\ steps[i] = Fold(c, "infixExpr", i, o, pre)
    BY KeepsEmpty DEF Silent
  <2>3. steps = [i \in 1..n |-> steps[i]]
    OBVIOUS
  <2> HIDE DEF steps
  <2> QED
    BY <2>1, <2>2, <2>3, FoldsCareful
<1>3. CASE ~ Has(c, "typeArguments") /\ ~ (Len(ops) < 2)
  <2> DEFINE first == << New([Node("ComparisonChainExpr", c, c) EXCEPT !.ops = ops]) >>
             operands == GetAll("Expr", Kids(c, "infixExpr"), "Operands")
             mixed == \E i \in DOMAIN ops : Ascending(ops[i]) # Ascending(ops[1])
             last == If(mixed, << Error(c, c, "comparison chain with mixed operators") >>)
  <2>1. Visit(c) = Visitor("Expr", first \o operands \o last)
    BY <1>3 DEF Visit, visitComparison, ComparisonChain
  <2>2. Builds(first)
    BY BareNodes, BuildsNew
  <2>3. Keeps(operands)
    BY KidsSeq, KeepsAll DEF Result
  <2>4. Keeps(last)
    BY KeepsReport, KeepsIf
  <2> HIDE DEF first, operands, last
  <2>5. Builds(first \o operands)
    BY <2>2, <2>3, BuildsConcat
  <2>6. Builds(first \o operands \o last)
    BY <2>4, <2>5, BuildsConcat
  <2> QED
    BY <2>1, <2>6, CarefulBlock
<1> QED
  BY <1>1, <1>2, <1>3

\* Both kinds of operator wrap the result so far.
LEMMA visitInfixExpr_Careful ==
  ASSUME TreeDone, NEW c \in DOMAIN tree, tree[c].sym = "infixExpr"
  PROVE  VisitCareful(c)
<1> DEFINE first == The(c, "elvisExpr")
           OpsIn(list) == {list[i] : i \in DOMAIN list}
           ins == OpsIn(Kids(c, "inOperator"))
           ops == ins \cup OpsIn(Kids(c, "isOperator"))
           upTo(o, S) == Cardinality({p \in S : tree[p].start <= tree[o].start})
           op(i) == CHOOSE o \in ops : upTo(o, ops) = i
           j(i) == upTo(op(i), ins)
           in(i) == << Wrap(WithOp(Node("BinaryExpr", first, Nth(c, "elvisExpr", j(i) + 1)), "In"),
                            "LHS"),
                       getExpr(Nth(c, "elvisExpr", j(i) + 1), "RHS") >>
           is(i) == << Wrap(Node("IsExpr", first, Nth(c, "type", i - j(i))), "Operand"),
                       getType(Nth(c, "type", i - j(i)), "CheckType") >>
           step(i) == IF op(i) \in ins THEN in(i) ELSE is(i)
           n == Len(Kids(c, "inOperator")) + Len(Kids(c, "isOperator"))
           steps == [i \in 1..n |-> step(i)]
<1>1. Visit(c) = Loop("Expr", << << getExpr(first, Result) >> >> \o steps)
  BY DEF Visit, visitInfixExpr
<1>2. \A i : Wraps(in(i)) /\ Wraps(is(i))
  BY BareNodes, WrapsNew, GettersFill DEF Result
<1> HIDE DEF in, is
<1>3. \A i : Wraps(step(i))
  BY <1>2
<1>4. n \in Nat
  BY KidsSeq
<1> HIDE DEF step
<1>5. \A i \in 1..n : steps[i] = step(i)
  OBVIOUS
<1>6. steps = [i \in 1..n |-> steps[i]]
  OBVIOUS
<1> HIDE DEF steps
<1>7. IsSeq(steps) /\ DOMAIN steps = 1..n
  BY <1>4, <1>6, FunSeq
<1>8. \A k \in DOMAIN steps : Wraps(steps[k])
  BY <1>3, <1>5, <1>7
<1>9. Takes(<< getExpr(first, Result) >>)
  BY GettersTake
<1> QED
  BY <1>1, <1>7, <1>8, <1>9, CarefulLoop

\* Every prefix wraps the result so far.
LEMMA visitPrefixUnaryExpr_Careful ==
  ASSUME TreeDone, NEW c \in DOMAIN tree, tree[c].sym = "prefixUnaryExpr"
  PROVE  VisitCareful(c)
<1> DEFINE prefixes == Kids(c, "unaryPrefix")
           n == Len(prefixes)
           p(i) == prefixes[n + 1 - i]
           unary(i) == << Wrap(WithOp(Node("UnaryExpr", p(i), The(c, "postfixUnaryExpr")),
                            getPrefixUnaryOp(The(p(i), "prefixUnaryOperator"))), "Operand") >>
           first == << getExpr(The(c, "postfixUnaryExpr"), Result) >>
           steps == [i \in 1..n |-> unary(i)]
<1>1. Visit(c) = Loop("Expr", << first >> \o steps)
  BY DEF Visit, visitPrefixUnaryExpr
<1>2. \A i : Wraps(unary(i))
  BY BareNodes, WrapsNew
<1>3. n \in Nat
  BY KidsSeq
<1>4. Takes(first)
  BY GettersTake
<1> HIDE DEF unary, n, first
<1>5. \A i \in 1..n : steps[i] = unary(i)
  OBVIOUS
<1>6. steps = [i \in 1..n |-> steps[i]]
  OBVIOUS
<1> HIDE DEF steps
<1>7. IsSeq(steps) /\ DOMAIN steps = 1..n
  BY <1>3, <1>6, FunSeq
<1>8. \A k \in DOMAIN steps : Wraps(steps[k])
  BY <1>2, <1>5, <1>7
<1> QED
  BY <1>1, <1>4, <1>7, <1>8, CarefulLoop

\* Every suffix wraps the result so far.
LEMMA SuffixWraps ==
  ASSUME TreeDone, NEW c, NEW post \in DOMAIN tree
  PROVE  Wraps(Suffix(c, post))
<1> DEFINE call == The(post, "callSuffix")
           index == The(post, "indexingSuffix")
           nav == The(post, "navigationSuffix")
<1>1. CASE call # Null
  <2> DEFINE wrap == << Wrap(Flagged(Node("CallExpr", c, post), "ExplicitTypeArgs",
                               Has(call, "typeArguments")), "Callee") >>
  <2>1. call \in DOMAIN tree
    BY <1>1, TheOK
  <2>2. Wraps(wrap)
    BY BareNodes, WrapsNew
  <2>3. Suffix(c, post) = wrap \o TypeArgs(call) \o Arguments(call)
    BY <1>1 DEF Suffix
  <2> HIDE DEF wrap, call
  <2>4. Wraps(wrap \o TypeArgs(call))
    BY <2>1, <2>2, TypeArgsKeep, WrapsConcat
  <2> QED
    BY <2>1, <2>3, <2>4, ArgumentsKeep, WrapsConcat
<1>2. CASE call = Null /\ index # Null
  BY <1>2, BareNodes, WrapsNew, GettersFill DEF Suffix, Result
<1>3. CASE call = Null /\ index = Null
  BY <1>3, BareNodes, WrapsNew DEF Suffix
<1> QED
  BY <1>1, <1>2, <1>3

\* The suffixes wrap the result so far one after the other.
LEMMA visitPostfixUnaryExpr_Careful ==
  ASSUME TreeDone, NEW c \in DOMAIN tree, tree[c].sym = "postfixUnaryExpr"
  PROVE  VisitCareful(c)
<1> DEFINE posts == Kids(c, "unaryPostfix")
           first == << getExpr(The(c, "primaryExpr"), Result) >>
           steps == [i \in DOMAIN posts |-> Suffix(c, posts[i])]
<1>1. Visit(c) = Loop("Expr", << first >> \o steps)
  BY DEF Visit, visitPostfixUnaryExpr
<1>2. /\ Len(posts) \in Nat /\ DOMAIN posts = 1..Len(posts)
      /\ \A i \in DOMAIN posts : posts[i] \in DOMAIN tree
  BY KidsOK, KidsSeq
<1>3. Takes(first)
  BY GettersTake
<1> HIDE DEF posts, first
<1>4. \A k \in DOMAIN steps : Wraps(steps[k])
  BY <1>2, SuffixWraps
<1>5. steps = [i \in 1..Len(posts) |-> steps[i]]
  BY <1>2
<1> HIDE DEF steps
<1>6. IsSeq(steps)
  BY <1>2, <1>5, FunSeq
<1> QED
  BY <1>1, <1>3, <1>4, <1>6, CarefulLoop

\* Every rule that answers with a node has a visitor that ends with one.
LEMMA AnyVisitCareful ==
  ASSUME TreeDone, NEW c \in DOMAIN tree, Answer(tree[c].sym) # "empty"
  PROVE  VisitCareful(c)
<1> DEFINE others == {"file", "topLevelObject", "parameter", "block", "catchClause", "label"}
           sym == tree[c].sym
<1>1. CASE sym \in DeclContexts
  BY <1>1, visitDeclaration_Careful, visitFunctionDecl_Careful, visitClassDecl_Careful,
     visitVariableDecl_Careful
  DEF DeclContexts
<1>2. CASE sym \in TypeContexts
  BY <1>2, visitType_Careful, visitParenType_Careful, visitTypeRef_Careful,
     visitFunctionType_Careful, visitBuiltinType_Careful
  DEF TypeContexts
<1>3. CASE sym \in StmtContexts
  BY <1>3, visitStatement_Careful, visitDeclStatement_Careful, visitAssignment_Careful,
     visitControlStatement_Careful, visitForStmt_Careful, visitForUpdate_Careful,
     visitForEachStmt_Careful, visitWhileStmt_Careful, visitDoWhileStmt_Careful,
     visitIfStmt_Careful, visitTryStatement_Careful, visitExprStmt_Careful
  DEF StmtContexts
<1>4. CASE sym \in ExprContexts
  BY <1>4, visitExpression_Careful, visitDisjunction_Careful, visitConjunction_Careful,
     visitEquality_Careful, visitComparison_Careful, visitInfixExpr_Careful,
     visitElvisExpr_Careful, visitBitwiseOr_Careful, visitBitwiseXor_Careful,
     visitBitwiseAnd_Careful, visitBitwiseShift_Careful, visitAddition_Careful,
     visitMultiplication_Careful, visitAsExpr_Careful, visitPrefixUnaryExpr_Careful,
     visitPostfixUnaryExpr_Careful, visitPrimaryExpr_Careful, visitParenExpr_Careful,
     visitLiteralConstant_Careful, visitCollectionLiteral_Careful, visitThisLiteral_Careful,
     visitIfExpression_Careful, visitJumpExpression_Careful
  DEF ExprContexts
<1>5. CASE sym \in others
  BY <1>5, visitFile_Careful, visitTopLevelObject_Careful, visitParameter_Careful,
     visitBlock_Careful, visitCatchClause_Careful, visitLabel_Careful
<1>6. CASE sym \notin DeclContexts \cup TypeContexts \cup StmtContexts \cup ExprContexts \cup others
  BY <1>6 DEF Answer, DeclContexts, TypeContexts, StmtContexts, ExprContexts
<1> QED
  BY <1>1, <1>2, <1>3, <1>4, <1>5, <1>6

-----------------------------------------------------------------------------
(* Forests.                                                                *)

\* A node without edges is a root of its own.
LEMMA ForestNew ==
  ASSUME NEW edges, NEW O, NEW held, Forest(edges, O, held), NEW n, n \notin O
  PROVE  Forest(edges, O \cup {n}, held \cup {n})
<1>1. ASSUME NEW S \in SUBSET (O \cup {n}), S # {}
      PROVE  \E m \in S : \A e \in edges : e[4] = m => e[1] \notin S
  <2>1. CASE n \in S
    BY <2>1 DEF Forest
  <2>2. CASE n \notin S
    <3>1. S \in SUBSET O
      BY <2>2
    <3> QED
      BY <1>1, <3>1 DEF Forest
  <2> QED
    BY <2>1, <2>2
<1> QED
  BY <1>1 DEF Forest

\* A root that is attached to another one.
LEMMA ForestAttach ==
  ASSUME NEW edges, NEW O, NEW held, Forest(edges, O, held),
         NEW p \in held, NEW n \in held, p # n, NEW x, x[1] = p, x[4] = n
  PROVE  Forest(edges \cup {x}, O, held \ {n})
<1>1. ASSUME NEW S \in SUBSET O, S # {}
      PROVE  \E m \in S : \A e \in edges \cup {x} : e[4] = m => e[1] \notin S
  <2>1. CASE p \in S
    BY <2>1 DEF Forest
  <2>2. CASE p \notin S
    BY <1>1, <2>2 DEF Forest
  <2> QED
    BY <2>1, <2>2
<1>2. \A e, f \in edges \cup {x} : e[4] = f[4] => e = f
  BY DEF Forest
<1>3. \A m \in O \ (held \ {n}) : \E e \in edges \cup {x} : e[4] = m
  BY DEF Forest
<1> QED
  BY <1>1, <1>2, <1>3 DEF Forest

-----------------------------------------------------------------------------
(* The edges of an arena.                                                  *)

EdgesOf(a) ==
  UNION {UNION {{<< p, s, i, a[p].slots[s][i] >> : i \in DOMAIN a[p].slots[s]} :
                s \in DOMAIN a[p].slots} : p \in DOMAIN a}

SlotsOK(a) ==
  \A n \in DOMAIN a : "slots" \in DOMAIN a[n] /\ \A s \in DOMAIN a[n].slots : IsSeq(a[n].slots[s])

\* An edge leads from a member of a node to what is stored there.
LEMMA EdgeFacts ==
  ASSUME NEW a
  PROVE  /\ \A p \in DOMAIN a : \A s \in DOMAIN a[p].slots : \A i \in DOMAIN a[p].slots[s] :
              << p, s, i, a[p].slots[s][i] >> \in EdgesOf(a)
         /\ \A e \in EdgesOf(a) :
              \E p \in DOMAIN a : \E s \in DOMAIN a[p].slots : \E i \in DOMAIN a[p].slots[s] :
                e = << p, s, i, a[p].slots[s][i] >>
         /\ \A e \in EdgesOf(a) : e[1] \in DOMAIN a
  BY DEF EdgesOf

LEMMA EdgeIn ==
  ASSUME NEW a, NEW p \in DOMAIN a, NEW s \in DOMAIN a[p].slots, NEW i \in DOMAIN a[p].slots[s],
         NEW e, e = << p, s, i, a[p].slots[s][i] >>
  PROVE  e \in EdgesOf(a)
  BY EdgeFacts

LEMMA EdgeOut ==
  ASSUME NEW a, NEW e \in EdgesOf(a)
  PROVE  \E p \in DOMAIN a : \E s \in DOMAIN a[p].slots : \E i \in DOMAIN a[p].slots[s] :
           e = << p, s, i, a[p].slots[s][i] >>
  BY EdgeFacts

\* Nodes that agree on their members agree on their edges.
LEMMA SameEdges ==
  ASSUME NEW a, NEW b, \A p \in DOMAIN b : p \in DOMAIN a => b[p].slots = a[p].slots,
         DOMAIN a \subseteq DOMAIN b, \A p \in DOMAIN b \ DOMAIN a : b[p].slots = << >>
  PROVE  EdgesOf(b) = EdgesOf(a)
<1>1. ASSUME NEW e \in EdgesOf(b) PROVE e \in EdgesOf(a)
  <2>1. PICK p \in DOMAIN b : \E s \in DOMAIN b[p].slots : \E i \in DOMAIN b[p].slots[s] :
          e = << p, s, i, b[p].slots[s][i] >>
    BY EdgeFacts
  <2>2. p \in DOMAIN a /\ b[p].slots = a[p].slots
    BY <2>1
  <2>3. \E s \in DOMAIN a[p].slots : \E i \in DOMAIN a[p].slots[s] :
          e = << p, s, i, a[p].slots[s][i] >>
    BY <2>1, <2>2
  <2> QED
    BY <2>2, <2>3, EdgeFacts
<1>2. ASSUME NEW e \in EdgesOf(a) PROVE e \in EdgesOf(b)
  <2>1. PICK p \in DOMAIN a : \E s \in DOMAIN a[p].slots : \E i \in DOMAIN a[p].slots[s] :
          e = << p, s, i, a[p].slots[s][i] >>
    BY EdgeFacts
  <2>2. p \in DOMAIN b /\ b[p].slots = a[p].slots
    BY <2>1
  <2>3. \E s \in DOMAIN b[p].slots : \E i \in DOMAIN b[p].slots[s] :
          e = << p, s, i, b[p].slots[s][i] >>
    BY <2>1, <2>2
  <2> QED
    BY <2>2, <2>3, EdgeFacts
<1> QED
  BY <1>1, <1>2

\* A new node that its constructor left without children adds no edge.
LEMMA AddBare ==
  ASSUME NEW a, IsSeq(a), SlotsOK(a), NEW node, Bare(node), NEW b, b = Append(a, node)
  PROVE  /\ EdgesOf(b) = EdgesOf(a) /\ SlotsOK(b) /\ IsSeq(b)
         /\ Len(b) = Len(a) + 1 /\ Len(a) \in Nat /\ DOMAIN b = 1..Len(b)
<1>1. /\ IsSeq(b) /\ Len(b) = Len(a) + 1 /\ Len(a) \in Nat
      /\ DOMAIN a = 1..Len(a) /\ DOMAIN b = 1..(Len(a) + 1)
      /\ b[Len(a) + 1] = node /\ \A i \in DOMAIN a : b[i] = a[i]
  <2> DEFINE S == {a[j] : j \in DOMAIN a} \cup {node}
  <2>1. a \in Seq({a[j] : j \in DOMAIN a})
    BY DEF IsSeq
  <2>2. a \in Seq(S) /\ node \in S
    BY <2>1
  <2> HIDE DEF S
  <2>3. /\ Len(b) = Len(a) + 1 /\ Len(a) \in Nat
        /\ DOMAIN a = 1..Len(a) /\ DOMAIN b = 1..(Len(a) + 1)
        /\ b[Len(a) + 1] = node /\ \A i \in DOMAIN a : b[i] = a[i]
    BY <2>2
  <2> QED
    BY <2>3, AppendSeq
<1>2. DOMAIN a \subseteq DOMAIN b /\ \A p \in DOMAIN b \ DOMAIN a : b[p] = node
  BY <1>1
<1>3. EdgesOf(b) = EdgesOf(a)
  BY <1>1, <1>2, SameEdges DEF Bare
<1>4. SlotsOK(b)
  BY <1>1, <1>2 DEF SlotsOK, Bare
<1> QED
  BY <1>1, <1>3, <1>4

\* List slot of node p has one more element, x at n.
Longer(a, b, p, slot, n, x) ==
  /\ p \in DOMAIN a /\ DOMAIN b = DOMAIN a
  /\ \A q \in DOMAIN a : q # p => b[q] = a[q]
  /\ DOMAIN b[p].slots = DOMAIN a[p].slots \cup {slot}
  /\ \A s \in DOMAIN a[p].slots : s # slot => b[p].slots[s] = a[p].slots[s]
  /\ n \in DOMAIN b[p].slots[slot] /\ b[p].slots[slot][n] = x
  /\ \A i \in DOMAIN b[p].slots[slot] : i # n =>
       slot \in DOMAIN a[p].slots /\ i \in DOMAIN a[p].slots[slot] /\
       b[p].slots[slot][i] = a[p].slots[slot][i]
  /\ slot \in DOMAIN a[p].slots =>
       \A i \in DOMAIN a[p].slots[slot] :
         i \in DOMAIN b[p].slots[slot] /\ b[p].slots[slot][i] = a[p].slots[slot][i]

\* One more element of one list is one more edge.
LEMMA OneMoreEdge ==
  ASSUME NEW a, NEW b, NEW p, NEW slot, NEW n, NEW x, Longer(a, b, p, slot, n, x)
  PROVE  EdgesOf(b) = EdgesOf(a) \cup {<< p, slot, n, x >>}
<1> DEFINE edge == << p, slot, n, x >>
<1>1. edge \in EdgesOf(b)
  <2>1. p \in DOMAIN b /\ slot \in DOMAIN b[p].slots /\ n \in DOMAIN b[p].slots[slot]
    BY DEF Longer
  <2>2. edge = << p, slot, n, b[p].slots[slot][n] >>
    BY DEF Longer
  <2> QED
    BY <2>1, <2>2, EdgeIn
<1>2. ASSUME NEW e \in EdgesOf(a) PROVE e \in EdgesOf(b)
  <2>1. PICK q, s, i : /\ q \in DOMAIN a /\ s \in DOMAIN a[q].slots /\ i \in DOMAIN a[q].slots[s]
                       /\ e = << q, s, i, a[q].slots[s][i] >>
    <3>1. PICK q \in DOMAIN a : \E s \in DOMAIN a[q].slots : \E i \in DOMAIN a[q].slots[s] :
            e = << q, s, i, a[q].slots[s][i] >>
      BY EdgeOut
    <3> QED
      BY <3>1
  <2>2. q \in DOMAIN b /\ s \in DOMAIN b[q].slots /\ i \in DOMAIN b[q].slots[s] /\
        b[q].slots[s][i] = a[q].slots[s][i]
    <3>1. CASE q # p
      BY <2>1, <3>1 DEF Longer
    <3>2. CASE q = p /\ s # slot
      BY <2>1, <3>2 DEF Longer
    <3>3. CASE q = p /\ s = slot
      BY <2>1, <3>3 DEF Longer
    <3> QED
      BY <3>1, <3>2, <3>3
  <2> QED
    BY <2>1, <2>2, EdgeIn
<1>3. ASSUME NEW e \in EdgesOf(b), e # edge PROVE e \in EdgesOf(a)
  <2>1. PICK q, s, i : /\ q \in DOMAIN b /\ s \in DOMAIN b[q].slots /\ i \in DOMAIN b[q].slots[s]
                       /\ e = << q, s, i, b[q].slots[s][i] >>
    <3>1. PICK q \in DOMAIN b : \E s \in DOMAIN b[q].slots : \E i \in DOMAIN b[q].slots[s] :
            e = << q, s, i, b[q].slots[s][i] >>
      BY EdgeOut
    <3> QED
      BY <3>1
  <2>2. q = p /\ s = slot => i # n
    BY <1>3, <2>1 DEF Longer
  <2>3. q \in DOMAIN a /\ s \in DOMAIN a[q].slots /\ i \in DOMAIN a[q].slots[s] /\
        b[q].slots[s][i] = a[q].slots[s][i]
    <3>1. CASE q = p /\ s = slot
      BY <2>1, <2>2, <3>1 DEF Longer
    <3>2. CASE q # p \/ s # slot
      BY <2>1, <3>2 DEF Longer
    <3> QED
      BY <3>1, <3>2
  <2> QED
    BY <2>1, <2>3, EdgeIn
<1> QED
  BY <1>1, <1>2, <1>3

\* A pointer x is stored in member slot of node p.
Stores(a, b, p, slot, x) ==
  /\ p \in DOMAIN a /\ DOMAIN b = DOMAIN a
  /\ "slots" \in DOMAIN b[p] /\ b[p].slots = AppendAt(a[p].slots, slot, x)
  /\ \A q \in DOMAIN a : q # p => b[q] = a[q]

\* A pointer that is stored in a member adds one edge.
LEMMA AddEdge ==
  ASSUME NEW a, SlotsOK(a), NEW p, NEW slot, NEW x, NEW b, Stores(a, b, p, slot, x)
  PROVE  /\ SlotsOK(b)
         /\ \E e : e[1] = p /\ e[4] = x /\ EdgesOf(b) = EdgesOf(a) \cup {e}
<1> DEFINE old == a[p].slots
           new == AppendAt(old, slot, x)
           n == IF slot \in DOMAIN old THEN Len(old[slot]) + 1 ELSE 1
           edge == << p, slot, n, x >>
<1>1. /\ DOMAIN b = DOMAIN a /\ b[p].slots = new
      /\ \A q \in DOMAIN a : q # p => b[q] = a[q]
      /\ \A q \in DOMAIN a : "slots" \in DOMAIN b[q]
  BY DEF SlotsOK, Stores
<1>2. /\ DOMAIN new = DOMAIN old \cup {slot}
      /\ \A s \in DOMAIN old : s # slot => new[s] = old[s]
      /\ slot \in DOMAIN old => new[slot] = Append(old[slot], x)
      /\ slot \notin DOMAIN old => new[slot] = << x >>
  BY DEF AppendAt
<1>3. p \in DOMAIN a /\ \A s \in DOMAIN old : IsSeq(old[s])
  BY DEF SlotsOK, Stores
<1>4. /\ IsSeq(new[slot]) /\ n \in DOMAIN new[slot] /\ new[slot][n] = x
      /\ \A i \in DOMAIN new[slot] :
           i # n => slot \in DOMAIN old /\ i \in DOMAIN old[slot] /\ new[slot][i] = old[slot][i]
      /\ slot \in DOMAIN old =>
           \A i \in DOMAIN old[slot] : i \in DOMAIN new[slot] /\ new[slot][i] = old[slot][i]
  <2>1. CASE slot \in DOMAIN old
    <3>1. PICK list, t : list = old[slot] /\ t = new[slot]
      OBVIOUS
    <3>2. IsSeq(list) /\ t = Append(list, x) /\ n = Len(list) + 1
      BY <1>2, <1>3, <2>1, <3>1
    <3> DEFINE S == {list[j] : j \in DOMAIN list} \cup {x}
    <3>3. list \in Seq({list[j] : j \in DOMAIN list})
      BY <3>2 DEF IsSeq
    <3>4. list \in Seq(S) /\ x \in S
      BY <3>3
    <3> HIDE DEF S
    <3>5. /\ Len(list) \in Nat /\ DOMAIN list = 1..Len(list) /\ DOMAIN t = 1..(Len(list) + 1)
          /\ t[Len(list) + 1] = x /\ \A i \in DOMAIN list : t[i] = list[i]
      BY <3>2, <3>4
    <3>6. \A i \in DOMAIN t : i # n => i \in DOMAIN list
      BY <3>2, <3>5
    <3>7. IsSeq(t)
      BY <3>2, AppendSeq
    <3>8. n \in DOMAIN t /\ t[n] = x
      BY <3>2, <3>5
    <3> HIDE DEF n, new, old
    <3> QED
      BY <2>1, <3>1, <3>5, <3>6, <3>7, <3>8
  <2>2. CASE slot \notin DOMAIN old
    <3>1. new[slot] = << x >> /\ n = 1
      BY <1>2, <2>2
    <3> HIDE DEF n, new, old
    <3>2. IsSeq(<< x >>) /\ DOMAIN << x >> = {1} /\ << x >>[1] = x
      BY DEF IsSeq
    <3> QED
      BY <2>2, <3>1, <3>2
  <2> QED
    BY <2>1, <2>2
<1>5. SlotsOK(b)
  <2>1. ASSUME NEW q \in DOMAIN b
        PROVE  "slots" \in DOMAIN b[q] /\ \A s \in DOMAIN b[q].slots : IsSeq(b[q].slots[s])
    <3>1. "slots" \in DOMAIN b[q]
      BY <1>1, <2>1 DEF SlotsOK
    <3>2. \A s \in DOMAIN new : IsSeq(new[s])
      <4> HIDE DEF new, old, n
      <4> QED
        BY <1>2, <1>3, <1>4
    <3>3. CASE q = p
      BY <1>1, <3>1, <3>2, <3>3
    <3>4. CASE q # p
      BY <1>1, <3>1, <3>4 DEF SlotsOK
    <3> QED
      BY <3>3, <3>4
  <2> QED
    BY <2>1 DEF SlotsOK
<1>6. edge[1] = p /\ edge[4] = x
  OBVIOUS
<1> HIDE DEF new, n
<1>7. EdgesOf(b) = EdgesOf(a) \cup {edge}
  <2>1. PICK c, k : c = b /\ k = n
    OBVIOUS
  <2>2. /\ DOMAIN c = DOMAIN a
        /\ \A q \in DOMAIN a : q # p => c[q] = a[q]
        /\ DOMAIN c[p].slots = DOMAIN a[p].slots \cup {slot}
        /\ \A s \in DOMAIN a[p].slots : s # slot => c[p].slots[s] = a[p].slots[s]
    BY <1>1, <1>2, <1>3, <2>1
  <2>3. /\ k \in DOMAIN c[p].slots[slot] /\ c[p].slots[slot][k] = x
        /\ \A i \in DOMAIN c[p].slots[slot] : i # k =>
             slot \in DOMAIN a[p].slots /\ i \in DOMAIN a[p].slots[slot] /\
             c[p].slots[slot][i] = a[p].slots[slot][i]
        /\ slot \in DOMAIN a[p].slots =>
             \A i \in DOMAIN a[p].slots[slot] :
               i \in DOMAIN c[p].slots[slot] /\ c[p].slots[slot][i] = a[p].slots[slot][i]
    BY <1>1, <1>4, <2>1
  <2>4. Longer(a, c, p, slot, k, x)
    BY <1>3, <2>2, <2>3 DEF Longer
  <2>5. EdgesOf(c) = EdgesOf(a) \cup {<< p, slot, k, x >>}
    BY <2>4, OneMoreEdge
  <2> QED
    BY <2>1, <2>5
<1> HIDE DEF edge
<1> QED
  BY <1>1, <1>5, <1>6, <1>7

-----------------------------------------------------------------------------
(* The arena while an AST is under construction: old nodes of other ASTs,  *)
(* and a forest whose roots are held.                                      *)

Woods(a, held, old) ==
  /\ SlotsOK(a)
  /\ \A e \in EdgesOf(a) : e[1] \notin (old + 1)..Len(a) => e[4] \in 1..old
  /\ Forest({e \in EdgesOf(a) : e[1] \in (old + 1)..Len(a)}, (old + 1)..Len(a), held)

\* A node is allocated, and held.
LEMMA WoodsNew ==
  ASSUME NEW a, IsSeq(a), NEW old \in 0..Len(a), NEW held, Woods(a, held, old),
         NEW node, Bare(node), NEW b, b = Append(a, node)
  PROVE  Woods(b, held \cup {Len(a) + 1}, old)
<1>1. /\ EdgesOf(b) = EdgesOf(a) /\ SlotsOK(b) /\ Len(b) = Len(a) + 1 /\ Len(a) \in Nat
      /\ DOMAIN a = 1..Len(a)
  BY AddBare, SeqFacts DEF Woods
<1>2. PICK n, O, P : n = Len(a) + 1 /\ O = (old + 1)..Len(a) /\ P = (old + 1)..Len(b)
  OBVIOUS
<1>3. n \notin O /\ P = O \cup {n} /\ n \notin DOMAIN a
  BY <1>1, <1>2
<1>4. \A e \in EdgesOf(a) : e[1] \in P <=> e[1] \in O
  BY <1>3, EdgeFacts
<1>5. PICK inner : inner = {e \in EdgesOf(a) : e[1] \in O}
  OBVIOUS
<1>6. {e \in EdgesOf(b) : e[1] \in P} = inner
  BY <1>1, <1>4, <1>5
<1>7. Forest(inner, O, held)
  BY <1>2, <1>5 DEF Woods
<1>8. Forest(inner, P, held \cup {n})
  BY <1>3, <1>7, ForestNew
<1>9. \A e \in EdgesOf(b) : e[1] \notin P => e[4] \in 1..old
  BY <1>1, <1>2, <1>4 DEF Woods
<1> QED
  BY <1>1, <1>2, <1>6, <1>8, <1>9 DEF Woods

\* A node that is held is stored into another one that is.
LEMMA WoodsStore ==
  ASSUME NEW a, NEW old, NEW held, Woods(a, held, old),
         NEW p \in held, NEW n \in held, p # n, NEW slot, NEW b, Len(b) = Len(a),
         Stores(a, b, p, slot, n)
  PROVE  Woods(b, held \ {n}, old)
<1>1. SlotsOK(a)
  BY DEF Woods
<1>2. SlotsOK(b) /\ \E e : e[1] = p /\ e[4] = n /\ EdgesOf(b) = EdgesOf(a) \cup {e}
  BY <1>1, AddEdge
<1>3. PICK e : e[1] = p /\ e[4] = n /\ EdgesOf(b) = EdgesOf(a) \cup {e}
  BY <1>2
<1>4. PICK O, inner : O = (old + 1)..Len(a) /\ inner = {f \in EdgesOf(a) : f[1] \in O}
  OBVIOUS
<1>5. Forest(inner, O, held)
  BY <1>4 DEF Woods
<1>6. p \in O
  BY <1>5 DEF Forest
<1>7. {f \in EdgesOf(b) : f[1] \in O} = inner \cup {e}
  BY <1>3, <1>4, <1>6
<1>8. Forest(inner \cup {e}, O, held \ {n})
  BY <1>3, <1>5, ForestAttach
<1>9. \A f \in EdgesOf(b) : f[1] \notin O => f[4] \in 1..old
  BY <1>3, <1>4, <1>6 DEF Woods
<1> QED
  BY <1>2, <1>4, <1>7, <1>8, <1>9 DEF Woods

\* What nodes say of themselves is not part of the forest.
LEMMA WoodsSame ==
  ASSUME NEW a, NEW old, NEW held, Woods(a, held, old), NEW b,
         DOMAIN b = DOMAIN a, Len(b) = Len(a),
         \A q \in DOMAIN a : "slots" \in DOMAIN b[q] /\ b[q].slots = a[q].slots
  PROVE  Woods(b, held, old)
<1>1. EdgesOf(b) = EdgesOf(a)
  BY SameEdges
<1>2. SlotsOK(b)
  BY DEF SlotsOK, Woods
<1> QED
  BY <1>1, <1>2 DEF Woods

-----------------------------------------------------------------------------
(* What the calls hold.                                                    *)

HeldBy(st) == UNION {Locals(st[k]) : k \in DOMAIN st}
ApartIn(st) == \A j, k \in DOMAIN st : j # k => Locals(st[j]) \cap Locals(st[k]) = {}

LEMMA HeldFacts ==
  ASSUME NEW st
  PROVE  \A x : x \in HeldBy(st) <=> \E k \in DOMAIN st : x \in Locals(st[k])
  BY DEF HeldBy

\* All calls of t but the innermost are calls of s, d places up the stack.
Shifted(s, t, d) ==
  /\ DOMAIN s = 1..Len(s) /\ DOMAIN t = 1..Len(t) /\ Len(s) \in Nat /\ Len(t) \in Nat \ {0}
  /\ d \in {-1, 0, 1} /\ Len(t) + d = Len(s)
  /\ \A k \in 2..Len(t) : t[k] = s[k + d]

\* Calls keep their nodes apart if the innermost one holds none of the others'.
LEMMA RestHeld ==
  ASSUME NEW s, NEW t, NEW d, Shifted(s, t, d), ApartIn(s)
  PROVE  \E rest :
           /\ HeldBy(t) = Locals(t[1]) \cup rest
           /\ HeldBy(s) = (UNION {Locals(s[k]) : k \in 1..(1 + d)}) \cup rest
           /\ \A k \in 1..(1 + d) : Locals(s[k]) \cap rest = {}
           /\ Locals(t[1]) \cap rest = {} => ApartIn(t)
<1>a. PICK n, m : n = Len(s) /\ m = Len(t)
  OBVIOUS
<1>0. /\ n \in Nat /\ m \in Nat /\ m > 0 /\ DOMAIN s = 1..n /\ DOMAIN t = 1..m /\ 1 \in DOMAIN t
      /\ d \in Int /\ d >= -1 /\ m + d = n /\ \A k \in 2..m : t[k] = s[k + d]
  <2>1. /\ n \in Nat /\ m \in Nat \ {0} /\ DOMAIN s = 1..n /\ DOMAIN t = 1..m
        /\ d \in {-1, 0, 1} /\ m + d = n /\ \A k \in 2..m : t[k] = s[k + d]
    BY <1>a DEF Shifted
  <2>2. d \in Int /\ d >= -1
    BY <2>1
  <2>3. m \in Nat /\ m > 0 /\ 1 \in 1..m
    BY <2>1
  <2> QED
    BY <2>1, <2>2, <2>3
<1> DEFINE rest == UNION {Locals(t[k]) : k \in 2..m}
<1>1. \A k \in 2..m : k \in DOMAIN t /\ k + d \in DOMAIN s /\ k + d \notin 1..(1 + d)
  BY <1>0
<1>2. \A k \in DOMAIN t : k = 1 \/ k \in 2..m
  BY <1>0
<1>3. \A k \in DOMAIN s : k \in 1..(1 + d) \/ (k - d \in 2..m /\ (k - d) + d = k)
  BY <1>0
<1>4. \A x : x \in rest <=> \E k \in 2..m : x \in Locals(t[k])
  OBVIOUS
<1> HIDE DEF rest
<1>5. \A x \in rest : \E k \in 2..m : x \in Locals(s[k + d]) /\ k + d \in DOMAIN s
  BY <1>0, <1>1, <1>4
<1>6. HeldBy(t) = Locals(t[1]) \cup rest
  BY <1>0, <1>1, <1>2, <1>4, HeldFacts
<1>7. HeldBy(s) = (UNION {Locals(s[k]) : k \in 1..(1 + d)}) \cup rest
  <2>1. ASSUME NEW x, x \in HeldBy(s)
        PROVE  x \in (UNION {Locals(s[k]) : k \in 1..(1 + d)}) \cup rest
    <3>1. PICK k \in DOMAIN s : x \in Locals(s[k])
      BY <2>1, HeldFacts
    <3>2. CASE k \in 1..(1 + d)
      BY <3>1, <3>2
    <3>3. CASE k - d \in 2..m /\ (k - d) + d = k
      <4>1. t[k - d] = s[k]
        BY <1>0, <3>3
      <4> QED
        BY <1>4, <3>1, <3>3, <4>1
    <3> QED
      BY <1>3, <3>2, <3>3
  <2>2. ASSUME NEW x, x \in (UNION {Locals(s[k]) : k \in 1..(1 + d)}) \cup rest
        PROVE  x \in HeldBy(s)
    <3>1. \A k \in 1..(1 + d) : k \in DOMAIN s
      BY <1>0
    <3> QED
      BY <1>5, <2>2, <3>1, HeldFacts
  <2> QED
    BY <2>1, <2>2
<1>8. \A k \in 1..(1 + d) : Locals(s[k]) \cap rest = {}
  <2>1. ASSUME NEW k \in 1..(1 + d), NEW x \in rest, x \in Locals(s[k]) PROVE FALSE
    <3>1. PICK j \in 2..m : x \in Locals(s[j + d])
      BY <1>5, <2>1
    <3>2. j + d \in DOMAIN s /\ k \in DOMAIN s /\ j + d # k
      BY <1>0, <1>1
    <3> QED
      BY <2>1, <3>1, <3>2 DEF ApartIn
  <2> QED
    BY <2>1
<1>9. ASSUME Locals(t[1]) \cap rest = {} PROVE ApartIn(t)
  <2>1. ASSUME NEW j \in DOMAIN t, NEW k \in DOMAIN t, j # k,
               NEW x, x \in Locals(t[j]), x \in Locals(t[k])
        PROVE  FALSE
    <3>1. CASE j = 1 \/ k = 1
      BY <1>2, <1>4, <1>9, <2>1, <3>1
    <3>2. CASE j \in 2..m /\ k \in 2..m
      <4>1. j + d # k + d /\ j + d \in DOMAIN s /\ k + d \in DOMAIN s
        BY <1>0, <1>1, <2>1, <3>2
      <4> QED
        BY <1>0, <2>1, <3>2, <4>1 DEF ApartIn
    <3> QED
      BY <1>2, <3>1, <3>2
  <2> QED
    BY <2>1 DEF ApartIn
<1> QED
  BY <1>6, <1>7, <1>8, <1>9

-----------------------------------------------------------------------------
(* The calls of the builder.                                               *)

\* The parts of the invariant.
LEMMA TreeParts ==
  ASSUME TreeInv
  PROVE  /\ \A k \in DOMAIN stack : Careful(stack[k])
         /\ ApartIn(stack) /\ Woods(arena, HeldBy(stack), OldNodes)
<1>1. EdgesOf(arena) = Edges
  BY DEF EdgesOf, Edges
<1>2. SlotsOK(arena)
  BY DEF TreeInv, SlotsOK
<1>3. ApartIn(stack)
  BY DEF TreeInv, Apart, ApartIn
<1>4. \A k \in DOMAIN stack : Careful(stack[k])
  BY DEF TreeInv
<1>5. \A e \in EdgesOf(arena) : e[1] \notin (OldNodes + 1)..Len(arena) => e[4] \in 1..OldNodes
  BY <1>1 DEF TreeInv, Own
<1>6. Forest({e \in EdgesOf(arena) : e[1] \in (OldNodes + 1)..Len(arena)},
             (OldNodes + 1)..Len(arena), HeldBy(stack))
  <2>1. Forest({e \in Edges : e[1] \in Own}, Own, UNION {Locals(stack[k]) : k \in DOMAIN stack})
    BY DEF TreeInv
  <2> QED
    BY <1>1, <2>1 DEF Own, HeldBy
<1> QED
  BY <1>2, <1>3, <1>4, <1>5, <1>6 DEF Woods

\* They are all there is to it.
LEMMA TreePartsNext ==
  ASSUME tree' = tree, \A k \in DOMAIN stack' : Careful(stack'[k]),
         ApartIn(stack'), NEW old, old = OldNodes', Woods(arena', HeldBy(stack'), old)
  PROVE  TreeInv'
<1>1. EdgesOf(arena') = Edges'
  BY DEF EdgesOf, Edges
<1>2. \A k \in DOMAIN stack' : Careful(stack[k])'
  BY DEF Careful
<1>3. Apart'
  BY DEF Apart, ApartIn
<1>4. PICK own : own = Own'
  OBVIOUS
<1>5. own = (old + 1)..Len(arena')
  BY <1>4 DEF Own
<1>6. (\A n \in DOMAIN arena :
         "slots" \in DOMAIN arena[n] /\ \A s \in DOMAIN arena[n].slots : IsSeq(arena[n].slots[s]))'
  BY DEF Woods, SlotsOK
<1>7. \A e \in Edges' : e[1] \notin own => e[4] \in 1..OldNodes'
  BY <1>1, <1>5 DEF Woods
<1>8. (UNION {Locals(stack[k]) : k \in DOMAIN stack})' = HeldBy(stack')
  BY DEF HeldBy
<1>9. Forest({e \in Edges' : e[1] \in own}, own, HeldBy(stack'))
  BY <1>1, <1>5 DEF Woods
<1>10. Forest({e \in Edges : e[1] \in Own}, Own, UNION {Locals(stack[k]) : k \in DOMAIN stack})'
  BY <1>4, <1>8, <1>9 DEF Forest
<1> QED
  BY <1>2, <1>3, <1>4, <1>6, <1>7, <1>10 DEF TreeInv

\* What is held is of the AST under construction.
LEMMA HeldOwn ==
  ASSUME NEW a, NEW held, NEW old, Woods(a, held, old)
  PROVE  held \subseteq (old + 1)..Len(a) /\ SlotsOK(a)
  BY DEF Woods, Forest

\* No instructions are left to change anything.
LEMMA FlowNone == ASSUME NEW a, NEW b, Flow(<< >>, a, b) PROVE a = b
  BY DEF Flow

\* What a call holds tells its locals.
LEMMA LocalFacts ==
  ASSUME NEW f
  PROVE  /\ Local(f) = "empty" <=> f.res = 0 /\ f.obj = 0
         /\ Local(f) = "passes" <=> f.res # 0 /\ f.obj = 0
         /\ Local(f) = "holds" <=> f.res # 0 /\ f.obj = f.res
         /\ Local(f) = "beside" <=> f.res # 0 /\ f.obj # 0 /\ f.obj # f.res
         /\ Locals(f) = {f.res, f.obj} \ {0}
  BY DEF Local, Locals, Null

\* What an instruction makes of what a call holds, and what it asks for.
LEMMA MovesFacts ==
  ASSUME NEW i, NEW a, NEW b, Moves(i, a, b)
  PROVE  /\ i.do = "new" => Bare(i.node) /\ a = "empty" /\ b = "holds"
         /\ i.do = "sub" => Bare(i.node) /\ a = "holds" /\ b = "beside"
         /\ i.do = "wrap" => Bare(i.node) /\ a \in Done /\ b = "holds"
         /\ i.do = "attach" => a = "beside" /\ b = "holds"
         /\ i.do = "vis" => a \in Done /\ b = a
         /\ i.do = "report" => b = a
         /\ i.do = "get" =>
              /\ i.as # "empty"
              /\ i.slot = Result => a = "empty" /\ b = "passes"
              /\ i.slot # Result => i.as # "any" /\ a \in {"holds", "beside"} /\ b = a
<1> DEFINE do == i.do
<1>1. \/ do = "new" /\ Bare(i.node) /\ a = "empty" /\ b = "holds"
      \/ do = "sub" /\ Bare(i.node) /\ a = "holds" /\ b = "beside"
      \/ do = "wrap" /\ Bare(i.node) /\ a \in Done /\ b = "holds"
      \/ do = "attach" /\ a = "beside" /\ b = "holds"
      \/ do = "get" /\ i.as # "empty" /\ i.slot = Result /\ a = "empty" /\ b = "passes"
      \/ /\ do = "get" /\ i.as \notin {"any", "empty"} /\ i.slot # Result
         /\ a \in {"holds", "beside"} /\ b = a
      \/ do = "vis" /\ a \in Done /\ b = a
      \/ do = "report" /\ b = a
  BY DEF Moves
<1> HIDE DEF do
<1>2. /\ do = "new" => Bare(i.node) /\ a = "empty" /\ b = "holds"
      /\ do = "sub" => Bare(i.node) /\ a = "holds" /\ b = "beside"
      /\ do = "wrap" => Bare(i.node) /\ a \in Done /\ b = "holds"
      /\ do = "attach" => a = "beside" /\ b = "holds"
      /\ do = "vis" => a \in Done /\ b = a
      /\ do = "report" => b = a
      /\ do = "get" =>
           /\ i.as # "empty"
           /\ i.slot = Result => a = "empty" /\ b = "passes"
           /\ i.slot # Result => i.as # "any" /\ a \in {"holds", "beside"} /\ b = a
  BY <1>1
<1> QED
  BY <1>2 DEF do

\* The call g goes on where f was, one instruction later.
Remains(f, g) ==
  f.now # << >> /\ g.ctx = f.ctx /\ g.now = Tail(f.now) /\ g.later = f.later

\* What an instruction of a careful call asks for is there, and the call stays
\* careful if the instruction does what it says.
LEMMA CarefulMoves ==
  ASSUME NEW f, Careful(f), f.now # << >>
  PROVE  \E b \in States :
           /\ Moves(f.now[1], Local(f), b)
           /\ \A g : Remains(f, g) /\ Local(g) = b => Careful(g)
<1>1. PICK t \in Done : Flow(f.now, Local(f), t) /\ Turns(f.later, t)
  BY DEF Careful
<1>2. PICK b \in States : Moves(f.now[1], Local(f), b) /\ Flow(Tail(f.now), b, t)
  BY <1>1, FlowTail
<1>3. ASSUME NEW g, Remains(f, g), Local(g) = b PROVE Careful(g)
  <2>1. Flow(g.now, Local(g), t) /\ Turns(g.later, t) /\ g.ctx = f.ctx
    BY <1>1, <1>2, <1>3 DEF Remains
  <2> QED
    BY <2>1 DEF Careful
<1> QED
  BY <1>2, <1>3

\* Only the innermost call changes.
LEMMA CallsCareful ==
  ASSUME NEW s, NEW t, NEW d, Shifted(s, t, d), \A k \in DOMAIN s : Careful(s[k]), Careful(t[1])
  PROVE  \A k \in DOMAIN t : Careful(t[k])
<1>1. PICK m, n : m = Len(t) /\ n = Len(s)
  OBVIOUS
<1>2. /\ n \in Nat /\ m \in Nat \ {0} /\ DOMAIN s = 1..n /\ DOMAIN t = 1..m
      /\ d \in {-1, 0, 1} /\ m + d = n /\ \A k \in 2..m : t[k] = s[k + d]
  BY <1>1 DEF Shifted
<1>3. \A k \in 2..m : k + d \in DOMAIN s
  BY <1>2
<1>4. \A k \in DOMAIN t : k = 1 \/ k \in 2..m
  BY <1>2
<1> QED
  BY <1>2, <1>3, <1>4

-----------------------------------------------------------------------------
(* The instructions.                                                       *)

\* The builder on its way: what the steps have in common.
InBuild == IInv /\ OwnInv /\ TreeInv /\ phase = "building" /\ tree' = tree /\ OldNodes' = OldNodes

\* g has taken the place of the innermost call, and rest is what others hold.
Replaced(g, rest) ==
  /\ HeldBy(stack) = Locals(Top) \cup rest /\ HeldBy(stack') = Locals(g) \cup rest
  /\ Locals(Top) \cap rest = {}
  /\ Locals(g) \cap rest = {} => ApartIn(stack')
  /\ Careful(g) => \A k \in DOMAIN stack' : Careful(stack'[k])

\* The innermost call makes way for another.
LEMMA ReplaceTop ==
  ASSUME InBuild, stack # << >>, NEW g, stack' = << g >> \o Tail(stack)
  PROVE  \E rest : Replaced(g, rest)
<1>1. /\ IsSeq(stack) /\ Len(stack) \in Nat \ {0} /\ DOMAIN stack = 1..Len(stack)
      /\ Top = stack[1]
  BY BottomFacts DEF InBuild
<1>2. Pushed(stack', g, Tail(stack))
  BY DEF Pushed
<1>3. /\ IsSeq(stack') /\ Len(stack') = Len(stack) /\ stack'[1] = g
      /\ \A i \in 2..Len(stack) : stack'[i] = stack[i]
  BY <1>1, <1>2, ReplaceHead
<1>4. PICK s, t : s = stack /\ t = stack'
  OBVIOUS
<1>5. ApartIn(s) /\ \A k \in DOMAIN s : Careful(s[k])
  BY <1>4, TreeParts DEF InBuild
<1>6. Shifted(s, t, 0)
  <2>1. DOMAIN t = 1..Len(t)
    BY <1>3, <1>4, SeqFacts
  <2>2. \A k \in 2..Len(t) : t[k] = s[k + 0]
    BY <1>1, <1>3, <1>4
  <2>3. 0 \in {-1, 0, 1} /\ Len(t) + 0 = Len(s)
    BY <1>1, <1>3, <1>4
  <2> QED
    BY <1>1, <1>3, <1>4, <2>1, <2>2, <2>3 DEF Shifted
<1>7. PICK rest :
        /\ HeldBy(t) = Locals(t[1]) \cup rest
        /\ HeldBy(s) = (UNION {Locals(s[k]) : k \in 1..(1 + 0)}) \cup rest
        /\ \A k \in 1..(1 + 0) : Locals(s[k]) \cap rest = {}
        /\ Locals(t[1]) \cap rest = {} => ApartIn(t)
  BY <1>5, <1>6, RestHeld
<1>8. 1..(1 + 0) = {1}
  OBVIOUS
<1>9. HeldBy(s) = Locals(s[1]) \cup rest /\ Locals(s[1]) \cap rest = {}
  BY <1>7, <1>8
<1>10. Careful(g) => \A k \in DOMAIN t : Careful(t[k])
  BY <1>3, <1>4, <1>5, <1>6, CallsCareful
<1> QED
  BY <1>1, <1>3, <1>4, <1>7, <1>9, <1>10 DEF Replaced

\* The call g after an instruction, with its locals set.
LEMMA AdvanceHeld ==
  ASSUME InBuild, stack # << >>, Top.now # << >>, NEW res, NEW obj, Advance(res, obj)
  PROVE  /\ Top \in {stack[k] : k \in DOMAIN stack} /\ Top.res \in 0..Len(arena)
         /\ Top.obj \in 0..Len(arena) /\ Head(Top.now) = Top.now[1] /\ Len(arena) \in Nat
         /\ OldNodes \in 0..Len(arena) /\ IsSeq(arena) /\ DOMAIN arena = 1..Len(arena)
         /\ \E g, rest : /\ Remains(Top, g) /\ g.res = res /\ g.obj = obj
                         /\ Replaced(g, rest)
<1>1. PICK top, g : top = Top /\ g = [top EXCEPT !.now = Tail(@), !.res = res, !.obj = obj]
  OBVIOUS
<1>2. stack' = << g >> \o Tail(stack)
  BY <1>1 DEF Advance
<1>3. PICK rest : Replaced(g, rest)
  BY <1>2, ReplaceTop
<1>4. /\ IsSeq(stack) /\ Len(stack) \in Nat \ {0} /\ DOMAIN stack = 1..Len(stack)
      /\ Top = stack[1] /\ OldNodes \in 0..Len(arena) /\ Len(arena) \in Nat
      /\ FrameOK(stack[1]) /\ 1 \in DOMAIN stack
  BY BottomFacts DEF InBuild
<1>5. DOMAIN top = FrameFields
  BY <1>1, <1>4 DEF FrameOK
<1>6. /\ g.ctx = top.ctx /\ g.now = Tail(top.now) /\ g.later = top.later
      /\ g.res = res /\ g.obj = obj
  BY <1>1, <1>5 DEF FrameFields
<1>7. Remains(Top, g)
  BY <1>1, <1>6 DEF Remains
<1>8. Head(Top.now) = Top.now[1]
  BY NowFacts DEF InBuild, IInv
<1>9. Top.res \in 0..Len(arena) /\ Top.obj \in 0..Len(arena) /\ IsSeq(arena)
  BY <1>4 DEF InBuild, IInv, LocalsOK
<1>10. DOMAIN arena = 1..Len(arena)
  BY <1>9, SeqFacts
<1> QED
  BY <1>3, <1>4, <1>6, <1>7, <1>8, <1>9, <1>10

\* TreeInv after a step, from its parts.
LEMMA Rebuilt ==
  ASSUME InBuild, NEW g, NEW rest, Replaced(g, rest), Locals(g) \cap rest = {}, Careful(g),
         Woods(arena', Locals(g) \cup rest, OldNodes)
  PROVE  TreeInv'
<1>1. PICK old : old = OldNodes
  OBVIOUS
<1>2. old = OldNodes' /\ tree' = tree
  BY <1>1 DEF InBuild
<1>3. ApartIn(stack') /\ HeldBy(stack') = Locals(g) \cup rest
      /\ \A k \in DOMAIN stack' : Careful(stack'[k])
  BY DEF Replaced
<1>4. Woods(arena', HeldBy(stack'), old)
  BY <1>1, <1>3
<1> QED
  BY <1>2, <1>3, <1>4, TreePartsNext

\* A node is allocated: for the result, beside it, or around it.
LEMMA AllocateTree ==
  ASSUME InBuild, Allocate
  PROVE  TreeInv'
<1>1. PICK i, id, res, old : /\ i = Head(Top.now) /\ id = Len(arena) + 1 /\ old = OldNodes
                             /\ res = IF i.do = "sub" THEN Top.res ELSE id
  OBVIOUS
<1>2. PICK node : node = IF i.do = "wrap"
                         THEN [i.node EXCEPT !.slots = AppendAt(@, i.slot, Top.res)] ELSE i.node
  OBVIOUS
<1>3. /\ stack # << >> /\ Top.now # << >> /\ i.do \in {"new", "sub", "wrap"}
      /\ arena' = Append(arena, node) /\ Advance(res, id)
  BY <1>1, <1>2 DEF Allocate, Executing, Running
<1>4. /\ \E k \in DOMAIN stack : Top = stack[k]
      /\ Top.res \in 0..Len(arena) /\ Top.obj \in 0..Len(arena)
      /\ i = Top.now[1] /\ Len(arena) \in Nat
      /\ old \in 0..Len(arena) /\ IsSeq(arena) /\ DOMAIN arena = 1..Len(arena)
      /\ \E g, rest : Remains(Top, g) /\ g.res = res /\ g.obj = id /\ Replaced(g, rest)
  BY <1>1, <1>3, AdvanceHeld
<1>5. PICK g, rest : Remains(Top, g) /\ g.res = res /\ g.obj = id /\ Replaced(g, rest)
  BY <1>4
<1>6. Careful(Top) /\ Woods(arena, HeldBy(stack), old)
  BY <1>1, <1>4, TreeParts DEF InBuild
<1>7. PICK b \in States : /\ Moves(i, Local(Top), b)
                          /\ Remains(Top, g) /\ Local(g) = b => Careful(g)
  BY <1>3, <1>4, <1>6, CarefulMoves
<1>8. HeldBy(stack) \subseteq (old + 1)..Len(arena) /\ SlotsOK(arena)
  BY <1>6, HeldOwn
<1>9. id \notin HeldBy(stack) /\ id # 0
  BY <1>1, <1>4, <1>8
<1>10. HeldBy(stack) = Locals(Top) \cup rest /\ Locals(Top) \cap rest = {}
  BY <1>5 DEF Replaced
<1>11. CASE i.do = "new"
  <2>1. Bare(i.node) /\ Local(Top) = "empty" /\ b = "holds"
    BY <1>7, <1>11, MovesFacts
  <2>2. Locals(Top) = {} /\ res = id /\ node = i.node
    BY <1>1, <1>2, <1>11, <2>1, LocalFacts
  <2>3. Local(g) = b /\ Locals(g) = {id}
    BY <1>5, <1>9, <2>1, <2>2, LocalFacts
  <2>4. Locals(g) \cup rest = HeldBy(stack) \cup {id} /\ Locals(g) \cap rest = {}
    BY <1>9, <1>10, <2>2, <2>3
  <2>5. Woods(arena', HeldBy(stack) \cup {id}, old)
    BY <1>1, <1>3, <1>4, <1>6, <2>1, <2>2, WoodsNew
  <2> QED
    BY <1>1, <1>5, <1>7, <2>3, <2>4, <2>5, Rebuilt
<1>12. CASE i.do = "sub"
  <2>1. Bare(i.node) /\ Local(Top) = "holds" /\ b = "beside"
    BY <1>7, <1>12, MovesFacts
  <2>2. Top.res # 0 /\ Locals(Top) = {Top.res} /\ res = Top.res /\ node = i.node
    BY <1>1, <1>2, <1>12, <2>1, LocalFacts
  <2>3. Top.res # id
    BY <1>9, <1>10, <2>2
  <2>4. Local(g) = b /\ Locals(g) = {Top.res, id}
    BY <1>5, <1>9, <2>1, <2>2, <2>3, LocalFacts
  <2>5. Locals(g) \cup rest = HeldBy(stack) \cup {id} /\ Locals(g) \cap rest = {}
    BY <1>9, <1>10, <2>2, <2>4
  <2>6. Woods(arena', HeldBy(stack) \cup {id}, old)
    BY <1>1, <1>3, <1>4, <1>6, <2>1, <2>2, WoodsNew
  <2> QED
    BY <1>1, <1>5, <1>7, <2>4, <2>5, <2>6, Rebuilt
<1>13. CASE i.do = "wrap"
  <2>1. Bare(i.node) /\ Local(Top) \in Done /\ b = "holds"
    BY <1>7, <1>13, MovesFacts
  <2>2. /\ Top.res # 0 /\ Locals(Top) = {Top.res} /\ res = id
        /\ node = [i.node EXCEPT !.slots = AppendAt(@, i.slot, Top.res)]
    <3>1. Local(Top) \in {"holds", "passes"}
      BY <2>1 DEF Done
    <3>2. Top.res # 0 /\ Locals(Top) = {Top.res}
      BY <3>1, LocalFacts
    <3> QED
      BY <1>1, <1>2, <1>13, <3>2
  <2>3. Top.res # id
    BY <1>9, <1>10, <2>2
  <2>4. Local(g) = b /\ Locals(g) = {id}
    BY <1>5, <1>9, <2>1, <2>2, LocalFacts
  <2>5. PICK mid : mid = Append(arena, i.node)
    OBVIOUS
  <2>6. Woods(mid, HeldBy(stack) \cup {id}, old)
    BY <1>1, <1>3, <1>4, <1>6, <2>1, <2>5, WoodsNew
  <2>7. Len(arena') = Len(mid) /\ Stores(mid, arena', id, i.slot, Top.res)
    <3> DEFINE S == {arena[j] : j \in DOMAIN arena} \cup {node, i.node}
    <3>1. arena \in Seq({arena[j] : j \in DOMAIN arena})
      BY <1>4 DEF IsSeq
    <3>2. arena \in Seq(S) /\ node \in S /\ i.node \in S
      BY <3>1
    <3> HIDE DEF S
    <3>3. /\ Len(mid) = id /\ DOMAIN mid = 1..id /\ mid[id] = i.node
          /\ \A q \in 1..Len(arena) : mid[q] = arena[q]
      BY <1>1, <1>4, <2>5, <3>2
    <3>4. /\ Len(arena') = id /\ DOMAIN arena' = 1..id /\ arena'[id] = node
          /\ \A q \in 1..Len(arena) : arena'[q] = arena[q]
      BY <1>1, <1>3, <1>4, <3>2
    <3>5. "slots" \in DOMAIN node /\ node.slots = AppendAt(i.node.slots, i.slot, Top.res)
      BY <2>1, <2>2 DEF Bare
    <3>6. id \in 1..id /\ \A q \in 1..id : q # id => q \in 1..Len(arena)
      BY <1>1, <1>4
    <3> QED
      BY <3>3, <3>4, <3>5, <3>6 DEF Stores
  <2>8. Woods(arena', (HeldBy(stack) \cup {id}) \ {Top.res}, old)
    <3>1. id \in HeldBy(stack) \cup {id} /\ Top.res \in HeldBy(stack) \cup {id}
      BY <1>10, <2>2
    <3> QED
      BY <2>3, <2>6, <2>7, <3>1, WoodsStore
  <2>9. Locals(g) \cup rest = (HeldBy(stack) \cup {id}) \ {Top.res} /\ Locals(g) \cap rest = {}
    BY <1>9, <1>10, <2>2, <2>3, <2>4
  <2> QED
    BY <1>1, <1>5, <1>7, <2>4, <2>8, <2>9, Rebuilt
<1> QED
  BY <1>3, <1>11, <1>12, <1>13

\* The node beside the result is attached to it.
LEMMA AttachTree ==
  ASSUME InBuild, AttachSub
  PROVE  TreeInv'
<1>1. PICK i, res, obj, old : i = Head(Top.now) /\ res = Top.res /\ obj = Top.obj /\ old = OldNodes
  OBVIOUS
<1>2. /\ stack # << >> /\ Top.now # << >> /\ i.do = "attach"
      /\ arena' = [arena EXCEPT ![res].slots = AppendAt(@, i.slot, obj)] /\ Advance(res, res)
  BY <1>1 DEF AttachSub, Executing, Running
<1>3. /\ \E k \in DOMAIN stack : Top = stack[k]
      /\ i = Top.now[1] /\ Len(arena) \in Nat
      /\ old \in 0..Len(arena) /\ IsSeq(arena) /\ DOMAIN arena = 1..Len(arena)
      /\ \E g, rest : Remains(Top, g) /\ g.res = res /\ g.obj = res /\ Replaced(g, rest)
  BY <1>1, <1>2, AdvanceHeld
<1>4. PICK g, rest : Remains(Top, g) /\ g.res = res /\ g.obj = res /\ Replaced(g, rest)
  BY <1>3
<1>5. Careful(Top) /\ Woods(arena, HeldBy(stack), old)
  BY <1>1, <1>3, TreeParts DEF InBuild
<1>6. PICK b \in States : /\ Moves(i, Local(Top), b)
                          /\ Remains(Top, g) /\ Local(g) = b => Careful(g)
  BY <1>2, <1>3, <1>5, CarefulMoves
<1>7. HeldBy(stack) \subseteq (old + 1)..Len(arena) /\ SlotsOK(arena)
  BY <1>5, HeldOwn
<1>8. HeldBy(stack) = Locals(Top) \cup rest /\ Locals(Top) \cap rest = {}
  BY <1>4 DEF Replaced
<1>9. Local(Top) = "beside" /\ b = "holds"
  BY <1>2, <1>6, MovesFacts
<1>10. res # 0 /\ obj # 0 /\ res # obj /\ Locals(Top) = {res, obj}
  BY <1>1, <1>9, LocalFacts
<1>11. Local(g) = b /\ Locals(g) = {res}
  BY <1>4, <1>9, <1>10, LocalFacts
<1>12. res \in HeldBy(stack) /\ obj \in HeldBy(stack) /\ res \in DOMAIN arena
  <2>1. res \in HeldBy(stack) /\ obj \in HeldBy(stack)
    BY <1>8, <1>10, Zenon
  <2>2. res \in (old + 1)..Len(arena)
    BY <1>7, <2>1, Zenon
  <2> QED
    BY <1>3, <2>1, <2>2
<1>13. Len(arena') = Len(arena) /\ Stores(arena, arena', res, i.slot, obj)
  <2>1. "slots" \in DOMAIN arena[res]
    BY <1>7, <1>12 DEF SlotsOK
  <2>2. Stores(arena, arena', res, i.slot, obj)
    BY <1>2, <1>12, <2>1 DEF Stores
  <2>3. PICK n : arena' = [arena EXCEPT ![res] = n]
    BY <1>2
  <2> QED
    BY <1>3, <2>2, <2>3, ExceptSameLen
<1>14. Woods(arena', HeldBy(stack) \ {obj}, old)
  BY <1>5, <1>10, <1>12, <1>13, WoodsStore
<1>15. Locals(g) \cup rest = HeldBy(stack) \ {obj} /\ Locals(g) \cap rest = {}
  BY <1>8, <1>10, <1>11
<1> QED
  BY <1>1, <1>4, <1>6, <1>11, <1>14, <1>15, Rebuilt

\* A visibility and a report change no edge and no local.
LEMMA PlainTree ==
  ASSUME InBuild, SetVisibility \/ ReportError
  PROVE  TreeInv'
<1>1. PICK i, old : i = Head(Top.now) /\ old = OldNodes
  OBVIOUS
<1>2. /\ stack # << >> /\ Top.now # << >> /\ i.do \in {"vis", "report"}
      /\ Advance(Top.res, Top.obj)
      /\ arena' = arena \/ arena' = [arena EXCEPT ![Top.res].vis = i.vis]
  BY <1>1 DEF SetVisibility, ReportError, Executing, Running
<1>3. /\ \E k \in DOMAIN stack : Top = stack[k]
      /\ i = Top.now[1] /\ Len(arena) \in Nat
      /\ old \in 0..Len(arena) /\ IsSeq(arena) /\ DOMAIN arena = 1..Len(arena)
      /\ \E g, rest : Remains(Top, g) /\ g.res = Top.res /\ g.obj = Top.obj /\ Replaced(g, rest)
  BY <1>1, <1>2, AdvanceHeld
<1>4. PICK g, rest : Remains(Top, g) /\ g.res = Top.res /\ g.obj = Top.obj /\ Replaced(g, rest)
  BY <1>3
<1>5. Careful(Top) /\ Woods(arena, HeldBy(stack), old)
  BY <1>1, <1>3, TreeParts DEF InBuild
<1>6. PICK b \in States : /\ Moves(i, Local(Top), b)
                          /\ Remains(Top, g) /\ Local(g) = b => Careful(g)
  BY <1>2, <1>3, <1>5, CarefulMoves
<1>7. b = Local(Top)
  BY <1>2, <1>6, MovesFacts
<1>8. Local(g) = Local(Top) /\ Locals(g) = Locals(Top)
  BY <1>4 DEF Local, Locals
<1>9. HeldBy(stack) = Locals(g) \cup rest /\ Locals(g) \cap rest = {}
  BY <1>4, <1>8 DEF Replaced
<1>10. SlotsOK(arena)
  BY <1>5, HeldOwn
<1>11. Woods(arena', HeldBy(stack), old)
  <2>1. CASE arena' = arena
    BY <1>5, <2>1
  <2>2. CASE arena' = [arena EXCEPT ![Top.res].vis = i.vis]
    <3>1. PICK n : arena' = [arena EXCEPT ![Top.res] = n]
      BY <2>2
    <3>2. Len(arena') = Len(arena)
      BY <1>3, <3>1, ExceptSameLen
    <3>3. DOMAIN arena' = DOMAIN arena
      BY <2>2
    <3>4. \A q \in DOMAIN arena : "slots" \in DOMAIN arena'[q] /\ arena'[q].slots = arena[q].slots
      BY <1>10, <2>2 DEF SlotsOK
    <3> QED
      BY <1>5, <3>2, <3>3, <3>4, WoodsSame
  <2> QED
    BY <1>2, <2>1, <2>2
<1> QED
  BY <1>1, <1>4, <1>6, <1>7, <1>8, <1>9, <1>11, Rebuilt

\* Another turn of a loop goes on with what the last one held.
LEMMA NextIterationTree ==
  ASSUME InBuild, NextIteration
  PROVE  TreeInv'
<1>1. PICK top, g, old : /\ top = Top /\ old = OldNodes
                         /\ g = [top EXCEPT !.now = Head(top.later), !.later = Tail(@)]
  OBVIOUS
<1>2. /\ stack # << >> /\ top.now = << >> /\ top.later # << >> /\ arena' = arena
      /\ stack' = << g >> \o Tail(stack)
  BY <1>1 DEF NextIteration, Running
<1>3. /\ top = stack[1] /\ 1 \in DOMAIN stack /\ FrameOK(top)
  BY <1>1, <1>2, BottomFacts DEF InBuild
<1>4. PICK rest : Replaced(g, rest)
  BY <1>2, ReplaceTop
<1>5. Careful(top) /\ Woods(arena, HeldBy(stack), old)
  BY <1>1, <1>3, TreeParts DEF InBuild
<1>6. /\ g.ctx = top.ctx /\ g.now = Head(top.later) /\ g.later = Tail(top.later)
      /\ g.res = top.res /\ g.obj = top.obj
  <2>1. DOMAIN top = FrameFields
    BY <1>3 DEF FrameOK
  <2> QED
    BY <1>1, <2>1 DEF FrameFields
<1>7. Local(g) = Local(top) /\ Locals(g) = Locals(top)
  BY <1>6 DEF Local, Locals
<1>8. Careful(g)
  <2>1. PICK t \in Done : Flow(top.now, Local(top), t) /\ Turns(top.later, t)
    BY <1>5 DEF Careful
  <2>2. t = Local(top)
    BY <1>2, <2>1, FlowNone
  <2>3. /\ IsSeq(top.later) /\ Flow(top.later[1], t, "holds")
        /\ \A k \in DOMAIN top.later : Flow(top.later[k], "holds", "holds")
    BY <1>2, <2>1 DEF Turns
  <2>4. /\ IsSeq(Tail(top.later)) /\ Head(top.later) = top.later[1]
        /\ \A k \in DOMAIN Tail(top.later) :
             k + 1 \in DOMAIN top.later /\ Tail(top.later)[k] = top.later[k + 1]
        /\ Tail(top.later) # << >> => 1 \in DOMAIN Tail(top.later)
    <3>1. /\ IsSeq(Tail(top.later)) /\ Head(top.later) = top.later[1]
          /\ \A k \in DOMAIN Tail(top.later) :
               k + 1 \in DOMAIN top.later /\ Tail(top.later)[k] = top.later[k + 1]
      BY <1>2, <2>3, TailSeq
    <3> QED
      BY <3>1, TailSeq
  <2>5. Turns(g.later, "holds")
    BY <1>6, <2>3, <2>4 DEF Turns
  <2>6. Flow(g.now, Local(g), "holds")
    BY <1>6, <1>7, <2>2, <2>3, <2>4
  <2> QED
    BY <1>5, <1>6, <2>5, <2>6 DEF Careful, Done
<1>9. HeldBy(stack) = Locals(g) \cup rest /\ Locals(g) \cap rest = {}
  BY <1>1, <1>4, <1>7 DEF Replaced
<1> QED
  BY <1>1, <1>2, <1>4, <1>5, <1>8, <1>9, Rebuilt

\* A call at its first instruction is careful and holds nothing.
LEMMA FreshCareful ==
  ASSUME TreeDone, NEW c \in DOMAIN tree, Answer(tree[c].sym) # "empty", NEW f, f = Frame(c)
  PROVE  Careful(f) /\ Locals(f) = {}
<1>1. PICK v : v = Visit(c)
  OBVIOUS
<1>2. f.ctx = c /\ f.now = v.code[1] /\ f.later = Tail(v.code) /\ f.res = 0 /\ f.obj = 0
  BY <1>1 DEF Frame, Null
<1>3. PICK t \in Done : Flow(v.code[1], "empty", t) /\ Turns(Tail(v.code), t)
  BY <1>1, AnyVisitCareful DEF VisitCareful
<1>4. Local(f) = "empty" /\ Locals(f) = {}
  BY <1>2, LocalFacts
<1> QED
  BY <1>2, <1>3, <1>4 DEF Careful

\* visit(child): the new call holds nothing yet.
LEMMA CallTree ==
  ASSUME InBuild, Call
  PROVE  TreeInv'
<1>1. PICK i, child, g, old, s, t :
        /\ i = Head(Top.now) /\ child = i.child /\ g = Frame(child) /\ old = OldNodes
        /\ s = stack /\ t = stack'
  OBVIOUS
<1>2. /\ s # << >> /\ Top.now # << >> /\ i.do = "get" /\ arena' = arena
      /\ child # Null => t = << g >> \o s
  BY <1>1 DEF Call, Executing, Running
<1>3. /\ IsSeq(s) /\ Len(s) \in Nat \ {0} /\ DOMAIN s = 1..Len(s) /\ Top = s[1]
      /\ 1 \in DOMAIN s /\ FrameOK(Top)
  BY <1>1, <1>2, BottomFacts DEF InBuild
<1>4. i = Top.now[1]
  BY <1>1, <1>2, NowFacts DEF InBuild, IInv
<1>5. /\ Careful(Top) /\ Woods(arena, HeldBy(s), old) /\ ApartIn(s)
      /\ \A k \in DOMAIN s : Careful(s[k])
  BY <1>1, <1>3, TreeParts DEF InBuild
<1>6. PICK b \in States : Moves(i, Local(Top), b)
  BY <1>2, <1>4, <1>5, CarefulMoves
<1>7. i.as # "empty"
  BY <1>2, <1>6, MovesFacts
<1>8. child \in DOMAIN tree /\ Answer(tree[child].sym) # "empty"
  <2>1. PICK answer : answer = Answer(tree[Top.ctx].sym)
    OBVIOUS
  <2>2. CASE CodeOK(Top.now)
    <3>1. InstrOK(i)
      BY <1>2, <1>4, <2>2, TailSeq DEF CodeOK
    <3> QED
      BY <1>1, <1>2, <1>7, <3>1 DEF InstrOK, IsChild
  <2>3. CASE Forwarding(Top.any, Top.now, Top.later, answer)
    BY <1>1, <1>4, <1>5, <2>1, <2>3 DEF Forwarding, IsChild, Careful
  <2> QED
    BY <1>3, <2>1, <2>2, <2>3 DEF FrameOK
<1>9. TreeTyped /\ TreeDone
  BY TreeComplete DEF InBuild, IInv, ErrorBars, WorkOK
<1>10. child # 0
  BY <1>8, <1>9, SeqFacts DEF TreeTyped
<1>11. Careful(g) /\ Locals(g) = {}
  BY <1>1, <1>8, <1>9, FreshCareful
<1>12. /\ Len(t) = Len(s) + 1 /\ DOMAIN t = 1..(Len(s) + 1) /\ t[1] = g
       /\ \A k \in DOMAIN s : t[k + 1] = s[k]
  <2>1. Pushed(t, g, s)
    BY <1>2, <1>10 DEF Pushed, Null
  <2> QED
    BY <1>3, <2>1, PushSeq
<1>13. Shifted(s, t, -1)
  <2>1. ASSUME NEW k \in 2..Len(t) PROVE t[k] = s[k + (-1)]
    <3>1. k + (-1) \in DOMAIN s /\ (k + (-1)) + 1 = k
      BY <1>3, <1>12
    <3> QED
      BY <1>12, <3>1
  <2>2. /\ DOMAIN s = 1..Len(s) /\ DOMAIN t = 1..Len(t) /\ Len(s) \in Nat /\ Len(t) \in Nat \ {0}
        /\ Len(t) + (-1) = Len(s)
    BY <1>3, <1>12
  <2> QED
    BY <2>1, <2>2 DEF Shifted
<1>14. PICK rest :
        /\ HeldBy(t) = Locals(t[1]) \cup rest
        /\ HeldBy(s) = (UNION {Locals(s[k]) : k \in 1..(1 + (-1))}) \cup rest
        /\ Locals(t[1]) \cap rest = {} => ApartIn(t)
  BY <1>5, <1>13, RestHeld
<1>15. HeldBy(t) = HeldBy(s) /\ ApartIn(t)
  <2>1. 1..(1 + (-1)) = {}
    OBVIOUS
  <2>2. UNION {Locals(s[k]) : k \in 1..(1 + (-1))} = {}
    BY <2>1
  <2> QED
    BY <1>11, <1>12, <1>14, <2>2
<1>16. \A k \in DOMAIN t : Careful(t[k])
  BY <1>5, <1>11, <1>12, <1>13, CallsCareful
<1>17. Woods(arena', HeldBy(stack'), old)
  BY <1>1, <1>2, <1>5, <1>15
<1> QED
  BY <1>1, <1>15, <1>16, <1>17, TreePartsNext DEF InBuild

\* A return: the caller takes over the node of the call, or stores it in a
\* member of the node it fills.
LEMMA ReturnTree ==
  ASSUME InBuild, Return, UNCHANGED << phase, program >>
  PROVE  TreeInv'
<1>1. PICK top, caller, i, old, s, t :
        /\ top = Top /\ caller = Caller /\ i = caller.now[1] /\ old = OldNodes
        /\ s = stack /\ t = stack'
  OBVIOUS
<1>2. /\ crash = "none" /\ s # << >> /\ top.now = << >> /\ top.later = << >> /\ Len(s) > 1
  BY <1>1 DEF Return, Finished, Running
<1>3. /\ IsSeq(s) /\ Len(s) \in Nat \ {0} /\ DOMAIN s = 1..Len(s) /\ top = s[1]
      /\ caller = s[2] /\ 1 \in DOMAIN s /\ 2 \in DOMAIN s /\ FrameOK(caller)
  BY <1>1, <1>2, BottomFacts DEF InBuild, Caller
<1>4. /\ caller.now # << >> /\ Head(caller.now) = i /\ i.do = "get" /\ DOMAIN caller = FrameFields
  <2>1. Awaits(s[1 + 1], s[1])
    BY <1>1, <1>2, <1>3 DEF InBuild, IInv, CallsOK
  <2>2. IsSeq(caller.now) /\ DOMAIN caller = FrameFields
    BY <1>3 DEF FrameOK, Forwarding, CodeOK, IsSeq
  <2> QED
    BY <1>1, <1>3, <2>1, <2>2, TailSeq DEF Awaits
<1>5. PICK g : Resumed(caller, g, i, top.res, top.any)
  BY DEF Resumed
<1>6. i.as \in {"any", top.any}
  <2>1. crash' = "none"
    BY ReturnInv DEF InBuild, IInv
  <2> QED
    BY <1>1, <1>4, <2>1 DEF Return
<1>7. /\ Popped(t, g, s)
      /\ arena' = IF i.slot = Result THEN arena
                  ELSE [arena EXCEPT ![caller.obj].slots = AppendAt(@, i.slot, top.res)]
  BY <1>1, <1>4, <1>5, <1>6 DEF Return, Resumed, Pushed, Popped
<1>8. /\ Remains(caller, g) /\ g.obj = caller.obj
      /\ g.res = IF i.slot = Result THEN top.res ELSE caller.res
  <2>1. CASE i.slot # Result
    BY <1>4, <1>5, <2>1 DEF Resumed, FrameFields, Remains
  <2>2. CASE i.slot = Result
    <3>1. g = [[caller EXCEPT !.now = Tail(@)] EXCEPT !.res = top.res,
                !.any = IF i.as = "any" THEN top.any ELSE @]
      BY <1>5, <2>2 DEF Resumed
    <3> QED
      BY <1>4, <2>2, <3>1 DEF FrameFields, Remains
  <2> QED
    BY <2>1, <2>2
<1>9. /\ Woods(arena, HeldBy(s), old) /\ ApartIn(s)
      /\ \A k \in DOMAIN s : Careful(s[k])
  BY <1>1, TreeParts DEF InBuild
<1>10. top.res # 0 /\ Locals(top) = {top.res}
  <2>1. PICK e \in Done : Flow(top.now, Local(top), e)
    BY <1>3, <1>9 DEF Careful
  <2>2. Local(top) \in {"holds", "passes"}
    BY <1>2, <2>1, FlowNone DEF Done
  <2> QED
    BY <2>2, LocalFacts
<1>11. PICK b \in States : /\ Moves(i, Local(caller), b)
                           /\ Local(g) = b => Careful(g)
  BY <1>1, <1>3, <1>4, <1>8, <1>9, CarefulMoves
<1>12. /\ Len(t) = Len(s) - 1 /\ DOMAIN t = 1..(Len(s) - 1) /\ t[1] = g
       /\ \A k \in 2..(Len(s) - 1) : t[k] = s[k + 1]
  <2>1. /\ IsSeq(t) /\ Len(t) = Len(s) - 1 /\ t[1] = g
        /\ \A k \in 2..(Len(s) - 1) : t[k] = s[k + 1]
    <3>1. IsSeq(s) /\ Len(s) > 1 /\ Popped(t, g, s)
      BY <1>2, <1>3, <1>7
    <3> QED
      BY <3>1, DropTwo
  <2> QED
    BY <2>1, SeqFacts
<1>13. Shifted(s, t, 1)
  BY <1>2, <1>3, <1>12 DEF Shifted
<1>14. PICK rest :
        /\ HeldBy(t) = Locals(t[1]) \cup rest
        /\ HeldBy(s) = (UNION {Locals(s[k]) : k \in 1..(1 + 1)}) \cup rest
        /\ \A k \in 1..(1 + 1) : Locals(s[k]) \cap rest = {}
        /\ Locals(t[1]) \cap rest = {} => ApartIn(t)
  BY <1>9, <1>13, RestHeld, ZenonT(40)
<1>15. /\ HeldBy(s) = {top.res} \cup Locals(caller) \cup rest
       /\ top.res \notin rest /\ Locals(caller) \cap rest = {} /\ top.res \notin Locals(caller)
  <2>1. 1..(1 + 1) = {1, 2}
    OBVIOUS
  <2>2. UNION {Locals(s[k]) : k \in 1..(1 + 1)} = Locals(s[1]) \cup Locals(s[2])
    BY <2>1
  <2>3. Locals(s[1]) \cap Locals(s[2]) = {}
    BY <1>3, <1>9 DEF ApartIn
  <2> QED
    BY <1>3, <1>10, <1>14, <2>1, <2>2, <2>3
<1>16. ASSUME Local(g) = b, Locals(g) \cap rest = {}, Woods(arena', Locals(g) \cup rest, old)
       PROVE  TreeInv'
  <2>1. Careful(g) /\ ApartIn(t) /\ HeldBy(t) = Locals(g) \cup rest
    BY <1>11, <1>12, <1>14, <1>16
  <2>2. \A k \in DOMAIN t : Careful(t[k])
    BY <1>9, <1>12, <1>13, <2>1, CallsCareful
  <2>3. Woods(arena', HeldBy(stack'), old)
    BY <1>1, <1>16, <2>1
  <2> QED
    BY <1>1, <2>1, <2>2, <2>3, TreePartsNext DEF InBuild
<1>17. CASE i.slot = Result
  <2>1. Local(caller) = "empty" /\ b = "passes"
    BY <1>4, <1>11, <1>17, MovesFacts
  <2>2. Locals(caller) = {} /\ caller.obj = 0
    BY <2>1, LocalFacts
  <2>3. Local(g) = b /\ Locals(g) = {top.res}
    BY <1>8, <1>10, <1>17, <2>1, <2>2, LocalFacts
  <2>4. Locals(g) \cup rest = HeldBy(s) /\ Locals(g) \cap rest = {}
    BY <1>15, <2>2, <2>3
  <2>5. arena' = arena
    BY <1>7, <1>17
  <2> QED
    BY <1>9, <1>16, <2>3, <2>4, <2>5
<1>18. CASE i.slot # Result
  <2>1. Local(caller) \in {"holds", "beside"} /\ b = Local(caller)
    BY <1>4, <1>11, <1>18, MovesFacts
  <2>2. Local(g) = b /\ Locals(g) = Locals(caller)
    BY <1>8, <1>18, <2>1 DEF Local, Locals
  <2>3. caller.obj \in Locals(caller)
    <3>1. caller.obj # 0
      BY <2>1, LocalFacts
    <3> QED
      BY <3>1, LocalFacts
  <2>4. caller.obj # top.res /\ caller.obj \in HeldBy(s) /\ top.res \in HeldBy(s)
    BY <1>15, <2>3
  <2>5. Locals(g) \cup rest = HeldBy(s) \ {top.res} /\ Locals(g) \cap rest = {}
    BY <1>15, <2>2
  <2>6. HeldBy(s) \subseteq (old + 1)..Len(arena) /\ SlotsOK(arena)
    BY <1>9, HeldOwn
  <2>7. IsSeq(arena) /\ DOMAIN arena = 1..Len(arena) /\ old \in 0..Len(arena) /\ Len(arena) \in Nat
    BY <1>1, OldInArena DEF InBuild, IInv, LocalsOK
  <2>8. caller.obj \in DOMAIN arena
    BY <2>4, <2>6, <2>7
  <2>9. Len(arena') = Len(arena)
    <3>1. PICK n : arena' = [arena EXCEPT ![caller.obj] = n]
      BY <1>7, <1>18
    <3> QED
      BY <2>7, <3>1, ExceptSameLen
  <2>10. Stores(arena, arena', caller.obj, i.slot, top.res)
    <3>1. "slots" \in DOMAIN arena[caller.obj]
      BY <2>6, <2>8 DEF SlotsOK
    <3> QED
      BY <1>7, <1>18, <2>8, <3>1 DEF Stores
  <2>11. Woods(arena', HeldBy(s) \ {top.res}, old)
    BY <1>9, <2>4, <2>9, <2>10, WoodsStore
  <2> QED
    BY <1>16, <2>2, <2>5, <2>11
<1> QED
  BY <1>17, <1>18

\* Every instruction of the builder keeps TreeInv.
LEMMA BuilderTree ==
  ASSUME IInv, OwnInv, TreeInv, RunBuilder
  PROVE  TreeInv'
<1>1. phase = "building" /\ BuilderStep /\ UNCHANGED << parserVars, phase, callVars >>
  BY DEF RunBuilder
<1>2. UNCHANGED << tree, phase, program >>
  BY <1>1 DEF parserVars, callVars
<1>3. InBuild
  BY <1>1, <1>2, BuilderOwn DEF InBuild
<1>4. CASE Allocate
  BY <1>3, <1>4, AllocateTree
<1>5. CASE AttachSub
  BY <1>3, <1>5, AttachTree
<1>6. CASE SetVisibility \/ ReportError
  BY <1>3, <1>6, PlainTree
<1>7. CASE Call
  BY <1>3, <1>7, CallTree
<1>8. CASE NextIteration
  BY <1>3, <1>8, NextIterationTree
<1>9. CASE Return
  BY <1>2, <1>3, <1>9, ReturnTree
<1> QED
  BY <1>1, <1>4, <1>5, <1>6, <1>7, <1>8, <1>9 DEF BuilderStep

-----------------------------------------------------------------------------
(* The steps of parse().                                                   *)

\* Steps that leave the calls and the arena alone.
LEMMA QuietTree ==
  ASSUME TreeInv, UNCHANGED << stack, arena >>, tree' = tree \/ stack = << >>
  PROVE  TreeInv'
<1>1. PICK old, edges, own : old = OldNodes /\ edges = Edges /\ own = Own
  OBVIOUS
<1>2. old = OldNodes' /\ edges = Edges' /\ own = Own'
  BY <1>1 DEF OldNodes, Edges, Own
<1>3. \A k \in DOMAIN stack : Careful(stack[k])'
  BY DEF TreeInv, Careful
<1>4. Apart'
  BY DEF TreeInv, Apart
<1>5. /\ \A e \in edges : e[1] \notin own => e[4] \in 1..old
      /\ Forest({e \in edges : e[1] \in own}, own, UNION {Locals(stack[k]) : k \in DOMAIN stack})
  BY <1>1 DEF TreeInv
<1>6. /\ (\A e \in Edges : e[1] \notin Own => e[4] \in 1..OldNodes)'
      /\ Forest({e \in Edges : e[1] \in Own}, Own, UNION {Locals(stack[k]) : k \in DOMAIN stack})'
  BY <1>2, <1>5 DEF Forest
<1> QED
  BY <1>3, <1>4, <1>6 DEF TreeInv

\* Nothing is held when no call is in progress.
LEMMA NothingHeld ==
  ASSUME NEW st, DOMAIN st = {}
  PROVE  HeldBy(st) = {} /\ ApartIn(st)
  BY DEF HeldBy, ApartIn

\* visitFile begins with nothing.
LEMMA AcceptTreeInv ==
  ASSUME IInv, OwnInv, TreeInv, AcceptTree
  PROVE  TreeInv'
<1>1. /\ phase = "parsing" /\ work = << >> /\ ~ HasErrors /\ tree' = tree
      /\ stack' = << Frame(1) >> /\ arena' = arena
  BY DEF AcceptTree, StartBuild, Parsed, parserVars
<1>2. TreeTyped /\ tree # << >> /\ tree[1].sym = "file" /\ TreeDone
  BY <1>1, TreeComplete DEF IInv, FileFirst, ErrorBars
<1>3. 1 \in DOMAIN tree /\ Answer(tree[1].sym) # "empty"
  <2>1. Answer("file") = "Program"
    BY Answers
  <2> QED
    BY <1>2, <2>1, TailSeq DEF TreeTyped
<1>4. PICK f, old : f = Frame(1) /\ old = OldNodes
  OBVIOUS
<1>5. Careful(f) /\ Locals(f) = {}
  BY <1>2, <1>3, <1>4, FreshCareful
<1>6. DOMAIN stack' = {1} /\ stack'[1] = f
  <2>1. stack' = << f >>
    BY <1>1, <1>4
  <2> QED
    BY <2>1
<1>7. OldNodes' = old
  BY <1>4, AcceptOwn
<1>8. HeldBy(stack') = {} /\ ApartIn(stack')
  BY <1>5, <1>6 DEF HeldBy, ApartIn
<1>9. Woods(arena, {}, old)
  <2>1. stack = << >>
    BY <1>1, NoCalls
  <2>2. HeldBy(stack) = {}
    BY <2>1, NothingHeld
  <2> QED
    BY <1>4, <2>2, TreeParts
<1>10. Woods(arena', HeldBy(stack'), old)
  BY <1>1, <1>8, <1>9
<1>11. \A k \in DOMAIN stack' : Careful(stack'[k])
  BY <1>5, <1>6
<1> QED
  BY <1>1, <1>7, <1>8, <1>10, <1>11, TreePartsNext

\* The AST that is returned is one of the finished ones from now on.
LEMMA ReturnProgramTree ==
  ASSUME IInv, OwnInv, TreeInv, ReturnProgram
  PROVE  TreeInv'
<1>1. PICK old, new : old = OldNodes /\ new = Len(arena)
  OBVIOUS
<1>2. arena' = arena /\ OldNodes' = new /\ old \in 0..new /\ new \in Nat
  BY <1>1, ReturnProgramOwn, OldInArena
<1>3. stack' = << >> /\ tree' = tree
  <2>1. crash = "none" /\ crash' = "none"
    BY ReturnProgramInv DEF IInv, ScalarsOK
  <2> QED
    BY <2>1 DEF ReturnProgram, EndBuild, parserVars
<1>4. Woods(arena, HeldBy(stack), old)
  BY <1>1, TreeParts
<1>5. Woods(arena, {}, new)
  <2>1. SlotsOK(arena) /\ (new + 1)..Len(arena) = {}
    BY <1>1, <1>2, <1>4 DEF Woods
  <2>2. ASSUME NEW e \in EdgesOf(arena) PROVE e[4] \in 1..new
    <3>1. CASE e[1] \in (old + 1)..Len(arena)
      <4>1. e[4] \in (old + 1)..Len(arena)
        BY <1>4, <2>2, <3>1 DEF Woods, Forest
      <4> QED
        BY <1>1, <1>2, <4>1
    <3>2. CASE e[1] \notin (old + 1)..Len(arena)
      <4>1. e[4] \in 1..old
        BY <1>4, <2>2, <3>2 DEF Woods
      <4> QED
        BY <1>1, <1>2, <4>1
    <3> QED
      BY <3>1, <3>2
  <2>3. {e \in EdgesOf(arena) : e[1] \in (new + 1)..Len(arena)} = {}
    BY <2>1
  <2>4. Forest({}, {}, {})
    BY DEF Forest
  <2> QED
    BY <2>1, <2>2, <2>3, <2>4 DEF Woods
<1>6. HeldBy(stack') = {} /\ ApartIn(stack') /\ DOMAIN stack' = {}
  BY <1>3, NothingHeld
<1>7. Woods(arena', HeldBy(stack'), new)
  BY <1>2, <1>5, <1>6
<1> QED
  BY <1>2, <1>3, <1>6, <1>7, TreePartsNext

\* Every step keeps TreeInv.
LEMMA NextTree ==
  ASSUME IInv, OwnInv, TreeInv, [Next]_vars
  PROVE  TreeInv'
<1>1. CASE RunBuilder
  BY <1>1, BuilderTree
<1>2. CASE AcceptTree
  BY <1>2, AcceptTreeInv
<1>3. CASE ReturnProgram
  BY <1>3, ReturnProgramTree
<1>4. CASE StartParse \/ RunParser \/ SyntaxError \/ RefuseTree \/ PrintDiagnostics
  <2>1. phase # "building"
    BY <1>4 DEF StartParse, RunParser, SyntaxError, RefuseTree, PrintDiagnostics
  <2> QED
    BY <1>4, <2>1, NoCalls, Outside, QuietTree
<1>5. CASE Terminated \/ UNCHANGED vars
  <2>1. tree' = tree
    BY <1>5 DEF Terminated, vars, parserVars
  <2> QED
    BY <1>5, <2>1, Outside, QuietTree
<1> QED
  BY <1>1, <1>2, <1>3, <1>4, <1>5 DEF Next

\* Before the first call there are no nodes.
LEMMA InitTree == Init => TreeInv
<1> SUFFICES ASSUME Init PROVE TreeInv
  OBVIOUS
<1>1. stack = << >> /\ arena = << >>
  BY DEF Init
<1>2. Edges = {} /\ Own = {} /\ UNION {Locals(stack[k]) : k \in DOMAIN stack} = {}
  BY <1>1 DEF Edges, Own, OldNodes
<1>3. Forest({e \in Edges : e[1] \in Own}, Own, UNION {Locals(stack[k]) : k \in DOMAIN stack})
  BY <1>2 DEF Forest
<1> QED
  BY <1>1, <1>2, <1>3 DEF TreeInv, Apart

\* TreeInv holds throughout.
LEMMA TreeOwnership == Spec => [](IInv /\ OwnInv /\ TreeInv)
<1>1. IInv /\ OwnInv /\ TreeInv /\ [Next]_vars => (IInv /\ OwnInv /\ TreeInv)'
  BY NextInv, NextOwn, NextTree
<1>2. Init => IInv /\ OwnInv /\ TreeInv
  BY InitInv, InitTree DEF Init, OwnInv
<1> QED
  BY <1>1, <1>2, PTL DEF Spec

-----------------------------------------------------------------------------
(* The finished AST.                                                       *)

\* The nodes of X and their children.
WithChildren(X, E) == X \cup {e[4] : e \in {e \in E : e[1] \in X}}

\* f maps k to the nodes at most k edges below r, for k up to n.
Layers(f, n, r, E) ==
  f = [k \in 0..n |-> IF k = 0 THEN {r}
                      ELSE f[k - 1] \cup {e[4] : e \in {e \in E : e[1] \in f[k - 1]}}]

\* The function below of ASTIsTree exists.
LEMMA LayersExist ==
  ASSUME NEW r, NEW E, NEW n \in Nat
  PROVE  \E f : Layers(f, n, r, E)
<1> DEFINE T == {k \in Nat : ~ \E f : Layers(f, k, r, E)}
<1> SUFFICES ASSUME T # {} PROVE FALSE
  OBVIOUS
<1>1. PICK k \in T : \A m \in T : k <= m
  BY Least
<1>2. CASE k = 0
  <2>1. Layers([m \in 0..0 |-> {r}], 0, r, E)
    BY DEF Layers
  <2> QED
    BY <1>2, <2>1
<1>3. CASE k # 0
  <2>1. k - 1 \in Nat /\ k - 1 \notin T
    BY <1>1, <1>3
  <2>2. PICK f : Layers(f, k - 1, r, E)
    BY <2>1
  <2> DEFINE g == [m \in 0..k |-> IF m = k THEN WithChildren(f[k - 1], E) ELSE f[m]]
  <2>3. \A m \in 0..(k - 1) : f[m] = IF m = 0 THEN {r} ELSE WithChildren(f[m - 1], E)
    BY <2>2 DEF Layers, WithChildren
  <2>4. \A m \in 0..k : g[m] = IF m = 0 THEN {r} ELSE WithChildren(g[m - 1], E)
    <3> TAKE m \in 0..k
    <3>1. CASE m = k
      <4>1. g[m] = WithChildren(f[k - 1], E) /\ g[m - 1] = f[k - 1] /\ m # 0
        BY <1>3, <2>1, <3>1
      <4> QED
        BY <4>1
    <3>2. CASE m # k
      <4>1. g[m] = f[m] /\ m \in 0..(k - 1)
        BY <2>1, <3>2
      <4>2. m # 0 => g[m - 1] = f[m - 1]
        BY <2>1, <3>2
      <4> QED
        BY <2>3, <4>1, <4>2
    <3> QED
      BY <3>1, <3>2
  <2>5. g = [m \in 0..k |-> g[m]]
    OBVIOUS
  <2> HIDE DEF g
  <2>6. Layers(g, k, r, E)
    BY <2>4, <2>5 DEF Layers, WithChildren
  <2> QED
    BY <2>6
<1> QED
  BY <1>2, <1>3

\* Nodes of a tree that have all their children and the root are all nodes.
LEMMA ClosedIsAll ==
  ASSUME NEW E, NEW O, NEW r, Forest(E, O, {r}), NEW X \in SUBSET O, r \in X,
         WithChildren(X, E) = X
  PROVE  X = O
<1> SUFFICES ASSUME O \ X # {} PROVE FALSE
  OBVIOUS
<1>1. PICK n \in O \ X : \A e \in E : e[4] = n => e[1] \notin O \ X
  <2>1. O \ X \in SUBSET O
    OBVIOUS
  <2> QED
    BY <2>1 DEF Forest
<1>2. PICK e \in E : e[4] = n
  BY <1>1 DEF Forest
<1>3. e[1] \in X
  BY <1>1, <1>2 DEF Forest
<1> QED
  BY <1>1, <1>2, <1>3 DEF WithChildren

\* Every node of a tree is at most as many edges below the root as there are
\* other nodes: as long as a layer is not all of them, the next one is larger.
LEMMA LayersReach ==
  ASSUME NEW E, NEW O, NEW r, Forest(E, O, {r}), IsFiniteSet(O),
         NEW n \in Nat, Cardinality(O) <= n + 1, NEW f, Layers(f, n, r, E)
  PROVE  f[n] = O
<1> DEFINE Good(k) == /\ f[k] \subseteq O /\ r \in f[k]
                      /\ f[k] = O \/ Cardinality(f[k]) >= k + 1
           T == {k \in 0..n : ~ Good(k)}
<1>1. f[0] = {r} /\ \A k \in 1..n : f[k] = WithChildren(f[k - 1], E)
  <2>1. f = [k \in 0..n |-> IF k = 0 THEN {r} ELSE WithChildren(f[k - 1], E)]
    BY DEF Layers, WithChildren
  <2>2. 0 \in 0..n /\ \A k \in 1..n : k \in 0..n /\ k # 0
    OBVIOUS
  <2> QED
    BY <2>1, <2>2
<1>2. \A X \in SUBSET O : IsFiniteSet(X) /\ Cardinality(X) \in Nat
  BY FS_Subset, FS_CardinalityType
<1>3. r \in O /\ \A e \in E : e[4] \in O
  BY DEF Forest
<1>4. T = {}
  <2> SUFFICES ASSUME T # {} PROVE FALSE
    OBVIOUS
  <2>1. PICK k \in T : \A m \in T : k <= m
    <3>1. T \subseteq Nat
      OBVIOUS
    <3> HIDE DEF T
    <3> QED
      BY <3>1, Least
  <2>2. CASE k = 0
    <3>1. Cardinality({r}) = 1
      BY FS_Singleton
    <3>2. Good(0)
      BY <1>1, <1>3, <3>1
    <3> QED
      BY <2>2, <3>2
  <2>3. CASE k # 0
    <3>1. PICK X, Y : X = f[k - 1] /\ Y = f[k]
      OBVIOUS
    <3>2. k \in 1..n /\ k - 1 \in 0..n /\ k - 1 \notin T
      BY <2>1, <2>3
    <3>3. Good(k - 1)
      BY <3>2
    <3>4. Y = WithChildren(X, E) /\ X \subseteq O /\ r \in X
          /\ (X = O \/ Cardinality(X) >= k)
      BY <1>1, <3>1, <3>2, <3>3
    <3>5. Y \subseteq O /\ r \in Y /\ X \subseteq Y
      BY <1>3, <3>4 DEF WithChildren
    <3>6. Y = O \/ Cardinality(Y) >= k + 1
      <4>1. CASE X = O
        BY <3>5, <4>1
      <4>2. CASE Y = X
        BY <3>4, <4>2, ClosedIsAll
      <4>3. CASE X # O /\ Y # X
        <5>1. X \in SUBSET Y /\ IsFiniteSet(Y) /\ Cardinality(Y) \in Nat /\ Cardinality(X) \in Nat
          BY <1>2, <3>4, <3>5
        <5>2. Cardinality(X) <= Cardinality(Y) /\ Cardinality(X) # Cardinality(Y)
          BY <4>3, <5>1, FS_Subset
        <5> QED
          BY <3>2, <3>4, <4>3, <5>1, <5>2
      <4> QED
        BY <4>1, <4>2, <4>3
    <3>7. Good(k)
      BY <3>1, <3>5, <3>6
    <3> QED
      BY <3>7
  <2> QED
    BY <2>2, <2>3
<1>5. Good(n)
  BY <1>4
<1>6. f[n] \in SUBSET O /\ Cardinality(f[n]) \in Nat /\ Cardinality(O) \in Nat
  BY <1>2, <1>5
<1>7. Cardinality(f[n]) <= Cardinality(O)
  BY <1>6, FS_Subset
<1>8. f[n] = O \/ Cardinality(f[n]) = Cardinality(O)
  BY <1>5, <1>6, <1>7
<1> QED
  BY <1>6, <1>8, FS_Subset

\* When visitFile is about to return, all that is held is its Program.
LEMMA CompleteHolds ==
  ASSUME IInv, OwnInv, TreeInv, Complete
  PROVE  /\ HeldBy(stack) = {Root} /\ Root = OldNodes + 1 /\ Root \in 1..Len(arena)
         /\ Len(arena) \in Nat
<1>1. /\ stack # << >> /\ Top.now = << >> /\ Top.later = << >> /\ Len(stack) = 1
  BY DEF Complete, Built, Finished, Running
<1>2. /\ DOMAIN stack = 1..Len(stack) /\ Top = stack[1] /\ FileFrame(stack[1], 1)
      /\ Len(arena) \in Nat
      /\ Top.res # 0 => OldNodes = Top.res - 1
  BY <1>1, BottomFacts DEF Bottom
<1>3. Top.res # 0 /\ Top.res \in 0..Len(arena)
  BY <1>1, <1>2 DEF FileFrame, Null, IInv, LocalsOK
<1>4. PICK t \in Done : Flow(Top.now, Local(Top), t)
  BY <1>1, <1>2, TreeParts DEF Careful
<1>5. Local(Top) \in {"holds", "passes"}
  BY <1>1, <1>4, FlowNone DEF Done
<1>6. Locals(Top) = {Top.res}
  BY <1>5, LocalFacts
<1>7. DOMAIN stack = {1}
  BY <1>1, <1>2
<1>8. HeldBy(stack) = Locals(stack[1])
  BY <1>7 DEF HeldBy
<1> QED
  BY <1>2, <1>3, <1>6, <1>8 DEF Root

\* What ASTIsTree says of the edges among the nodes own.
OneTree(edges, own, r, n) ==
  LET below[k \in 0..n] ==
        IF k = 0 THEN {r}
        ELSE LET above == below[k - 1]
             IN  above \cup {e[4] : e \in {e \in edges : e[1] \in above}}
  IN  /\ \A e \in edges : e[1] \in own /\ e[4] \in own \ {r}
      /\ \A m \in own \ {r} : Cardinality({e \in edges : e[4] = m}) = 1
      /\ below[n] = own

LEMMA OneTreeIs ==
  ASSUME OneTree({e \in Edges : e[1] \in Root..Len(arena) \/ e[4] \in Root..Len(arena)},
                 Root..Len(arena), Root, Len(arena))
  PROVE  ASTIsTree
  BY Zenon DEF OneTree, ASTIsTree

\* The forest of the finished AST has one root.
LEMMA FinishedTree ==
  ASSUME IInv, OwnInv, TreeInv
  PROVE  ASTIsTree
<1> SUFFICES ASSUME Complete PROVE ASTIsTree
  BY DEF ASTIsTree
<1>1. PICK r, n, own, E : /\ r = Root /\ n = Len(arena) /\ own = r..n
                          /\ E = {e \in Edges : e[1] \in own}
  OBVIOUS
<1>2. HeldBy(stack) = {r} /\ r = OldNodes + 1 /\ r \in 1..n /\ n \in Nat
  BY <1>1, CompleteHolds
<1>3. OldNodes = r - 1 /\ OldNodes \in Nat
  <2>1. OldNodes \in Nat
    BY OldInArena
  <2> QED
    BY <1>2, <2>1
<1>4. Own = own /\ EdgesOf(arena) = Edges
  BY <1>1, <1>2 DEF Own, Edges, EdgesOf
<1>5. /\ \A e \in Edges : e[1] \notin own => e[4] \in 1..(r - 1)
      /\ Forest(E, own, {r})
  <2>1. Woods(arena, {r}, OldNodes)
    BY <1>2, TreeParts
  <2>2. (OldNodes + 1)..Len(arena) = own
    BY <1>4 DEF Own
  <2> QED
    BY <1>1, <1>3, <1>4, <2>1, <2>2 DEF Woods
<1>6. {e \in Edges : e[1] \in own \/ e[4] \in own} = E
  BY <1>1, <1>2, <1>5
<1>7. \A e \in E : e[1] \in own /\ e[4] \in own \ {r}
  BY <1>5 DEF Forest
<1>8. ASSUME NEW m \in own \ {r} PROVE Cardinality({e \in E : e[4] = m}) = 1
  <2>1. PICK e \in E : e[4] = m
    BY <1>5 DEF Forest
  <2>2. {d \in E : d[4] = m} = {e}
    BY <1>5, <2>1 DEF Forest
  <2> QED
    BY <2>2, FS_Singleton
<1>9. PICK below : below = CHOOSE f : Layers(f, n, r, E)
  OBVIOUS
<1>10. Layers(below, n, r, E)
  BY <1>2, <1>9, LayersExist
<1>11. IsFiniteSet(own) /\ Cardinality(own) <= n + 1
  BY <1>1, <1>2, FS_Interval
<1>12. below[n] = own
  BY <1>2, <1>5, <1>10, <1>11, LayersReach
<1>13. OneTree(E, own, r, n)
  BY <1>7, <1>8, <1>9, <1>12 DEF OneTree, Layers
<1> QED
  BY <1>1, <1>6, <1>13, OneTreeIs

\* Whose nodes a member may still be given: no call of the builder loses or
\* shares a node or writes to another file's, at any point of any run.
THEOREM OwnershipHolds == Spec => []OwnershipInv
<1>1. OwnInv /\ TreeInv => OwnershipInv
  BY DEF OwnershipInv
<1> QED
  BY <1>1, TreeOwnership, PTL

\* The AST that parse() returns is a tree whose root is the Program, whatever
\* the file, and whatever was parsed into the same arena before: every node
\* that was allocated for it is stored in one member of one other of them.
THEOREM ASTIsTreeHolds == Spec => []ASTIsTree
<1>1. IInv /\ OwnInv /\ TreeInv => ASTIsTree
  BY FinishedTree
<1> QED
  BY <1>1, TreeOwnership, PTL
==============================================================================
