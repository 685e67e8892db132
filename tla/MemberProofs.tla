---------------------------- MODULE MemberProofs -----------------------------
(***************************************************************************)
(* A finished AST is what the headers of ast/ declare it to be.  The       *)
(* visitors build a node in steps, across the calls of their children, so  *)
(* MemberInv speaks of the nodes in the making too: it says of every       *)
(* running visitor that what is left of its code ends with a node that     *)
(* lacks nothing, whatever the visitors it has yet to call return, and of  *)
(* the arena that every child is of a class its member may hold and that   *)
(* every node no visitor holds any more lacks nothing.                     *)
(***************************************************************************)
EXTENDS OwnershipProofs, MemberVisitorProofs

-----------------------------------------------------------------------------
(* The arena: every node is sound, every child suits its member, and a     *)
(* node that no call holds any more lacks nothing.                         *)

Settled(a, held) ==
  /\ \A n \in DOMAIN a : Sound(a[n]) /\ Suited(a, n)
  /\ \A n \in DOMAIN a \ held : Whole(View(a[n]))

\* Who holds more nodes promises less.
LEMMA SettledMore ==
  ASSUME NEW a, NEW held, NEW more, held \subseteq more, Settled(a, held)
  PROVE  Settled(a, more)
  BY DEF Settled

\* A node that is held and lacks nothing may be let go.
LEMMA SettledLess ==
  ASSUME NEW a, NEW held, NEW n, Settled(a, held), Whole(View(a[n]))
  PROVE  Settled(a, held \ {n})
  BY DEF Settled

\* No member points to a node that is held.
LEMMA HeldFree ==
  ASSUME NEW a, NEW old \in Nat, NEW held, Woods(a, held, old), NEW p \in DOMAIN a,
         NEW s \in DOMAIN a[p].slots, NEW i \in DOMAIN a[p].slots[s]
  PROVE  a[p].slots[s][i] \notin held
<1>1. PICK e : e = << p, s, i, a[p].slots[s][i] >>
  OBVIOUS
<1>2. e \in EdgesOf(a) /\ e[4] = a[p].slots[s][i]
  BY <1>1, EdgeIn
<1>3. held \subseteq (old + 1)..Len(a)
  BY HeldOwn
<1>4. CASE e[1] \in (old + 1)..Len(a)
  <2>1. e[4] \in ((old + 1)..Len(a)) \ held
    BY <1>2, <1>4 DEF Woods, Forest
  <2> QED
    BY <1>2, <2>1
<1>5. CASE e[1] \notin (old + 1)..Len(a)
  <2>1. e[4] \in 1..old
    BY <1>2, <1>5 DEF Woods
  <2>2. \A x \in held : x > old
    BY <1>3
  <2> QED
    BY <1>2, <2>1, <2>2
<1> QED
  BY <1>4, <1>5

\* Views of children stay as long as the children do.
LEMMA SuitedStays ==
  ASSUME NEW a, NEW b, NEW n, Suited(a, n), b[n] = a[n], DOMAIN a \subseteq DOMAIN b,
         \A s \in DOMAIN a[n].slots : \A i \in DOMAIN a[n].slots[s] :
           View(b[a[n].slots[s][i]]) = View(a[a[n].slots[s][i]])
  PROVE  Suited(b, n)
<1>1. ASSUME NEW s \in DOMAIN a[n].slots, NEW i \in DOMAIN a[n].slots[s]
      PROVE  /\ a[n].slots[s][i] \in DOMAIN b
             /\ Fits(a[n].kind, s, View(b[a[n].slots[s][i]]))
  <2>1. a[n].slots[s][i] \in DOMAIN a /\ Fits(a[n].kind, s, View(a[a[n].slots[s][i]]))
    BY DEF Suited
  <2>2. View(b[a[n].slots[s][i]]) = View(a[a[n].slots[s][i]])
    OBVIOUS
  <2> QED
    BY <2>1, <2>2
<1> QED
  BY <1>1 DEF Suited

\* A node as its constructor leaves it.
LEMMA SettledNew ==
  ASSUME NEW a, IsSeq(a), SlotsOK(a), NEW held, Settled(a, held),
         NEW node, Bare(node), Sound(node), NEW b, b = Append(a, node), NEW id, id = Len(a) + 1
  PROVE  Settled(b, held \cup {id})
<1>1. id = Len(a) + 1
  OBVIOUS
<1>2. /\ Len(b) = id /\ Len(a) \in Nat /\ DOMAIN b = 1..id /\ DOMAIN a = 1..Len(a)
  BY <1>1, AddBare, SeqFacts
<1>3. b[id] = node /\ \A q \in DOMAIN a : b[q] = a[q]
  BY <1>1, AppendSeq
<1>4. DOMAIN b = DOMAIN a \cup {id} /\ id \notin DOMAIN a
  BY <1>1, <1>2
<1>5. ASSUME NEW n \in DOMAIN a PROVE Sound(b[n]) /\ Suited(b, n)
  <2>1. Sound(a[n]) /\ Suited(a, n)
    BY DEF Settled
  <2>2. \A s \in DOMAIN a[n].slots : \A i \in DOMAIN a[n].slots[s] : a[n].slots[s][i] \in DOMAIN a
    BY <2>1 DEF Suited
  <2>3. \A s \in DOMAIN a[n].slots : \A i \in DOMAIN a[n].slots[s] :
          View(b[a[n].slots[s][i]]) = View(a[a[n].slots[s][i]])
    BY <1>3, <2>2
  <2>4. Suited(b, n)
    BY <1>3, <1>4, <2>1, <2>3, SuitedStays
  <2> QED
    BY <1>3, <2>1, <2>4
<1>6. Sound(b[id]) /\ Suited(b, id)
  <2>1. DOMAIN b[id].slots = {}
    BY <1>3 DEF Bare
  <2> QED
    BY <1>3, <2>1 DEF Suited
<1>7. \A n \in DOMAIN b \ (held \cup {id}) : n \in DOMAIN a \ held
  BY <1>4
<1>8. \A n \in DOMAIN b \ (held \cup {id}) : Whole(View(b[n]))
  BY <1>3, <1>7 DEF Settled
<1> QED
  BY <1>1, <1>3, <1>4, <1>5, <1>6, <1>8 DEF Settled

\* The node with a pointer more in a member, and with a visibility.
Filled(m, n, slot, x) == n = [m EXCEPT !.slots = AppendAt(@, slot, x)]
Shown(m, n, vis) == n = [m EXCEPT !.vis = vis]

\* A node that lacks nothing is stored in a member it fits.
LEMMA SettledStore ==
  ASSUME NEW a, NEW old \in Nat, NEW held, Woods(a, held, old), Settled(a, held),
         NEW p \in held, NEW n \in held, p # n, p \in DOMAIN a, n \in DOMAIN a, NEW slot,
         Whole(View(a[n])), Fits(a[p].kind, slot, View(a[n])),
         NEW b, DOMAIN b = DOMAIN a, Filled(a[p], b[p], slot, n),
         \A q \in DOMAIN a : q # p => b[q] = a[q]
  PROVE  Settled(b, held \ {n}) /\ View(b[p]) = More(View(a[p]), slot, 1)
<1>1. Sound(a[p]) /\ Suited(a, p) /\ slot \in MemberNames /\ slot \in DOMAIN MembersOf(a[p].kind)
  BY DEF Settled, Fits
<1>2. /\ DOMAIN a[p] = NodeKeys /\ a[p].kind \in Kinds /\ IsSeq(a[p].ops) /\ "slots" \in DOMAIN a[p]
  BY <1>1 DEF Sound, NodeKeys
<1>3. \A s \in DOMAIN a[p].slots : IsSeq(a[p].slots[s])
  BY DEF Woods, SlotsOK
<1>4. View(b[p]) = More(View(a[p]), slot, 1)
  <2>1. PICK x, y : x = a[p] /\ y = b[p]
    OBVIOUS
  <2>2. y = [x EXCEPT !.slots = AppendAt(@, slot, n)]
    BY <2>1 DEF Filled
  <2>3. View(y) = More(View(x), slot, 1)
    BY <1>1, <1>2, <1>3, <2>1, <2>2, StoredView
  <2> QED
    BY <2>1, <2>3
<1>5. /\ b[p].kind = a[p].kind /\ b[p].ops = a[p].ops /\ b[p].flags = a[p].flags
      /\ b[p].name = a[p].name /\ b[p].vis = a[p].vis /\ DOMAIN b[p] = NodeKeys
      /\ b[p].slots = AppendAt(a[p].slots, slot, n)
  BY <1>2 DEF NodeKeys, Filled
<1>6. Sound(b[p])
  BY <1>1, <1>5 DEF Sound, Legible
<1>7. \A q \in DOMAIN a : \A s \in DOMAIN a[q].slots : \A i \in DOMAIN a[q].slots[s] :
        a[q].slots[s][i] \in DOMAIN a /\ a[q].slots[s][i] # p
  <2> SUFFICES ASSUME NEW q \in DOMAIN a, NEW s \in DOMAIN a[q].slots,
                      NEW i \in DOMAIN a[q].slots[s]
               PROVE  a[q].slots[s][i] \in DOMAIN a /\ a[q].slots[s][i] # p
    OBVIOUS
  <2>1. a[q].slots[s][i] \notin held
    BY HeldFree
  <2>2. a[q].slots[s][i] \in DOMAIN a
    BY DEF Settled, Suited
  <2> QED
    BY <2>1, <2>2
<1>8. ASSUME NEW q \in DOMAIN a, q # p PROVE Sound(b[q]) /\ Suited(b, q)
  <2>1. Sound(a[q]) /\ Suited(a, q)
    BY DEF Settled
  <2>2. \A s \in DOMAIN a[q].slots : \A i \in DOMAIN a[q].slots[s] :
          View(b[a[q].slots[s][i]]) = View(a[a[q].slots[s][i]])
    BY <1>7
  <2>3. b[q] = a[q]
    BY <1>8
  <2>4. Suited(b, q)
    BY <2>1, <2>2, <2>3, SuitedStays
  <2> QED
    BY <2>1, <2>3, <2>4
<1>9. Suited(b, p)
  <2>1. PICK c, d : c = a[p].slots /\ d = b[p].slots
    OBVIOUS
  <2>2. /\ DOMAIN d = DOMAIN c \cup {slot}
        /\ \A s \in DOMAIN c : s # slot => d[s] = c[s]
        /\ slot \in DOMAIN c => d[slot] = Append(c[slot], n)
        /\ slot \notin DOMAIN c => d[slot] = << n >>
    BY <1>5, <2>1 DEF AppendAt
  <2>3. ASSUME NEW s \in DOMAIN d, NEW i \in DOMAIN d[s]
        PROVE  \/ s \in DOMAIN c /\ i \in DOMAIN c[s] /\ d[s][i] = c[s][i]
               \/ s = slot /\ d[s][i] = n
    <3>1. CASE s # slot
      BY <2>2, <3>1
    <3>2. CASE s = slot /\ slot \notin DOMAIN c
      BY <2>2, <3>2
    <3>3. CASE s = slot /\ slot \in DOMAIN c
      <4>1. IsSeq(c[slot]) /\ d[slot] = Append(c[slot], n)
        BY <1>3, <2>1, <2>2, <3>3
      <4>2. PICK u, v : u = c[slot] /\ v = d[slot]
        OBVIOUS
      <4>3. IsSeq(u) /\ v = Append(u, n)
        BY <4>1, <4>2
      <4>4. /\ DOMAIN v = 1..Len(v) /\ Len(v) = Len(u) + 1 /\ DOMAIN u = 1..Len(u) /\ Len(u) \in Nat
            /\ v[Len(u) + 1] = n /\ \A j \in DOMAIN u : v[j] = u[j]
        BY <4>3, AppendSeq, SeqFacts
      <4>5. i \in DOMAIN v
        BY <3>3, <4>2
      <4>6. i \in DOMAIN u \/ i = Len(u) + 1
        BY <4>4, <4>5
      <4> QED
        BY <3>3, <4>2, <4>4, <4>6
    <3> QED
      BY <3>1, <3>2, <3>3
  <2>4. DOMAIN d \subseteq DOMAIN MembersOf(b[p].kind)
    BY <1>1, <1>5, <2>1, <2>2 DEF Suited
  <2>5. ASSUME NEW s \in DOMAIN d, NEW i \in DOMAIN d[s]
        PROVE  d[s][i] \in DOMAIN b /\ Fits(b[p].kind, s, View(b[d[s][i]]))
    <3>1. CASE s \in DOMAIN c /\ i \in DOMAIN c[s] /\ d[s][i] = c[s][i]
      <4>1. c[s][i] \in DOMAIN a /\ Fits(a[p].kind, s, View(a[c[s][i]]))
        BY <1>1, <2>1, <3>1 DEF Suited
      <4>2. c[s][i] # p
        BY <1>7, <2>1, <3>1
      <4>3. b[c[s][i]] = a[c[s][i]]
        BY <4>1, <4>2
      <4> QED
        BY <1>5, <3>1, <4>1, <4>3
    <3>2. CASE s = slot /\ d[s][i] = n
      <4>1. b[n] = a[n]
        OBVIOUS
      <4> QED
        BY <1>5, <3>2, <4>1
    <3> QED
      BY <2>3, <3>1, <3>2
  <2> QED
    BY <2>1, <2>4, <2>5 DEF Suited
<1>10. \A q \in DOMAIN b \ (held \ {n}) : Whole(View(b[q]))
  <2> SUFFICES ASSUME NEW q \in DOMAIN b, q \notin held \ {n} PROVE Whole(View(b[q]))
    OBVIOUS
  <2>1. b[q] = a[q] /\ q \in DOMAIN a
    OBVIOUS
  <2>2. CASE q = n
    BY <2>1, <2>2
  <2>3. CASE q # n
    BY <2>1, <2>3 DEF Settled
  <2> QED
    BY <2>2, <2>3
<1>11. \A q \in DOMAIN b : Sound(b[q]) /\ Suited(b, q)
  BY <1>6, <1>8, <1>9
<1> QED
  BY <1>4, <1>10, <1>11 DEF Settled

\* The visibility of a declaration is no part of any view.
LEMMA SettledVis ==
  ASSUME NEW a, NEW held, Settled(a, held), NEW p \in DOMAIN a,
         a[p].kind \in classof("Declaration"), NEW vis \in DOMAIN getVisibilityName,
         NEW b, DOMAIN b = DOMAIN a, Shown(a[p], b[p], vis),
         \A q \in DOMAIN a : q # p => b[q] = a[q]
  PROVE  Settled(b, held) /\ \A q \in DOMAIN a : View(b[q]) = View(a[q])
<1>1. DOMAIN b = DOMAIN a /\ b[p] = [a[p] EXCEPT !.vis = vis] /\ \A q \in DOMAIN a : q # p => b[q] = a[q]
  BY DEF Shown
<1>2. Sound(a[p]) /\ DOMAIN a[p] = NodeKeys
  BY DEF Settled, Sound
<1>3. /\ b[p].kind = a[p].kind /\ b[p].ops = a[p].ops /\ b[p].flags = a[p].flags
      /\ b[p].name = a[p].name /\ b[p].vis = vis /\ DOMAIN b[p] = NodeKeys
      /\ b[p].slots = a[p].slots
  BY <1>1, <1>2 DEF NodeKeys
<1>4. Sound(b[p])
  BY <1>2, <1>3 DEF Sound, Legible
<1>5. View(b[p]) = View(a[p])
  BY <1>3 DEF View
<1>6. \A q \in DOMAIN a : View(b[q]) = View(a[q])
  BY <1>1, <1>5
<1>7. \A q \in DOMAIN a : b[q].slots = a[q].slots /\ b[q].kind = a[q].kind
  BY <1>1, <1>3
<1>8. ASSUME NEW q \in DOMAIN a PROVE Sound(b[q]) /\ Suited(b, q)
  <2>1. Sound(b[q])
    BY <1>1, <1>4 DEF Settled
  <2>2. Suited(a, q)
    BY DEF Settled
  <2>3. b[q].slots = a[q].slots /\ b[q].kind = a[q].kind
    BY <1>7
  <2>4. ASSUME NEW s \in DOMAIN a[q].slots, NEW i \in DOMAIN a[q].slots[s]
        PROVE  /\ a[q].slots[s][i] \in DOMAIN b
               /\ Fits(a[q].kind, s, View(b[a[q].slots[s][i]]))
    <3>1. a[q].slots[s][i] \in DOMAIN a /\ Fits(a[q].kind, s, View(a[a[q].slots[s][i]]))
      BY <2>2 DEF Suited
    <3> QED
      BY <1>1, <1>6, <3>1
  <2>5. Suited(b, q)
    BY <2>2, <2>3, <2>4 DEF Suited
  <2> QED
    BY <2>1, <2>5
<1> QED
  BY <1>1, <1>6, <1>8 DEF Settled

-----------------------------------------------------------------------------
(* What is left of a call depends on the run by the parse tree alone.      *)

LEMMA PostSame == ASSUME tree' = tree, NEW c PROVE Post(c)' = Post(c)
  BY DEF Post

LEMMA GivenSame == ASSUME tree' = tree, NEW i PROVE Given(i)' = Given(i)
  BY PostSame DEF Given, Post

LEMMA MakesSame == ASSUME tree' = tree, NEW i, NEW s, NEW t PROVE Makes(i, s, t)' = Makes(i, s, t)
<1>1. Given(i)' = Given(i)
  BY GivenSame
<1> QED
  BY <1>1 DEF Makes

LEMMA MakingsSame ==
  ASSUME tree' = tree, NEW code, NEW s, NEW t
  PROVE  Makings(code, s, t)' = Makings(code, s, t)
<1>1. \A i, u, v : Makes(i, u, v)' = Makes(i, u, v)
  BY MakesSame
<1> QED
  BY <1>1 DEF Makings

LEMMA FinalSame == ASSUME tree' = tree, NEW c, NEW s PROVE Final(c, s)' = Final(c, s)
<1>1. Post(c)' = Post(c)
  BY PostSame
<1> QED
  BY <1>1 DEF Final

LEMMA TurnSame == ASSUME tree' = tree, NEW c, NEW code PROVE Turn(c, code)' = Turn(c, code)
<1>1. \A s : Final(c, s)' = Final(c, s)
  BY FinalSame
<1>2. \A s, t : Makings(code, s, t)' = Makings(code, s, t)
  BY MakingsSame
<1> QED
  BY <1>1, <1>2 DEF Turn

LEMMA EndsSame == ASSUME tree' = tree, NEW f, NEW s PROVE Ends(f, s)' = Ends(f, s)
<1>1. \A t : Final(f.ctx, t)' = Final(f.ctx, t)
  BY FinalSame
<1>2. \A t : Makings(f.now, s, t)' = Makings(f.now, s, t)
  BY MakingsSame
<1>3. \A k : Turn(f.ctx, f.later[k])' = Turn(f.ctx, f.later[k])
  BY TurnSame
<1> QED
  BY <1>1, <1>2, <1>3 DEF Ends

LEMMA TypedSame == ASSUME tree' = tree, NEW a, NEW f PROVE Typed(a, f)' = Typed(a, f)
<1>1. \A s : Ends(f, s)' = Ends(f, s)
  BY EndsSame
<1> QED
  BY <1>1 DEF Typed, Matches
-----------------------------------------------------------------------------
(* The calls of the builder.                                               *)

MemberInv ==
  /\ Settled(arena, HeldBy(stack))
  /\ \A k \in DOMAIN stack : Typed(arena, stack[k])

\* They are all there is to it.
LEMMA MemberNext ==
  ASSUME tree' = tree, Settled(arena', HeldBy(stack')),
         \A k \in DOMAIN stack' : Typed(arena', stack'[k])
  PROVE  MemberInv'
<1>1. PICK a, t : a = arena' /\ t = stack'
  OBVIOUS
<1>2. \A k : Typed(a, t[k])' = Typed(a, t[k])
  BY TypedSame
<1>3. \A k \in DOMAIN t : Typed(a, t[k])'
  BY <1>1, <1>2
<1>4. \A k \in DOMAIN stack' : Typed(arena, stack[k])'
  BY <1>1, <1>3
<1>5. Settled(arena, HeldBy(stack))'
  BY DEF Settled, HeldBy
<1> QED
  BY <1>4, <1>5 DEF MemberInv

\* A call whose nodes keep their views.
LEMMA TypedStays ==
  ASSUME NEW a, NEW b, NEW f, Typed(a, f), \A x \in Locals(f) : View(b[x]) = View(a[x])
  PROVE  Typed(b, f)
<1>1. PICK s : Matches(a, f, s) /\ Ends(f, s)
  BY DEF Typed
<1>2. f.res # 0 => f.res \in Locals(f)
  BY LocalFacts
<1>3. Local(f) = "beside" => f.obj \in Locals(f)
  BY LocalFacts
<1>4. Matches(b, f, s)
  BY <1>1, <1>2, <1>3 DEF Matches, Null
<1> QED
  BY <1>1, <1>4 DEF Typed

\* An instruction of a call, and what is left.
LEMMA EndsTail ==
  ASSUME NEW f, NEW s, Ends(f, s), f.now # << >>
  PROVE  \E t : Makes(f.now[1], s, t) /\ \A g : Remains(f, g) => Ends(g, t)
<1>1. PICK u : Final(f.ctx, u) /\ Makings(f.now, s, u)
  BY DEF Ends
<1>2. PICK t : Makes(f.now[1], s, t) /\ Makings(Tail(f.now), t, u)
  BY <1>1, MakingsTail
<1>3. ASSUME NEW g, Remains(f, g) PROVE Ends(g, t)
  <2>1. g.ctx = f.ctx /\ g.now = Tail(f.now) /\ g.later = f.later
    BY <1>3 DEF Remains
  <2>2. IsSeq(f.later) /\ \A k \in DOMAIN f.later : Turn(f.ctx, f.later[k])
    BY DEF Ends
  <2> QED
    BY <1>1, <1>2, <2>1, <2>2 DEF Ends
<1> QED
  BY <1>2, <1>3

\* What calls held and the innermost ones did not is held still.
LEMMA HeldAfter ==
  ASSUME NEW s, NEW t, NEW d, Shifted(s, t, d)
  PROVE  /\ Locals(t[1]) \subseteq HeldBy(t)
         /\ \A x \in HeldBy(s) : x \in HeldBy(t) \/ \E k \in 1..(1 + d) : x \in Locals(s[k])
<1>1. /\ DOMAIN s = 1..Len(s) /\ DOMAIN t = 1..Len(t) /\ Len(s) \in Nat /\ Len(t) \in Nat \ {0}
      /\ d \in {-1, 0, 1} /\ Len(t) + d = Len(s)
      /\ \A k \in 2..Len(t) : t[k] = s[k + d]
  BY DEF Shifted
<1>2. Locals(t[1]) \subseteq HeldBy(t)
  <2>1. 1 \in DOMAIN t
    BY <1>1
  <2> QED
    BY <2>1, HeldFacts
<1>3. ASSUME NEW x \in HeldBy(s), \A k \in 1..(1 + d) : x \notin Locals(s[k])
      PROVE  x \in HeldBy(t)
  <2>1. PICK k \in DOMAIN s : x \in Locals(s[k])
    BY HeldFacts
  <2>2. k \notin 1..(1 + d)
    BY <1>3, <2>1
  <2>3. PICK j : j = k - d
    OBVIOUS
  <2>4. j \in 2..Len(t) /\ j + d = k
    BY <1>1, <2>2, <2>3
  <2>5. t[j] = s[k] /\ j \in DOMAIN t
    BY <1>1, <2>4
  <2> QED
    BY <2>1, <2>5, HeldFacts
<1> QED
  BY <1>2, <1>3

\* Only the innermost call changes, and only nodes of it.
LEMMA CallsTyped ==
  ASSUME NEW s, NEW t, NEW d, Shifted(s, t, d), ApartIn(s), NEW a, NEW b,
         \A k \in DOMAIN s : Typed(a, s[k]), Typed(b, t[1]),
         \A x \in HeldBy(s) : \/ View(b[x]) = View(a[x])
                              \/ \E k \in 1..(1 + d) : x \in Locals(s[k])
  PROVE  \A k \in DOMAIN t : Typed(b, t[k])
<1>1. /\ DOMAIN s = 1..Len(s) /\ DOMAIN t = 1..Len(t) /\ Len(s) \in Nat /\ Len(t) \in Nat \ {0}
      /\ d \in {-1, 0, 1} /\ Len(t) + d = Len(s)
      /\ \A k \in 2..Len(t) : t[k] = s[k + d]
  BY DEF Shifted
<1> SUFFICES ASSUME NEW k \in DOMAIN t, k # 1 PROVE Typed(b, t[k])
  OBVIOUS
<1>2. k \in 2..Len(t)
  BY <1>1
<1>3. PICK j : j = k + d
  OBVIOUS
<1>4. j \in DOMAIN s /\ t[k] = s[j] /\ \A i \in 1..(1 + d) : i \in DOMAIN s /\ i # j
  BY <1>1, <1>2, <1>3
<1>5. \A x \in Locals(s[j]) : View(b[x]) = View(a[x])
  <2> SUFFICES ASSUME NEW x \in Locals(s[j]) PROVE View(b[x]) = View(a[x])
    OBVIOUS
  <2>1. x \in HeldBy(s)
    BY <1>4, HeldFacts
  <2>2. \A i \in 1..(1 + d) : x \notin Locals(s[i])
    BY <1>4 DEF ApartIn
  <2> QED
    BY <2>1, <2>2
<1> QED
  BY <1>4, <1>5, TypedStays

-----------------------------------------------------------------------------
(* The instructions.                                                       *)

\* The builder on its way, as far as the members are concerned.
Building == InBuild /\ MemberInv

\* MemberInv after a step, from its parts.
LEMMA MemberStep ==
  ASSUME Building, NEW d, Shifted(stack, stack', d), NEW H, H \subseteq HeldBy(stack'),
         Settled(arena', H), Typed(arena', stack'[1]),
         \A x \in HeldBy(stack) : \/ View(arena'[x]) = View(arena[x])
                                  \/ \E k \in 1..(1 + d) : x \in Locals(stack[k])
  PROVE  MemberInv'
<1>1. PICK s, t, a, b : s = stack /\ t = stack' /\ a = arena /\ b = arena'
  OBVIOUS
<1>2. ApartIn(s) /\ \A k \in DOMAIN s : Typed(a, s[k])
  BY <1>1, TreeParts DEF Building, InBuild, MemberInv
<1>3. Shifted(s, t, d) /\ Typed(b, t[1])
  BY <1>1
<1>4. \A x \in HeldBy(s) : \/ View(b[x]) = View(a[x])
                           \/ \E k \in 1..(1 + d) : x \in Locals(s[k])
  BY <1>1
<1>5. \A k \in DOMAIN t : Typed(b, t[k])
  BY <1>2, <1>3, <1>4, CallsTyped
<1>6. Settled(b, HeldBy(t))
  BY <1>1, SettledMore
<1> QED
  BY <1>1, <1>5, <1>6, MemberNext DEF Building, InBuild

\* The innermost call makes way for another.
LEMMA TopShifted ==
  ASSUME InBuild, stack # << >>, NEW g, stack' = << g >> \o Tail(stack)
  PROVE  Shifted(stack, stack', 0) /\ stack'[1] = g /\ Top = stack[1] /\ 1 \in DOMAIN stack
<1>1. /\ IsSeq(stack) /\ Len(stack) \in Nat \ {0} /\ DOMAIN stack = 1..Len(stack)
      /\ Top = stack[1]
  BY BottomFacts DEF InBuild
<1>2. Pushed(stack', g, Tail(stack))
  BY DEF Pushed
<1>3. /\ IsSeq(stack') /\ Len(stack') = Len(stack) /\ stack'[1] = g
      /\ \A i \in 2..Len(stack) : stack'[i] = stack[i]
  BY <1>1, <1>2, ReplaceHead
<1>4. PICK s, t : s = stack /\ t = stack'
  OBVIOUS
<1>5. DOMAIN t = 1..Len(t)
  BY <1>3, <1>4, SeqFacts
<1>6. \A k \in 2..Len(t) : t[k] = s[k + 0]
  BY <1>1, <1>3, <1>4
<1>7. 0 \in {-1, 0, 1} /\ Len(t) + 0 = Len(s)
  BY <1>1, <1>3, <1>4
<1>8. Shifted(s, t, 0)
  BY <1>1, <1>3, <1>4, <1>5, <1>6, <1>7 DEF Shifted
<1> QED
  BY <1>1, <1>3, <1>4, <1>8

\* The call after an instruction, with its locals set.
LEMMA AdvanceTop ==
  ASSUME InBuild, stack # << >>, Top.now # << >>, NEW res, NEW obj, Advance(res, obj)
  PROVE  /\ Shifted(stack, stack', 0) /\ Top = stack[1] /\ 1 \in DOMAIN stack
         /\ Head(Top.now) = Top.now[1]
         /\ \E g : Remains(Top, g) /\ g.res = res /\ g.obj = obj /\ stack'[1] = g
<1>1. PICK top, g : top = Top /\ g = [top EXCEPT !.now = Tail(@), !.res = res, !.obj = obj]
  OBVIOUS
<1>2. stack' = << g >> \o Tail(stack)
  BY <1>1 DEF Advance
<1>3. Shifted(stack, stack', 0) /\ stack'[1] = g /\ Top = stack[1] /\ 1 \in DOMAIN stack
  BY <1>2, TopShifted
<1>4. FrameOK(stack[1])
  BY BottomFacts, <1>3 DEF InBuild
<1>5. DOMAIN top = FrameFields
  BY <1>1, <1>3, <1>4 DEF FrameOK
<1>6. /\ g.ctx = top.ctx /\ g.now = Tail(top.now) /\ g.later = top.later
      /\ g.res = res /\ g.obj = obj
  BY <1>1, <1>5 DEF FrameFields
<1>7. Remains(Top, g)
  BY <1>1, <1>6 DEF Remains
<1>8. Head(Top.now) = Top.now[1]
  BY NowFacts DEF InBuild, IInv
<1> QED
  BY <1>3, <1>6, <1>7, <1>8

\* What the next instruction makes of what a call holds.
LEMMA NextMakes ==
  ASSUME Building, NEW k \in DOMAIN stack, stack[k].now # << >>
  PROVE  \E s, t : /\ Matches(arena, stack[k], s) /\ Makes(stack[k].now[1], s, t)
                   /\ \A b, g : Remains(stack[k], g) /\ Matches(b, g, t) => Typed(b, g)
<1>1. PICK f, a : f = stack[k] /\ a = arena
  OBVIOUS
<1>2. PICK s : Matches(a, f, s) /\ Ends(f, s)
  BY <1>1 DEF Building, MemberInv, Typed
<1>3. PICK t : Makes(f.now[1], s, t) /\ \A g : Remains(f, g) => Ends(g, t)
  BY <1>1, <1>2, EndsTail
<1>4. \A b, g : Remains(f, g) /\ Matches(b, g, t) => Typed(b, g)
  BY <1>3 DEF Typed
<1> QED
  BY <1>1, <1>2, <1>3, <1>4

\* What calls hold are nodes of the arena.
LEMMA HeldNodes ==
  ASSUME Building
  PROVE  /\ IsSeq(arena) /\ DOMAIN arena = 1..Len(arena) /\ Len(arena) \in Nat /\ OldNodes \in Nat
         /\ HeldBy(stack) \subseteq DOMAIN arena /\ SlotsOK(arena)
         /\ Woods(arena, HeldBy(stack), OldNodes) /\ Settled(arena, HeldBy(stack))
<1>1. /\ IsSeq(arena) /\ DOMAIN arena = 1..Len(arena) /\ Len(arena) \in Nat
      /\ OldNodes \in 0..Len(arena)
  BY OldInArena DEF Building, InBuild, IInv, LocalsOK
<1>2. Woods(arena, HeldBy(stack), OldNodes) /\ Settled(arena, HeldBy(stack))
  BY TreeParts DEF Building, InBuild, MemberInv
<1>3. HeldBy(stack) \subseteq (OldNodes + 1)..Len(arena) /\ SlotsOK(arena)
  BY <1>2, HeldOwn
<1>4. (OldNodes + 1)..Len(arena) \subseteq 1..Len(arena)
  BY <1>1
<1> QED
  BY <1>1, <1>2, <1>3, <1>4

\* An instruction that leaves the arena alone and keeps the locals.
LEMMA ReportMembers ==
  ASSUME Building, ReportError
  PROVE  MemberInv'
<1>1. /\ stack # << >> /\ Top.now # << >> /\ Head(Top.now).do = "report"
      /\ Advance(Top.res, Top.obj) /\ arena' = arena
  BY DEF ReportError, Executing, Running
<1>2. /\ Shifted(stack, stack', 0) /\ Top = stack[1] /\ 1 \in DOMAIN stack
      /\ Head(Top.now) = Top.now[1]
      /\ \E g : Remains(Top, g) /\ g.res = Top.res /\ g.obj = Top.obj /\ stack'[1] = g
  BY <1>1, AdvanceTop DEF Building
<1>3. PICK g : Remains(Top, g) /\ g.res = Top.res /\ g.obj = Top.obj /\ stack'[1] = g
  BY <1>2
<1>4. PICK s, t : /\ Matches(arena, Top, s) /\ Makes(Top.now[1], s, t)
                  /\ \A b : Remains(Top, g) /\ Matches(b, g, t) => Typed(b, g)
  BY <1>1, <1>2, NextMakes
<1>5. t.at = s.at /\ s.res \subseteq t.res /\ s.obj \subseteq t.obj
  BY <1>1, <1>2, <1>4 DEF Makes
<1>6. Local(g) = Local(Top) /\ Locals(g) = Locals(Top)
  BY <1>3 DEF Local, Locals
<1>7. Matches(arena, g, t)
  BY <1>3, <1>4, <1>5, <1>6 DEF Matches
<1>8. Typed(arena', stack'[1])
  BY <1>1, <1>3, <1>4, <1>7
<1>9. HeldBy(stack) \subseteq HeldBy(stack')
  <2>1. /\ Locals(stack'[1]) \subseteq HeldBy(stack')
        /\ \A x \in HeldBy(stack) :
             x \in HeldBy(stack') \/ \E k \in 1..(1 + 0) : x \in Locals(stack[k])
    BY <1>2, HeldAfter
  <2>2. 1..(1 + 0) = {1}
    OBVIOUS
  <2> QED
    BY <1>2, <1>3, <1>6, <2>1, <2>2
<1> QED
  BY <1>1, <1>2, <1>8, <1>9, HeldNodes, MemberStep

\* A declaration is given its visibility.
LEMMA VisibilityMembers ==
  ASSUME Building, SetVisibility
  PROVE  MemberInv'
<1>1. PICK i, res : i = Head(Top.now) /\ res = Top.res
  OBVIOUS
<1>2. /\ stack # << >> /\ Top.now # << >> /\ i.do = "vis"
      /\ Advance(Top.res, Top.obj) /\ arena' = [arena EXCEPT ![res].vis = i.vis]
  BY <1>1 DEF SetVisibility, Executing, Running
<1>3. /\ Shifted(stack, stack', 0) /\ Top = stack[1] /\ 1 \in DOMAIN stack /\ i = Top.now[1]
      /\ \E g : Remains(Top, g) /\ g.res = Top.res /\ g.obj = Top.obj /\ stack'[1] = g
  BY <1>1, <1>2, AdvanceTop DEF Building
<1>4. PICK g : Remains(Top, g) /\ g.res = Top.res /\ g.obj = Top.obj /\ stack'[1] = g
  BY <1>3
<1>5. PICK s, t : /\ Matches(arena, Top, s) /\ Makes(i, s, t)
                  /\ \A b : Remains(Top, g) /\ Matches(b, g, t) => Typed(b, g)
  BY <1>2, <1>3, NextMakes
<1>6. /\ i.vis \in DOMAIN getVisibilityName /\ s.at \in Done /\ t.at = s.at /\ s.res \subseteq t.res
      /\ \A v \in s.res : v.kind \in classof("Declaration")
  BY <1>2, <1>5 DEF Makes
<1>7. Local(g) = Local(Top) /\ Locals(g) = Locals(Top)
  BY <1>4 DEF Local, Locals
<1>8. res # 0 /\ res \in Locals(Top)
  <2>1. Local(Top) \in {"holds", "passes"}
    BY <1>5, <1>6 DEF Matches, Done
  <2> QED
    BY <1>1, <2>1, LocalFacts
<1>9. res \in DOMAIN arena /\ Locals(Top) \subseteq HeldBy(stack)
  <2>1. Locals(Top) \subseteq HeldBy(stack)
    BY <1>3, HeldFacts
  <2> QED
    BY <1>8, <2>1, HeldNodes
<1>10. arena[res].kind \in classof("Declaration")
  <2>1. View(arena[res]) \in s.res
    BY <1>1, <1>5, <1>8 DEF Matches, Null
  <2>2. View(arena[res]).kind = arena[res].kind
    BY DEF View
  <2> QED
    BY <1>6, <2>1, <2>2
<1>11. PICK a, b, vis : a = arena /\ b = arena' /\ vis = i.vis
  OBVIOUS
<1>12. Settled(b, HeldBy(stack)) /\ \A q \in DOMAIN a : View(b[q]) = View(a[q])
  <2>1. /\ DOMAIN b = DOMAIN a /\ Shown(a[res], b[res], vis) /\ vis \in DOMAIN getVisibilityName
        /\ \A q \in DOMAIN a : q # res => b[q] = a[q]
    BY <1>2, <1>6, <1>9, <1>11 DEF Shown
  <2>2. Settled(a, HeldBy(stack)) /\ res \in DOMAIN a /\ a[res].kind \in classof("Declaration")
    BY <1>9, <1>10, <1>11, HeldNodes
  <2> QED
    BY <2>1, <2>2, SettledVis
<1>13. Matches(b, g, t)
  <2>1. Local(g) = t.at
    BY <1>5, <1>6, <1>7 DEF Matches
  <2>2. t.at # "beside"
    BY <1>6 DEF Done
  <2>3. View(b[g.res]) = View(a[res]) /\ View(a[res]) \in s.res
    BY <1>1, <1>4, <1>5, <1>8, <1>9, <1>11, <1>12 DEF Matches, Null
  <2> QED
    BY <1>6, <2>1, <2>2, <2>3 DEF Matches
<1>14. Typed(arena', stack'[1])
  BY <1>4, <1>5, <1>11, <1>13
<1>15. HeldBy(stack) \subseteq HeldBy(stack')
  <2>1. /\ Locals(stack'[1]) \subseteq HeldBy(stack')
        /\ \A x \in HeldBy(stack) :
             x \in HeldBy(stack') \/ \E k \in 1..(1 + 0) : x \in Locals(stack[k])
    BY <1>3, HeldAfter
  <2>2. 1..(1 + 0) = {1}
    OBVIOUS
  <2> QED
    BY <1>3, <1>4, <1>7, <2>1, <2>2
<1>16. \A x \in HeldBy(stack) : View(arena'[x]) = View(arena[x])
  BY <1>11, <1>12, HeldNodes
<1>17. Settled(arena', HeldBy(stack))
  BY <1>11, <1>12
<1> QED
  BY <1>3, <1>14, <1>15, <1>16, <1>17, MemberStep

\* Another turn of a loop goes on with what the last one held.
LEMMA IterationMembers ==
  ASSUME Building, NextIteration
  PROVE  MemberInv'
<1>1. PICK top, g : /\ top = Top
                    /\ g = [top EXCEPT !.now = Head(top.later), !.later = Tail(@)]
  OBVIOUS
<1>2. /\ stack # << >> /\ top.now = << >> /\ top.later # << >> /\ arena' = arena
      /\ stack' = << g >> \o Tail(stack)
  BY <1>1 DEF NextIteration, Running
<1>3. Shifted(stack, stack', 0) /\ stack'[1] = g /\ top = stack[1] /\ 1 \in DOMAIN stack
  BY <1>1, <1>2, TopShifted DEF Building
<1>4. /\ g.ctx = top.ctx /\ g.now = Head(top.later) /\ g.later = Tail(top.later)
      /\ g.res = top.res /\ g.obj = top.obj
  <2>1. FrameOK(top)
    BY <1>2, <1>3, BottomFacts DEF Building, InBuild
  <2>2. DOMAIN top = FrameFields
    BY <2>1 DEF FrameOK
  <2> QED
    BY <1>1, <2>2 DEF FrameFields
<1>5. Local(g) = Local(top) /\ Locals(g) = Locals(top)
  BY <1>4 DEF Local, Locals
<1>6. PICK s : Matches(arena, top, s) /\ Ends(top, s)
  BY <1>3 DEF Building, MemberInv, Typed
<1>7. PICK u : Final(top.ctx, u) /\ Makings(top.now, s, u)
  BY <1>6 DEF Ends
<1>8. u = s
  BY <1>2, <1>7, MakingsEnd
<1>9. IsSeq(top.later) /\ \A k \in DOMAIN top.later : Turn(top.ctx, top.later[k])
  BY <1>6 DEF Ends
<1>10. /\ IsSeq(Tail(top.later)) /\ Head(top.later) = top.later[1] /\ 1 \in DOMAIN top.later
       /\ \A k \in DOMAIN Tail(top.later) :
            k + 1 \in DOMAIN top.later /\ Tail(top.later)[k] = top.later[k + 1]
  BY <1>2, <1>9, TailSeq
<1>11. Turn(top.ctx, top.later[1])
  BY <1>9, <1>10
<1>12. PICK t : Final(top.ctx, t) /\ Makings(top.later[1], s, t)
  BY <1>7, <1>8, <1>11 DEF Turn
<1>13. \A k \in DOMAIN g.later : Turn(g.ctx, g.later[k])
  BY <1>4, <1>9, <1>10
<1>14. Ends(g, s)
  BY <1>4, <1>10, <1>12, <1>13 DEF Ends
<1>15. Matches(arena, g, s)
  BY <1>4, <1>5, <1>6 DEF Matches
<1>16. Typed(arena', stack'[1])
  BY <1>2, <1>3, <1>14, <1>15 DEF Typed
<1>17. HeldBy(stack) \subseteq HeldBy(stack')
  <2>1. /\ Locals(stack'[1]) \subseteq HeldBy(stack')
        /\ \A x \in HeldBy(stack) :
             x \in HeldBy(stack') \/ \E k \in 1..(1 + 0) : x \in Locals(stack[k])
    BY <1>3, HeldAfter
  <2>2. 1..(1 + 0) = {1}
    OBVIOUS
  <2> QED
    BY <1>3, <1>5, <2>1, <2>2
<1> QED
  BY <1>2, <1>3, <1>16, <1>17, HeldNodes, MemberStep

\* The node beside the result is attached to it.
LEMMA AttachMembers ==
  ASSUME Building, AttachSub
  PROVE  MemberInv'
<1>1. PICK i, res, obj, old : i = Head(Top.now) /\ res = Top.res /\ obj = Top.obj /\ old = OldNodes
  OBVIOUS
<1>2. /\ stack # << >> /\ Top.now # << >> /\ i.do = "attach"
      /\ arena' = [arena EXCEPT ![res].slots = AppendAt(@, i.slot, obj)] /\ Advance(res, res)
  BY <1>1 DEF AttachSub, Executing, Running
<1>3. /\ Shifted(stack, stack', 0) /\ Top = stack[1] /\ 1 \in DOMAIN stack /\ i = Top.now[1]
      /\ \E g : Remains(Top, g) /\ g.res = res /\ g.obj = res /\ stack'[1] = g
  BY <1>1, <1>2, AdvanceTop DEF Building
<1>4. PICK g : Remains(Top, g) /\ g.res = res /\ g.obj = res /\ stack'[1] = g
  BY <1>3
<1>5. PICK s, t : /\ Matches(arena, Top, s) /\ Makes(i, s, t)
                  /\ \A b : Remains(Top, g) /\ Matches(b, g, t) => Typed(b, g)
  BY <1>2, <1>3, NextMakes
<1>6. s.at = "beside" /\ t.at = "holds" /\ Accepts(s.res, i.slot, s.obj, t.res)
  BY <1>2, <1>5 DEF Makes
<1>7. res # 0 /\ obj # 0 /\ res # obj /\ Locals(Top) = {res, obj}
  BY <1>1, <1>5, <1>6, LocalFacts DEF Matches
<1>8. PICK a, b, held : a = arena /\ b = arena' /\ held = HeldBy(stack)
  OBVIOUS
<1>9. /\ old \in Nat /\ Woods(a, held, old) /\ Settled(a, held) /\ res \in held /\ obj \in held
      /\ res \in DOMAIN a /\ obj \in DOMAIN a
  <2>1. Locals(Top) \subseteq held
    BY <1>3, <1>8, HeldFacts
  <2> QED
    BY <1>1, <1>7, <1>8, <2>1, HeldNodes
<1>10. View(a[res]) \in s.res /\ View(a[obj]) \in s.obj /\ View(a[res]).kind = a[res].kind
  <2>1. View(a[res]).kind = a[res].kind
    BY DEF View
  <2> QED
    BY <1>1, <1>5, <1>6, <1>7, <1>8, <2>1 DEF Matches, Null
<1>11. /\ Whole(View(a[obj])) /\ Fits(a[res].kind, i.slot, View(a[obj]))
       /\ More(View(a[res]), i.slot, 1) \in t.res
  BY <1>6, <1>10 DEF Accepts
<1>12. PICK slot : slot = i.slot
  OBVIOUS
<1>13. DOMAIN b = DOMAIN a /\ Filled(a[res], b[res], slot, obj)
       /\ \A q \in DOMAIN a : q # res => b[q] = a[q]
  BY <1>2, <1>8, <1>9, <1>12 DEF Filled
<1>14. Settled(b, held \ {obj}) /\ View(b[res]) = More(View(a[res]), slot, 1)
  BY <1>7, <1>9, <1>11, <1>12, <1>13, SettledStore
<1>15. Local(g) = "holds" /\ Locals(g) = {res}
  BY <1>4, <1>7, LocalFacts
<1>16. Matches(b, g, t)
  BY <1>4, <1>6, <1>11, <1>12, <1>14, <1>15 DEF Matches
<1>17. Typed(arena', stack'[1])
  BY <1>4, <1>5, <1>8, <1>16
<1>18. 1..(1 + 0) = {1}
  OBVIOUS
<1>19. held \ {obj} \subseteq HeldBy(stack')
  <2>1. /\ Locals(stack'[1]) \subseteq HeldBy(stack')
        /\ \A x \in HeldBy(stack) :
             x \in HeldBy(stack') \/ \E k \in 1..(1 + 0) : x \in Locals(stack[k])
    BY <1>3, HeldAfter
  <2> QED
    BY <1>3, <1>4, <1>7, <1>8, <1>15, <1>18, <2>1
<1>20. \A x \in HeldBy(stack) : \/ View(arena'[x]) = View(arena[x])
                                \/ \E k \in 1..(1 + 0) : x \in Locals(stack[k])
  <2>1. \A x \in HeldBy(stack) : x # res => View(arena'[x]) = View(arena[x])
    BY <1>8, <1>13, HeldNodes
  <2> QED
    BY <1>3, <1>7, <1>18, <2>1
<1> QED
  BY <1>3, <1>8, <1>14, <1>17, <1>19, <1>20, MemberStep

\* A node that is allocated.
LEMMA AllocateMembers ==
  ASSUME Building, Allocate
  PROVE  MemberInv'
<1>1. PICK i, id, res, top, a, b, held, old :
        /\ i = Head(Top.now) /\ id = Len(arena) + 1 /\ top = Top
        /\ res = (IF i.do = "sub" THEN Top.res ELSE id)
        /\ a = arena /\ b = arena' /\ held = HeldBy(stack) /\ old = OldNodes
  OBVIOUS
<1>2. PICK node : node = IF i.do = "wrap"
                         THEN [i.node EXCEPT !.slots = AppendAt(@, i.slot, top.res)] ELSE i.node
  OBVIOUS
<1>3. /\ stack # << >> /\ Top.now # << >> /\ i.do \in {"new", "sub", "wrap"}
      /\ b = Append(a, node) /\ Advance(res, id)
  BY <1>1, <1>2 DEF Allocate, Executing, Running
<1>4. /\ Shifted(stack, stack', 0) /\ top = stack[1] /\ 1 \in DOMAIN stack /\ i = top.now[1]
      /\ \E g : Remains(top, g) /\ g.res = res /\ g.obj = id /\ stack'[1] = g
  BY <1>1, <1>3, AdvanceTop DEF Building
<1>5. PICK g : Remains(top, g) /\ g.res = res /\ g.obj = id /\ stack'[1] = g
  BY <1>4
<1>6. PICK s, t : /\ Matches(a, top, s) /\ Makes(i, s, t)
                  /\ \A c : Remains(top, g) /\ Matches(c, g, t) => Typed(c, g)
  BY <1>1, <1>3, <1>4, NextMakes
<1>7. /\ IsSeq(a) /\ DOMAIN a = 1..Len(a) /\ Len(a) \in Nat /\ SlotsOK(a) /\ old \in 0..Len(a)
      /\ Woods(a, held, old) /\ Settled(a, held) /\ held \subseteq DOMAIN a
  <2>1. OldNodes \in 0..Len(arena)
    BY OldInArena DEF Building, InBuild
  <2> QED
    BY <1>1, <2>1, HeldNodes
<1>8. id = Len(a) + 1 /\ id # 0 /\ id \notin held /\ id \notin DOMAIN a
  BY <1>1, <1>7
<1>9. Locals(top) \subseteq held
  BY <1>1, <1>4, HeldFacts
<1>10. 1..(1 + 0) = {1}
  OBVIOUS
<1>11. /\ Locals(g) \subseteq HeldBy(stack')
       /\ \A x \in held : x \in HeldBy(stack') \/ x \in Locals(top)
  <2>1. /\ Locals(stack'[1]) \subseteq HeldBy(stack')
        /\ \A x \in HeldBy(stack) :
             x \in HeldBy(stack') \/ \E k \in 1..(1 + 0) : x \in Locals(stack[k])
    BY <1>4, HeldAfter
  <2> QED
    BY <1>1, <1>4, <1>5, <1>10, <2>1
<1>12. ASSUME NEW H, H \subseteq HeldBy(stack'), Settled(b, H), Matches(b, g, t)
       PROVE  MemberInv'
  <2>1. Typed(arena', stack'[1])
    BY <1>1, <1>5, <1>6, <1>12
  <2>2. \A x \in HeldBy(stack) : View(arena'[x]) = View(arena[x])
    <3>1. \A x \in DOMAIN a : b[x] = a[x]
      BY <1>3, <1>7
    <3> QED
      BY <1>1, <1>7, <3>1
  <2>3. H \subseteq HeldBy(stack') /\ Settled(arena', H)
    BY <1>1, <1>12
  <2> QED
    BY <1>4, <2>1, <2>2, <2>3, MemberStep
<1>13. CASE i.do = "new"
  <2>1. /\ Bare(i.node) /\ Sound(i.node) /\ s.at = "empty" /\ t.at = "holds"
        /\ View(i.node) \in t.res
    BY <1>6, <1>13 DEF Makes
  <2>2. Locals(top) = {} /\ res = id /\ node = i.node
    <3>1. Local(top) = "empty"
      BY <1>6, <2>1 DEF Matches
    <3> QED
      BY <1>1, <1>2, <1>13, <3>1, LocalFacts
  <2>3. Local(g) = "holds" /\ Locals(g) = {id}
    BY <1>5, <1>8, <2>2, LocalFacts
  <2>4. Settled(b, held \cup {id}) /\ b[id] = i.node
    <3>1. Bare(node) /\ Sound(node) /\ b = Append(a, node) /\ id = Len(a) + 1
      BY <1>3, <1>8, <2>1, <2>2
    <3>2. IsSeq(a) /\ SlotsOK(a) /\ Settled(a, held)
      BY <1>7
    <3>3. Settled(b, held \cup {id})
      BY <3>1, <3>2, SettledNew
    <3>4. b[id] = node /\ \A q \in DOMAIN a : b[q] = a[q]
      BY <1>7, <3>1
    <3> QED
      BY <2>2, <3>3, <3>4
  <2>5. held \cup {id} \subseteq HeldBy(stack')
    BY <1>11, <2>2, <2>3
  <2>6. Matches(b, g, t)
    BY <1>5, <2>1, <2>2, <2>3, <2>4 DEF Matches
  <2> QED
    BY <1>12, <2>4, <2>5, <2>6
<1>14. CASE i.do = "sub"
  <2>1. /\ Bare(i.node) /\ Sound(i.node) /\ s.at = "holds" /\ t.at = "beside"
        /\ s.res \subseteq t.res /\ View(i.node) \in t.obj
    BY <1>6, <1>14 DEF Makes
  <2>2. top.res # 0 /\ Locals(top) = {top.res} /\ res = top.res /\ node = i.node
    <3>1. Local(top) = "holds"
      BY <1>6, <2>1 DEF Matches
    <3> QED
      BY <1>1, <1>2, <1>14, <3>1, LocalFacts
  <2>3. top.res \in DOMAIN a /\ top.res # id
    BY <1>7, <1>8, <1>9, <2>2
  <2>4. Local(g) = "beside" /\ Locals(g) = {top.res, id}
    BY <1>5, <1>8, <2>2, <2>3, LocalFacts
  <2>5. Settled(b, held \cup {id}) /\ b[id] = i.node /\ \A q \in DOMAIN a : b[q] = a[q]
    <3>1. Bare(node) /\ Sound(node) /\ b = Append(a, node) /\ id = Len(a) + 1
      BY <1>3, <1>8, <2>1, <2>2
    <3>2. IsSeq(a) /\ SlotsOK(a) /\ Settled(a, held)
      BY <1>7
    <3>3. Settled(b, held \cup {id})
      BY <3>1, <3>2, SettledNew
    <3>4. b[id] = node /\ \A q \in DOMAIN a : b[q] = a[q]
      BY <1>7, <3>1
    <3> QED
      BY <2>2, <3>3, <3>4
  <2>6. held \cup {id} \subseteq HeldBy(stack')
    BY <1>11, <2>2, <2>4
  <2>7. View(a[top.res]) \in s.res
    BY <1>6, <2>2 DEF Matches, Null
  <2>8. Matches(b, g, t)
    BY <1>5, <2>1, <2>2, <2>3, <2>4, <2>5, <2>7 DEF Matches
  <2> QED
    BY <1>12, <2>5, <2>6, <2>8
<1>15. CASE i.do = "wrap"
  <2>1. /\ Bare(i.node) /\ Sound(i.node) /\ s.at \in Done /\ t.at = "holds"
        /\ Accepts({View(i.node)}, i.slot, s.res, t.res)
    BY <1>6, <1>15 DEF Makes
  <2>2. PICK child, slot, bare : child = top.res /\ slot = i.slot /\ bare = i.node
    OBVIOUS
  <2>3. child # 0 /\ Locals(top) = {child} /\ res = id
    <3>1. Local(top) \in {"holds", "passes"}
      BY <1>6, <2>1 DEF Matches, Done
    <3> QED
      BY <1>1, <1>15, <2>2, <3>1, LocalFacts
  <2>4. child \in DOMAIN a /\ child # id /\ child \in held
    BY <1>7, <1>8, <1>9, <2>3
  <2>5. View(a[child]) \in s.res
    BY <1>6, <2>2, <2>3 DEF Matches, Null
  <2>6. /\ Whole(View(a[child])) /\ Fits(View(bare).kind, slot, View(a[child]))
        /\ More(View(bare), slot, 1) \in t.res
    BY <2>1, <2>2, <2>5 DEF Accepts
  <2>7. PICK mid : mid = Append(a, bare)
    OBVIOUS
  <2>8. Settled(mid, held \cup {id}) /\ mid[id] = bare /\ \A q \in DOMAIN a : mid[q] = a[q]
    <3>1. Bare(bare) /\ Sound(bare) /\ mid = Append(a, bare) /\ id = Len(a) + 1
      BY <1>3, <1>8, <2>1, <2>2, <2>7
    <3>2. IsSeq(a) /\ SlotsOK(a) /\ Settled(a, held)
      BY <1>7
    <3>3. Settled(mid, held \cup {id})
      BY <3>1, <3>2, SettledNew
    <3>4. mid[id] = bare /\ \A q \in DOMAIN a : mid[q] = a[q]
      BY <1>7, <3>1
    <3> QED
      BY <2>2, <3>3, <3>4
  <2>9. Woods(mid, held \cup {id}, old)
    BY <1>7, <1>8, <2>1, <2>2, <2>7, WoodsNew
  <2>10. Filled(bare, node, slot, child)
    BY <1>2, <1>15, <2>2 DEF Filled
  <2>11. /\ DOMAIN mid = 1..id /\ DOMAIN b = 1..id /\ b[id] = node
         /\ \A q \in DOMAIN a : b[q] = a[q]
    <3>1. DOMAIN mid = 1..id
      BY <1>7, <1>8, <2>7
    <3> QED
      BY <1>3, <1>7, <1>8, <3>1
  <2>12. DOMAIN b = DOMAIN mid /\ \A q \in DOMAIN mid : q # id => b[q] = mid[q]
    <3>1. \A q \in 1..id : q # id => q \in DOMAIN a
      BY <1>7, <1>8
    <3> QED
      BY <2>8, <2>11, <3>1
  <2>13. mid[child] = a[child] /\ mid[id] = bare /\ View(bare).kind = bare.kind
    <3>1. View(bare).kind = bare.kind
      BY DEF View
    <3> QED
      BY <2>4, <2>8, <3>1
  <2>14. PICK more : more = held \cup {id}
    OBVIOUS
  <2>15. /\ id \in more /\ child \in more /\ id # child /\ id \in DOMAIN mid /\ child \in DOMAIN mid
         /\ Woods(mid, more, old) /\ Settled(mid, more) /\ old \in Nat
    <3>1. id \in DOMAIN mid /\ child \in DOMAIN mid
      BY <1>7, <1>8, <2>4, <2>11
    <3> QED
      BY <1>7, <2>4, <2>8, <2>9, <2>14, <3>1
  <2>16. /\ Whole(View(mid[child])) /\ Fits(mid[id].kind, slot, View(mid[child]))
         /\ Filled(mid[id], b[id], slot, child)
    BY <2>6, <2>10, <2>11, <2>13
  <2>17. Settled(b, more \ {child}) /\ View(b[id]) = More(View(mid[id]), slot, 1)
    BY <2>12, <2>15, <2>16, SettledStore
  <2>18. Local(g) = "holds" /\ Locals(g) = {id}
    BY <1>5, <1>8, <2>3, LocalFacts
  <2>19. more \ {child} \subseteq HeldBy(stack')
    BY <1>11, <2>3, <2>14, <2>18
  <2>20. Matches(b, g, t)
    BY <1>5, <2>1, <2>3, <2>6, <2>13, <2>17, <2>18 DEF Matches
  <2> QED
    BY <1>12, <2>17, <2>19, <2>20
<1> QED
  BY <1>3, <1>13, <1>14, <1>15

-----------------------------------------------------------------------------
(* Calls and returns.                                                      *)

\* A call at its first instruction.
LEMMA FreshTyped ==
  ASSUME TreeDone, NEW c \in DOMAIN tree, Answer(tree[c].sym) # "empty", NEW f, f = Frame(c),
         NEW a
  PROVE  Typed(a, f) /\ Locals(f) = {}
<1>1. PICK v : v = Visit(c)
  OBVIOUS
<1>2. f.ctx = c /\ f.now = v.code[1] /\ f.later = Tail(v.code) /\ f.res = 0 /\ f.obj = 0
  BY <1>1 DEF Frame, Null
<1>3. /\ IsSeq(v.code) /\ v.code # << >>
      /\ \E t : Final(c, t) /\ Makings(v.code[1], Start, t)
      /\ \A k \in DOMAIN v.code : k # 1 => Turn(c, v.code[k])
  BY <1>1, AnyVisitWhole DEF VisitWhole
<1>4. /\ IsSeq(Tail(v.code))
      /\ \A k \in DOMAIN Tail(v.code) :
           k \in Nat \ {0} /\ k + 1 \in DOMAIN v.code /\ Tail(v.code)[k] = v.code[k + 1]
  BY <1>3, TailSeq
<1>5. \A k \in DOMAIN f.later : Turn(f.ctx, f.later[k])
  <2> SUFFICES ASSUME NEW k \in DOMAIN f.later PROVE Turn(f.ctx, f.later[k])
    OBVIOUS
  <2>1. k + 1 \in DOMAIN v.code /\ k + 1 # 1 /\ f.later[k] = v.code[k + 1]
    BY <1>2, <1>4
  <2> QED
    BY <1>2, <1>3, <2>1
<1>6. Ends(f, Start)
  BY <1>2, <1>3, <1>4, <1>5 DEF Ends
<1>7. Local(f) = "empty" /\ Locals(f) = {}
  BY <1>2, LocalFacts
<1>8. Matches(a, f, Start)
  BY <1>2, <1>7 DEF Matches, Start, Stage, Null
<1> QED
  BY <1>6, <1>7, <1>8 DEF Typed

\* A node that a visitor returns is one its caller may be given.
LEMMA PostGiven ==
  ASSUME NEW i, NEW x, i.child = x, Answer(tree[x].sym) # "empty",
         i.as = "any" \/ i.as = Answer(tree[x].sym)
  PROVE  Post(x) \subseteq Given(i)
<1>1. CASE i.as = "any"
  BY <1>1 DEF Given
<1>2. CASE i.as # "any"
  <2>1. PICK sym : sym = tree[x].sym
    OBVIOUS
  <2>2. Yields(sym) \subseteq classof(i.as) /\ (sym = "ifStmt" => Yields(sym) = {"IfStmt"})
    BY <1>2, <2>1, YieldsClass
  <2> QED
    BY <1>2, <2>1, <2>2 DEF Given, Post
<1> QED
  BY <1>1, <1>2

\* The context that a call is about to visit.
LEMMA ChildAnswers ==
  ASSUME Building, NEW k \in DOMAIN stack, stack[k].now # << >>, stack[k].now[1].do = "get"
  PROVE  LET i == stack[k].now[1]
         IN  /\ i.child \in DOMAIN tree /\ Answer(tree[i.child].sym) # "empty"
             /\ i.as = "any" \/ i.as = Answer(tree[i.child].sym)
<1>1. PICK f, i : f = stack[k] /\ i = f.now[1]
  OBVIOUS
<1>2. FrameOK(f) /\ Careful(f)
  BY <1>1 DEF Building, InBuild, IInv, CallsOK, TreeInv
<1>3. PICK b \in States : Moves(i, Local(f), b)
  BY <1>1, <1>2, CarefulMoves
<1>4. i.as # "empty"
  BY <1>1, <1>3, MovesFacts
<1>5. PICK answer : answer = Answer(tree[f.ctx].sym)
  OBVIOUS
<1>6. CASE CodeOK(f.now)
  <2>1. InstrOK(i)
    BY <1>1, <1>6, TailSeq DEF CodeOK
  <2> QED
    BY <1>1, <1>4, <2>1 DEF InstrOK, IsChild
<1>7. CASE Forwarding(f.any, f.now, f.later, answer)
  <2>1. PICK x : x = i.child
    OBVIOUS
  <2>2. f.now = << Get("any", x, Result) >> /\ IsChild(x, answer)
    BY <1>1, <1>7, <2>1 DEF Forwarding
  <2>3. i = Get("any", x, Result)
    BY <1>1, <2>2
  <2>4. i.as = "any"
    BY <2>3 DEF Get
  <2>5. answer # "empty"
    BY <1>2, <1>5 DEF Careful
  <2> QED
    BY <1>1, <2>1, <2>2, <2>4, <2>5 DEF IsChild
<1> QED
  BY <1>2, <1>5, <1>6, <1>7 DEF FrameOK

\* visit(child): the new call is at its first instruction.
LEMMA CallMembers ==
  ASSUME Building, Call
  PROVE  MemberInv'
<1>1. PICK i, child, g, s, t :
        /\ i = Head(Top.now) /\ child = i.child /\ g = Frame(child) /\ s = stack /\ t = stack'
  OBVIOUS
<1>2. /\ s # << >> /\ Top.now # << >> /\ i.do = "get" /\ arena' = arena
      /\ child # Null => t = << g >> \o s
  BY <1>1 DEF Call, Executing, Running
<1>3. /\ IsSeq(s) /\ Len(s) \in Nat \ {0} /\ DOMAIN s = 1..Len(s) /\ Top = s[1]
      /\ 1 \in DOMAIN s
  BY <1>1, <1>2, BottomFacts DEF Building, InBuild
<1>4. i = Top.now[1]
  BY <1>1, <1>2, NowFacts DEF Building, InBuild, IInv
<1>5. child \in DOMAIN tree /\ Answer(tree[child].sym) # "empty"
  BY <1>1, <1>2, <1>3, <1>4, ChildAnswers
<1>6. TreeTyped /\ TreeDone
  BY TreeComplete DEF Building, InBuild, IInv, ErrorBars, WorkOK
<1>7. child # 0
  BY <1>5, <1>6, SeqFacts DEF TreeTyped
<1>8. Typed(arena', g)
  BY <1>1, <1>5, <1>6, FreshTyped
<1>9. /\ Len(t) = Len(s) + 1 /\ DOMAIN t = 1..(Len(s) + 1) /\ t[1] = g
       /\ \A k \in DOMAIN s : t[k + 1] = s[k]
  <2>1. Pushed(t, g, s)
    BY <1>2, <1>7 DEF Pushed, Null
  <2> QED
    BY <1>3, <2>1, PushSeq
<1>10. Shifted(s, t, -1)
  <2>1. ASSUME NEW k \in 2..Len(t) PROVE t[k] = s[k + (-1)]
    <3>1. k + (-1) \in DOMAIN s /\ (k + (-1)) + 1 = k
      BY <1>3, <1>9
    <3> QED
      BY <1>9, <3>1
  <2>2. /\ DOMAIN s = 1..Len(s) /\ DOMAIN t = 1..Len(t) /\ Len(s) \in Nat /\ Len(t) \in Nat \ {0}
        /\ Len(t) + (-1) = Len(s)
    BY <1>3, <1>9
  <2> QED
    BY <2>1, <2>2 DEF Shifted
<1>11. HeldBy(s) \subseteq HeldBy(t)
  <2>1. \A x \in HeldBy(s) : x \in HeldBy(t) \/ \E k \in 1..(1 + (-1)) : x \in Locals(s[k])
    BY <1>10, HeldAfter
  <2>2. 1..(1 + (-1)) = {}
    OBVIOUS
  <2> QED
    BY <2>1, <2>2
<1>12. Shifted(stack, stack', -1) /\ HeldBy(stack) \subseteq HeldBy(stack')
       /\ Typed(arena', stack'[1]) /\ Settled(arena', HeldBy(stack))
  BY <1>1, <1>2, <1>8, <1>9, <1>10, <1>11, HeldNodes
<1> QED
  BY <1>2, <1>12, MemberStep

\* A return: the caller takes over the node of the call, or stores it in a
\* member of the node it fills; either way it lacks nothing.
LEMMA ReturnMembers ==
  ASSUME Building, Return, UNCHANGED << phase, program >>
  PROVE  MemberInv'
<1>1. PICK top, caller, i, s, t, x :
        /\ top = Top /\ caller = Caller /\ i = caller.now[1] /\ s = stack /\ t = stack'
        /\ x = top.res
  OBVIOUS
<1>2. /\ crash = "none" /\ s # << >> /\ top.now = << >> /\ top.later = << >> /\ Len(s) > 1
  BY <1>1 DEF Return, Finished, Running
<1>3. /\ IsSeq(s) /\ Len(s) \in Nat \ {0} /\ DOMAIN s = 1..Len(s) /\ top = s[1]
      /\ caller = s[2] /\ 1 \in DOMAIN s /\ 2 \in DOMAIN s /\ FrameOK(caller)
  BY <1>1, <1>2, BottomFacts DEF Building, InBuild, Caller
<1>4. /\ caller.now # << >> /\ Head(caller.now) = i /\ i.do = "get" /\ DOMAIN caller = FrameFields
      /\ i.child = top.ctx
  <2>1. Awaits(s[1 + 1], s[1])
    BY <1>1, <1>2, <1>3 DEF Building, InBuild, IInv, CallsOK
  <2>2. IsSeq(caller.now) /\ DOMAIN caller = FrameFields
    BY <1>3 DEF FrameOK, Forwarding, CodeOK, IsSeq
  <2> QED
    BY <1>1, <1>3, <2>1, <2>2, TailSeq DEF Awaits
<1>5. PICK g : Resumed(caller, g, i, top.res, top.any)
  BY DEF Resumed
<1>6. i.as \in {"any", top.any}
  <2>1. crash' = "none"
    BY ReturnInv DEF Building, InBuild, IInv
  <2> QED
    BY <1>1, <1>4, <2>1 DEF Return
<1>7. /\ Popped(t, g, s)
      /\ arena' = IF i.slot = Result THEN arena
                  ELSE [arena EXCEPT ![caller.obj].slots = AppendAt(@, i.slot, x)]
  BY <1>1, <1>4, <1>5, <1>6 DEF Return, Resumed, Pushed, Popped
<1>8. /\ Remains(caller, g) /\ g.obj = caller.obj
      /\ g.res = IF i.slot = Result THEN x ELSE caller.res
  <2>1. CASE i.slot # Result
    BY <1>4, <1>5, <2>1 DEF Resumed, FrameFields, Remains
  <2>2. CASE i.slot = Result
    <3>1. g = [[caller EXCEPT !.now = Tail(@)] EXCEPT !.res = top.res,
                !.any = IF i.as = "any" THEN top.any ELSE @]
      BY <1>5, <2>2 DEF Resumed
    <3> QED
      BY <1>1, <1>4, <2>2, <3>1 DEF FrameFields, Remains
  <2> QED
    BY <2>1, <2>2
<1>9. /\ Len(t) = Len(s) - 1 /\ DOMAIN t = 1..(Len(s) - 1) /\ t[1] = g
      /\ \A k \in 2..(Len(s) - 1) : t[k] = s[k + 1]
  <2>1. /\ IsSeq(t) /\ Len(t) = Len(s) - 1 /\ t[1] = g
        /\ \A k \in 2..(Len(s) - 1) : t[k] = s[k + 1]
    <3>1. IsSeq(s) /\ Len(s) > 1 /\ Popped(t, g, s)
      BY <1>2, <1>3, <1>7
    <3> QED
      BY <3>1, DropTwo
  <2> QED
    BY <2>1, SeqFacts
<1>10. Shifted(s, t, 1)
  BY <1>2, <1>3, <1>9 DEF Shifted
<1>11. PICK a, b, held, old : a = arena /\ b = arena' /\ held = HeldBy(s) /\ old = OldNodes
  OBVIOUS
<1>12. /\ old \in Nat /\ Woods(a, held, old) /\ Settled(a, held) /\ held \subseteq DOMAIN a
  BY <1>1, <1>11, HeldNodes
<1>13. PICK w : Matches(a, top, w) /\ Ends(top, w)
  BY <1>1, <1>3, <1>11 DEF Building, MemberInv, Typed
<1>14. Final(top.ctx, w)
  <2>1. PICK u : Final(top.ctx, u) /\ Makings(top.now, w, u)
    BY <1>13 DEF Ends
  <2> QED
    BY <1>2, <2>1, MakingsEnd
<1>15. x # 0 /\ Locals(top) = {x} /\ View(a[x]) \in Post(top.ctx)
  <2>1. Local(top) \in {"holds", "passes"}
    BY <1>13, <1>14 DEF Final, Matches, Done
  <2>2. x # 0 /\ Locals(top) = {x}
    BY <1>1, <2>1, LocalFacts
  <2> QED
    BY <1>1, <1>13, <1>14, <2>2 DEF Final, Matches, Null
<1>16. View(a[x]) \in Given(i) /\ Whole(View(a[x]))
  <2>1. Answer(tree[i.child].sym) # "empty" /\ (i.as = "any" \/ i.as = Answer(tree[i.child].sym))
    BY <1>1, <1>3, <1>4, ChildAnswers
  <2>2. Post(i.child) \subseteq Given(i)
    BY <2>1, PostGiven
  <2>3. View(a[x]) \in Post(i.child)
    BY <1>4, <1>15
  <2> QED
    BY <2>2, <2>3 DEF Post
<1>17. PICK y, z : /\ Matches(a, caller, y) /\ Makes(i, y, z)
                   /\ \A c : Remains(caller, g) /\ Matches(c, g, z) => Typed(c, g)
  BY <1>1, <1>3, <1>4, <1>11, NextMakes
<1>18. Locals(caller) \subseteq held /\ x \in held /\ x \notin Locals(caller)
  <2>1. ApartIn(s)
    BY <1>1, TreeParts DEF Building, InBuild
  <2>2. Locals(s[1]) \cap Locals(s[2]) = {}
    BY <1>3, <2>1 DEF ApartIn
  <2> QED
    BY <1>1, <1>3, <1>11, <1>15, <2>2, HeldFacts
<1>19. 1..(1 + 1) = {1, 2}
  OBVIOUS
<1>20. /\ Locals(g) \subseteq HeldBy(t)
       /\ \A n \in held : n \in HeldBy(t) \/ n = x \/ n \in Locals(caller)
  <2>1. /\ Locals(t[1]) \subseteq HeldBy(t)
        /\ \A n \in HeldBy(s) : n \in HeldBy(t) \/ \E k \in 1..(1 + 1) : n \in Locals(s[k])
    BY <1>10, HeldAfter
  <2> QED
    BY <1>3, <1>9, <1>11, <1>15, <1>19, <2>1
<1>21. ASSUME NEW H, H \subseteq HeldBy(t), Settled(b, H), Matches(b, g, z),
              \A n \in held : View(b[n]) = View(a[n]) \/ n \in Locals(caller)
       PROVE  MemberInv'
  <2>1. Typed(arena', stack'[1])
    BY <1>1, <1>8, <1>9, <1>11, <1>17, <1>21
  <2>2. \A n \in HeldBy(stack) : \/ View(arena'[n]) = View(arena[n])
                                 \/ \E k \in 1..(1 + 1) : n \in Locals(stack[k])
    BY <1>1, <1>3, <1>11, <1>19, <1>21
  <2>3. H \subseteq HeldBy(stack') /\ Settled(arena', H) /\ Shifted(stack, stack', 1)
    BY <1>1, <1>10, <1>11, <1>21
  <2> QED
    BY <2>1, <2>2, <2>3, MemberStep
<1>22. CASE i.slot = Result
  <2>1. y.at = "empty" /\ z.at = "passes" /\ Given(i) \subseteq z.res
    BY <1>4, <1>17, <1>22 DEF Makes
  <2>2. Locals(caller) = {} /\ caller.obj = 0
    <3>1. Local(caller) = "empty"
      BY <1>17, <2>1 DEF Matches
    <3> QED
      BY <3>1, LocalFacts
  <2>3. Local(g) = "passes" /\ Locals(g) = {x} /\ g.res = x
    BY <1>8, <1>15, <1>22, <2>2, LocalFacts
  <2>4. b = a
    BY <1>7, <1>11, <1>22
  <2>5. Matches(b, g, z)
    BY <1>16, <2>1, <2>3, <2>4 DEF Matches
  <2>6. held \subseteq HeldBy(t)
    BY <1>20, <2>2, <2>3
  <2> QED
    BY <1>12, <1>21, <2>4, <2>5, <2>6
<1>23. CASE i.slot # Result
  <2>1. PICK p, slot : p = caller.obj /\ slot = i.slot
    OBVIOUS
  <2>2. \/ y.at = "holds" /\ z.at = "holds" /\ Accepts(y.res, slot, Given(i), z.res)
        \/ /\ y.at = "beside" /\ z.at = "beside"
           /\ y.res \subseteq z.res /\ Accepts(y.obj, slot, Given(i), z.obj)
    BY <1>4, <1>17, <1>23, <2>1 DEF Makes
  <2>3. Local(caller) = y.at
    BY <1>17 DEF Matches
  <2>4. Local(g) = Local(caller) /\ Locals(g) = Locals(caller) /\ g.res = caller.res /\ g.obj = p
    BY <1>8, <1>23, <2>1 DEF Local, Locals
  <2>5. p # 0 /\ p \in Locals(caller) /\ (y.at = "holds" => caller.res = p)
        /\ (y.at = "beside" => caller.res # 0 /\ caller.res # p /\ caller.res \in Locals(caller))
    BY <2>1, <2>2, <2>3, LocalFacts
  <2>6. p \in held /\ p \in DOMAIN a /\ x \in DOMAIN a /\ p # x
    BY <1>12, <1>18, <2>5
  <2>7. PICK V, W : /\ View(a[p]) \in V /\ Accepts(V, slot, Given(i), W)
                    /\ \/ y.at = "holds" /\ V = y.res /\ W = z.res
                       \/ y.at = "beside" /\ V = y.obj /\ W = z.obj
    <3>1. CASE y.at = "holds"
      <4>1. View(a[caller.res]) \in y.res
        BY <1>17, <2>5, <3>1 DEF Matches, Null
      <4> QED
        BY <2>2, <2>5, <3>1, <4>1
    <3>2. CASE y.at = "beside"
      <4>1. View(a[caller.obj]) \in y.obj
        BY <1>17, <2>3, <3>2 DEF Matches
      <4> QED
        BY <2>1, <2>2, <3>2, <4>1
    <3> QED
      BY <2>2, <3>1, <3>2
  <2>8. /\ Whole(View(a[x])) /\ Fits(a[p].kind, slot, View(a[x]))
        /\ More(View(a[p]), slot, 1) \in W
    <3>1. View(a[p]).kind = a[p].kind
      BY DEF View
    <3> QED
      BY <1>16, <2>7, <3>1 DEF Accepts
  <2>9. DOMAIN b = DOMAIN a /\ Filled(a[p], b[p], slot, x) /\ \A q \in DOMAIN a : q # p => b[q] = a[q]
    BY <1>7, <1>11, <1>23, <2>1, <2>6 DEF Filled
  <2>10. Settled(b, held \ {x}) /\ View(b[p]) = More(View(a[p]), slot, 1)
    BY <1>12, <1>18, <2>6, <2>8, <2>9, SettledStore
  <2>11. Matches(b, g, z)
    <3>1. CASE y.at = "holds"
      <4>1. View(b[g.res]) \in z.res /\ Local(g) = z.at /\ z.at # "beside"
        BY <2>2, <2>3, <2>4, <2>5, <2>7, <2>8, <2>10, <3>1
      <4> QED
        BY <4>1 DEF Matches
    <3>2. CASE y.at = "beside"
      <4>1. View(a[caller.res]) \in y.res /\ caller.res \in held
        BY <1>17, <1>18, <2>5, <3>2 DEF Matches, Null
      <4>2. b[caller.res] = a[caller.res]
        BY <1>12, <2>5, <2>9, <3>2, <4>1
      <4>3. View(b[g.res]) \in z.res /\ Local(g) = z.at /\ View(b[g.obj]) \in z.obj
        BY <2>2, <2>3, <2>4, <2>7, <2>8, <2>10, <3>2, <4>1, <4>2
      <4> QED
        BY <4>3 DEF Matches
    <3> QED
      BY <2>2, <3>1, <3>2
  <2>12. held \ {x} \subseteq HeldBy(t)
    BY <1>20, <2>4
  <2>13. \A n \in held : View(b[n]) = View(a[n]) \/ n \in Locals(caller)
    BY <1>12, <2>5, <2>9
  <2> QED
    BY <1>21, <2>10, <2>11, <2>12, <2>13
<1> QED
  BY <1>22, <1>23

\* Every instruction of the builder keeps MemberInv.
LEMMA BuilderMembers ==
  ASSUME IInv, OwnInv, TreeInv, MemberInv, RunBuilder
  PROVE  MemberInv'
<1>1. phase = "building" /\ BuilderStep /\ UNCHANGED << parserVars, phase, callVars >>
  BY DEF RunBuilder
<1>2. UNCHANGED << tree, phase, program >>
  BY <1>1 DEF parserVars, callVars
<1>3. Building
  BY <1>1, <1>2, BuilderOwn DEF InBuild, Building
<1> QED
  BY <1>1, <1>2, <1>3, AllocateMembers, AttachMembers, VisibilityMembers, ReportMembers,
     CallMembers, IterationMembers, ReturnMembers
  DEF BuilderStep

-----------------------------------------------------------------------------
(* The steps of parse().                                                   *)

\* Steps that leave the calls and the arena alone.
LEMMA QuietMembers ==
  ASSUME IInv, MemberInv, UNCHANGED << stack, arena >>, tree' = tree \/ stack = << >>
  PROVE  MemberInv'
<1>1. Settled(arena, HeldBy(stack))'
  BY DEF MemberInv, Settled, HeldBy
<1>2. CASE tree' = tree
  BY <1>2, MemberNext DEF MemberInv
<1>3. CASE stack = << >>
  BY <1>1, <1>3 DEF MemberInv
<1> QED
  BY <1>2, <1>3

\* visitFile begins with nothing.
LEMMA AcceptMembers ==
  ASSUME IInv, OwnInv, TreeInv, MemberInv, AcceptTree
  PROVE  MemberInv'
<1>1. /\ phase = "parsing" /\ work = << >> /\ ~ HasErrors /\ tree' = tree
      /\ stack' = << Frame(1) >> /\ arena' = arena
  BY DEF AcceptTree, StartBuild, Parsed, parserVars
<1>2. TreeTyped /\ tree # << >> /\ tree[1].sym = "file" /\ TreeDone
  BY <1>1, TreeComplete DEF IInv, FileFirst, ErrorBars
<1>3. 1 \in DOMAIN tree /\ Answer(tree[1].sym) # "empty"
  <2>1. Answer("file") = "Program"
    BY Answers
  <2> QED
    BY <1>2, <2>1, TailSeq DEF TreeTyped
<1>4. PICK f : f = Frame(1)
  OBVIOUS
<1>5. Typed(arena, f)
  BY <1>2, <1>3, <1>4, FreshTyped
<1>6. DOMAIN stack' = {1} /\ stack'[1] = f
  <2>1. stack' = << f >>
    BY <1>1, <1>4
  <2> QED
    BY <2>1
<1>7. Settled(arena, HeldBy(stack'))
  <2>1. stack = << >>
    BY <1>1, NoCalls
  <2>2. HeldBy(stack) = {}
    BY <2>1, NothingHeld
  <2>3. Settled(arena, {})
    BY <2>2 DEF MemberInv
  <2> QED
    BY <2>3, SettledMore
<1>8. Settled(arena', HeldBy(stack')) /\ \A k \in DOMAIN stack' : Typed(arena', stack'[k])
  BY <1>1, <1>5, <1>6, <1>7
<1> QED
  BY <1>1, <1>8, MemberNext

\* When visitFile is about to return, its Program lacks nothing either.
LEMMA FinishedWhole ==
  ASSUME IInv, OwnInv, TreeInv, MemberInv, Complete
  PROVE  Settled(arena, {})
<1>1. /\ HeldBy(stack) = {Root} /\ Root \in 1..Len(arena)
  BY CompleteHolds
<1>2. PICK f, a, r : f = Top /\ a = arena /\ r = Root
  OBVIOUS
<1>3. /\ stack # << >> /\ f.now = << >> /\ f.later = << >> /\ r = f.res
  BY <1>2 DEF Complete, Built, Finished, Running, Root
<1>4. f = stack[1] /\ 1 \in DOMAIN stack
  BY <1>2, <1>3, BottomFacts
<1>5. PICK s : Matches(a, f, s) /\ Ends(f, s)
  BY <1>2, <1>4 DEF MemberInv, Typed
<1>6. Final(f.ctx, s)
  <2>1. PICK u : Final(f.ctx, u) /\ Makings(f.now, s, u)
    BY <1>5 DEF Ends
  <2> QED
    BY <1>3, <2>1, MakingsEnd
<1>7. r # 0
  BY <1>1, <1>2
<1>8. Whole(View(a[r]))
  BY <1>3, <1>5, <1>6, <1>7 DEF Matches, Final, Post, Null
<1>9. Settled(a, {r})
  BY <1>1, <1>2 DEF MemberInv
<1>10. Settled(a, {r} \ {r})
  BY <1>8, <1>9, SettledLess
<1> QED
  BY <1>2, <1>10

\* The AST that is returned lacks nothing.
LEMMA ReturnProgramMembers ==
  ASSUME IInv, OwnInv, TreeInv, MemberInv, ReturnProgram
  PROVE  MemberInv'
<1>1. stack' = << >> /\ tree' = tree /\ arena' = arena
  <2>1. crash = "none" /\ crash' = "none"
    BY ReturnProgramInv DEF IInv, ScalarsOK
  <2> QED
    BY <2>1 DEF ReturnProgram, EndBuild, parserVars
<1>2. Complete
  BY DEF ReturnProgram, EndBuild, Complete
<1>3. Settled(arena, {})
  BY <1>2, FinishedWhole
<1>4. Settled(arena', HeldBy(stack'))
  BY <1>1, <1>3, SettledMore
<1>5. \A k \in DOMAIN stack' : Typed(arena', stack'[k])
  BY <1>1
<1> QED
  BY <1>1, <1>4, <1>5, MemberNext

\* Every step keeps MemberInv.
LEMMA NextMembers ==
  ASSUME IInv, OwnInv, TreeInv, MemberInv, [Next]_vars
  PROVE  MemberInv'
<1>1. CASE RunBuilder
  BY <1>1, BuilderMembers
<1>2. CASE AcceptTree
  BY <1>2, AcceptMembers
<1>3. CASE ReturnProgram
  BY <1>3, ReturnProgramMembers
<1>4. CASE StartParse \/ RunParser \/ SyntaxError \/ RefuseTree \/ PrintDiagnostics
  <2>1. phase # "building"
    BY <1>4 DEF StartParse, RunParser, SyntaxError, RefuseTree, PrintDiagnostics
  <2> QED
    BY <1>4, <2>1, NoCalls, Outside, QuietMembers
<1>5. CASE Terminated \/ UNCHANGED vars
  <2>1. tree' = tree
    BY <1>5 DEF Terminated, vars, parserVars
  <2> QED
    BY <1>5, <2>1, Outside, QuietMembers
<1> QED
  BY <1>1, <1>2, <1>3, <1>4, <1>5 DEF Next

\* MemberInv holds throughout.
LEMMA MembersThroughout == Spec => [](IInv /\ OwnInv /\ TreeInv /\ MemberInv)
<1>1. Init => MemberInv
  <2> SUFFICES ASSUME Init PROVE MemberInv
    OBVIOUS
  <2>1. stack = << >> /\ arena = << >>
    BY DEF Init
  <2> QED
    BY <2>1 DEF MemberInv, Settled
<1>2. MemberInv /\ IInv /\ OwnInv /\ TreeInv /\ [Next]_vars => MemberInv'
  BY NextMembers
<1> QED
  BY <1>1, <1>2, TreeOwnership, PTL DEF Spec
-----------------------------------------------------------------------------
(* The theorems.                                                           *)

\* The members of the kinds are those the views count.
LEMMA MemberNamesOf == \A kind \in Kinds : DOMAIN MembersOf(kind) \subseteq MemberNames
  BY KindsAre, DeclMembersOf, TypeMembersOf, StmtMembersOf, ExprMembersOf, LeafMembersOf
  DEF MemberNames

\* What the members of a node of a settled arena hold.
LEMMA HeldMembers ==
  ASSUME NEW a, NEW n \in DOMAIN a, Settled(a, {}), SlotsOK(a)
  PROVE  /\ a[n].kind \in Kinds /\ Whole(View(a[n])) /\ View(a[n]) \in Views
         /\ View(a[n]).kind = a[n].kind /\ View(a[n]).ops = Len(a[n].ops)
         /\ View(a[n]).mutable = ("IsMutable" \in a[n].flags)
         /\ \A m \in MemberNames :
              View(a[n]).has[m] = IF m \in DOMAIN a[n].slots THEN Len(a[n].slots[m]) ELSE 0
         /\ \A s \in DOMAIN a[n].slots : IsSeq(a[n].slots[s])
<1>1. Sound(a[n]) /\ Whole(View(a[n]))
  BY DEF Settled
<1>2. a[n].kind \in Kinds /\ IsSeq(a[n].ops)
  BY <1>1 DEF Sound
<1>3. \A s \in DOMAIN a[n].slots : IsSeq(a[n].slots[s])
  BY DEF SlotsOK
<1> QED
  BY <1>1, <1>2, <1>3, ViewOf

\* A list no longer than nothing is empty.
LEMMA SomeOrNone ==
  ASSUME NEW s, IsSeq(s)
  PROVE  /\ s = << >> <=> Len(s) = 0
         /\ Len(<< >>) = 0
  BY DEF IsSeq

\* isa<> and dyn_cast<> find every child of a finished AST to be what its
\* member is declared to hold, and no pointer is null that may not be
\* (ASTBuilder, and the classof of the headers of ast/).
THEOREM MembersAsDeclaredHolds == Spec => []MembersAsDeclared
<1>1. ASSUME IInv, OwnInv, TreeInv, MemberInv PROVE MembersAsDeclared
  <2> SUFFICES ASSUME Complete, NEW n \in DOMAIN arena
               PROVE  /\ DOMAIN arena[n].slots \subseteq DOMAIN MembersOf(arena[n].kind)
                      /\ \A m \in DOMAIN MembersOf(arena[n].kind) :
                           /\ \A i \in DOMAIN Children(n, m) :
                                arena[Children(n, m)[i]].kind
                                  \in classof(MembersOf(arena[n].kind)[m])
                           /\ m \notin ListMembers => Len(Children(n, m)) <= 1
                           /\ (m \notin ListMembers /\ << arena[n].kind, m >> \notin Optional)
                                => Children(n, m) # << >>
    BY DEF MembersAsDeclared
  <2>1. Settled(arena, {}) /\ SlotsOK(arena)
    BY <1>1, FinishedWhole DEF TreeInv, SlotsOK
  <2>2. DOMAIN arena[n].slots \subseteq DOMAIN MembersOf(arena[n].kind)
    BY <2>1 DEF Settled, Suited
  <2>3. ASSUME NEW m \in DOMAIN MembersOf(arena[n].kind), NEW i \in DOMAIN Children(n, m)
        PROVE  arena[Children(n, m)[i]].kind \in classof(MembersOf(arena[n].kind)[m])
    <3>1. m \in DOMAIN arena[n].slots /\ Children(n, m) = arena[n].slots[m]
      <4>1. CASE m \in DOMAIN arena[n].slots
        BY <4>1 DEF Children
      <4>2. CASE m \notin DOMAIN arena[n].slots
        BY <2>3, <4>2, SomeOrNone DEF Children
      <4> QED
        BY <4>1, <4>2
    <3>2. i \in DOMAIN arena[n].slots[m]
      BY <2>3, <3>1
    <3>3. PICK c : c = arena[n].slots[m][i]
      OBVIOUS
    <3>4. c \in DOMAIN arena /\ Fits(arena[n].kind, m, View(arena[c]))
      BY <2>1, <3>1, <3>2, <3>3 DEF Settled, Suited
    <3>5. View(arena[c]).kind = arena[c].kind
      BY <2>1, <3>4, HeldMembers
    <3> QED
      BY <3>1, <3>3, <3>4, <3>5 DEF Fits
  <2>4. ASSUME NEW m \in DOMAIN MembersOf(arena[n].kind), m \notin ListMembers
        PROVE  /\ Len(Children(n, m)) <= 1
               /\ << arena[n].kind, m >> \notin Optional => Children(n, m) # << >>
    <3>1. PICK v : v = View(arena[n])
      OBVIOUS
    <3>2. /\ arena[n].kind \in Kinds /\ Whole(v) /\ v.kind = arena[n].kind
          /\ \A s \in MemberNames :
               v.has[s] = IF s \in DOMAIN arena[n].slots THEN Len(arena[n].slots[s]) ELSE 0
          /\ \A s \in DOMAIN arena[n].slots : IsSeq(arena[n].slots[s])
      BY <2>1, <3>1, HeldMembers
    <3>3. m \in MemberNames
      BY <2>4, <3>2, MemberNamesOf
    <3>4. v.has[m] = 1 \/ (v.has[m] = 0 /\ << v.kind, m >> \in Optional)
      BY <2>4, <3>2 DEF Whole, Pointers
    <3>5. Len(Children(n, m)) = v.has[m]
      BY <3>2, <3>3, SomeOrNone DEF Children
    <3>6. Children(n, m) = << >> => v.has[m] = 0
      BY <3>5, SomeOrNone
    <3> QED
      BY <3>2, <3>4, <3>5, <3>6
  <2> QED
    BY <2>2, <2>3, <2>4
<1> QED
  BY <1>1, MembersThroughout, PTL

-----------------------------------------------------------------------------
(* Chains of mixed direction.  The builder allocates one like any other    *)
(* node; the visitor that has done so still has to report it, so that the  *)
(* AST it is part of is not one of a program without errors.               *)

CodeWarned(f) == Warned(f.now) /\ \A b \in DOMAIN f.later : Warned(f.later[b])

\* A call of s has still to report an error.
Reporting(code) == \E j \in DOMAIN code : code[j].do = "report"
Reports(s) == \E k \in DOMAIN s : Reporting(s[k].now)

ChainInv ==
  /\ \A k \in DOMAIN stack : CodeWarned(stack[k])
  /\ stack # << >> /\ (\E n \in Own : Crossed(arena[n])) => HasErrors \/ Reports(stack)

\* What is left of code after its first instruction.
LEMMA WarnedTail ==
  ASSUME NEW code, IsSeq(code), code # << >>, Warned(code)
  PROVE  Warned(Tail(code))
<1>1. PICK t : t = Tail(code)
  OBVIOUS
<1>2. /\ DOMAIN t = 1..(Len(code) - 1) /\ DOMAIN code = 1..Len(code) /\ Len(code) \in Nat
      /\ \A i \in DOMAIN t : i + 1 \in DOMAIN code /\ t[i] = code[i + 1]
  BY <1>1, TailSeq, SeqFacts
<1> SUFFICES ASSUME NEW k \in DOMAIN t, t[k].do \in Makers, Crossed(t[k].node)
             PROVE  \E j \in DOMAIN t : j > k /\ t[j].do = "report"
  BY <1>1 DEF Warned
<1>3. PICK m : m = k + 1
  OBVIOUS
<1>4. m \in DOMAIN code /\ t[k] = code[m]
  BY <1>2, <1>3
<1>5. PICK j \in DOMAIN code : j > m /\ code[j].do = "report"
  BY <1>4 DEF Warned
<1>6. PICK i : i = j - 1
  OBVIOUS
<1>7. i \in DOMAIN t /\ i > k /\ i + 1 = j
  BY <1>2, <1>3, <1>5, <1>6
<1>8. t[i] = code[j]
  BY <1>2, <1>7
<1> QED
  BY <1>5, <1>7, <1>8

LEMMA ReportingTail ==
  ASSUME NEW code, IsSeq(code), code # << >>, NEW j \in DOMAIN code, code[j].do = "report",
         j # 1 \/ code[1].do # "report"
  PROVE  Reporting(Tail(code))
<1>1. PICK t : t = Tail(code)
  OBVIOUS
<1>2. /\ DOMAIN t = 1..(Len(code) - 1) /\ DOMAIN code = 1..Len(code) /\ Len(code) \in Nat
      /\ \A i \in DOMAIN t : i + 1 \in DOMAIN code /\ t[i] = code[i + 1]
  BY <1>1, TailSeq, SeqFacts
<1>3. PICK i : i = j - 1
  OBVIOUS
<1>4. i \in DOMAIN t /\ i + 1 = j
  BY <1>2, <1>3
<1>5. t[i] = code[j]
  BY <1>2, <1>4
<1> QED
  BY <1>1, <1>4, <1>5 DEF Reporting

\* Only the innermost call changes.
LEMMA CallsWarned ==
  ASSUME NEW s, NEW t, NEW d, Shifted(s, t, d), \A k \in DOMAIN s : CodeWarned(s[k]),
         CodeWarned(t[1])
  PROVE  \A k \in DOMAIN t : CodeWarned(t[k])
<1> SUFFICES ASSUME NEW k \in DOMAIN t, k # 1 PROVE CodeWarned(t[k])
  OBVIOUS
<1>1. PICK j : j = k + d
  OBVIOUS
<1>2. k \in 2..Len(t) /\ j \in DOMAIN s
  BY <1>1 DEF Shifted
<1>3. t[k] = s[j]
  BY <1>1, <1>2 DEF Shifted
<1> QED
  BY <1>2, <1>3

LEMMA ReportsStay ==
  ASSUME NEW s, NEW t, NEW d, Shifted(s, t, d), Reports(s),
         \A k \in 1..(1 + d) : Reporting(s[k].now) => Reports(t)
  PROVE  Reports(t)
<1>1. PICK k \in DOMAIN s : Reporting(s[k].now)
  BY DEF Reports
<1>2. CASE k \in 1..(1 + d)
  BY <1>1, <1>2
<1>3. CASE k \notin 1..(1 + d)
  <2>1. PICK j : j = k - d
    OBVIOUS
  <2>2. j \in 2..Len(t) /\ j + d = k /\ j \in DOMAIN t
    BY <1>1, <1>3, <2>1 DEF Shifted
  <2>3. t[j] = s[k]
    BY <2>2 DEF Shifted
  <2> QED
    BY <1>1, <2>2, <2>3 DEF Reports
<1> QED
  BY <1>2, <1>3

\* A step of the builder that allocates no node.
LEMMA ChainStep ==
  ASSUME Building, ChainInv, NEW d, Shifted(stack, stack', d), CodeWarned(stack'[1]),
         Len(arena') = Len(arena),
         \A n \in DOMAIN arena : Crossed(arena'[n]) => Crossed(arena[n]),
         HasErrors => HasErrors',
         \A k \in 1..(1 + d) : Reporting(stack[k].now) => HasErrors' \/ Reports(stack'),
         stack # << >>
  PROVE  ChainInv'
<1>1. PICK s, t : s = stack /\ t = stack'
  OBVIOUS
<1>2. \A k \in DOMAIN t : CodeWarned(t[k])
  BY <1>1, CallsWarned DEF ChainInv
<1>3. Reports(s) => HasErrors' \/ Reports(t)
  BY <1>1, ReportsStay
<1>4. Own' = Own /\ Own \subseteq DOMAIN arena
  <2>1. OldNodes' = OldNodes /\ DOMAIN arena = 1..Len(arena) /\ OldNodes \in Nat /\ Len(arena) \in Nat
    BY HeldNodes DEF Building, InBuild
  <2> QED
    BY <2>1 DEF Own
<1>5. (\E n \in Own' : Crossed(arena'[n])) => HasErrors' \/ Reports(t)
  BY <1>1, <1>3, <1>4 DEF ChainInv
<1>6. \A k \in DOMAIN stack' : CodeWarned(stack'[k])
  BY <1>1, <1>2
<1> QED
  BY <1>1, <1>5, <1>6 DEF ChainInv, CodeWarned, Reports, Reporting, Warned, Crossed

\* What is left of the block of a call is code.
LEMMA NowSeq == ASSUME NEW f, FrameOK(f) PROVE IsSeq(f.now) /\ DOMAIN f = FrameFields
<1>1. CASE CodeOK(f.now)
  BY <1>1 DEF FrameOK, CodeOK
<1>2. CASE Forwarding(f.any, f.now, f.later, Answer(tree[f.ctx].sym))
  <2>1. \A x : IsSeq(<< x >>)
    BY DEF IsSeq
  <2>2. PICK x : f.now = << x >>
    BY <1>2 DEF Forwarding
  <2> QED
    BY <2>1, <2>2 DEF FrameOK
<1> QED
  BY <1>1, <1>2 DEF FrameOK

\* A call after an instruction that is no report, or one that was made.
LEMMA ChainTail ==
  ASSUME Building, ChainInv, NEW k \in DOMAIN stack, stack[k].now # << >>,
         NEW g, Remains(stack[k], g)
  PROVE  /\ IsSeq(stack[k].now) /\ CodeWarned(stack[k]) /\ CodeWarned(g)
         /\ stack[k].now[1].do # "report" /\ Reporting(stack[k].now) => Reporting(g.now)
         /\ \A j \in DOMAIN stack[k].now :
              j # 1 /\ stack[k].now[j].do = "report" => Reporting(g.now)
<1>1. PICK f : f = stack[k]
  OBVIOUS
<1>2. FrameOK(f)
  BY <1>1 DEF Building, InBuild, IInv, CallsOK
<1>3. IsSeq(f.now) /\ f.now # << >>
  BY <1>1, <1>2, NowSeq
<1>4. CodeWarned(f) /\ g.now = Tail(f.now) /\ g.later = f.later
  BY <1>1 DEF ChainInv, Remains
<1>5. CodeWarned(g)
  BY <1>3, <1>4, WarnedTail DEF CodeWarned
<1>6. ASSUME NEW j \in DOMAIN f.now, f.now[j].do = "report", j # 1 \/ f.now[1].do # "report"
      PROVE  Reporting(g.now)
  BY <1>3, <1>4, <1>6, ReportingTail
<1> QED
  BY <1>1, <1>3, <1>4, <1>5, <1>6 DEF Reporting

\* A node whose members or visibility are set stays what it was.
LEMMA CrossingStays ==
  ASSUME NEW m, DOMAIN m = NodeKeys, NEW n,
         (\E slot, x : Filled(m, n, slot, x)) \/ (\E vis : Shown(m, n, vis))
  PROVE  Crossed(n) <=> Crossed(m)
<1>1. n.kind = m.kind /\ n.ops = m.ops
  BY DEF Filled, Shown, NodeKeys
<1> QED
  BY <1>1 DEF Crossed

LEMMA ReportChains ==
  ASSUME Building, ChainInv, ReportError
  PROVE  ChainInv'
<1>1. /\ stack # << >> /\ Top.now # << >> /\ Advance(Top.res, Top.obj) /\ arena' = arena
      /\ HasErrors'
  BY DEF ReportError, Executing, Running, report
<1>2. /\ Shifted(stack, stack', 0) /\ Top = stack[1] /\ 1 \in DOMAIN stack
      /\ \E g : Remains(Top, g) /\ stack'[1] = g
  BY <1>1, AdvanceTop DEF Building
<1>3. CodeWarned(stack'[1])
  BY <1>1, <1>2, ChainTail
<1> QED
  BY <1>1, <1>2, <1>3, ChainStep

\* An instruction that is no report, nor allocates a node.
LEMMA OtherChains ==
  ASSUME Building, ChainInv, stack # << >>, Top.now # << >>, Head(Top.now).do # "report",
         NEW res, NEW obj, Advance(res, obj), HasErrors' = HasErrors,
         NEW p \in DOMAIN arena, DOMAIN arena' = DOMAIN arena, Len(arena') = Len(arena),
         (\E slot, x : Filled(arena[p], arena'[p], slot, x))
           \/ (\E vis : Shown(arena[p], arena'[p], vis)),
         \A q \in DOMAIN arena : q # p => arena'[q] = arena[q]
  PROVE  ChainInv'
<1>1. /\ Shifted(stack, stack', 0) /\ Top = stack[1] /\ 1 \in DOMAIN stack
      /\ Head(Top.now) = Top.now[1]
      /\ \E g : Remains(Top, g) /\ stack'[1] = g
  BY AdvanceTop DEF Building
<1>2. CodeWarned(stack'[1]) /\ (Reporting(stack[1].now) => Reporting(stack'[1].now))
  BY <1>1, ChainTail
<1>3. DOMAIN arena[p] = NodeKeys
  BY HeldNodes DEF Settled, Sound
<1>4. Crossed(arena'[p]) <=> Crossed(arena[p])
  BY <1>3, CrossingStays
<1>5. \A n \in DOMAIN arena : Crossed(arena'[n]) => Crossed(arena[n])
  BY <1>4
<1>6. 1 \in DOMAIN stack' /\ 1..(1 + 0) = {1}
  BY <1>1 DEF Shifted
<1>7. \A k \in 1..(1 + 0) : Reporting(stack[k].now) => HasErrors' \/ Reports(stack')
  BY <1>2, <1>6 DEF Reports
<1> QED
  BY <1>1, <1>2, <1>5, <1>7, ChainStep

LEMMA VisibilityChains ==
  ASSUME Building, ChainInv, SetVisibility
  PROVE  ChainInv'
<1>1. PICK i, res : i = Head(Top.now) /\ res = Top.res
  OBVIOUS
<1>2. /\ stack # << >> /\ Top.now # << >> /\ i.do = "vis" /\ HasErrors' = HasErrors
      /\ Advance(Top.res, Top.obj) /\ arena' = [arena EXCEPT ![res].vis = i.vis]
  BY <1>1 DEF SetVisibility, Executing, Running
<1>3. Top = stack[1] /\ 1 \in DOMAIN stack /\ i = Top.now[1]
  BY <1>1, <1>2, AdvanceTop DEF Building
<1>4. PICK s, t : Matches(arena, Top, s) /\ Makes(i, s, t)
  BY <1>2, <1>3, NextMakes
<1>5. s.at \in Done
  BY <1>2, <1>4 DEF Makes
<1>6. res \in DOMAIN arena
  <2>1. Local(Top) = s.at
    BY <1>4 DEF Matches
  <2>2. res # 0 /\ res \in Locals(Top)
    BY <1>1, <1>5, <2>1, LocalFacts DEF Done
  <2>3. Locals(Top) \subseteq HeldBy(stack)
    BY <1>3, HeldFacts
  <2> QED
    BY <2>2, <2>3, HeldNodes
<1>7. PICK a, b, vis : a = arena /\ b = arena' /\ vis = i.vis
  OBVIOUS
<1>8. /\ DOMAIN b = DOMAIN a /\ Shown(a[res], b[res], vis)
      /\ \A q \in DOMAIN a : q # res => b[q] = a[q]
  BY <1>2, <1>6, <1>7 DEF Shown
<1>9. Len(b) = Len(a)
  BY <1>2, <1>7, HeldNodes
<1>10. /\ DOMAIN arena' = DOMAIN arena /\ Len(arena') = Len(arena)
       /\ \E v : Shown(arena[res], arena'[res], v)
       /\ \A q \in DOMAIN arena : q # res => arena'[q] = arena[q]
  BY <1>7, <1>8, <1>9
<1>11. Head(Top.now).do # "report"
  BY <1>1, <1>2
<1> QED
  BY <1>2, <1>6, <1>10, <1>11, OtherChains

LEMMA AttachChains ==
  ASSUME Building, ChainInv, AttachSub
  PROVE  ChainInv'
<1>1. PICK i, res, obj : i = Head(Top.now) /\ res = Top.res /\ obj = Top.obj
  OBVIOUS
<1>2. /\ stack # << >> /\ Top.now # << >> /\ i.do = "attach" /\ HasErrors' = HasErrors
      /\ arena' = [arena EXCEPT ![res].slots = AppendAt(@, i.slot, obj)] /\ Advance(res, res)
  BY <1>1 DEF AttachSub, Executing, Running
<1>3. Top = stack[1] /\ 1 \in DOMAIN stack /\ i = Top.now[1]
  BY <1>1, <1>2, AdvanceTop DEF Building
<1>4. PICK s, t : Matches(arena, Top, s) /\ Makes(i, s, t)
  BY <1>2, <1>3, NextMakes
<1>5. s.at = "beside"
  BY <1>2, <1>4 DEF Makes
<1>6. res \in DOMAIN arena
  <2>1. res # 0 /\ obj # 0 /\ res # obj /\ Locals(Top) = {res, obj}
    BY <1>1, <1>4, <1>5, LocalFacts DEF Matches
  <2>2. Locals(Top) \subseteq HeldBy(stack)
    BY <1>3, HeldFacts
  <2> QED
    BY <2>1, <2>2, HeldNodes
<1>7. PICK a, b, slot : a = arena /\ b = arena' /\ slot = i.slot
  OBVIOUS
<1>8. /\ DOMAIN b = DOMAIN a /\ Filled(a[res], b[res], slot, obj)
      /\ \A q \in DOMAIN a : q # res => b[q] = a[q]
  BY <1>2, <1>6, <1>7 DEF Filled
<1>9. Len(b) = Len(a)
  BY <1>2, <1>7, HeldNodes
<1>10. /\ DOMAIN arena' = DOMAIN arena /\ Len(arena') = Len(arena)
       /\ \E m, x : Filled(arena[res], arena'[res], m, x)
       /\ \A q \in DOMAIN arena : q # res => arena'[q] = arena[q]
  BY <1>7, <1>8, <1>9
<1>11. Head(Top.now).do # "report"
  BY <1>1, <1>2
<1> QED
  BY <1>2, <1>6, <1>10, <1>11, OtherChains

\* A chain that is allocated is still to be reported, if it is one to report.
LEMMA AllocateChains ==
  ASSUME Building, ChainInv, Allocate
  PROVE  ChainInv'
<1>1. PICK i, id, res, top, a, b :
        /\ i = Head(Top.now) /\ id = Len(arena) + 1 /\ top = Top
        /\ res = (IF i.do = "sub" THEN Top.res ELSE id) /\ a = arena /\ b = arena'
  OBVIOUS
<1>2. PICK node : node = IF i.do = "wrap"
                         THEN [i.node EXCEPT !.slots = AppendAt(@, i.slot, top.res)] ELSE i.node
  OBVIOUS
<1>3. /\ stack # << >> /\ Top.now # << >> /\ i.do \in Makers /\ HasErrors' = HasErrors
      /\ b = Append(a, node) /\ Advance(res, id)
  BY <1>1, <1>2 DEF Allocate, Executing, Running, Makers
<1>4. /\ Shifted(stack, stack', 0) /\ top = stack[1] /\ 1 \in DOMAIN stack /\ i = top.now[1]
      /\ \E g : Remains(top, g) /\ stack'[1] = g
  BY <1>1, <1>3, AdvanceTop DEF Building
<1>5. PICK g : Remains(top, g) /\ stack'[1] = g
  BY <1>4
<1>6. top.now # << >>
  BY <1>1, <1>3
<1>7. /\ IsSeq(top.now) /\ CodeWarned(top) /\ CodeWarned(g)
      /\ top.now[1].do # "report" /\ Reporting(top.now) => Reporting(g.now)
      /\ \A j \in DOMAIN top.now : j # 1 /\ top.now[j].do = "report" => Reporting(g.now)
  BY <1>4, <1>5, <1>6, ChainTail
<1>8. PICK s, t : Matches(arena, Top, s) /\ Makes(i, s, t)
  BY <1>1, <1>3, <1>4, NextMakes
<1>9. DOMAIN i.node = NodeKeys
  BY <1>3, <1>8 DEF Makes, Makers, Sound
<1>10. node.kind = i.node.kind /\ node.ops = i.node.ops
  BY <1>2, <1>9 DEF NodeKeys
<1>11. ASSUME Crossed(node) PROVE Reporting(g.now)
  <2>1. Crossed(i.node)
    BY <1>10, <1>11 DEF Crossed
  <2>2. 1 \in DOMAIN top.now
    BY <1>6, <1>7, TailSeq
  <2>3. PICK j \in DOMAIN top.now : j > 1 /\ top.now[j].do = "report"
    BY <1>3, <1>4, <1>7, <2>1, <2>2 DEF CodeWarned, Warned
  <2>4. j # 1
    BY <2>3
  <2> QED
    BY <1>7, <2>3, <2>4
<1>12. Reporting(g.now) => Reports(stack')
  BY <1>4, <1>5 DEF Reports, Shifted
<1>13. Reports(stack) => Reports(stack')
  <2>1. 1..(1 + 0) = {1}
    OBVIOUS
  <2>2. i.do # "report"
    BY <1>3 DEF Makers
  <2>3. \A k \in 1..(1 + 0) : Reporting(stack[k].now) => Reports(stack')
    BY <1>4, <1>7, <1>12, <2>1, <2>2
  <2> QED
    BY <1>4, <2>3, ReportsStay
<1>14. \A k \in DOMAIN stack' : CodeWarned(stack'[k])
  BY <1>4, <1>5, <1>7, CallsWarned DEF ChainInv
<1>15. \A n \in Own' : Crossed(b[n]) => (n \in Own /\ Crossed(a[n])) \/ (n = id /\ Crossed(node))
  <2>1. IsSeq(a) /\ DOMAIN a = 1..Len(a) /\ Len(a) \in Nat /\ OldNodes \in Nat
    BY <1>1, HeldNodes
  <2>2. Len(b) = Len(a) + 1 /\ b[Len(a) + 1] = node /\ \A q \in DOMAIN a : b[q] = a[q]
    BY <1>3, <2>1
  <2>3. Own' = (OldNodes + 1)..Len(b) /\ Own = (OldNodes + 1)..Len(a)
    BY <1>1 DEF Own, Building, InBuild
  <2>4. ASSUME NEW n \in Own', n # id PROVE n \in Own /\ b[n] = a[n]
    <3>1. n \in Own /\ n \in DOMAIN a
      BY <1>1, <2>1, <2>2, <2>3, <2>4
    <3> QED
      BY <2>2, <3>1
  <2>5. b[id] = node
    BY <1>1, <2>2
  <2> QED
    BY <2>4, <2>5
<1>16. (\E n \in Own' : Crossed(arena'[n])) => HasErrors' \/ Reports(stack')
  BY <1>1, <1>3, <1>11, <1>12, <1>13, <1>15 DEF ChainInv
<1> QED
  BY <1>14, <1>16 DEF ChainInv, CodeWarned, Reports, Reporting, Warned, Crossed

\* visit(child): the visitor of the child reports what it allocates.
LEMMA FreshWarned ==
  ASSUME TreeDone, NEW c \in DOMAIN tree, Answer(tree[c].sym) # "empty"
  PROVE  CodeWarned(Frame(c))
<1>1. PICK v, f : v = Visit(c) /\ f = Frame(c)
  OBVIOUS
<1>2. f.now = v.code[1] /\ f.later = Tail(v.code)
  BY <1>1 DEF Frame
<1>3. IsSeq(v.code) /\ v.code # << >>
  BY <1>1, AnyVisitWhole DEF VisitWhole
<1>4. \A b \in DOMAIN v.code : Warned(v.code[b])
  BY <1>1, AnyVisitWarned DEF VisitWarned
<1>5. 1 \in DOMAIN v.code
      /\ \A k \in DOMAIN Tail(v.code) : k + 1 \in DOMAIN v.code /\ Tail(v.code)[k] = v.code[k + 1]
  BY <1>3, TailSeq
<1>6. \A k \in DOMAIN f.later : Warned(f.later[k])
  <2> SUFFICES ASSUME NEW k \in DOMAIN f.later PROVE Warned(f.later[k])
    OBVIOUS
  <2>1. PICK j : j = k + 1
    OBVIOUS
  <2>2. j \in DOMAIN v.code /\ f.later[k] = v.code[j]
    BY <1>2, <1>5, <2>1
  <2> QED
    BY <1>4, <2>2
<1> QED
  BY <1>1, <1>2, <1>4, <1>5, <1>6 DEF CodeWarned

LEMMA CallChains ==
  ASSUME Building, ChainInv, Call
  PROVE  ChainInv'
<1>1. PICK i, child, g, s, t :
        /\ i = Head(Top.now) /\ child = i.child /\ g = Frame(child) /\ s = stack /\ t = stack'
  OBVIOUS
<1>2. /\ s # << >> /\ Top.now # << >> /\ i.do = "get" /\ arena' = arena
      /\ HasErrors' = HasErrors /\ (child # Null => t = << g >> \o s)
  BY <1>1 DEF Call, Executing, Running
<1>3. /\ IsSeq(s) /\ Len(s) \in Nat \ {0} /\ DOMAIN s = 1..Len(s) /\ Top = s[1]
      /\ 1 \in DOMAIN s
  BY <1>1, <1>2, BottomFacts DEF Building, InBuild
<1>4. i = Top.now[1]
  BY <1>1, <1>2, NowFacts DEF Building, InBuild, IInv
<1>5. child \in DOMAIN tree /\ Answer(tree[child].sym) # "empty"
  BY <1>1, <1>2, <1>3, <1>4, ChildAnswers
<1>6. TreeTyped /\ TreeDone
  BY TreeComplete DEF Building, InBuild, IInv, ErrorBars, WorkOK
<1>7. child # 0
  BY <1>5, <1>6, SeqFacts DEF TreeTyped
<1>8. CodeWarned(g)
  BY <1>1, <1>5, <1>6, FreshWarned
<1>9. /\ Len(t) = Len(s) + 1 /\ DOMAIN t = 1..(Len(s) + 1) /\ t[1] = g
      /\ \A k \in DOMAIN s : t[k + 1] = s[k]
  <2>1. Pushed(t, g, s)
    BY <1>2, <1>7 DEF Pushed, Null
  <2> QED
    BY <1>3, <2>1, PushSeq
<1>10. Shifted(s, t, -1)
  <2>1. ASSUME NEW k \in 2..Len(t) PROVE t[k] = s[k + (-1)]
    <3>1. k + (-1) \in DOMAIN s /\ (k + (-1)) + 1 = k
      BY <1>3, <1>9
    <3> QED
      BY <1>9, <3>1
  <2>2. /\ DOMAIN s = 1..Len(s) /\ DOMAIN t = 1..Len(t) /\ Len(s) \in Nat /\ Len(t) \in Nat \ {0}
        /\ Len(t) + (-1) = Len(s)
    BY <1>3, <1>9
  <2> QED
    BY <2>1, <2>2 DEF Shifted
<1>11. \A k \in 1..(1 + (-1)) : FALSE
  OBVIOUS
<1>12. Shifted(stack, stack', -1) /\ CodeWarned(stack'[1]) /\ Len(arena') = Len(arena)
       /\ \A n \in DOMAIN arena : arena'[n] = arena[n]
  BY <1>1, <1>2, <1>8, <1>9, <1>10
<1> QED
  BY <1>1, <1>2, <1>11, <1>12, ChainStep

\* The next turn of a loop.
LEMMA IterationChains ==
  ASSUME Building, ChainInv, NextIteration
  PROVE  ChainInv'
<1>1. PICK top, g : /\ top = Top
                    /\ g = [top EXCEPT !.now = Head(top.later), !.later = Tail(@)]
  OBVIOUS
<1>2. /\ stack # << >> /\ top.now = << >> /\ top.later # << >> /\ arena' = arena
      /\ stack' = << g >> \o Tail(stack) /\ HasErrors' = HasErrors
  BY <1>1 DEF NextIteration, Running
<1>3. Shifted(stack, stack', 0) /\ stack'[1] = g /\ top = stack[1] /\ 1 \in DOMAIN stack
  BY <1>1, <1>2, TopShifted DEF Building
<1>4. DOMAIN top = FrameFields
  BY <1>2, <1>3, BottomFacts DEF Building, InBuild, FrameOK
<1>5. g.now = Head(top.later) /\ g.later = Tail(top.later)
  BY <1>1, <1>4 DEF FrameFields
<1>6. IsSeq(top.later)
  BY <1>3 DEF Building, MemberInv, Typed, Ends
<1>7. /\ Head(top.later) = top.later[1] /\ 1 \in DOMAIN top.later
      /\ \A k \in DOMAIN Tail(top.later) :
           k + 1 \in DOMAIN top.later /\ Tail(top.later)[k] = top.later[k + 1]
  BY <1>2, <1>6, TailSeq
<1>8. \A b \in DOMAIN top.later : Warned(top.later[b])
  BY <1>3 DEF ChainInv, CodeWarned
<1>9. \A k \in DOMAIN g.later : Warned(g.later[k])
  <2> SUFFICES ASSUME NEW k \in DOMAIN g.later PROVE Warned(g.later[k])
    OBVIOUS
  <2>1. PICK j : j = k + 1
    OBVIOUS
  <2>2. j \in DOMAIN top.later /\ g.later[k] = top.later[j]
    BY <1>5, <1>7, <2>1
  <2> QED
    BY <1>8, <2>2
<1>10. CodeWarned(g)
  BY <1>5, <1>7, <1>8, <1>9 DEF CodeWarned
<1>11. \A k \in 1..(1 + 0) : ~ Reporting(stack[k].now)
  <2>1. 1..(1 + 0) = {1}
    OBVIOUS
  <2> QED
    BY <1>2, <1>3, <2>1 DEF Reporting
<1> QED
  BY <1>2, <1>3, <1>10, <1>11, ChainStep

\* A return: the caller goes on behind its visit().
LEMMA ReturnChains ==
  ASSUME Building, ChainInv, Return, UNCHANGED << phase, program >>
  PROVE  ChainInv'
<1>1. PICK top, caller, i, s, t, x :
        /\ top = Top /\ caller = Caller /\ i = caller.now[1] /\ s = stack /\ t = stack'
        /\ x = top.res
  OBVIOUS
<1>2. /\ s # << >> /\ top.now = << >> /\ Len(s) > 1 /\ HasErrors' = HasErrors
  BY <1>1 DEF Return, Finished, Running
<1>3. /\ IsSeq(s) /\ Len(s) \in Nat \ {0} /\ DOMAIN s = 1..Len(s) /\ top = s[1]
      /\ caller = s[2] /\ 1 \in DOMAIN s /\ 2 \in DOMAIN s /\ FrameOK(caller)
  BY <1>1, <1>2, BottomFacts DEF Building, InBuild, Caller
<1>4. /\ caller.now # << >> /\ Head(caller.now) = i /\ i.do = "get" /\ DOMAIN caller = FrameFields
  <2>1. Awaits(s[1 + 1], s[1])
    BY <1>1, <1>2, <1>3 DEF Building, InBuild, IInv, CallsOK
  <2>2. IsSeq(caller.now) /\ DOMAIN caller = FrameFields
    BY <1>3, NowSeq
  <2> QED
    BY <1>1, <1>3, <2>1, <2>2, TailSeq DEF Awaits
<1>5. PICK g : Resumed(caller, g, i, top.res, top.any)
  BY DEF Resumed
<1>6. i.as \in {"any", top.any}
  <2>1. crash' = "none"
    BY ReturnInv DEF Building, InBuild, IInv
  <2> QED
    BY <1>1, <1>4, <2>1 DEF Return
<1>7. /\ Popped(t, g, s)
      /\ arena' = IF i.slot = Result THEN arena
                  ELSE [arena EXCEPT ![caller.obj].slots = AppendAt(@, i.slot, x)]
  BY <1>1, <1>4, <1>5, <1>6 DEF Return, Resumed, Pushed, Popped
<1>8. Remains(caller, g)
  <2>1. CASE i.slot # Result
    BY <1>4, <1>5, <2>1 DEF Resumed, FrameFields, Remains
  <2>2. CASE i.slot = Result
    <3>1. g = [[caller EXCEPT !.now = Tail(@)] EXCEPT !.res = top.res,
                !.any = IF i.as = "any" THEN top.any ELSE @]
      BY <1>5, <2>2 DEF Resumed
    <3> QED
      BY <1>4, <3>1 DEF FrameFields, Remains
  <2> QED
    BY <2>1, <2>2
<1>9. /\ Len(t) = Len(s) - 1 /\ DOMAIN t = 1..(Len(s) - 1) /\ t[1] = g
      /\ \A k \in 2..(Len(s) - 1) : t[k] = s[k + 1]
  <2>1. /\ IsSeq(t) /\ Len(t) = Len(s) - 1 /\ t[1] = g
        /\ \A k \in 2..(Len(s) - 1) : t[k] = s[k + 1]
    <3>1. IsSeq(s) /\ Len(s) > 1 /\ Popped(t, g, s)
      BY <1>2, <1>3, <1>7
    <3> QED
      BY <3>1, DropTwo
  <2> QED
    BY <2>1, SeqFacts
<1>10. Shifted(s, t, 1)
  BY <1>2, <1>3, <1>9 DEF Shifted
<1>11. CodeWarned(g) /\ (Reporting(caller.now) => Reporting(g.now))
  <2>1. caller = stack[2] /\ 2 \in DOMAIN stack /\ caller.now[1].do # "report"
    BY <1>1, <1>3, <1>4
  <2> QED
    BY <1>4, <1>8, <2>1, ChainTail
<1>12. \A k \in 1..(1 + 1) : Reporting(stack[k].now) => Reports(stack')
  <2>1. 1..(1 + 1) = {1, 2}
    OBVIOUS
  <2>2. ~ Reporting(s[1].now)
    BY <1>2, <1>3 DEF Reporting
  <2>3. Reporting(g.now) => Reports(t)
    BY <1>2, <1>3, <1>9 DEF Reports
  <2> QED
    BY <1>1, <1>3, <1>11, <2>1, <2>2, <2>3
<1>13. Len(arena') = Len(arena) /\ \A n \in DOMAIN arena : Crossed(arena'[n]) => Crossed(arena[n])
  <2>1. CASE i.slot = Result
    BY <1>7, <2>1
  <2>2. CASE i.slot # Result
    <3>1. PICK y, z : Matches(arena, caller, y) /\ Makes(i, y, z)
      BY <1>1, <1>3, <1>4, NextMakes
    <3>2. y.at \in {"holds", "beside"}
      BY <1>4, <2>2, <3>1 DEF Makes
    <3>3. PICK p, a, b, slot : p = caller.obj /\ a = arena /\ b = arena' /\ slot = i.slot
      OBVIOUS
    <3>4. p # 0 /\ p \in Locals(caller)
      BY <3>1, <3>2, <3>3, LocalFacts DEF Matches
    <3>5. Locals(caller) \subseteq HeldBy(stack)
      BY <1>1, <1>3, HeldFacts
    <3>6. p \in DOMAIN a /\ DOMAIN a[p] = NodeKeys /\ IsSeq(a)
      BY <3>3, <3>4, <3>5, HeldNodes DEF Settled, Sound
    <3>7. b = [a EXCEPT ![p].slots = AppendAt(@, slot, x)]
      BY <1>7, <2>2, <3>3
    <3>8. /\ DOMAIN b = DOMAIN a /\ Filled(a[p], b[p], slot, x)
          /\ \A q \in DOMAIN a : q # p => b[q] = a[q]
      BY <3>6, <3>7 DEF Filled
    <3>9. Crossed(b[p]) <=> Crossed(a[p])
      BY <3>6, <3>8, CrossingStays
    <3>10. Len(b) = Len(a)
      BY <3>6, <3>7, SeqFacts
    <3> QED
      BY <3>3, <3>8, <3>9, <3>10
  <2> QED
    BY <2>1, <2>2
<1>14. Shifted(stack, stack', 1) /\ CodeWarned(stack'[1]) /\ stack # << >>
  BY <1>1, <1>2, <1>9, <1>10, <1>11
<1> QED
  BY <1>2, <1>12, <1>13, <1>14, ChainStep

\* Every instruction of the builder keeps ChainInv.
LEMMA BuilderChains ==
  ASSUME IInv, OwnInv, TreeInv, MemberInv, ChainInv, RunBuilder
  PROVE  ChainInv'
<1>1. phase = "building" /\ BuilderStep /\ UNCHANGED << parserVars, phase, callVars >>
  BY DEF RunBuilder
<1>2. UNCHANGED << tree, phase, program >>
  BY <1>1 DEF parserVars, callVars
<1>3. Building
  BY <1>1, <1>2, BuilderOwn DEF InBuild, Building
<1> QED
  BY <1>1, <1>2, <1>3, AllocateChains, AttachChains, VisibilityChains, ReportChains,
     CallChains, IterationChains, ReturnChains
  DEF BuilderStep

\* visitFile begins without a node.
LEMMA AcceptChains ==
  ASSUME IInv, OwnInv, AcceptTree
  PROVE  ChainInv'
<1>1. /\ phase = "parsing" /\ work = << >> /\ ~ HasErrors
      /\ stack' = << Frame(1) >> /\ arena' = arena
  BY DEF AcceptTree, StartBuild, Parsed
<1>2. TreeTyped /\ tree # << >> /\ tree[1].sym = "file" /\ TreeDone
  BY <1>1, TreeComplete DEF IInv, FileFirst, ErrorBars
<1>3. 1 \in DOMAIN tree /\ Answer(tree[1].sym) # "empty"
  <2>1. Answer("file") = "Program"
    BY Answers
  <2> QED
    BY <1>2, <2>1, TailSeq DEF TreeTyped
<1>4. PICK f, t : f = Frame(1) /\ t = stack'
  OBVIOUS
<1>5. CodeWarned(f)
  BY <1>2, <1>3, <1>4, FreshWarned
<1>6. t = << f >>
  BY <1>1, <1>4
<1>7. DOMAIN t = {1} /\ t[1] = f /\ Len(t) = 1
  BY <1>6
<1>8. f.res = 0
  BY <1>4 DEF Frame, Null
<1>9. OldNodes' = Len(arena') /\ Len(arena') \in Nat
  <2>1. Len(arena) \in Nat
    BY SeqFacts DEF IInv, LocalsOK
  <2> QED
    BY <1>1, <1>4, <1>7, <1>8, <2>1 DEF OldNodes, Null
<1>10. \A n : n \notin Own'
  BY <1>9 DEF Own
<1>11. \A k \in DOMAIN stack' : CodeWarned(stack'[k])
  BY <1>4, <1>5, <1>7
<1> QED
  BY <1>10, <1>11 DEF ChainInv, CodeWarned, Reports, Reporting, Warned, Crossed

\* Every step keeps ChainInv.
LEMMA NextChains ==
  ASSUME IInv, OwnInv, TreeInv, MemberInv, ChainInv, [Next]_vars
  PROVE  ChainInv'
<1>1. CASE RunBuilder
  BY <1>1, BuilderChains
<1>2. CASE AcceptTree
  BY <1>2, AcceptChains
<1>3. ASSUME stack' = << >> PROVE ChainInv'
  <2>1. DOMAIN stack' = {}
    BY <1>3
  <2> QED
    BY <1>3, <2>1 DEF ChainInv
<1>4. CASE ReturnProgram
  <2>1. crash = "none" /\ crash' = "none"
    BY <1>4, ReturnProgramInv DEF IInv, ScalarsOK
  <2>2. stack' = << >>
    BY <1>4, <2>1 DEF ReturnProgram, EndBuild
  <2> QED
    BY <1>3, <2>2
<1>5. CASE StartParse \/ RunParser \/ SyntaxError \/ RefuseTree \/ PrintDiagnostics
  <2>1. phase # "building"
    BY <1>5 DEF StartParse, RunParser, SyntaxError, RefuseTree, PrintDiagnostics
  <2> QED
    BY <1>3, <1>5, <2>1, NoCalls, Outside
<1>6. CASE Terminated \/ UNCHANGED vars
  <2>1. UNCHANGED << stack, arena, HasErrors >>
    BY <1>6 DEF Terminated, vars, astVars, diagVars
  <2> QED
    BY <2>1 DEF ChainInv, Own, OldNodes
<1> QED
  BY <1>1, <1>2, <1>4, <1>5, <1>6 DEF Next

\* ChainInv holds throughout.
LEMMA ChainsThroughout == Spec => [](IInv /\ OwnInv /\ TreeInv /\ MemberInv /\ ChainInv)
<1>1. Init => ChainInv
  <2> SUFFICES ASSUME Init PROVE ChainInv
    OBVIOUS
  <2>1. stack = << >>
    BY DEF Init
  <2> QED
    BY <2>1 DEF ChainInv
<1>2. ChainInv /\ IInv /\ OwnInv /\ TreeInv /\ MemberInv /\ [Next]_vars => ChainInv'
  BY NextChains
<1> QED
  BY <1>1, <1>2, MembersThroughout, PTL DEF Spec

\* The number of children a view counts in a member.
LEMMA ChildrenSeen ==
  ASSUME NEW n \in DOMAIN arena, Settled(arena, {}), SlotsOK(arena), NEW m \in MemberNames
  PROVE  /\ Len(Children(n, m)) = View(arena[n]).has[m]
         /\ View(arena[n]).has[m] # 0 => Children(n, m) # << >>
         /\ View(arena[n]).has[m] = 0 => Children(n, m) = << >>
<1>1. PICK v, s : v = View(arena[n]) /\ s = Children(n, m)
  OBVIOUS
<1>2. /\ v.has[m] = IF m \in DOMAIN arena[n].slots THEN Len(arena[n].slots[m]) ELSE 0
      /\ \A t \in DOMAIN arena[n].slots : IsSeq(arena[n].slots[t])
  BY <1>1, HeldMembers
<1>3. IsSeq(<< >>) /\ Len(<< >>) = 0
  BY SomeOrNone DEF IsSeq
<1>4. IsSeq(s) /\ Len(s) = v.has[m]
  BY <1>1, <1>2, <1>3 DEF Children
<1> QED
  BY <1>1, <1>4, SomeOrNone

\* What its comments promise of the child in a member.
LEMMA ChildFits ==
  ASSUME NEW n \in DOMAIN arena, Settled(arena, {}), SlotsOK(arena), NEW m,
         NEW i \in DOMAIN Children(n, m)
  PROVE  LET c == Children(n, m)[i]
         IN  c \in DOMAIN arena /\ View(arena[c]).kind = arena[c].kind
             /\ Fits(arena[n].kind, m, View(arena[c]))
<1>1. m \in DOMAIN arena[n].slots /\ Children(n, m) = arena[n].slots[m]
  <2>1. CASE m \in DOMAIN arena[n].slots
    BY <2>1 DEF Children
  <2>2. CASE m \notin DOMAIN arena[n].slots
    BY <2>2, SomeOrNone DEF Children
  <2> QED
    BY <2>1, <2>2
<1>2. PICK c : c = Children(n, m)[i]
  OBVIOUS
<1>3. c \in DOMAIN arena /\ Fits(arena[n].kind, m, View(arena[c]))
  BY <1>1, <1>2 DEF Settled, Suited
<1>4. View(arena[c]).kind = arena[c].kind
  BY DEF View
<1> QED
  BY <1>2, <1>3, <1>4

\* An AST built without an error keeps what the comments of the headers
\* promise: the rules and their visitors leave no try bare, no catch parameter a
\* default, no other else and no variable without a type or a value,
\* and a chain whose operators point both ways, which the builder does
\* allocate, is reported before visitFile returns (visitComparison).
THEOREM ShapesAsDocumentedHolds == Spec => []ShapesAsDocumented
<1>1. ASSUME IInv, OwnInv, TreeInv, MemberInv, ChainInv PROVE ShapesAsDocumented
  <2> SUFFICES ASSUME Complete, ~ HasErrors PROVE ShapesAsDocumented
    BY DEF ShapesAsDocumented
  <2>1. Settled(arena, {}) /\ SlotsOK(arena)
    BY <1>1, FinishedWhole DEF TreeInv, SlotsOK
  <2>2. Root..Len(arena) = Own /\ Root..Len(arena) \subseteq DOMAIN arena
    <3>1. Root = OldNodes + 1 /\ Root \in 1..Len(arena) /\ Len(arena) \in Nat
      BY <1>1, CompleteHolds
    <3>2. DOMAIN arena = 1..Len(arena)
      BY <1>1, OldInArena
    <3> QED
      BY <3>1, <3>2 DEF Own
  <2>3. \A n \in Own : ~ Crossed(arena[n])
    <3>1. PICK s : s = stack
      OBVIOUS
    <3>2. s # << >> /\ s[1].now = << >> /\ DOMAIN s = {1}
      <4>1. stack # << >> /\ Top.now = << >> /\ Len(stack) = 1
        BY DEF Complete, Built, Finished, Running
      <4>2. Top = stack[1] /\ DOMAIN stack = 1..Len(stack)
        BY <1>1, <4>1, BottomFacts
      <4>3. 1..1 = {1}
        OBVIOUS
      <4> QED
        BY <3>1, <4>1, <4>2, <4>3
    <3>3. ~ Reports(s)
      BY <3>2 DEF Reports, Reporting
    <3> QED
      BY <1>1, <3>1, <3>2, <3>3 DEF ChainInv
  <2>4. ASSUME NEW n \in Root..Len(arena)
        PROVE  /\ arena[n].kind = "TryStmt" =>
                    Children(n, "CatchClauses") # << >> \/ Children(n, "Finally") # << >>
               /\ arena[n].kind = "CatchClause" =>
                    Children(Children(n, "Param")[1], "DefaultValue") = << >>
               /\ arena[n].kind = "IfStmt" =>
                    \A i \in DOMAIN Children(n, "Else") :
                      arena[Children(n, "Else")[i]].kind \in {"IfStmt", "Block"}
               /\ arena[n].kind = "ComparisonChainExpr" =>
                    /\ Len(arena[n].ops) = Len(Children(n, "Operands")) - 1
                    /\ \/ \A i \in DOMAIN arena[n].ops : arena[n].ops[i] \in {"Lt", "Le"}
                       \/ \A i \in DOMAIN arena[n].ops : arena[n].ops[i] \in {"Gt", "Ge"}
               /\ arena[n].kind = "VarDecl" =>
                    /\ Children(n, "VarType") # << >> \/ Children(n, "Value") # << >>
                    /\ Children(n, "Value") = << >> => "IsMutable" \in arena[n].flags
    <3>1. PICK v : v = View(arena[n])
      OBVIOUS
    <3>2. /\ n \in DOMAIN arena /\ Whole(v) /\ v.kind = arena[n].kind
          /\ v.ops = Len(arena[n].ops) /\ v.mutable = ("IsMutable" \in arena[n].flags)
      BY <2>1, <2>2, <3>1, HeldMembers
    <3>3. {"CatchClauses", "Finally", "Param", "DefaultValue", "Else", "Operands", "VarType",
           "Value"} \subseteq MemberNames
      BY DEF MemberNames
    <3>4. \A m \in MemberNames :
            /\ Len(Children(n, m)) = v.has[m]
            /\ v.has[m] # 0 => Children(n, m) # << >>
            /\ v.has[m] = 0 => Children(n, m) = << >>
      BY <2>1, <3>1, <3>2, ChildrenSeen
    <3>5. arena[n].kind = "TryStmt" =>
            Children(n, "CatchClauses") # << >> \/ Children(n, "Finally") # << >>
      BY <3>2, <3>3, <3>4 DEF Whole, Shaped
    <3>6. ASSUME arena[n].kind = "CatchClause"
          PROVE  Children(Children(n, "Param")[1], "DefaultValue") = << >>
      <4>1. v.has["Param"] = 1
        <5>1. /\ "Param" \in DOMAIN MembersOf("CatchClause") /\ "Param" \notin ListMembers
              /\ << "CatchClause", "Param" >> \notin Optional
          BY StmtMembersOf DEF ListMembers, Optional
        <5> QED
          BY <3>2, <3>6, <5>1 DEF Whole, Pointers
      <4>2. PICK s, c : s = Children(n, "Param") /\ c = s[1]
        OBVIOUS
      <4>3. IsSeq(s) /\ Len(s) = 1
        <5>1. \A t \in DOMAIN arena[n].slots : IsSeq(arena[n].slots[t])
          BY <2>1, <3>2 DEF SlotsOK
        <5>2. IsSeq(<< >>)
          BY DEF IsSeq
        <5> QED
          BY <3>3, <3>4, <4>1, <4>2, <5>1, <5>2 DEF Children
      <4>4. 1 \in DOMAIN s
        BY <4>3, SeqFacts
      <4>5. c \in DOMAIN arena /\ Fits(arena[n].kind, "Param", View(arena[c]))
        BY <2>1, <3>2, <4>2, <4>4, ChildFits
      <4>6. View(arena[c]).has["DefaultValue"] = 0
        BY <3>6, <4>5 DEF Fits
      <4> QED
        BY <2>1, <3>3, <4>2, <4>5, <4>6, ChildrenSeen
    <3>7. ASSUME arena[n].kind = "IfStmt", NEW i \in DOMAIN Children(n, "Else")
          PROVE  arena[Children(n, "Else")[i]].kind \in {"IfStmt", "Block"}
      <4>1. PICK c : c = Children(n, "Else")[i]
        OBVIOUS
      <4>2. View(arena[c]).kind = arena[c].kind /\ Fits(arena[n].kind, "Else", View(arena[c]))
        BY <2>1, <3>2, <4>1, ChildFits
      <4> QED
        BY <3>7, <4>1, <4>2 DEF Fits
    <3>8. ASSUME arena[n].kind = "ComparisonChainExpr"
          PROVE  /\ Len(arena[n].ops) = Len(Children(n, "Operands")) - 1
                 /\ \/ \A i \in DOMAIN arena[n].ops : arena[n].ops[i] \in {"Lt", "Le"}
                    \/ \A i \in DOMAIN arena[n].ops : arena[n].ops[i] \in {"Gt", "Ge"}
      <4>1. Len(arena[n].ops) = Len(Children(n, "Operands")) - 1
        BY <3>2, <3>3, <3>4, <3>8 DEF Whole, Shaped
      <4>2. ~ Crossed(arena[n])
        BY <2>2, <2>3
      <4> QED
        BY <3>8, <4>1, <4>2 DEF Crossed
    <3>9. ASSUME arena[n].kind = "VarDecl"
          PROVE  /\ Children(n, "VarType") # << >> \/ Children(n, "Value") # << >>
                 /\ Children(n, "Value") = << >> => "IsMutable" \in arena[n].flags
      <4>1. v.has["VarType"] # 0 \/ v.has["Value"] # 0
        BY <3>2, <3>9 DEF Whole, Shaped
      <4>2. v.has["Value"] = 0 => "IsMutable" \in arena[n].flags
        BY <3>2, <3>9 DEF Whole, Shaped
      <4> QED
        BY <3>3, <3>4, <4>1, <4>2
    <3> QED
      BY <3>5, <3>6, <3>7, <3>8, <3>9
  <2> QED
    BY <2>4 DEF ShapesAsDocumented
<1> QED
  BY <1>1, ChainsThroughout, PTL
==============================================================================
