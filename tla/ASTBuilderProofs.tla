-------------------------- MODULE ASTBuilderProofs ---------------------------
(***************************************************************************)
(* IInv is an inductive invariant of parse(): of the parser, of the        *)
(* builder's call stack and of the diagnostics engine together.  From it   *)
(* follow type correctness, the absence of null dereferences and of        *)
(* std::bad_any_cast, and the two promises about errors, for every grammar *)
(* table, every file and any number of calls.                              *)
(*                                                                         *)
(* The proof has three parts.  What every production of the grammar        *)
(* contains comes first, for the visitors rely on it without a test        *)
(* wherever they visit a child that the rule always has: the lemmas count  *)
(* symbols, through concatenation, options, lists and repetitions, and     *)
(* then rule by rule.  Then the typing of the std::any protocol, visitor   *)
(* by visitor: whatever tree the parser has built so far, the visitor of a *)
(* context returns the static type of its rule and casts each child to the *)
(* type of the child's rule, which AnyVisitOK sums up.  Last, a run.       *)
(***************************************************************************)
EXTENDS ASTInvariant, FiniteSetTheorems, SequenceTheorems, WellFoundedInduction, TLAPS

-----------------------------------------------------------------------------
(* Sequences.                                                              *)

\* The length and the domain of a sequence, whatever its elements are.
LEMMA SeqFacts == ASSUME NEW s, IsSeq(s) PROVE Len(s) \in Nat /\ DOMAIN s = 1..Len(s)
  BY DEF IsSeq

\* A function on 1..n is a sequence.
LEMMA FunSeq ==
  ASSUME NEW n \in Int, NEW f, f = [i \in 1..n |-> f[i]]
  PROVE  IsSeq(f)
<1> DEFINE m == IF n < 0 THEN 0 ELSE n
<1>1. m \in Nat /\ f \in [1..m -> {f[i] : i \in DOMAIN f}]
  OBVIOUS
<1>2. f \in Seq({f[i] : i \in DOMAIN f})
  BY <1>1, SMTT(30)
<1> QED
  BY <1>2 DEF IsSeq

\* Every element of a concatenation comes from one of its parts.
LEMMA ConcatSeq ==
  ASSUME NEW s, NEW t, IsSeq(s), IsSeq(t)
  PROVE  /\ IsSeq(s \o t)
         /\ Len(s \o t) = Len(s) + Len(t)
         /\ \A i \in DOMAIN (s \o t) : \/ i \in DOMAIN s /\ (s \o t)[i] = s[i]
                                       \/ i - Len(s) \in DOMAIN t /\ (s \o t)[i] = t[i - Len(s)]
<1> DEFINE S == {s[i] : i \in DOMAIN s} \cup {t[i] : i \in DOMAIN t}
           u == s \o t
<1>1. s \in Seq(S) /\ t \in Seq(S)
  BY DEF IsSeq
<1>2. /\ u \in Seq(S)
      /\ Len(u) = Len(s) + Len(t)
      /\ \A i \in 1..Len(u) : u[i] = IF i <= Len(s) THEN s[i] ELSE t[i - Len(s)]
  BY <1>1
<1>3. u \in Seq({u[i] : i \in DOMAIN u})
  <2> HIDE DEF u, S
  <2>1. Len(u) \in Nat /\ u = [i \in 1..Len(u) |-> u[i]]
    BY <1>2
  <2> QED
    BY <2>1, FunSeq, SMTT(30) DEF IsSeq
<1>4. DOMAIN u = 1..Len(u) /\ Len(s) \in Nat /\ Len(t) \in Nat
      /\ DOMAIN s = 1..Len(s) /\ DOMAIN t = 1..Len(t)
  BY <1>1, <1>2
<1> HIDE DEF S, u
<1> QED
  BY <1>2, <1>3, <1>4, SMTT(30) DEF IsSeq, u

\* The rest of a sequence.
LEMMA TailSeq ==
  ASSUME NEW s, IsSeq(s), s # << >>
  PROVE  /\ IsSeq(Tail(s)) /\ Len(Tail(s)) = Len(s) - 1 /\ DOMAIN Tail(s) = 1..(Len(s) - 1)
         /\ \A i \in DOMAIN Tail(s) : i + 1 \in DOMAIN s /\ Tail(s)[i] = s[i + 1]
         /\ Head(s) = s[1] /\ 1 \in DOMAIN s
<1> DEFINE S == {s[i] : i \in DOMAIN s}
           t == Tail(s)
<1>1. /\ t \in Seq(S) /\ Len(t) = Len(s) - 1 /\ \A i \in 1..Len(t) : t[i] = s[i + 1]
      /\ Head(s) = s[1]
  BY DEF IsSeq
<1>2. Len(s) \in Nat /\ DOMAIN s = 1..Len(s) /\ Len(s) # 0
  BY DEF IsSeq
<1> HIDE DEF t, S
<1>3. DOMAIN t = 1..Len(t) /\ Len(t) \in Nat /\ t = [i \in 1..Len(t) |-> t[i]]
  BY <1>1
<1>4. IsSeq(t)
  BY <1>3, FunSeq
<1> QED
  BY <1>1, <1>2, <1>3, <1>4 DEF t

\* push_back: the old elements and the new one.
LEMMA AppendSeq ==
  ASSUME NEW s, IsSeq(s), NEW x
  PROVE  /\ IsSeq(Append(s, x)) /\ Len(Append(s, x)) = Len(s) + 1 /\ Append(s, x) # << >>
         /\ \A i \in DOMAIN Append(s, x) :
              Append(s, x)[i] = x \/ (i \in DOMAIN s /\ Append(s, x)[i] = s[i])
<1> DEFINE S == {s[i] : i \in DOMAIN s} \cup {x}
           t == Append(s, x)
<1>1. s \in Seq(S)
  BY DEF IsSeq
<1>2. /\ t \in Seq(S) /\ Len(t) = Len(s) + 1 /\ Len(s) \in Nat /\ DOMAIN s = 1..Len(s)
      /\ \A i \in 1..Len(t) : t[i] = IF i <= Len(s) THEN s[i] ELSE x
  BY <1>1
<1> HIDE DEF t, S
<1>3. t = [i \in 1..Len(t) |-> t[i]] /\ Len(t) \in Nat /\ t # << >> /\ DOMAIN t = 1..Len(t)
  BY <1>2
<1>4. IsSeq(t)
  BY <1>3, FunSeq
<1> QED
  BY <1>2, <1>3, <1>4 DEF t

-----------------------------------------------------------------------------
(* Counting.                                                               *)

\* A count is a number, and zero when there is no occurrence.
LEMMA CountType ==
  ASSUME NEW s, IsSeq(s), NEW x
  PROVE  /\ IsFiniteSet({i \in DOMAIN s : s[i] = x})
         /\ Count(s, x) \in Nat
         /\ Count(s, x) = 0 <=> \A i \in DOMAIN s : s[i] # x
<1> DEFINE A == {i \in DOMAIN s : s[i] = x}
<1>1. Len(s) \in Nat /\ DOMAIN s = 1..Len(s)
  BY SeqFacts
<1>2. IsFiniteSet(1..Len(s)) /\ A \in SUBSET (1..Len(s))
  BY <1>1, FS_Interval
<1>3. IsFiniteSet(A)
  BY <1>2, FS_Subset
<1>4. Cardinality(A) \in Nat /\ (Cardinality(A) = 0 <=> A = {})
  BY <1>3, FS_CardinalityType, FS_EmptySet
<1> QED
  BY <1>3, <1>4 DEF Count

\* Two places in which x occurs.
LEMMA CountTwo ==
  ASSUME NEW s, IsSeq(s), NEW x, NEW i \in DOMAIN s, NEW j \in DOMAIN s, i # j,
         s[i] = x, s[j] = x
  PROVE  Count(s, x) >= 2
<1> DEFINE A == {k \in DOMAIN s : s[k] = x}
<1>1. IsFiniteSet(A) /\ {i, j} \in SUBSET A
  BY CountType
<1> HIDE DEF A
<1>2. IsFiniteSet({i}) /\ Cardinality({i}) = 1
  BY FS_Singleton
<1>3. Cardinality({i} \cup {j}) = 2
  BY <1>2, FS_AddElement
<1>4. {i, j} = {i} \cup {j}
  OBVIOUS
<1>5. Cardinality({i, j}) <= Cardinality(A)
  BY <1>1, FS_Subset
<1>6. Count(s, x) = Cardinality(A)
  BY DEF Count, A
<1>7. Cardinality(A) \in Nat
  BY <1>1, FS_CardinalityType
<1> QED
  BY <1>3, <1>4, <1>5, <1>6, <1>7

\* Occurrences in a concatenation are those in its two parts.
LEMMA CountConcat ==
  ASSUME NEW s, IsSeq(s), NEW t, IsSeq(t), NEW x
  PROVE  Count(s \o t, x) = Count(s, x) + Count(t, x)
<1>0. PICK u : u = s \o t
  OBVIOUS
<1> DEFINE m == Len(s)
           n == Len(t)
           A == {i \in DOMAIN s : s[i] = x}
           B == {i \in DOMAIN t : t[i] = x}
           C == {i \in (m + 1)..(m + n) : u[i] = x}
           U == {i \in DOMAIN u : u[i] = x}
<1>1. /\ m \in Nat /\ n \in Nat /\ DOMAIN s = 1..m /\ DOMAIN t = 1..n
      /\ DOMAIN u = 1..(m + n)
      /\ \A i \in 1..m : u[i] = s[i]
      /\ \A i \in 1..n : u[m + i] = t[i]
  <2>1. IsSeq(u) /\ Len(u) = m + n /\ m \in Nat /\ n \in Nat /\ DOMAIN s = 1..m /\ DOMAIN t = 1..n
    BY <1>0, ConcatSeq, SeqFacts
  <2>2. DOMAIN u = 1..(m + n)
    BY <2>1, SeqFacts
  <2> DEFINE S == {s[i] : i \in DOMAIN s} \cup {t[i] : i \in DOMAIN t}
  <2>3. s \in Seq(S) /\ t \in Seq(S)
    BY DEF IsSeq
  <2> HIDE DEF S
  <2>4. \A i \in 1..(m + n) : u[i] = IF i <= m THEN s[i] ELSE t[i - m]
    BY <1>0, <2>3
  <2>5. \A i \in 1..n : u[m + i] = t[i]
    <3> TAKE i \in 1..n
    <3>1. m + i \in 1..(m + n) /\ ~ (m + i <= m) /\ (m + i) - m = i
      BY <2>1
    <3> QED
      BY <2>4, <3>1
  <2> QED
    BY <2>1, <2>2, <2>4, <2>5
<1> HIDE DEF m, n
<1>2. U = A \cup C /\ A \cap C = {}
  BY <1>1
<1>3. IsFiniteSet(A) /\ IsFiniteSet(B)
  BY CountType
<1>4. ExistsBijection(B, C)
  <2> DEFINE f == [i \in B |-> m + i]
  <2>1. \A i \in B : m + i \in C
    BY <1>1
  <2>2. \A k \in C : k - m \in B /\ m + (k - m) = k
    <3> TAKE k \in C
    <3>1. k - m \in 1..n /\ m + (k - m) = k
      BY <1>1
    <3> QED
      BY <1>1, <3>1
  <2>3. \A i, j \in B : m + i = m + j => i = j
    BY <1>1
  <2>4. f \in [B -> C] /\ \A i, j \in B : f[i] = f[j] => i = j
    BY <2>1, <2>3
  <2>5. \A k \in C : \E i \in B : f[i] = k
    BY <2>2
  <2> HIDE DEF f, B, C
  <2> QED
    BY <2>4, <2>5 DEF ExistsBijection, Bijection, Injection, Surjection, IsInjective
<1>5. IsFiniteSet(C) /\ Cardinality(C) = Cardinality(B)
  BY <1>3, <1>4, FS_Bijection
<1>6. Cardinality(U) = Cardinality(A) + Cardinality(C)
  <2>1. Cardinality(A \cup C) = Cardinality(A) + Cardinality(C) - Cardinality(A \cap C)
    BY <1>3, <1>5, FS_Union
  <2>2. Cardinality(A) \in Nat /\ Cardinality(C) \in Nat
    BY <1>3, <1>5, FS_CardinalityType
  <2>3. Cardinality(A \cap C) = 0 /\ Cardinality(U) = Cardinality(A \cup C)
    BY <1>2, FS_EmptySet
  <2> HIDE DEF A, C, U
  <2> QED
    BY <2>1, <2>2, <2>3
<1>7. Count(s, x) = Cardinality(A) /\ Count(t, x) = Cardinality(B) /\ Count(u, x) = Cardinality(U)
  BY DEF Count
<1> QED
  BY <1>0, <1>5, <1>6, <1>7

\* One element.
LEMMA CountOne ==
  ASSUME NEW a, NEW x
  PROVE  IsSeq(<< a >>) /\ Count(<< a >>, x) = IF a = x THEN 1 ELSE 0
<1>1. IsSeq(<< a >>) /\ DOMAIN << a >> = {1} /\ << a >>[1] = a
  BY DEF IsSeq
<1>2. CASE a = x
  <2>1. {i \in DOMAIN << a >> : << a >>[i] = x} = {1}
    BY <1>1, <1>2
  <2> QED
    BY <1>1, <1>2, <2>1, FS_Singleton DEF Count
<1>3. CASE a # x
  <2>1. {i \in DOMAIN << a >> : << a >>[i] = x} = {}
    BY <1>1, <1>3
  <2> QED
    BY <1>1, <1>3, <2>1, FS_EmptySet DEF Count
<1> QED
  BY <1>2, <1>3

\* What the parser takes off its list is no longer counted.
LEMMA CountTail ==
  ASSUME NEW s, IsSeq(s), s # << >>, NEW x
  PROVE  Count(s, x) = Count(Tail(s), x) + (IF Head(s) = x THEN 1 ELSE 0)
<1>1. PICK t, h : t = Tail(s) /\ h = << Head(s) >>
  OBVIOUS
<1>2. IsSeq(t) /\ IsSeq(h)
  BY <1>1, TailSeq, CountOne
<1>3. s = h \o t
  BY <1>1 DEF IsSeq
<1>4. Count(s, x) = Count(h, x) + Count(t, x)
  BY <1>2, <1>3, CountConcat
<1>5. Count(h, x) = (IF Head(s) = x THEN 1 ELSE 0) /\ Count(t, x) \in Nat
  BY <1>1, <1>2, CountOne, CountType
<1> QED
  BY <1>1, <1>4, <1>5

\* Push back.
LEMMA CountAppend ==
  ASSUME NEW s, IsSeq(s), NEW a, NEW x
  PROVE  Count(Append(s, a), x) = Count(s, x) + (IF a = x THEN 1 ELSE 0)
<1>1. PICK h : h = << a >>
  OBVIOUS
<1>2. IsSeq(h) /\ Count(h, x) = (IF a = x THEN 1 ELSE 0)
  BY <1>1, CountOne
<1>3. Append(s, a) = s \o h
  BY <1>1 DEF IsSeq
<1> QED
  BY <1>2, <1>3, CountConcat

-----------------------------------------------------------------------------
(* Repetition.                                                             *)

\* A word of A ** B is a word of A and a word of B.
LEMMA InCat == ASSUME NEW A, NEW B, NEW p \in A ** B PROVE \E a \in A, b \in B : p = a \o b
  BY DEF **

\* The least element of a set of naturals.
LEMMA Least ==
  ASSUME NEW T, T \subseteq Nat, T # {}
  PROVE  \E n \in T : \A m \in T : n <= m
<1> DEFINE less == {p \in Nat \X Nat : p[1] < p[2]}
<1>1. IsWellFoundedOn(less, Nat)
  BY NatLessThanWellFounded, Zenon DEF OpToRel
<1>2. \A i, j \in Nat : << j, i >> \in less <=> j < i
  OBVIOUS
<1> HIDE DEF less
<1>3. PICK n \in T : \A m \in T : ~ (<< m, n >> \in less)
  BY <1>1, WFMin, Zenon
<1>4. \A m \in T : n <= m
  <2> TAKE m \in T
  <2>1. n \in Nat /\ m \in Nat
    OBVIOUS
  <2>2. ~ (m < n)
    BY <1>2, <1>3, <2>1, Zenon
  <2> QED
    BY <2>1, <2>2
<1> QED
  BY <1>4

\* f maps n to the sequences of n words of A, for n up to k.
Repeats(f, k, A) == f = [n \in 0..k |-> IF n = 0 THEN {<< >>} ELSE f[n - 1] ** A]

\* The function that Rep chooses exists: a least bound without one would have one.
LEMMA RepeatsExist == ASSUME NEW A, NEW n \in Nat PROVE \E f : Repeats(f, n, A)
<1> DEFINE T == {k \in Nat : ~ \E f : Repeats(f, k, A)}
<1> SUFFICES ASSUME T # {} PROVE FALSE
  OBVIOUS
<1>1. PICK k \in T : \A m \in T : k <= m
  BY Least
<1>2. CASE k = 0
  <2>1. Repeats([m \in 0..0 |-> {<< >>}], 0, A)
    BY DEF Repeats
  <2> QED
    BY <1>2, <2>1
<1>3. CASE k # 0
  <2>1. k - 1 \in Nat /\ k - 1 \notin T
    BY <1>1, <1>3
  <2>2. PICK f : Repeats(f, k - 1, A)
    BY <2>1
  <2> DEFINE g == [m \in 0..k |-> IF m = k THEN f[k - 1] ** A ELSE f[m]]
  <2>3. \A m \in 0..(k - 1) : f[m] = IF m = 0 THEN {<< >>} ELSE f[m - 1] ** A
    BY <2>2 DEF Repeats
  <2>4. \A m \in 0..k : g[m] = IF m = 0 THEN {<< >>} ELSE g[m - 1] ** A
    <3> TAKE m \in 0..k
    <3>1. CASE m = k
      <4>1. g[m] = f[k - 1] ** A /\ g[m - 1] = f[k - 1] /\ m # 0
        BY <1>3, <2>1, <3>1
      <4> QED
        BY <4>1
    <3>2. CASE m # k
      <4>1. g[m] = f[m] /\ m \in 0..(k - 1)
        BY <2>1, <3>2
      <4>2. m # 0 => g[m - 1] = f[m - 1]
        BY <2>1, <3>2
      <4> QED
        BY <2>3, <4>1, <4>2
    <3> QED
      BY <3>1, <3>2
  <2>5. g = [m \in 0..k |-> g[m]]
    OBVIOUS
  <2> HIDE DEF g
  <2>6. Repeats(g, k, A)
    BY <2>4, <2>5 DEF Repeats
  <2> QED
    BY <2>6
<1> QED
  BY <1>2, <1>3

\* Induction on the repetitions: what holds of the empty word and survives one
\* more word of A holds of every word of Rep(A).
LEMMA RepIn ==
  ASSUME NEW A, NEW S, << >> \in S, \A s \in S, a \in A : s \o a \in S
  PROVE  Rep(A) \subseteq S
<1>1. PICK f : f = CHOOSE g : Repeats(g, MaxRep, A)
  OBVIOUS
<1>2. Repeats(f, MaxRep, A)
  BY <1>1, RepeatsExist, BoundsAssumption
<1>3. Rep(A) = UNION {f[n] : n \in 0..MaxRep}
  BY <1>1 DEF Rep, Repeats
<1>4. \A n \in 0..MaxRep : f[n] \subseteq S
  <2> DEFINE T == {k \in 0..MaxRep : ~ (f[k] \subseteq S)}
  <2> SUFFICES ASSUME T # {} PROVE FALSE
    OBVIOUS
  <2>1. MaxRep \in Nat /\ T \subseteq Nat
    BY BoundsAssumption
  <2>2. PICK k \in T : \A m \in T : k <= m
    BY <2>1, Least
  <2>3. f[k] = IF k = 0 THEN {<< >>} ELSE f[k - 1] ** A
    BY <1>2 DEF Repeats
  <2>4. CASE k # 0
    <3>1. f[k - 1] \subseteq S
      BY <2>1, <2>2, <2>4
    <3> QED
      <4>1. PICK p \in f[k] : p \notin S
        BY <2>2
      <4>2. p \in f[k - 1] ** A
        BY <2>3, <2>4, <4>1
      <4>3. PICK s \in f[k - 1], a \in A : p = s \o a
        BY <4>2, InCat
      <4> QED
        BY <3>1, <4>1, <4>3
  <2> QED
    BY <2>3, <2>4
<1> QED
  BY <1>3, <1>4

-----------------------------------------------------------------------------
(* Sets of words.                                                          *)

Words(A) == \A p \in A : IsSeq(p)

\* Every word of A contains a symbol of S.
Sure(A, S) == \A p \in A : \E s \in S : Count(p, s) >= 1

\* No word of A contains s.
Never(A, s) == \A p \in A : Count(p, s) = 0

\* Nothing is counted in the empty word.
LEMMA CountEmpty == ASSUME NEW s PROVE IsSeq(<< >>) /\ Count(<< >>, s) = 0
<1>1. IsSeq(<< >>) /\ DOMAIN << >> = {}
  BY DEF IsSeq
<1> QED
  BY <1>1, CountType

\* A symbol that occurs is counted.
LEMMA CountSome ==
  ASSUME NEW p, IsSeq(p), NEW i \in DOMAIN p
  PROVE  Count(p, p[i]) >= 1
<1>1. Count(p, p[i]) \in Nat /\ Count(p, p[i]) # 0
  BY CountType
<1> QED
  BY <1>1

\* A word of A ** B is made of a word of A and a word of B.
LEMMA CatWord ==
  ASSUME NEW A, NEW B, Words(A), Words(B), NEW p \in A ** B
  PROVE  /\ IsSeq(p)
         /\ \E a \in A, b \in B : /\ IsSeq(a) /\ IsSeq(b)
                                  /\ \A s : /\ Count(p, s) = Count(a, s) + Count(b, s)
                                            /\ Count(a, s) \in Nat /\ Count(b, s) \in Nat
<1>1. PICK a \in A, b \in B : p = a \o b
  BY InCat
<1>2. IsSeq(a) /\ IsSeq(b)
  BY DEF Words
<1>3. \A s : Count(a, s) \in Nat /\ Count(b, s) \in Nat /\ Count(p, s) = Count(a, s) + Count(b, s)
  <2> TAKE s
  <2>1. Count(a, s) \in Nat /\ Count(b, s) \in Nat
    BY <1>2, CountType
  <2>2. Count(a \o b, s) = Count(a, s) + Count(b, s)
    BY <1>2, CountConcat
  <2> QED
    BY <1>1, <2>1, <2>2
<1>4. IsSeq(p)
  BY <1>1, <1>2, ConcatSeq
<1> QED
  BY <1>2, <1>3, <1>4

\* Concatenation keeps what one part is sure to contain and what both never do.
LEMMA CatSure ==
  ASSUME NEW A, NEW B, Words(A), Words(B)
  PROVE  /\ Words(A ** B)
         /\ \A S : Sure(A, S) \/ Sure(B, S) => Sure(A ** B, S)
         /\ \A s : Never(A, s) /\ Never(B, s) => Never(A ** B, s)
<1>1. Words(A ** B)
  BY CatWord DEF Words
<1>2. ASSUME NEW S, Sure(A, S) \/ Sure(B, S), NEW p \in A ** B
      PROVE  \E s \in S : Count(p, s) >= 1
  <2>1. PICK a \in A, b \in B :
          \A s : /\ Count(p, s) = Count(a, s) + Count(b, s)
                 /\ Count(a, s) \in Nat /\ Count(b, s) \in Nat
    BY CatWord
  <2>2. PICK s \in S : Count(a, s) >= 1 \/ Count(b, s) >= 1
    BY <1>2 DEF Sure
  <2>3. /\ Count(p, s) = Count(a, s) + Count(b, s)
        /\ Count(a, s) \in Nat /\ Count(b, s) \in Nat
    BY <2>1
  <2>4. Count(p, s) >= 1
    BY <2>2, <2>3
  <2> QED
    BY <2>4
<1>3. ASSUME NEW s, Never(A, s), Never(B, s), NEW p \in A ** B
      PROVE  Count(p, s) = 0
  <2>1. PICK a \in A, b \in B : Count(p, s) = Count(a, s) + Count(b, s)
    BY CatWord
  <2> QED
    BY <1>3, <2>1 DEF Never
<1> QED
  BY <1>1, <1>2, <1>3 DEF Sure, Never

\* One symbol out of several.
LEMMA OneOfSure ==
  ASSUME NEW syms
  PROVE  /\ Words(OneOf(syms))
         /\ \A S : syms \subseteq S => Sure(OneOf(syms), S)
         /\ \A s : s \notin syms => Never(OneOf(syms), s)
<1>1. \A p \in OneOf(syms) : \E a \in syms : p = << a >>
  BY DEF OneOf
<1>2. \A a, s : IsSeq(<< a >>) /\ Count(<< a >>, s) = IF a = s THEN 1 ELSE 0
  BY CountOne
<1>3. Words(OneOf(syms))
  BY <1>1, <1>2 DEF Words
<1>4. ASSUME NEW S, syms \subseteq S PROVE Sure(OneOf(syms), S)
  <2> SUFFICES ASSUME NEW p \in OneOf(syms) PROVE \E s \in S : Count(p, s) >= 1
    BY DEF Sure
  <2>1. PICK a \in syms : p = << a >>
    BY <1>1
  <2>2. Count(p, a) = 1
    BY <1>2, <2>1
  <2> QED
    BY <1>4, <2>2
<1>5. ASSUME NEW s, s \notin syms PROVE Never(OneOf(syms), s)
  BY <1>1, <1>2, <1>5 DEF Never
<1> QED
  BY <1>3, <1>4, <1>5

\* A single symbol.
LEMMA OneSure ==
  ASSUME NEW a
  PROVE  /\ Words(One(a)) /\ Sure(One(a), {a})
         /\ \A s : s # a => Never(One(a), s)
<1>1. One(a) = OneOf({a})
  BY DEF One, OneOf
<1> QED
  BY <1>1, OneOfSure

\* What is optional may be missing.
LEMMA OptSure ==
  ASSUME NEW A, Words(A)
  PROVE  /\ Words(Opt(A))
         /\ \A s : Never(A, s) => Never(Opt(A), s)
  BY CountEmpty DEF Words, Opt, Never

\* So may what is repeated.
LEMMA RepWords == ASSUME NEW A, Words(A) PROVE Words(Rep(A))
<1> DEFINE V == UNION {{p[i] : i \in DOMAIN p} : p \in A}
<1>1. \A p \in A : p \in Seq(V)
  <2> TAKE p \in A
  <2> DEFINE R == {p[i] : i \in DOMAIN p}
  <2>1. R \subseteq V
    OBVIOUS
  <2>2. p \in Seq(R)
    BY DEF Words, IsSeq
  <2> HIDE DEF R, V
  <2> QED
    BY <2>1, <2>2
<1>2. << >> \in Seq(V) /\ \A s \in Seq(V), a \in A : s \o a \in Seq(V)
  BY <1>1
<1> HIDE DEF V
<1>3. Rep(A) \subseteq Seq(V)
  BY <1>2, RepIn
<1>4. \A p \in Seq(V) : IsSeq(p)
  <2> TAKE p \in Seq(V)
  <2>1. p = [i \in 1..Len(p) |-> p[i]] /\ Len(p) \in Int
    OBVIOUS
  <2> QED
    BY <2>1, FunSeq
<1> QED
  BY <1>3, <1>4 DEF Words

\* A list has an element.
LEMMA ListSure ==
  ASSUME NEW A, Words(A), NEW sep
  PROVE  /\ Words(List(A, sep))
         /\ \A S : Sure(A, S) => Sure(List(A, sep), S)
<1>1. Words(One(sep) ** A)
  BY OneSure, CatSure
<1>2. Words(Rep(One(sep) ** A))
  BY <1>1, RepWords
<1> QED
  BY <1>2, CatSure DEF List

\* What is between two brackets.
LEMMA GroupSure ==
  ASSUME NEW A, Words(A), NEW open, NEW close
  PROVE  /\ Words(Group(open, A, close))
         /\ \A S : Sure(A, S) => Sure(Group(open, A, close), S)
         /\ \A s : (Never(A, s) /\ s # open /\ s # close) => Never(Group(open, A, close), s)
<1>1. /\ Words(One(open)) /\ Words(One(close))
      /\ \A s : (s # open => Never(One(open), s)) /\ (s # close => Never(One(close), s))
  BY OneSure
<1>2. /\ Words(One(open) ** A)
      /\ \A S : Sure(A, S) => Sure(One(open) ** A, S)
      /\ \A s : (Never(A, s) /\ s # open) => Never(One(open) ** A, s)
  BY <1>1, CatSure
<1> QED
  BY <1>1, <1>2, CatSure DEF Group

\* Words that are written out.
LEMMA LiteralWord ==
  /\ \A a : IsSeq(<< a >>)
  /\ \A a, b : IsSeq(<< a, b >>)
  /\ \A a, b, c : IsSeq(<< a, b, c >>)
  /\ \A a, b, c, d : IsSeq(<< a, b, c, d >>)
  /\ \A a, b, c, d, e : IsSeq(<< a, b, c, d, e >>)
  /\ \A a, b, c, d, e, f, g : IsSeq(<< a, b, c, d, e, f, g >>)
  BY DEF IsSeq

\* A written-out word contains each of its symbols.
LEMMA TupleSure ==
  /\ \A a, b : /\ Words({<< a, b >>})
               /\ Sure({<< a, b >>}, {a}) /\ Sure({<< a, b >>}, {b})
  /\ \A a, b, c : /\ Words({<< a, b, c >>}) /\ Sure({<< a, b, c >>}, {a})
                  /\ Sure({<< a, b, c >>}, {b}) /\ Sure({<< a, b, c >>}, {c})
  /\ \A a, b, c, d, e, f, g :
       LET A == {<< a, b, c, d, e, f, g >>}
       IN  Words(A) /\ Sure(A, {c}) /\ Sure(A, {e}) /\ Sure(A, {g})
<1>1. ASSUME NEW p, IsSeq(p), NEW i \in DOMAIN p
      PROVE  Words({p}) /\ Sure({p}, {p[i]})
  BY <1>1, CountSome DEF Words, Sure
<1>2. ASSUME NEW a, NEW b
      PROVE  Words({<< a, b >>}) /\ Sure({<< a, b >>}, {a}) /\ Sure({<< a, b >>}, {b})
  <2>1. PICK p : p = << a, b >>
    OBVIOUS
  <2>2. IsSeq(p) /\ 1 \in DOMAIN p /\ 2 \in DOMAIN p /\ p[1] = a /\ p[2] = b
    BY <2>1, LiteralWord
  <2>3. Words({p}) /\ Sure({p}, {p[1]}) /\ Sure({p}, {p[2]})
    BY <1>1, <2>2
  <2> QED
    BY <2>1, <2>2, <2>3
<1>3. ASSUME NEW a, NEW b, NEW c
      PROVE  /\ Words({<< a, b, c >>}) /\ Sure({<< a, b, c >>}, {a})
             /\ Sure({<< a, b, c >>}, {b}) /\ Sure({<< a, b, c >>}, {c})
  <2>1. PICK p : p = << a, b, c >>
    OBVIOUS
  <2>2. /\ IsSeq(p) /\ 1 \in DOMAIN p /\ 2 \in DOMAIN p /\ 3 \in DOMAIN p
        /\ p[1] = a /\ p[2] = b /\ p[3] = c
    BY <2>1, LiteralWord
  <2>3. Words({p}) /\ Sure({p}, {p[1]}) /\ Sure({p}, {p[2]}) /\ Sure({p}, {p[3]})
    BY <1>1, <2>2
  <2> QED
    BY <2>1, <2>2, <2>3
<1>4. ASSUME NEW a, NEW b, NEW c, NEW d, NEW e, NEW f, NEW g
      PROVE  LET A == {<< a, b, c, d, e, f, g >>}
             IN  Words(A) /\ Sure(A, {c}) /\ Sure(A, {e}) /\ Sure(A, {g})
  <2>1. PICK p : p = << a, b, c, d, e, f, g >>
    OBVIOUS
  <2>2. /\ IsSeq(p) /\ 3 \in DOMAIN p /\ 5 \in DOMAIN p /\ 7 \in DOMAIN p
        /\ p[3] = c /\ p[5] = e /\ p[7] = g
    BY <2>1, LiteralWord
  <2>3. Words({p}) /\ Sure({p}, {p[3]}) /\ Sure({p}, {p[5]}) /\ Sure({p}, {p[7]})
    BY <1>1, <2>2
  <2> QED
    BY <2>1, <2>2, <2>3
<1> QED
  BY <1>2, <1>3, <1>4

\* Alternatives.
LEMMA OrSure ==
  ASSUME NEW A, NEW B
  PROVE  /\ Words(A) /\ Words(B) => Words(A \cup B)
         /\ \A S, T : Sure(A, S) /\ Sure(B, T) => Sure(A \cup B, S \cup T)
  BY DEF Words, Sure

\* A wider choice of symbols.
LEMMA SureMore == ASSUME NEW A, NEW S, NEW T, Sure(A, S), S \subseteq T PROVE Sure(A, T)
  BY DEF Sure

-----------------------------------------------------------------------------
(* The rules.                                                              *)

\* Declarations.
LEMMA DeclSure ==
  /\ Sure(Productions("topLevelObject"), {"declaration"})
  /\ Sure(Productions("declaration"), {"functionDecl", "classDecl", "variableDecl"})
  /\ Sure(Productions("functionDecl"), {"type"})
  /\ Sure(Productions("functionDecl"), {"block"})
  /\ Sure(Productions("parameter"), {"type"})
<1> USE DEF Productions, DeclRules
<1>1. Sure(Productions("topLevelObject"), {"declaration"})
  BY OneSure
<1>2. Sure(Productions("declaration"), {"functionDecl", "classDecl", "variableDecl"})
  <2> DEFINE S == {"functionDecl", "classDecl"}
             A == Opt(One("visibilityModifier"))
             B == OneOf(S) \cup {<< "variableDecl", "SEMICOLON" >>}
  <2>1. Words(A)
    BY OneSure, OptSure
  <2>2. Words(B) /\ Sure(B, S \cup {"variableDecl"})
    BY OneOfSure, TupleSure, OrSure
  <2>3. Productions("declaration") = A ** B
    OBVIOUS
  <2> HIDE DEF A, B
  <2> QED
    BY <2>1, <2>2, <2>3, CatSure
<1>3. Sure(Productions("functionDecl"), {"type"}) /\ Sure(Productions("functionDecl"), {"block"})
  <2> DEFINE A == {<< "FUN", "IDENTIFIER" >>}
             B == Group("LPAREN", Opt(List(One("parameter"), "COMMA")), "RPAREN")
             C == {<< "ARROW", "type", "block" >>}
  <2>1. Words(A) /\ Words(C) /\ Sure(C, {"type"}) /\ Sure(C, {"block"})
    BY TupleSure
  <2>2. Words(B)
    BY OneSure, ListSure, OptSure, GroupSure
  <2>3. Productions("functionDecl") = A ** B ** C
    OBVIOUS
  <2> HIDE DEF A, B, C
  <2> QED
    BY <2>1, <2>2, <2>3, CatSure
<1>4. Sure(Productions("parameter"), {"type"})
  <2> DEFINE A == {<< "IDENTIFIER", "COLON", "type" >>}
             B == Opt({<< "ASSIGNMENT", "expression" >>})
  <2>1. Words(A) /\ Words(B) /\ Sure(A, {"type"})
    BY TupleSure, OptSure
  <2>2. Productions("parameter") = A ** B
    OBVIOUS
  <2> HIDE DEF A, B
  <2> QED
    BY <2>1, <2>2, CatSure
<1> QED
  BY <1>1, <1>2, <1>3, <1>4

\* Types.
LEMMA TypeSure ==
  /\ Sure(Productions("type"), {"functionType", "parenType", "typeRef", "builtinType"})
  /\ Sure(Productions("parenType"), {"type"})
  /\ Sure(Productions("functionType"), {"type"})
<1> USE DEF Productions, DeclRules, TypeRules
<1>1. Sure(Productions("type"), {"functionType", "parenType", "typeRef", "builtinType"})
  <2> DEFINE S == {"parenType", "typeRef", "builtinType"}
             A == OneOf(S)
             B == Rep(Group("LBRACKET", One("expression"), "RBRACKET"))
  <2>1. Words(A) /\ Sure(A, S)
    BY OneOfSure
  <2>2. Words(B)
    BY OneSure, GroupSure, RepWords
  <2>3. Productions("type") = One("functionType") \cup (A ** B)
    OBVIOUS
  <2> HIDE DEF A, B
  <2>4. Sure(A ** B, S)
    BY <2>1, <2>2, CatSure
  <2>5. Sure(Productions("type"), {"functionType"} \cup S)
    BY <2>3, <2>4, OneSure, OrSure
  <2> QED
    BY <2>5, SureMore
<1>2. Sure(Productions("parenType"), {"type"})
  BY OneSure, GroupSure
<1>3. Sure(Productions("functionType"), {"type"})
  <2> DEFINE A == One("FUN") ** Group("LPAREN", Opt(One("paramTypeList")), "RPAREN")
             B == {<< "ARROW", "type" >>}
  <2>1. Words(A)
    BY OneSure, OptSure, GroupSure, CatSure
  <2>2. Words(B) /\ Sure(B, {"type"})
    BY TupleSure
  <2>3. Productions("functionType") = A ** B
    OBVIOUS
  <2> HIDE DEF A, B
  <2> QED
    BY <2>1, <2>2, <2>3, CatSure
<1> QED
  BY <1>1, <1>2, <1>3

\* Statements.
LEMMA StmtSure ==
  /\ Sure(Productions("statement"),
          {"declStatement", "assignment", "controlStatement", "exprStmt"})
  /\ Sure(Productions("declStatement"), {"declaration"})
  /\ Sure(Productions("assignment"), {"postfixUnaryExpr"})
  /\ Sure(Productions("assignment"), {"expression"})
  /\ Sure(Productions("controlStatement"),
          {"forStmt", "forEachStmt", "whileStmt", "doWhileStmt", "ifStmt", "tryStatement"})
  /\ Sure(Productions("forStmt"), {"block"})
  /\ Sure(Productions("forUpdate"), {"assignment", "expression"})
  /\ Sure(Productions("forEachStmt"), {"expression"})
  /\ Sure(Productions("forEachStmt"), {"block"})
  /\ Sure(Productions("whileStmt"), {"expression"})
  /\ Sure(Productions("whileStmt"), {"block"})
  /\ Sure(Productions("doWhileStmt"), {"expression"})
  /\ Sure(Productions("doWhileStmt"), {"block"})
  /\ Sure(Productions("ifStmt"), {"expression"})
  /\ Sure(Productions("ifStmt"), {"block"})
  /\ Sure(Productions("tryStatement"), {"block"})
  /\ Sure(Productions("catchClause"), {"type"})
  /\ Sure(Productions("catchClause"), {"block"})
  /\ Sure(Productions("exprStmt"), {"expression"})
<1> DEFINE Cond == Group("LPAREN", One("expression"), "RPAREN")
<1>0. Words(Cond) /\ Sure(Cond, {"expression"})
  BY OneSure, GroupSure
<1> USE DEF Productions, DeclRules, TypeRules, StmtRules
<1>1. Sure(Productions("statement"),
           {"declStatement", "assignment", "controlStatement", "exprStmt"})
  <2> DEFINE S == {"declStatement", "controlStatement", "exprStmt"}
             A == OneOf(S)
             B == {<< "assignment", "SEMICOLON" >>}
  <2>1. Sure(A, S) /\ Sure(B, {"assignment"})
    BY OneOfSure, TupleSure
  <2>2. Productions("statement") = A \cup B
    OBVIOUS
  <2> HIDE DEF A, B
  <2>3. Sure(Productions("statement"), S \cup {"assignment"})
    BY <2>1, <2>2, OrSure
  <2> QED
    BY <2>3, SureMore
<1>2. Sure(Productions("declStatement"), {"declaration"})
  BY OneSure
<1>3. /\ Sure(Productions("assignment"), {"postfixUnaryExpr"})
      /\ Sure(Productions("assignment"), {"expression"})
  BY TupleSure
<1>4. Sure(Productions("controlStatement"),
           {"forStmt", "forEachStmt", "whileStmt", "doWhileStmt", "ifStmt", "tryStatement"})
  BY OneOfSure
<1>5. Sure(Productions("forStmt"), {"block"})
  <2> DEFINE A == Opt(One("variableDecls")) ** One("SEMICOLON") ** Opt(One("expression")) **
                    One("SEMICOLON") ** Opt(One("forUpdate"))
             B == One("FOR") ** Group("LPAREN", A, "RPAREN")
  <2>1. Words(A)
    BY OneSure, OptSure, CatSure
  <2> HIDE DEF A
  <2>2. Words(B)
    BY <2>1, OneSure, GroupSure, CatSure
  <2>3. Productions("forStmt") = B ** One("block")
    BY DEF A
  <2> HIDE DEF B
  <2> QED
    BY <2>2, <2>3, OneSure, CatSure
<1>6. Sure(Productions("forUpdate"), {"assignment", "expression"})
  BY OneOfSure
<1>7. /\ Sure(Productions("forEachStmt"), {"expression"})
      /\ Sure(Productions("forEachStmt"), {"block"})
  BY TupleSure
<1>8. Sure(Productions("whileStmt"), {"expression"}) /\ Sure(Productions("whileStmt"), {"block"})
  <2>1. Productions("whileStmt") = One("WHILE") ** Cond ** One("block")
    OBVIOUS
  <2> HIDE DEF Cond
  <2>2. Words(One("WHILE") ** Cond) /\ Sure(One("WHILE") ** Cond, {"expression"})
    BY <1>0, OneSure, CatSure
  <2> QED
    BY <2>1, <2>2, OneSure, CatSure
<1>9. /\ Sure(Productions("doWhileStmt"), {"expression"})
      /\ Sure(Productions("doWhileStmt"), {"block"})
  <2> DEFINE A == {<< "DO", "block", "WHILE" >>}
  <2>1. Productions("doWhileStmt") = A ** Cond
    OBVIOUS
  <2>2. Words(A) /\ Sure(A, {"block"})
    BY TupleSure
  <2> HIDE DEF Cond, A
  <2> QED
    BY <1>0, <2>1, <2>2, CatSure
<1>10. Sure(Productions("ifStmt"), {"expression"}) /\ Sure(Productions("ifStmt"), {"block"})
  <2> DEFINE A == One("IF") ** Cond
             B == Opt(One("ELSE") ** OneOf({"ifStmt", "block"}))
  <2>1. Productions("ifStmt") = A ** One("block") ** B
    OBVIOUS
  <2>2. Words(B)
    BY OneSure, OneOfSure, OptSure, CatSure
  <2> HIDE DEF Cond, B
  <2>3. Words(A) /\ Sure(A, {"expression"})
    BY <1>0, OneSure, CatSure
  <2> HIDE DEF A
  <2>4. /\ Words(A ** One("block")) /\ Sure(A ** One("block"), {"expression"})
        /\ Sure(A ** One("block"), {"block"})
    BY <2>3, OneSure, CatSure
  <2> QED
    BY <2>1, <2>2, <2>4, CatSure
<1>11. Sure(Productions("tryStatement"), {"block"})
  <2> DEFINE A == {<< "TRY", "block" >>}
             F == {<< "FINALLY", "block" >>}
             B == F \cup (One("catchClause") ** Rep(One("catchClause")) ** Opt(F))
  <2>1. Productions("tryStatement") = A ** B
    OBVIOUS
  <2>2. Words(A) /\ Sure(A, {"block"}) /\ Words(F)
    BY TupleSure
  <2> HIDE DEF A, F
  <2>3. Words(B)
    BY <2>2, OneSure, RepWords, OptSure, CatSure, OrSure
  <2> HIDE DEF B
  <2> QED
    BY <2>1, <2>2, <2>3, CatSure
<1>12. Sure(Productions("catchClause"), {"type"}) /\ Sure(Productions("catchClause"), {"block"})
  BY TupleSure
<1>13. Sure(Productions("exprStmt"), {"expression"})
  BY TupleSure
<1> QED
  BY <1>1, <1>2, <1>3, <1>4, <1>5, <1>6, <1>7, <1>8, <1>9, <1>10, <1>11, <1>12, <1>13

\* Chains of operands of one rule.
LEMMA ChainSure ==
  /\ Sure(Productions("expression"), {"disjunction"})
  /\ Sure(Productions("disjunction"), {"conjunction"})
  /\ Sure(Productions("conjunction"), {"equality"})
  /\ Sure(Productions("equality"), {"comparison"})
  /\ Sure(Productions("comparison"), {"infixExpr"})
  /\ Sure(Productions("infixExpr"), {"elvisExpr"})
  /\ Sure(Productions("elvisExpr"), {"bitwiseOr"})
  /\ Sure(Productions("bitwiseOr"), {"bitwiseXor"})
  /\ Sure(Productions("bitwiseXor"), {"bitwiseAnd"})
  /\ Sure(Productions("bitwiseAnd"), {"bitwiseShift"})
  /\ Sure(Productions("bitwiseShift"), {"addition"})
  /\ Sure(Productions("addition"), {"multiplication"})
  /\ Sure(Productions("multiplication"), {"asExpr"})
<1> USE DEF Productions, DeclRules, TypeRules, StmtRules, ExprRules
<1>1. \A sym, sep : Sure(List(One(sym), sep), {sym})
  BY OneSure, ListSure
<1>2. Sure(Productions("expression"), {"disjunction"})
  BY OneSure
<1>3. Sure(Productions("equality"), {"comparison"})
  <2> DEFINE A == Opt({<< "equalityOperator", "comparison" >>})
  <2>1. Words(A)
    BY TupleSure, OptSure
  <2>2. Productions("equality") = One("comparison") ** A
    OBVIOUS
  <2> HIDE DEF A
  <2> QED
    BY <2>1, <2>2, OneSure, CatSure
<1>4. Sure(Productions("comparison"), {"infixExpr"})
  <2> DEFINE A == {<< "infixExpr", "typeArguments", "GT" >>}
             B == Group("LPAREN", Opt(One("valueArguments")), "RPAREN")
             C == List(One("infixExpr"), "comparisonOperator")
  <2>1. Words(A) /\ Sure(A, {"infixExpr"})
    BY TupleSure
  <2>2. Words(B) /\ Sure(C, {"infixExpr"})
    BY <1>1, OneSure, OptSure, GroupSure
  <2>3. Productions("comparison") = C \cup (A ** B)
    OBVIOUS
  <2> HIDE DEF A, B, C
  <2>4. Sure(A ** B, {"infixExpr"})
    BY <2>1, <2>2, CatSure
  <2>5. Sure(C \cup (A ** B), {"infixExpr"} \cup {"infixExpr"})
    BY <2>2, <2>4, OrSure
  <2> QED
    BY <2>3, <2>5, SureMore
<1>5. Sure(Productions("infixExpr"), {"elvisExpr"})
  <2> DEFINE A == {<< "inOperator", "elvisExpr" >>, << "isOperator", "type" >>}
  <2>1. Words(A)
    BY LiteralWord DEF Words
  <2>2. Productions("infixExpr") = One("elvisExpr") ** Rep(A)
    OBVIOUS
  <2> HIDE DEF A
  <2>3. Words(Rep(A))
    BY <2>1, RepWords
  <2> QED
    BY <2>2, <2>3, OneSure, CatSure
<1> QED
  BY <1>1, <1>2, <1>3, <1>4, <1>5

\* Operands and suffixes.
LEMMA ExprSure ==
  /\ Sure(Productions("asExpr"), {"prefixUnaryExpr"})
  /\ Sure(Productions("prefixUnaryExpr"), {"postfixUnaryExpr"})
  /\ Sure(Productions("postfixUnaryExpr"), {"primaryExpr"})
  /\ Sure(Productions("primaryExpr"),
          {"IDENTIFIER", "parenExpr", "literalConstant", "collectionLiteral", "thisLiteral",
           "ifExpression", "jumpExpression"})
  /\ Sure(Productions("parenExpr"), {"expression"})
  /\ Sure(Productions("valueArgument"), {"expression"})
  /\ Sure(Productions("indexingSuffix"), {"expression"})
<1> USE DEF Productions, DeclRules, TypeRules, StmtRules, ExprRules
<1>1. Sure(Productions("asExpr"), {"prefixUnaryExpr"})
  <2> DEFINE A == Opt({<< "asOperator", "type" >>})
  <2>1. Words(A)
    BY TupleSure, OptSure
  <2>2. Productions("asExpr") = One("prefixUnaryExpr") ** A
    OBVIOUS
  <2> HIDE DEF A
  <2> QED
    BY <2>1, <2>2, OneSure, CatSure
<1>2. Sure(Productions("prefixUnaryExpr"), {"postfixUnaryExpr"})
  <2>1. Words(Rep(One("unaryPrefix")))
    BY OneSure, RepWords
  <2> QED
    BY <2>1, OneSure, CatSure
<1>3. Sure(Productions("postfixUnaryExpr"), {"primaryExpr"})
  <2>1. Words(Rep(One("unaryPostfix")))
    BY OneSure, RepWords
  <2> QED
    BY <2>1, OneSure, CatSure
<1>4. Sure(Productions("primaryExpr"),
           {"IDENTIFIER", "parenExpr", "literalConstant", "collectionLiteral", "thisLiteral",
            "ifExpression", "jumpExpression"})
  BY OneOfSure
<1>5. Sure(Productions("parenExpr"), {"expression"})
  <2>1. Productions("parenExpr") = Group("LPAREN", One("expression"), "RPAREN")
    OBVIOUS
  <2>2. Words(One("expression")) /\ Sure(One("expression"), {"expression"})
    BY OneSure
  <2> QED
    BY <2>1, <2>2, GroupSure
<1>6. Sure(Productions("valueArgument"), {"expression"})
  <2> DEFINE A == {<< "IDENTIFIER", "ASSIGNMENT" >>, << "MULT" >>}
  <2>1. Words(A)
    BY LiteralWord DEF Words
  <2>2. Productions("valueArgument") = Opt(A) ** One("expression")
    OBVIOUS
  <2> HIDE DEF A
  <2>3. Words(Opt(A))
    BY <2>1, OptSure
  <2> QED
    BY <2>2, <2>3, OneSure, CatSure, ZenonT(40)
<1>7. Sure(Productions("indexingSuffix"), {"expression"})
  <2>1. Productions("indexingSuffix") = Group("LBRACKET", One("expression"), "RBRACKET")
    OBVIOUS
  <2>2. Words(One("expression")) /\ Sure(One("expression"), {"expression"})
    BY OneSure
  <2> QED
    BY <2>1, <2>2, GroupSure
<1> QED
  BY <1>1, <1>2, <1>3, <1>4, <1>5, <1>6, <1>7

\* Words of two and of three symbols, counted.
LEMMA CountWords ==
  /\ \A s : Count(<< >>, s) = 0
  /\ \A a, s : Count(<< a >>, s) = IF a = s THEN 1 ELSE 0
  /\ \A a, b, s :
       Count(<< a, b >>, s) = (IF a = s THEN 1 ELSE 0) + (IF b = s THEN 1 ELSE 0)
<1>1. ASSUME NEW a, NEW b, NEW s
      PROVE  Count(<< a, b >>, s) = (IF a = s THEN 1 ELSE 0) + (IF b = s THEN 1 ELSE 0)
  <2>1. PICK p, q : p = << a >> /\ q = << b >>
    OBVIOUS
  <2>2. << a, b >> = p \o q
    <3> DEFINE V == {a, b}
               u == p \o q
    <3>1. p \in Seq(V) /\ q \in Seq(V)
      BY <2>1
    <3>2. Len(p) = 1 /\ Len(q) = 1 /\ p[1] = a /\ q[1] = b
      BY <2>1
    <3> HIDE DEF V
    <3>3. /\ u \in Seq(V) /\ Len(u) = Len(p) + Len(q)
          /\ \A i \in 1..Len(u) : u[i] = IF i <= Len(p) THEN p[i] ELSE q[i - Len(p)]
      BY <3>1
    <3> HIDE DEF u
    <3>4. Len(u) = 2 /\ u[1] = a /\ u[2] = b
      BY <3>2, <3>3
    <3>5. u = [i \in 1..Len(u) |-> u[i]]
      BY <3>3
    <3> QED
      BY <3>4, <3>5 DEF u
  <2>3. /\ IsSeq(p) /\ Count(p, s) = (IF a = s THEN 1 ELSE 0)
        /\ IsSeq(q) /\ Count(q, s) = (IF b = s THEN 1 ELSE 0)
    BY <2>1, CountOne
  <2>4. Count(p \o q, s) = Count(p, s) + Count(q, s)
    BY <2>3, CountConcat
  <2> QED
    BY <2>2, <2>3, <2>4
<1> QED
  BY <1>1, CountEmpty, CountOne

\* An if statement with an else has a second block or an if statement after it.
LEMMA ElseStmt ==
  ASSUME NEW p \in Productions("ifStmt"), Count(p, "ELSE") >= 1
  PROVE  Count(p, "ifStmt") >= 1 \/ Count(p, "block") >= 2
<1> DEFINE Cond == Group("LPAREN", One("expression"), "RPAREN")
           A == One("IF") ** Cond ** One("block")
           C == One("ELSE") ** OneOf({"ifStmt", "block"})
<1>1. Productions("ifStmt") = A ** Opt(C)
  BY DEF Productions, DeclRules, TypeRules, StmtRules
<1>2. Words(A) /\ Never(A, "ELSE") /\ Sure(A, {"block"})
  <2> DEFINE B == One("IF") ** Cond
  <2>1. \A s : Words(One(s)) /\ Sure(One(s), {s}) /\ ("ELSE" # s => Never(One(s), "ELSE"))
    BY OneSure
  <2>2. Words(One("expression")) /\ Never(One("expression"), "ELSE")
    BY <2>1
  <2>3. Words(Cond) /\ Never(Cond, "ELSE")
    BY <2>2, GroupSure
  <2>4. Words(One("IF")) /\ Never(One("IF"), "ELSE")
    BY <2>1
  <2> HIDE DEF Cond
  <2>5. Words(B) /\ Never(B, "ELSE")
    BY <2>3, <2>4, CatSure
  <2>6. Words(One("block")) /\ Never(One("block"), "ELSE") /\ Sure(One("block"), {"block"})
    BY <2>1
  <2>7. A = B ** One("block")
    OBVIOUS
  <2> HIDE DEF A, B
  <2> QED
    BY <2>5, <2>6, <2>7, CatSure
<1>3. Words(C) /\ Sure(C, {"ifStmt", "block"})
  <2> DEFINE D == OneOf({"ifStmt", "block"})
             S == {"ifStmt", "block"}
  <2>1. Words(One("ELSE"))
    BY OneSure
  <2>2. Words(D) /\ Sure(D, S)
    BY OneOfSure
  <2>3. C = One("ELSE") ** D
    OBVIOUS
  <2> HIDE DEF C, D, S
  <2>4. Words(C) /\ Sure(C, S)
    BY <2>1, <2>2, <2>3, CatSure
  <2> QED
    BY <2>4 DEF S
<1>4. Words(Opt(C))
  BY <1>3, OptSure
<1> HIDE DEF A, C
<1>5. PICK a \in A, b \in Opt(C) :
        \A s : /\ Count(p, s) = Count(a, s) + Count(b, s)
               /\ Count(a, s) \in Nat /\ Count(b, s) \in Nat
  BY <1>1, <1>2, <1>4, CatWord
<1>6. Count(a, "ELSE") = 0 /\ Count(a, "block") >= 1
  BY <1>2 DEF Never, Sure
<1>7. b # << >>
  BY <1>5, <1>6, CountEmpty
<1>8. b \in C
  BY <1>7 DEF Opt
<1>9. Count(b, "ifStmt") >= 1 \/ Count(b, "block") >= 1
  BY <1>3, <1>8 DEF Sure
<1>10. /\ Count(p, "ifStmt") = Count(a, "ifStmt") + Count(b, "ifStmt")
       /\ Count(a, "ifStmt") \in Nat /\ Count(b, "ifStmt") \in Nat
       /\ Count(p, "block") = Count(a, "block") + Count(b, "block")
       /\ Count(a, "block") \in Nat /\ Count(b, "block") \in Nat
  BY <1>5
<1> QED
  BY <1>6, <1>9, <1>10

\* An if expression has two expressions, and three with an else.
LEMMA ElseExpr ==
  ASSUME NEW p \in Productions("ifExpression")
  PROVE  /\ Count(p, "expression") >= 2
         /\ Count(p, "ELSE") >= 1 => Count(p, "expression") >= 3
<1>1. PICK w : w = << "IF", "LPAREN", "expression", "RPAREN", "expression" >>
  OBVIOUS
<1>2. PICK e : e = << "ELSE", "expression" >>
  OBVIOUS
<1>3. Productions("ifExpression") = {w} ** Opt({e})
  BY <1>1, <1>2 DEF Productions, DeclRules, TypeRules, StmtRules, ExprRules
<1>4. IsSeq(w) /\ IsSeq(e)
  BY <1>1, <1>2, LiteralWord
<1>5. Words({w}) /\ Words(Opt({e}))
  BY <1>4, OptSure DEF Words
<1>6. Count(w, "expression") >= 2 /\ Count(w, "ELSE") = 0
  <2>1. 3 \in DOMAIN w /\ 5 \in DOMAIN w /\ w[3] = "expression" /\ w[5] = "expression"
        /\ DOMAIN w = 1..5 /\ \A i \in 1..5 : w[i] # "ELSE"
    BY <1>1
  <2>2. Count(w, "expression") >= 2
    BY <1>4, <2>1, CountTwo
  <2>3. Count(w, "ELSE") = 0
    BY <1>4, <2>1, CountType
  <2> QED
    BY <2>2, <2>3
<1>7. Count(e, "expression") = 1
  BY <1>2, CountWords
<1>8. PICK a \in {w}, b \in Opt({e}) :
        \A s : /\ Count(p, s) = Count(a, s) + Count(b, s)
               /\ Count(a, s) \in Nat /\ Count(b, s) \in Nat
  BY <1>3, <1>5, CatWord
<1>9. /\ Count(p, "expression") = Count(w, "expression") + Count(b, "expression")
      /\ Count(w, "expression") \in Nat /\ Count(b, "expression") \in Nat
      /\ Count(p, "ELSE") = Count(w, "ELSE") + Count(b, "ELSE")
  BY <1>8
<1>10. CASE b = e
  BY <1>6, <1>7, <1>9, <1>10
<1>11. CASE b = << >>
  BY <1>6, <1>9, <1>11, CountWords
<1> QED
  BY <1>10, <1>11 DEF Opt

\* A throw has an expression.
LEMMA ThrowExpr ==
  ASSUME NEW p \in Productions("jumpExpression"), Count(p, "THROW") >= 1
  PROVE  Count(p, "expression") >= 1
<1> DEFINE A == OneOf({"CONTINUE", "BREAK"})
           B == Opt(One("label"))
<1>1. p \in {<< "THROW", "expression" >>, << "RETURN" >>, << "RETURN", "expression" >>} \cup
             (A ** B)
  BY DEF Productions, DeclRules, TypeRules, StmtRules, ExprRules
<1>2. CASE p \in A ** B
  <2>1. Words(A) /\ Never(A, "THROW")
    BY OneOfSure
  <2>3. Words(One("label")) /\ Never(One("label"), "THROW")
    <3>1. \A s : s # "label" => Never(One("label"), s)
      BY OneSure
    <3>2. Words(One("label"))
      BY OneSure
    <3>3. Never(One("label"), "THROW")
      BY <3>1
    <3> QED
      BY <3>2, <3>3
  <2>4. Words(B) /\ Never(B, "THROW")
    BY <2>3, OptSure
  <2> HIDE DEF A, B
  <2>2. Never(A ** B, "THROW")
    BY <2>1, <2>4, CatSure
  <2> QED
    BY <1>2, <2>2 DEF Never
<1>3. CASE p \in {<< "THROW", "expression" >>, << "RETURN" >>, << "RETURN", "expression" >>}
  BY <1>3, CountWords
<1> QED
  BY <1>1, <1>2, <1>3

\* A cast has a type.
LEMMA AsType ==
  ASSUME NEW p \in Productions("asExpr"), Count(p, "asOperator") >= 1
  PROVE  Count(p, "type") >= 1
<1>1. PICK e : e = << "asOperator", "type" >>
  OBVIOUS
<1>2. Productions("asExpr") = One("prefixUnaryExpr") ** Opt({e})
  BY <1>1 DEF Productions, DeclRules, TypeRules, StmtRules, ExprRules
<1>3. IsSeq(e) /\ Count(e, "type") = 1
  BY <1>1, LiteralWord, CountWords
<1>4. Words(Opt({e})) /\ Words(One("prefixUnaryExpr"))
  BY <1>3, OneSure, OptSure DEF Words
<1>5. PICK a \in One("prefixUnaryExpr"), b \in Opt({e}) :
        \A s : /\ Count(p, s) = Count(a, s) + Count(b, s)
               /\ Count(a, s) \in Nat /\ Count(b, s) \in Nat
  BY <1>2, <1>4, CatWord
<1>6. Count(a, "asOperator") = 0
  BY OneSure DEF Never
<1>7. b # << >>
  BY <1>5, <1>6, CountEmpty
<1>8. b = e
  BY <1>7 DEF Opt
<1>9. Count(p, "type") = Count(a, "type") + Count(e, "type") /\ Count(a, "type") \in Nat
  BY <1>5, <1>8
<1> QED
  BY <1>3, <1>9

\* Every `in` is followed by an operand and every `is` by a type.
LEMMA InfixBalance ==
  ASSUME NEW p \in Productions("infixExpr")
  PROVE  /\ Count(p, "elvisExpr") = Count(p, "inOperator") + 1
         /\ Count(p, "type") = Count(p, "isOperator")
         /\ Count(p, "inOperator") \in Nat /\ Count(p, "isOperator") \in Nat
<1>1. PICK x, y : x = << "inOperator", "elvisExpr" >> /\ y = << "isOperator", "type" >>
  OBVIOUS
<1> DEFINE A == {x, y}
           Balanced(q) == /\ IsSeq(q)
                          /\ Count(q, "elvisExpr") = Count(q, "inOperator")
                          /\ Count(q, "type") = Count(q, "isOperator")
           V == {"inOperator", "isOperator", "elvisExpr", "type"}
           S == {q \in Seq(V) : Balanced(q)}
<1>2. A \subseteq S
  <2>1. x \in Seq(V) /\ y \in Seq(V) /\ IsSeq(x) /\ IsSeq(y)
    BY <1>1, LiteralWord
  <2>2. Balanced(x) /\ Balanced(y)
    BY <1>1, <2>1, CountWords
  <2> QED
    BY <2>1, <2>2
<1>3. << >> \in S
  BY CountEmpty
<1>4. \A s \in S, a \in A : s \o a \in S
  <2> SUFFICES ASSUME NEW s \in S, NEW a \in A PROVE s \o a \in S
    OBVIOUS
  <2>1. Balanced(s) /\ Balanced(a) /\ s \o a \in Seq(V)
    BY <1>2
  <2>2. IsSeq(s) /\ IsSeq(a) /\ IsSeq(s \o a)
    BY <2>1, ConcatSeq
  <2>3. \A t : Count(s \o a, t) = Count(s, t) + Count(a, t)
    BY <2>2, CountConcat
  <2>4. Balanced(s \o a)
    BY <2>1, <2>2, <2>3
  <2> QED
    BY <2>1, <2>4
<1>5. Productions("infixExpr") = One("elvisExpr") ** Rep(A)
  BY <1>1 DEF Productions, DeclRules, TypeRules, StmtRules, ExprRules
<1> HIDE DEF A
<1>6. Rep(A) \subseteq S
  <2> HIDE DEF S
  <2> QED
    BY <1>3, <1>4, RepIn
<1>7. Words(Rep(A)) /\ \A q \in Rep(A) : Balanced(q)
  BY <1>6 DEF Words
<1> HIDE DEF Balanced
<1>8. PICK a \in One("elvisExpr"), b \in Rep(A) :
        \A s : /\ Count(p, s) = Count(a, s) + Count(b, s)
               /\ Count(a, s) \in Nat /\ Count(b, s) \in Nat
  <2>1. Words(One("elvisExpr")) /\ p \in One("elvisExpr") ** Rep(A)
    BY <1>5, OneSure
  <2> QED
    BY <1>7, <2>1, CatWord
<1>9. a = << "elvisExpr" >>
  BY DEF One
<1>10. /\ Count(a, "elvisExpr") = 1 /\ Count(a, "inOperator") = 0
       /\ Count(a, "isOperator") = 0 /\ Count(a, "type") = 0
  BY <1>9, CountWords
<1>11. /\ Count(b, "elvisExpr") = Count(b, "inOperator")
       /\ Count(b, "type") = Count(b, "isOperator")
  BY <1>7 DEF Balanced
<1>12. \A s : /\ Count(p, s) = Count(a, s) + Count(b, s)
              /\ Count(b, s) \in Nat
  BY <1>8
<1> QED
  BY <1>10, <1>11, <1>12

-----------------------------------------------------------------------------
(* The parse tree of a file without errors.                                *)

\* Every context has the children of one production of its rule, and the
\* operators that are ordered by position have different positions.
TreeDone ==
  /\ TreeTyped /\ NodesOK
  /\ \A c \in DOMAIN tree :
       tree[c].sym \in Rules =>
         \E p \in Productions(tree[c].sym) : \A s : s # Exit => Len(Kids(c, s)) = Count(p, s)
  /\ \A c, d \in Operators : tree[c].start = tree[d].start => c = d

\* The children of a context by symbol.
LEMMA TreeKids ==
  ASSUME TreeTyped, NEW c \in DOMAIN tree, NEW sym
  PROVE  /\ IsSeq(Kids(c, sym))
         /\ \A i \in DOMAIN Kids(c, sym) :
              Kids(c, sym)[i] \in DOMAIN tree /\ tree[Kids(c, sym)[i]].sym = sym
         /\ \A i, j \in DOMAIN Kids(c, sym) : Kids(c, sym)[i] = Kids(c, sym)[j] => i = j
<1>1. IsSeq(<< >>) /\ DOMAIN << >> = {}
  BY DEF IsSeq
<1> QED
  BY <1>1 DEF TreeTyped, ChildrenOK, Kids

\* Derives covers every symbol, also those that it does not list.
LEMMA DerivesAll ==
  ASSUME TreeTyped, IsSeq(work), NEW c \in DOMAIN tree, NEW p, IsSeq(p), Derives(c, p),
         NEW s, s # Exit
  PROVE  Len(Kids(c, s)) + Count(work, Item(s, c)) = Count(p, s)
<1> DEFINE syms == DOMAIN tree[c].kids \cup {work[i].sym : i \in DOMAIN work} \cup
                     {p[i] : i \in DOMAIN p}
<1>1. CASE s \in syms
  BY <1>1 DEF Derives
<1>2. CASE s \notin syms
  <2>1. Kids(c, s) = << >>
    BY <1>2 DEF Kids
  <2>2. Count(p, s) = 0
    BY <1>2, CountType
  <2>3. \A i \in DOMAIN work : work[i] # Item(s, c)
    BY <1>2 DEF Item
  <2>4. Count(work, Item(s, c)) = 0
    BY <2>3, CountType
  <2> QED
    BY <2>1, <2>2, <2>4
<1> QED
  BY <1>1, <1>2

\* The productions of the run are sequences.
LEMMA RunProductions ==
  ASSUME ScalarsOK, NEW rule \in Rules, NEW p \in {Default[rule]} \cup Choices[rule]
  PROVE  p \in Productions(rule) /\ IsSeq(p)
<1>1. table \in DOMAIN Tables
  BY DEF ScalarsOK
<1>2. p \in Productions(rule) /\ DOMAIN Default = Rules
  BY <1>1, TablesAssumption DEF Default, Choices
<1>3. p \in Seq(STRING)
  BY <1>1, <1>2, SymbolsAssumption DEF Default, Choices
<1>4. p = [i \in 1..Len(p) |-> p[i]] /\ Len(p) \in Int
  BY <1>3
<1> QED
  BY <1>2, <1>4, FunSeq

\* A parser that met no error and has nothing left to derive has grown a complete tree.
LEMMA TreeComplete == IInv /\ work = << >> /\ ~ erred => TreeDone
<1> SUFFICES ASSUME IInv, work = << >>, ~ erred PROVE TreeDone
  OBVIOUS
<1>1. /\ TreeTyped /\ NodesOK /\ ~ erred /\ work = << >> /\ IsSeq(work)
      /\ ScalarsOK /\ ShapesOK /\ OperatorsApart
  BY DEF IInv, WorkOK
<1>2. ASSUME NEW c \in DOMAIN tree, tree[c].sym \in Rules
      PROVE  \E p \in Productions(tree[c].sym) :
               \A s : s # Exit => Len(Kids(c, s)) = Count(p, s)
  <2>1. PICK p \in {Default[tree[c].sym]} \cup Choices[tree[c].sym] : Derives(c, p)
    BY <1>1, <1>2 DEF ShapesOK
  <2>2. p \in Productions(tree[c].sym) /\ IsSeq(p)
    BY <1>1, <1>2, RunProductions
  <2>3. ASSUME NEW s, s # Exit PROVE Len(Kids(c, s)) = Count(p, s)
    <3>1. Len(Kids(c, s)) + Count(work, Item(s, c)) = Count(p, s)
      BY <1>1, <2>1, <2>2, <2>3, DerivesAll
    <3>2. Count(work, Item(s, c)) = 0
      BY <1>1, CountEmpty
    <3>3. Len(Kids(c, s)) \in Nat
      BY <1>1, TreeKids, SeqFacts
    <3> QED
      BY <3>1, <3>2, <3>3
  <2> QED
    BY <2>2, <2>3
<1>3. \A c, d \in Operators : tree[c].start = tree[d].start => c = d
  BY <1>1 DEF OperatorsApart
<1> QED
  BY <1>1, <1>2, <1>3 DEF TreeDone

\* The builder only runs over such a tree.
LEMMA TreeBuilt == IInv /\ phase = "building" => TreeDone
  BY TreeComplete DEF IInv, WorkOK, ErrorBars

\* A child that is there.
LEMMA HasKid ==
  ASSUME TreeTyped, NEW c \in DOMAIN tree, NEW s
  PROVE  /\ Has(c, s) <=> Len(Kids(c, s)) >= 1
         /\ \A i \in Int : (1 <= i /\ i <= Len(Kids(c, s))) => Nth(c, s, i) \in DOMAIN tree
<1>1. IsSeq(tree) /\ DOMAIN tree = 1..Len(tree)
  BY SeqFacts DEF TreeTyped
<1>2. Len(Kids(c, s)) \in Nat /\ DOMAIN Kids(c, s) = 1..Len(Kids(c, s))
  BY TreeKids, SeqFacts
<1>3. \A i \in DOMAIN Kids(c, s) : Kids(c, s)[i] \in DOMAIN tree
  BY TreeKids
<1> QED
  BY <1>1, <1>2, <1>3 DEF Has, The, Nth, Null

\* What every production of a rule contains is a child of its contexts.
LEMMA MustHave ==
  ASSUME TreeDone, NEW c \in DOMAIN tree, tree[c].sym \in Rules,
         NEW S, Exit \notin S, Sure(Productions(tree[c].sym), S)
  PROVE  \E s \in S : Has(c, s)
<1>1. PICK p \in Productions(tree[c].sym) :
        \A s : s # Exit => Len(Kids(c, s)) = Count(p, s)
  BY DEF TreeDone
<1>2. PICK s \in S : Count(p, s) >= 1
  BY DEF Sure
<1>3. Len(Kids(c, s)) >= 1
  BY <1>1, <1>2
<1> QED
  BY <1>3, HasKid DEF TreeDone

\* The same for a single symbol.
LEMMA MustHaveOne ==
  ASSUME TreeDone, NEW c \in DOMAIN tree, tree[c].sym \in Rules,
         NEW s, s # Exit, Sure(Productions(tree[c].sym), {s})
  PROVE  Has(c, s)
<1>1. \E t \in {s} : Has(c, t)
  BY MustHave
<1> QED
  BY <1>1

\* The rules that have contexts.
LEMMA RuleNames ==
  /\ {"file", "topLevelObject", "parameter", "block", "catchClause", "label"} \subseteq Rules
  /\ {"valueArgument", "indexingSuffix"} \subseteq Rules
  /\ DeclContexts \subseteq Rules /\ TypeContexts \subseteq Rules
  /\ StmtContexts \subseteq Rules /\ ExprContexts \subseteq Rules
<1> USE DEF Rules
<1>1. DeclContexts \subseteq Rules /\ {"file", "topLevelObject", "parameter"} \subseteq Rules
  BY DEF DeclContexts, DeclRules
<1>2. TypeContexts \subseteq Rules
  BY DEF TypeContexts, TypeRules
<1>3. StmtContexts \subseteq Rules /\ {"block", "catchClause"} \subseteq Rules
  BY DEF StmtContexts, StmtRules
<1>4. ExprContexts \subseteq Rules /\ {"label", "valueArgument", "indexingSuffix"} \subseteq Rules
  BY DEF ExprContexts, ExprRules
<1> QED
  BY <1>1, <1>2, <1>3, <1>4

\* The children of declarations and types that are always there.
LEMMA DeclHas ==
  ASSUME TreeDone, NEW c \in DOMAIN tree
  PROVE  /\ tree[c].sym = "topLevelObject" => Has(c, "declaration")
         /\ tree[c].sym = "declaration" =>
              \E s \in {"functionDecl", "variableDecl", "classDecl"} : Has(c, s)
         /\ tree[c].sym = "functionDecl" => Has(c, "type") /\ Has(c, "block")
         /\ tree[c].sym = "parameter" => Has(c, "type")
         /\ tree[c].sym = "type" =>
              \E s \in {"functionType", "parenType", "typeRef", "builtinType"} : Has(c, s)
         /\ tree[c].sym = "parenType" => Has(c, "type")
         /\ tree[c].sym = "functionType" => Has(c, "type")
<1> USE DeclSure, TypeSure, RuleNames DEF Exit, DeclContexts, TypeContexts
<1>1. tree[c].sym = "topLevelObject" => Has(c, "declaration")
  BY MustHaveOne
<1>2. tree[c].sym = "declaration" =>
        \E s \in {"functionDecl", "variableDecl", "classDecl"} : Has(c, s)
  BY MustHave
<1>3. tree[c].sym = "functionDecl" => Has(c, "type") /\ Has(c, "block")
  BY MustHaveOne
<1>4. tree[c].sym = "parameter" => Has(c, "type")
  BY MustHaveOne
<1>5. tree[c].sym = "type" =>
        \E s \in {"functionType", "parenType", "typeRef", "builtinType"} : Has(c, s)
  BY MustHave
<1>6. tree[c].sym = "parenType" => Has(c, "type")
  BY MustHaveOne
<1>7. tree[c].sym = "functionType" => Has(c, "type")
  BY MustHaveOne
<1> QED
  BY <1>1, <1>2, <1>3, <1>4, <1>5, <1>6, <1>7

\* Those of statements.
LEMMA StmtHas ==
  ASSUME TreeDone, NEW c \in DOMAIN tree
  PROVE  /\ tree[c].sym = "statement" =>
              \E s \in {"declStatement", "assignment", "controlStatement", "exprStmt"} : Has(c, s)
         /\ tree[c].sym = "declStatement" => Has(c, "declaration")
         /\ tree[c].sym = "assignment" => Has(c, "postfixUnaryExpr") /\ Has(c, "expression")
         /\ tree[c].sym = "controlStatement" =>
              \E s \in {"forStmt", "forEachStmt", "whileStmt", "doWhileStmt", "ifStmt",
                        "tryStatement"} : Has(c, s)
         /\ tree[c].sym = "forUpdate" => \E s \in {"assignment", "expression"} : Has(c, s)
         /\ tree[c].sym \in {"forStmt", "forEachStmt", "whileStmt", "doWhileStmt", "ifStmt",
                             "tryStatement", "catchClause"} => Has(c, "block")
         /\ tree[c].sym \in {"forEachStmt", "whileStmt", "doWhileStmt", "ifStmt", "exprStmt"}
              => Has(c, "expression")
         /\ tree[c].sym = "catchClause" => Has(c, "type")
<1> USE StmtSure, RuleNames DEF Exit, StmtContexts
<1>1. tree[c].sym = "statement" =>
        \E s \in {"declStatement", "assignment", "controlStatement", "exprStmt"} : Has(c, s)
  BY MustHave
<1>2. tree[c].sym = "declStatement" => Has(c, "declaration")
  BY MustHaveOne
<1>3. tree[c].sym = "assignment" => Has(c, "postfixUnaryExpr") /\ Has(c, "expression")
  BY MustHaveOne
<1>4. tree[c].sym = "controlStatement" =>
        \E s \in {"forStmt", "forEachStmt", "whileStmt", "doWhileStmt", "ifStmt",
                  "tryStatement"} : Has(c, s)
  BY MustHave
<1>5. tree[c].sym = "forUpdate" => \E s \in {"assignment", "expression"} : Has(c, s)
  BY MustHave
<1>6. tree[c].sym \in {"forStmt", "forEachStmt", "whileStmt", "doWhileStmt", "ifStmt",
                       "tryStatement", "catchClause"} => Has(c, "block")
  BY MustHaveOne
<1>7. tree[c].sym \in {"forEachStmt", "whileStmt", "doWhileStmt", "ifStmt", "exprStmt"}
        => Has(c, "expression")
  BY MustHaveOne
<1>8. tree[c].sym = "catchClause" => Has(c, "type")
  BY MustHaveOne
<1> QED
  BY <1>1, <1>2, <1>3, <1>4, <1>5, <1>6, <1>7, <1>8

\* Those of chains of operands.
LEMMA ChainHas ==
  ASSUME TreeDone, NEW c \in DOMAIN tree
  PROVE  /\ tree[c].sym = "expression" => Has(c, "disjunction")
         /\ tree[c].sym = "disjunction" => Has(c, "conjunction")
         /\ tree[c].sym = "conjunction" => Has(c, "equality")
         /\ tree[c].sym = "equality" => Has(c, "comparison")
         /\ tree[c].sym = "comparison" => Has(c, "infixExpr")
         /\ tree[c].sym = "infixExpr" => Has(c, "elvisExpr")
         /\ tree[c].sym = "elvisExpr" => Has(c, "bitwiseOr")
         /\ tree[c].sym = "bitwiseOr" => Has(c, "bitwiseXor")
         /\ tree[c].sym = "bitwiseXor" => Has(c, "bitwiseAnd")
         /\ tree[c].sym = "bitwiseAnd" => Has(c, "bitwiseShift")
         /\ tree[c].sym = "bitwiseShift" => Has(c, "addition")
         /\ tree[c].sym = "addition" => Has(c, "multiplication")
         /\ tree[c].sym = "multiplication" => Has(c, "asExpr")
  BY MustHaveOne, ChainSure, RuleNames DEF Exit, ExprContexts

\* Those of operands and suffixes.
LEMMA ExprHas ==
  ASSUME TreeDone, NEW c \in DOMAIN tree
  PROVE  /\ tree[c].sym = "asExpr" => Has(c, "prefixUnaryExpr")
         /\ tree[c].sym = "prefixUnaryExpr" => Has(c, "postfixUnaryExpr")
         /\ tree[c].sym = "postfixUnaryExpr" => Has(c, "primaryExpr")
         /\ tree[c].sym \in {"parenExpr", "valueArgument", "indexingSuffix"}
              => Has(c, "expression")
         /\ tree[c].sym = "primaryExpr" =>
              \E s \in {"IDENTIFIER", "parenExpr", "literalConstant", "collectionLiteral",
                        "thisLiteral", "ifExpression", "jumpExpression"} : Has(c, s)
<1> USE ExprSure, RuleNames DEF Exit, ExprContexts
<1>1. /\ tree[c].sym = "asExpr" => Has(c, "prefixUnaryExpr")
      /\ tree[c].sym = "prefixUnaryExpr" => Has(c, "postfixUnaryExpr")
      /\ tree[c].sym = "postfixUnaryExpr" => Has(c, "primaryExpr")
  BY MustHaveOne
<1>2. tree[c].sym \in {"parenExpr", "valueArgument", "indexingSuffix"} => Has(c, "expression")
  BY MustHaveOne
<1>3. tree[c].sym = "primaryExpr" =>
        \E s \in {"IDENTIFIER", "parenExpr", "literalConstant", "collectionLiteral",
                  "thisLiteral", "ifExpression", "jumpExpression"} : Has(c, s)
  BY MustHave
<1> QED
  BY <1>1, <1>2, <1>3

\* The children that come with others.
LEMMA AlsoHas ==
  ASSUME TreeDone, NEW c \in DOMAIN tree
  PROVE  /\ tree[c].sym = "ifStmt" /\ Has(c, "ELSE") =>
              Has(c, "ifStmt") \/ Len(Kids(c, "block")) >= 2
         /\ tree[c].sym = "ifExpression" =>
              /\ Len(Kids(c, "expression")) >= 2
              /\ Has(c, "ELSE") => Len(Kids(c, "expression")) >= 3
         /\ tree[c].sym = "jumpExpression" /\ Has(c, "THROW") => Has(c, "expression")
         /\ tree[c].sym = "asExpr" /\ Has(c, "asOperator") => Has(c, "type")
         /\ tree[c].sym = "infixExpr" =>
              /\ Len(Kids(c, "elvisExpr")) = Len(Kids(c, "inOperator")) + 1
              /\ Len(Kids(c, "type")) = Len(Kids(c, "isOperator"))
<1>1. TreeTyped
  BY DEF TreeDone
<1>2. \A s : Has(c, s) <=> Len(Kids(c, s)) >= 1
  BY <1>1, HasKid
<1>3. ASSUME tree[c].sym \in Rules
      PROVE  \E p \in Productions(tree[c].sym) :
               /\ Len(Kids(c, "ELSE")) = Count(p, "ELSE")
               /\ Len(Kids(c, "ifStmt")) = Count(p, "ifStmt")
               /\ Len(Kids(c, "block")) = Count(p, "block")
               /\ Len(Kids(c, "expression")) = Count(p, "expression")
               /\ Len(Kids(c, "THROW")) = Count(p, "THROW")
               /\ Len(Kids(c, "asOperator")) = Count(p, "asOperator")
               /\ Len(Kids(c, "type")) = Count(p, "type")
               /\ Len(Kids(c, "elvisExpr")) = Count(p, "elvisExpr")
               /\ Len(Kids(c, "inOperator")) = Count(p, "inOperator")
               /\ Len(Kids(c, "isOperator")) = Count(p, "isOperator")
  <2>1. PICK p \in Productions(tree[c].sym) : \A s : s # Exit => Len(Kids(c, s)) = Count(p, s)
    BY <1>3 DEF TreeDone
  <2> QED
    BY <2>1 DEF Exit
<1>4. {"ifStmt", "ifExpression", "jumpExpression", "asExpr", "infixExpr"} \subseteq Rules
  BY RuleNames DEF StmtContexts, ExprContexts
<1>5. CASE tree[c].sym = "ifStmt"
  BY <1>2, <1>3, <1>4, <1>5, ElseStmt
<1>6. CASE tree[c].sym = "ifExpression"
  BY <1>2, <1>3, <1>4, <1>6, ElseExpr
<1>7. CASE tree[c].sym = "jumpExpression"
  BY <1>2, <1>3, <1>4, <1>7, ThrowExpr
<1>8. CASE tree[c].sym = "asExpr"
  BY <1>2, <1>3, <1>4, <1>8, AsType
<1>9. CASE tree[c].sym = "infixExpr"
  BY <1>2, <1>3, <1>4, <1>9, InfixBalance
<1> QED
  BY <1>5, <1>6, <1>7, <1>8, <1>9

-----------------------------------------------------------------------------
(* The pieces the visitors are written with: sequences of instructions,    *)
(* the accessors of a parse-tree context, and the typed getters.  CodeOK(s)*)
(* says that every any_cast in s asks for the type that the visitor of the *)
(* child it visits returns.                                                *)

\* What is shown of the visitor of c: it returns the type of its rule and runs
\* well-typed code, or it hands on the any of a child whose rule has that type.
VisitOK(c) ==
  LET v == Visit(c) 
      answer == Answer(tree[c].sym) IN
  \/ v.any = answer /\ BlocksOK(v.code) /\ Len(v.code) > 0
  \/ /\ v.any = "any"
     /\ \E x : v = Forward(x) /\ IsChild(x, answer)

-----------------------------------------------------------------------------
\* No instructions cast nothing.
LEMMA EmptyOK == CodeOK(<< >>)
  BY DEF CodeOK, IsSeq

\* One well-typed instruction is well-typed code.
LEMMA OneOK == ASSUME NEW i, InstrOK(i) PROVE CodeOK(<< i >>)
  BY DEF CodeOK, IsSeq

\* Code that runs after other code: both well typed, then their sequence is.
LEMMA ConcatOK ==
  ASSUME NEW s, NEW t, CodeOK(s), CodeOK(t)
  PROVE  CodeOK(s \o t)
  BY ConcatSeq DEF CodeOK

\* The blocks of a loop after the blocks before it.
LEMMA ConcatBlocksOK ==
  ASSUME NEW s, NEW t, BlocksOK(s), BlocksOK(t)
  PROVE  BlocksOK(s \o t) /\ Len(s \o t) = Len(s) + Len(t) /\ Len(s) \in Nat /\ Len(t) \in Nat
  BY ConcatSeq, SeqFacts DEF BlocksOK

\* A visitor without a loop has one block.
LEMMA OneBlockOK == ASSUME NEW s, CodeOK(s) PROVE BlocksOK(<< s >>) /\ Len(<< s >>) = 1
  BY DEF BlocksOK, IsSeq

\* The blocks of a loop, given one by one.
LEMMA FunBlocksOK ==
  ASSUME NEW n \in Int, NEW f, f = [i \in 1..n |-> f[i]], \A i \in 1..n : CodeOK(f[i])
  PROVE  BlocksOK(f)
  BY FunSeq DEF BlocksOK

-----------------------------------------------------------------------------
\* The type in the std::any of each rule's visitor: the getters getDecl, getType,
\* getStmt, getBlock and getExpr rely on these.
LEMMA Answers ==
  /\ Answer("file") = "Program"
  /\ Answer("topLevelObject") = "TopLevelObject"
  /\ \A sym \in DeclContexts : Answer(sym) = "Declaration"
  /\ Answer("parameter") = "Parameter"
  /\ \A sym \in TypeContexts : Answer(sym) = "Type"
  /\ \A sym \in StmtContexts : Answer(sym) = "Statement"
  /\ Answer("block") = "Block"
  /\ Answer("catchClause") = "CatchClause"
  /\ \A sym \in ExprContexts : Answer(sym) = "Expr"
  /\ Answer("label") = "Label"
  BY DEF Answer, DeclContexts, TypeContexts, StmtContexts, ExprContexts

\* Ctx->sym() returns contexts of rule sym.
LEMMA KidsOK ==
  ASSUME TreeDone, NEW c \in DOMAIN tree, NEW sym
  PROVE  /\ IsSeq(Kids(c, sym))
         /\ \A i \in DOMAIN Kids(c, sym) :
              Kids(c, sym)[i] \in DOMAIN tree /\ tree[Kids(c, sym)[i]].sym = sym
  BY TreeKids DEF TreeDone

\* Ctx->sym(i) is a context of rule sym, unless it is null behind the last one.
LEMMA NthOK ==
  ASSUME TreeDone, NEW c \in DOMAIN tree, NEW sym, NEW i
  PROVE  /\ Nth(c, sym, i) # Null =>
              Nth(c, sym, i) \in DOMAIN tree /\ IsChild(Nth(c, sym, i), Answer(sym))
         /\ (i \in Int /\ 1 <= i /\ i <= Len(Kids(c, sym))) =>
              IsChild(Nth(c, sym, i), Answer(sym))
<1>1. Nth(c, sym, i) # Null =>
        Nth(c, sym, i) \in DOMAIN tree /\ IsChild(Nth(c, sym, i), Answer(sym))
  BY KidsOK DEF Nth, IsChild
<1>2. (i \in Int /\ 1 <= i /\ i <= Len(Kids(c, sym))) => Nth(c, sym, i) # Null
  <2>1. (i \in Int /\ 1 <= i /\ i <= Len(Kids(c, sym))) => Nth(c, sym, i) \in DOMAIN tree
    BY HasKid DEF TreeDone
  <2>2. DOMAIN tree = 1..Len(tree)
    BY SeqFacts DEF TreeDone, TreeTyped
  <2> QED
    BY <2>1, <2>2 DEF Null
<1> QED
  BY <1>1, <1>2

\* Ctx->sym() of a rule with at most one such child.
LEMMA TheOK ==
  ASSUME TreeDone, NEW c \in DOMAIN tree, NEW sym
  PROVE  /\ Has(c, sym) => IsChild(The(c, sym), Answer(sym))
         /\ The(c, sym) # Null => The(c, sym) \in DOMAIN tree
  BY NthOK DEF The, Has

\* available(Ctx->a(), Ctx->b(), ...) returns the child that is there: it is
\* safe to cast to the type the rules share.
LEMMA AvailableOK ==
  ASSUME TreeDone, NEW c \in DOMAIN tree, NEW n \in Nat, NEW syms, DOMAIN syms = 1..n, NEW as,
         \A i \in DOMAIN syms : Answer(syms[i]) = as,
         \E i \in DOMAIN syms : Has(c, syms[i])
  PROVE  IsChild(available(c, syms), as)
<1> DEFINE T == {i \in DOMAIN syms : Has(c, syms[i])}
<1>1. PICK i \in T : \A j \in T : i <= j
  <2>1. T \subseteq Nat /\ T # {}
    OBVIOUS
  <2> HIDE DEF T
  <2> QED
    BY <2>1, Least
<1>2. Has(c, syms[i]) /\ \A j \in 1..(i - 1) : ~ Has(c, syms[j])
  BY <1>1
<1> QED
  BY <1>2, TheOK DEF available

-----------------------------------------------------------------------------
\* Only a visit casts: allocating a node, storing into it and reporting do not.
LEMMA QuietOK ==
  \A node, slot, vis, from, to, message :
    /\ InstrOK(New(node)) /\ InstrOK(Sub(node)) /\ InstrOK(Wrap(node, slot))
    /\ InstrOK(Attach(slot)) /\ InstrOK(SetVis(vis)) /\ InstrOK(Error(from, to, message))
  BY DEF InstrOK, New, Sub, Wrap, Attach, SetVis, Error

\* A visit that casts to the type of its child's rule is well typed.
LEMMA GetOK ==
  ASSUME NEW as, as # "any", NEW child, IsChild(child, as)
  PROVE  \A slot : InstrOK(Get(as, child, slot))
  BY DEF InstrOK, Get

\* The same for the getters of ASTBuilder.
LEMMA GettersOK ==
  ASSUME NEW child, NEW slot
  PROVE  /\ IsChild(child, "Declaration") => InstrOK(getDecl(child, slot))
         /\ IsChild(child, "Type") => InstrOK(getType(child, slot))
         /\ IsChild(child, "Statement") => InstrOK(getStmt(child, slot))
         /\ IsChild(child, "Block") => InstrOK(getBlock(child, slot))
         /\ IsChild(child, "Expr") => InstrOK(getExpr(child, slot))
  BY GetOK DEF getDecl, getType, getStmt, getBlock, getExpr

\* A loop over the children of one rule, each cast to the type of that rule.
LEMMA GetAllOK ==
  ASSUME TreeDone, NEW c \in DOMAIN tree, NEW sym, Answer(sym) # "any", NEW slot
  PROVE  CodeOK(GetAll(Answer(sym), Kids(c, sym), slot))
<1> DEFINE kids == Kids(c, sym)
           code == GetAll(Answer(sym), kids, slot)
<1>1. Len(kids) \in Nat /\ DOMAIN kids = 1..Len(kids)
  BY KidsOK, SeqFacts
<1>2. code = [i \in 1..Len(kids) |-> code[i]] /\ DOMAIN code = DOMAIN kids
  BY <1>1 DEF GetAll
<1>3. \A i \in DOMAIN code : InstrOK(code[i])
  BY <1>2, KidsOK, GetOK DEF GetAll, IsChild
<1> QED
  BY <1>1, <1>2, <1>3, FunSeq DEF CodeOK

\* Two instructions in a row.
LEMMA TwoOK ==
  ASSUME NEW i, NEW j, InstrOK(i), InstrOK(j)
  PROVE  CodeOK(<< i, j >>)
  BY DEF CodeOK, IsSeq

\* Three instructions in a row.
LEMMA ThreeOK ==
  ASSUME NEW i, NEW j, NEW k, InstrOK(i), InstrOK(j), InstrOK(k)
  PROVE  CodeOK(<< i, j, k >>)
  BY DEF CodeOK, IsSeq

\* Five instructions in a row.
LEMMA FiveOK ==
  ASSUME NEW i, NEW j, NEW k, NEW l, NEW m,
         InstrOK(i), InstrOK(j), InstrOK(k), InstrOK(l), InstrOK(m)
  PROVE  CodeOK(<< i, j, k, l, m >>)
  BY DEF CodeOK, IsSeq

\* Code that runs under a condition of the source, such as `if (Ctx->type())`.
LEMMA IfOK ==
  ASSUME NEW cond, NEW code, cond => CodeOK(code)
  PROVE  CodeOK(If(cond, code))
  BY EmptyOK DEF If

\* A visitor without a loop that returns the type of its rule.
LEMMA VisitorOK ==
  ASSUME NEW c, NEW block, Visit(c) = Visitor(Answer(tree[c].sym), block), CodeOK(block)
  PROVE  VisitOK(c)
  BY OneBlockOK DEF VisitOK, Visitor

\* A visitor that runs one block per operand or suffix.
LEMMA LoopOK ==
  ASSUME NEW c, NEW first, NEW blocks, CodeOK(first), BlocksOK(blocks),
         Visit(c) = Loop(Answer(tree[c].sym), << first >> \o blocks)
  PROVE  VisitOK(c)
  BY OneBlockOK, ConcatBlocksOK DEF VisitOK, Loop

\* A visitor that is one `return visit(x)`.
LEMMA ForwardOK ==
  ASSUME NEW c, NEW x, Visit(c) = Forward(x), IsChild(x, Answer(tree[c].sym))
  PROVE  VisitOK(c)
  BY DEF VisitOK, Forward, Visitor

-----------------------------------------------------------------------------
(* The visitors.                                                           *)

\* The single children the visitors ask for, with the type of their rules.
LEMMA ChildOK ==
  ASSUME TreeDone, NEW c \in DOMAIN tree
  PROVE  /\ Has(c, "declaration") => IsChild(The(c, "declaration"), "Declaration")
         /\ Has(c, "functionType") => IsChild(The(c, "functionType"), "Type")
         /\ Has(c, "type") => IsChild(The(c, "type"), "Type")
         /\ Has(c, "block") => IsChild(The(c, "block"), "Block")
         /\ \A sym \in {"assignment", "forUpdate", "ifStmt"} :
              Has(c, sym) => IsChild(The(c, sym), "Statement")
         /\ \A sym \in ExprContexts : Has(c, sym) => IsChild(The(c, sym), "Expr")
         /\ Has(c, "label") => IsChild(The(c, "label"), "Label")
  BY TheOK, Answers DEF DeclContexts, TypeContexts, StmtContexts

\* The children they ask for by number.
LEMMA NumberedOK ==
  ASSUME TreeDone, NEW c \in DOMAIN tree, NEW i \in Int, 1 <= i
  PROVE  /\ i <= Len(Kids(c, "type")) => IsChild(Nth(c, "type", i), "Type")
         /\ i <= Len(Kids(c, "block")) => IsChild(Nth(c, "block", i), "Block")
         /\ \A sym \in ExprContexts :
              i <= Len(Kids(c, sym)) => IsChild(Nth(c, sym, i), "Expr")
  BY NthOK, Answers DEF TypeContexts

\* How many children there are.
LEMMA HasLen ==
  ASSUME TreeDone, NEW c \in DOMAIN tree, NEW sym
  PROVE  /\ Has(c, sym) <=> Len(Kids(c, sym)) >= 1
         /\ Len(Kids(c, sym)) \in Nat
         /\ Nth(c, sym, 1) = The(c, sym)
  BY HasKid, KidsOK, SeqFacts DEF TreeDone, The

\* The lists of children the visitors loop over.
LEMMA ListOK ==
  ASSUME TreeDone, NEW c \in DOMAIN tree, NEW slot
  PROVE  /\ CodeOK(GetAll("TopLevelObject", Kids(c, "topLevelObject"), slot))
         /\ CodeOK(GetAll("Declaration", Kids(c, "declaration"), slot))
         /\ CodeOK(GetAll("Declaration", Kids(c, "variableDecl"), slot))
         /\ CodeOK(GetAll("Parameter", Kids(c, "parameter"), slot))
         /\ CodeOK(GetAll("Type", Kids(c, "type"), slot))
         /\ CodeOK(GetAll("Statement", Kids(c, "statement"), slot))
         /\ CodeOK(GetAll("CatchClause", Kids(c, "catchClause"), slot))
         /\ \A sym \in ExprContexts : CodeOK(GetAll("Expr", Kids(c, sym), slot))
<1>1. /\ Answer("declaration") = "Declaration" /\ Answer("variableDecl") = "Declaration"
      /\ Answer("type") = "Type" /\ Answer("statement") = "Statement"
  BY Answers DEF DeclContexts, TypeContexts, StmtContexts
<1> QED
  BY <1>1, GetAllOK, Answers

\* visitFile casts each child to TopLevelObject * and returns a Program *.
LEMMA visitFile_OK ==
  ASSUME TreeDone, NEW c \in DOMAIN tree, tree[c].sym = "file"
  PROVE  VisitOK(c)
<1>1. Visit(c) = visitFile(c) /\ Answer(tree[c].sym) = "Program"
  BY Answers DEF Visit
<1> QED
  BY <1>1, ListOK, OneOK, ConcatOK, QuietOK, VisitorOK DEF visitFile

\* visitTopLevelObject casts its declaration to Declaration *.
LEMMA visitTopLevelObject_OK ==
  ASSUME TreeDone, NEW c \in DOMAIN tree, tree[c].sym = "topLevelObject"
  PROVE  VisitOK(c)
<1>1. Visit(c) = visitTopLevelObject(c) /\ Answer(tree[c].sym) = "TopLevelObject"
  BY Answers DEF Visit
<1> QED
  BY <1>1, ChildOK, DeclHas, GettersOK, TwoOK, QuietOK, VisitorOK DEF visitTopLevelObject

\* visitFunctionDecl casts its block, type and parameters, and returns the
\* FunctionDecl as a Declaration *.
LEMMA visitFunctionDecl_OK ==
  ASSUME TreeDone, NEW c \in DOMAIN tree, tree[c].sym = "functionDecl"
  PROVE  VisitOK(c)
<1>1. Visit(c) = visitFunctionDecl(c) /\ Answer(tree[c].sym) = "Declaration"
  BY Answers DEF Visit, DeclContexts
<1> QED
  BY <1>1, ChildOK, DeclHas, GettersOK, ListOK, ThreeOK, ConcatOK, QuietOK, VisitorOK
     DEF visitFunctionDecl

\* visitParameter casts its type, and the default value when there is one.
LEMMA visitParameter_OK ==
  ASSUME TreeDone, NEW c \in DOMAIN tree, tree[c].sym = "parameter"
  PROVE  VisitOK(c)
<1>1. Visit(c) = visitParameter(c) /\ Answer(tree[c].sym) = "Parameter"
  BY Answers DEF Visit
<1> QED
  BY <1>1, ChildOK, DeclHas, GettersOK, OneOK, TwoOK, IfOK, ConcatOK, QuietOK, VisitorOK
  DEF visitParameter, ExprContexts

\* visitVariableDecl casts a type and an initializer that may each be missing.
LEMMA visitVariableDecl_OK ==
  ASSUME TreeDone, NEW c \in DOMAIN tree, tree[c].sym = "variableDecl"
  PROVE  VisitOK(c)
<1>1. Visit(c) = visitVariableDecl(c) /\ Answer(tree[c].sym) = "Declaration"
  BY Answers DEF Visit, DeclContexts
<1> QED
  BY <1>1, ChildOK, GettersOK, OneOK, IfOK, ConcatOK, QuietOK, VisitorOK
  DEF visitVariableDecl, ExprContexts

\* visitBuiltinType visits nothing and returns a Type *.
LEMMA visitBuiltinType_OK ==
  ASSUME TreeDone, NEW c \in DOMAIN tree, tree[c].sym = "builtinType"
  PROVE  VisitOK(c)
<1>1. Visit(c) = visitBuiltinType(c) /\ Answer(tree[c].sym) = "Type"
  BY Answers DEF Visit, TypeContexts
<1> QED
  BY <1>1, OneOK, QuietOK, VisitorOK DEF visitBuiltinType

\* visitBlock casts each statement to Statement * and returns a Block *.
LEMMA visitBlock_OK ==
  ASSUME TreeDone, NEW c \in DOMAIN tree, tree[c].sym = "block"
  PROVE  VisitOK(c)
<1>1. Visit(c) = visitBlock(c) /\ Answer(tree[c].sym) = "Block"
  BY Answers DEF Visit
<1> QED
  BY <1>1, ListOK, OneOK, ConcatOK, QuietOK, VisitorOK DEF visitBlock

\* visitDeclStatement wraps a Declaration * into a Statement *.
LEMMA visitDeclStatement_OK ==
  ASSUME TreeDone, NEW c \in DOMAIN tree, tree[c].sym = "declStatement"
  PROVE  VisitOK(c)
<1>1. Visit(c) = visitDeclStatement(c) /\ Answer(tree[c].sym) = "Statement"
  BY Answers DEF Visit, StmtContexts
<1> QED
  BY <1>1, ChildOK, StmtHas, GettersOK, TwoOK, QuietOK, VisitorOK DEF visitDeclStatement

\* visitAssignment casts both sides to Expr *.
LEMMA visitAssignment_OK ==
  ASSUME TreeDone, NEW c \in DOMAIN tree, tree[c].sym = "assignment"
  PROVE  VisitOK(c)
<1>1. Visit(c) = visitAssignment(c) /\ Answer(tree[c].sym) = "Statement"
  BY Answers DEF Visit, StmtContexts
<1> QED
  BY <1>1, ChildOK, StmtHas, GettersOK, ThreeOK, QuietOK, VisitorOK
     DEF visitAssignment, ExprContexts

\* visitForEachStmt casts its collection and its body.
LEMMA visitForEachStmt_OK ==
  ASSUME TreeDone, NEW c \in DOMAIN tree, tree[c].sym = "forEachStmt"
  PROVE  VisitOK(c)
<1>1. Visit(c) = visitForEachStmt(c) /\ Answer(tree[c].sym) = "Statement"
  BY Answers DEF Visit, StmtContexts
<1> QED
  BY <1>1, ChildOK, StmtHas, GettersOK, ThreeOK, QuietOK, VisitorOK
     DEF visitForEachStmt, ExprContexts

\* visitWhileStmt casts its condition and its body.
LEMMA visitWhileStmt_OK ==
  ASSUME TreeDone, NEW c \in DOMAIN tree, tree[c].sym = "whileStmt"
  PROVE  VisitOK(c)
<1>1. Visit(c) = visitWhileStmt(c) /\ Answer(tree[c].sym) = "Statement"
  BY Answers DEF Visit, StmtContexts
<1> QED
  BY <1>1, ChildOK, StmtHas, GettersOK, ThreeOK, QuietOK, VisitorOK DEF visitWhileStmt, ExprContexts

\* visitDoWhileStmt casts its body and its condition.
LEMMA visitDoWhileStmt_OK ==
  ASSUME TreeDone, NEW c \in DOMAIN tree, tree[c].sym = "doWhileStmt"
  PROVE  VisitOK(c)
<1>1. Visit(c) = visitDoWhileStmt(c) /\ Answer(tree[c].sym) = "Statement"
  BY Answers DEF Visit, StmtContexts
<1> QED
  BY <1>1, ChildOK, StmtHas, GettersOK, ThreeOK, QuietOK, VisitorOK
     DEF visitDoWhileStmt, ExprContexts

\* visitCatchClause casts the type of its parameter and its body.
LEMMA visitCatchClause_OK ==
  ASSUME TreeDone, NEW c \in DOMAIN tree, tree[c].sym = "catchClause"
  PROVE  VisitOK(c)
<1>1. Visit(c) = visitCatchClause(c) /\ Answer(tree[c].sym) = "CatchClause"
  BY Answers DEF Visit
<1> QED
  BY <1>1, ChildOK, StmtHas, GettersOK, FiveOK, QuietOK, VisitorOK DEF visitCatchClause

\* visitExprStmt wraps an Expr * into a Statement *.
LEMMA visitExprStmt_OK ==
  ASSUME TreeDone, NEW c \in DOMAIN tree, tree[c].sym = "exprStmt"
  PROVE  VisitOK(c)
<1>1. Visit(c) = visitExprStmt(c) /\ Answer(tree[c].sym) = "Statement"
  BY Answers DEF Visit, StmtContexts
<1> QED
  BY <1>1, ChildOK, StmtHas, GettersOK, TwoOK, QuietOK, VisitorOK DEF visitExprStmt, ExprContexts

\* visitForUpdate returns a Statement * for an assignment and for an expression.
LEMMA visitForUpdate_OK ==
  ASSUME TreeDone, NEW c \in DOMAIN tree, tree[c].sym = "forUpdate"
  PROVE  VisitOK(c)
<1>1. Visit(c) = visitForUpdate(c) /\ Answer(tree[c].sym) = "Statement"
  BY Answers DEF Visit, StmtContexts
<1> QED
  BY <1>1, ChildOK, StmtHas, GettersOK, OneOK, TwoOK, QuietOK, VisitorOK
     DEF visitForUpdate, ExprContexts

\* visitIfStmt takes its else branch from an ifStmt or from a second block.
LEMMA visitIfStmt_OK ==
  ASSUME TreeDone, NEW c \in DOMAIN tree, tree[c].sym = "ifStmt"
  PROVE  VisitOK(c)
<1>1. Visit(c) = visitIfStmt(c) /\ Answer(tree[c].sym) = "Statement"
  BY Answers DEF Visit, StmtContexts
<1>2. /\ InstrOK(getExpr(The(c, "expression"), "Condition"))
      /\ InstrOK(getBlock(Nth(c, "block", 1), "Then"))
      /\ Has(c, "ifStmt") => InstrOK(getStmt(The(c, "ifStmt"), "Else"))
  BY ChildOK, StmtHas, HasLen, GettersOK DEF ExprContexts
<1>3. (Has(c, "ELSE") /\ ~ Has(c, "ifStmt")) => InstrOK(getBlock(Nth(c, "block", 2), "Else"))
  BY AlsoHas, NumberedOK, GettersOK
<1> QED
  BY <1>1, <1>2, <1>3, OneOK, ThreeOK, IfOK, ConcatOK, QuietOK, VisitorOK DEF visitIfStmt

\* visitTryStatement casts the catch clauses and tells the two blocks apart.
LEMMA visitTryStatement_OK ==
  ASSUME TreeDone, NEW c \in DOMAIN tree, tree[c].sym = "tryStatement"
  PROVE  VisitOK(c)
<1>1. Visit(c) = visitTryStatement(c) /\ Answer(tree[c].sym) = "Statement"
  BY Answers DEF Visit, StmtContexts
<1>2. /\ InstrOK(getBlock(Nth(c, "block", 1), "Body"))
      /\ InstrOK(getBlock(Nth(c, "block", Len(Kids(c, "block"))), "Finally"))
      /\ CodeOK(GetAll("CatchClause", Kids(c, "catchClause"), "CatchClauses"))
  BY NumberedOK, StmtHas, HasLen, ListOK, GettersOK
<1> QED
  BY <1>1, <1>2, OneOK, TwoOK, IfOK, ConcatOK, QuietOK, VisitorOK DEF visitTryStatement

\* visitAsExpr returns the operand itself when there is no type.
LEMMA visitAsExpr_OK ==
  ASSUME TreeDone, NEW c \in DOMAIN tree, tree[c].sym = "asExpr"
  PROVE  VisitOK(c)
<1>1. Visit(c) = visitAsExpr(c) /\ Answer(tree[c].sym) = "Expr"
  BY Answers DEF Visit, ExprContexts
<1>2. /\ InstrOK(getExpr(The(c, "prefixUnaryExpr"), Result))
      /\ The(c, "asOperator") # Null => InstrOK(getType(The(c, "type"), "TargetType"))
  BY ChildOK, ExprHas, AlsoHas, GettersOK DEF ExprContexts, Has
<1> QED
  BY <1>1, <1>2, OneOK, TwoOK, IfOK, ConcatOK, QuietOK, VisitorOK DEF visitAsExpr

\* visitLiteralConstant visits nothing and returns an Expr *.
LEMMA visitLiteralConstant_OK ==
  ASSUME TreeDone, NEW c \in DOMAIN tree, tree[c].sym = "literalConstant"
  PROVE  VisitOK(c)
<1>1. Visit(c) = visitLiteralConstant(c) /\ Answer(tree[c].sym) = "Expr"
  BY Answers DEF Visit, ExprContexts
<1> QED
  BY <1>1, OneOK, IfOK, ConcatOK, QuietOK, VisitorOK DEF visitLiteralConstant

\* visitCollectionLiteral casts each element to Expr *.
LEMMA visitCollectionLiteral_OK ==
  ASSUME TreeDone, NEW c \in DOMAIN tree, tree[c].sym = "collectionLiteral"
  PROVE  VisitOK(c)
<1>1. CodeOK(<< New(Node("CollectionExpr", c, c)) >> \o
             GetAll("Expr", Kids(c, "expression"), "Elements"))
  BY ListOK, OneOK, ConcatOK, QuietOK DEF ExprContexts
<1> QED
  BY <1>1, Answers, VisitorOK DEF Visit, visitCollectionLiteral, ExprContexts

\* visitThisLiteral visits nothing and returns an Expr *.
LEMMA visitThisLiteral_OK ==
  ASSUME TreeDone, NEW c \in DOMAIN tree, tree[c].sym = "thisLiteral"
  PROVE  VisitOK(c)
<1>1. Visit(c) = visitThisLiteral(c) /\ Answer(tree[c].sym) = "Expr"
  BY Answers DEF Visit, ExprContexts
<1> QED
  BY <1>1, OneOK, QuietOK, VisitorOK DEF visitThisLiteral

\* visitIfExpression casts two or three expressions.
LEMMA visitIfExpression_OK ==
  ASSUME TreeDone, NEW c \in DOMAIN tree, tree[c].sym = "ifExpression"
  PROVE  VisitOK(c)
<1>1. Visit(c) = visitIfExpression(c) /\ Answer(tree[c].sym) = "Expr"
  BY Answers DEF Visit, ExprContexts
<1>2. /\ \A slot : InstrOK(getExpr(Nth(c, "expression", 1), slot))
      /\ \A slot : InstrOK(getExpr(Nth(c, "expression", 2), slot))
      /\ Has(c, "ELSE") => InstrOK(getExpr(Nth(c, "expression", 3), "Else"))
  BY NumberedOK, AlsoHas, HasLen, GettersOK DEF ExprContexts
<1> QED
  BY <1>1, <1>2, OneOK, ThreeOK, IfOK, ConcatOK, QuietOK, VisitorOK DEF visitIfExpression

\* visitJumpExpression casts a value, a label, or nothing.
LEMMA visitJumpExpression_OK ==
  ASSUME TreeDone, NEW c \in DOMAIN tree, tree[c].sym = "jumpExpression"
  PROVE  VisitOK(c)
<1>1. Visit(c) = visitJumpExpression(c) /\ Answer(tree[c].sym) = "Expr"
  BY Answers DEF Visit, ExprContexts
<1>2. /\ \A slot : Has(c, "expression") => InstrOK(getExpr(The(c, "expression"), slot))
      /\ Has(c, "label") => InstrOK(Get("Label", The(c, "label"), "Pos"))
      /\ Has(c, "THROW") => Has(c, "expression")
      /\ Has(c, "expression") <=> The(c, "expression") # Null
  BY ChildOK, AlsoHas, GetOK, GettersOK DEF ExprContexts, Has
<1> QED
  BY <1>1, <1>2, OneOK, IfOK, ConcatOK, QuietOK, VisitorOK DEF visitJumpExpression

\* visitLabel visits nothing and returns a Label *.
LEMMA visitLabel_OK ==
  ASSUME TreeDone, NEW c \in DOMAIN tree, tree[c].sym = "label"
  PROVE  VisitOK(c)
<1>1. Visit(c) = visitLabel(c) /\ Answer(tree[c].sym) = "Label"
  BY Answers DEF Visit
<1> QED
  BY <1>1, OneOK, QuietOK, VisitorOK DEF visitLabel

\* visitParenType hands on the any of its type.
LEMMA visitParenType_OK ==
  ASSUME TreeDone, NEW c \in DOMAIN tree, tree[c].sym = "parenType"
  PROVE  VisitOK(c)
  BY ChildOK, DeclHas, Answers, ForwardOK DEF Visit, visitParenType, TypeContexts

\* visitExpression hands on the any of its disjunction.
LEMMA visitExpression_OK ==
  ASSUME TreeDone, NEW c \in DOMAIN tree, tree[c].sym = "expression"
  PROVE  VisitOK(c)
<1>1. IsChild(The(c, "disjunction"), "Expr") /\ Answer(tree[c].sym) = "Expr"
  BY ChildOK, ChainHas, Answers DEF ExprContexts
<1> QED
  BY <1>1, ForwardOK DEF Visit, visitExpression

\* visitParenExpr hands on the any of its expression.
LEMMA visitParenExpr_OK ==
  ASSUME TreeDone, NEW c \in DOMAIN tree, tree[c].sym = "parenExpr"
  PROVE  VisitOK(c)
<1>1. IsChild(The(c, "expression"), "Expr") /\ Answer(tree[c].sym) = "Expr"
  BY ChildOK, ExprHas, Answers DEF ExprContexts
<1> QED
  BY <1>1, ForwardOK DEF Visit, visitParenExpr

\* visitStatement hands on the any of one of four rules, all Statement *.
LEMMA visitStatement_OK ==
  ASSUME TreeDone, NEW c \in DOMAIN tree, tree[c].sym = "statement"
  PROVE  VisitOK(c)
<1> DEFINE syms == << "declStatement", "assignment", "controlStatement", "exprStmt" >>
<1>1. DOMAIN syms = 1..4 /\ \A i \in DOMAIN syms : Answer(syms[i]) = "Statement"
  BY Answers DEF StmtContexts
<1>2. \E i \in DOMAIN syms : Has(c, syms[i])
  BY StmtHas
<1>3. IsChild(available(c, syms), "Statement")
  BY <1>1, <1>2, AvailableOK
<1> QED
  BY <1>3, Answers, ForwardOK DEF Visit, visitStatement, StmtContexts

\* visitControlStatement hands on the any of one of six rules, all Statement *.
LEMMA visitControlStatement_OK ==
  ASSUME TreeDone, NEW c \in DOMAIN tree, tree[c].sym = "controlStatement"
  PROVE  VisitOK(c)
<1> DEFINE syms == << "forStmt", "forEachStmt", "whileStmt", "doWhileStmt", "ifStmt",
                      "tryStatement" >>
<1>1. DOMAIN syms = 1..6 /\ \A i \in DOMAIN syms : Answer(syms[i]) = "Statement"
  BY Answers DEF StmtContexts
<1>2. \E i \in DOMAIN syms : Has(c, syms[i])
  BY StmtHas
<1>3. IsChild(available(c, syms), "Statement")
  BY <1>1, <1>2, AvailableOK
<1> QED
  BY <1>3, Answers, ForwardOK DEF Visit, visitControlStatement, StmtContexts

\* visitPrimaryExpr makes an IdentifierExpr or hands on the any of one of six
\* rules, all Expr *.
LEMMA visitPrimaryExpr_OK ==
  ASSUME TreeDone, NEW c \in DOMAIN tree, tree[c].sym = "primaryExpr"
  PROVE  VisitOK(c)
<1> DEFINE syms == << "parenExpr", "literalConstant", "collectionLiteral", "thisLiteral",
                      "ifExpression", "jumpExpression" >>
<1>1. DOMAIN syms = 1..6 /\ \A i \in DOMAIN syms : Answer(syms[i]) = "Expr"
  BY Answers DEF ExprContexts
<1>2. Answer(tree[c].sym) = "Expr"
  BY Answers DEF ExprContexts
<1>3. CASE Has(c, "IDENTIFIER")
  BY <1>2, <1>3, QuietOK, OneOK, VisitorOK DEF Visit, visitPrimaryExpr
<1>4. CASE ~ Has(c, "IDENTIFIER")
  <2>1. \E i \in DOMAIN syms : Has(c, syms[i])
    BY <1>4, ExprHas
  <2>2. IsChild(available(c, syms), "Expr")
    BY <1>1, <2>1, AvailableOK
  <2> QED
    BY <1>2, <1>4, <2>2, ForwardOK DEF Visit, visitPrimaryExpr
<1> QED
  BY <1>3, <1>4

\* visitDeclaration casts one of three rules to Declaration * before it sets the
\* visibility.
LEMMA visitDeclaration_OK ==
  ASSUME TreeDone, NEW c \in DOMAIN tree, tree[c].sym = "declaration"
  PROVE  VisitOK(c)
<1> DEFINE syms == << "functionDecl", "variableDecl", "classDecl" >>
<1>1. DOMAIN syms = 1..3 /\ \A i \in DOMAIN syms : Answer(syms[i]) = "Declaration"
  BY Answers DEF DeclContexts
<1>2. \E i \in DOMAIN syms : Has(c, syms[i])
  BY DeclHas
<1>3. IsChild(available(c, syms), "Declaration")
  BY <1>1, <1>2, AvailableOK
<1> QED
  BY <1>3, Answers, GettersOK, QuietOK, OneOK, IfOK, ConcatOK, VisitorOK
  DEF Visit, visitDeclaration, DeclContexts

\* The first operand of a chain of binary operators.
LEMMA FirstOK ==
  ASSUME TreeDone, NEW c \in DOMAIN tree, NEW sub \in ExprContexts, Has(c, sub)
  PROVE  CodeOK(<< getExpr(The(c, sub), Result) >>)
  BY TheOK, Answers, GettersOK, OneOK

\* One turn of foldLeftAssoc.
LEMMA FoldOK ==
  ASSUME TreeDone, NEW c \in DOMAIN tree, NEW sub \in ExprContexts,
         NEW i \in 1..(Len(Kids(c, sub)) - 1), NEW op, NEW reports, CodeOK(reports)
  PROVE  CodeOK(Fold(c, sub, i, op, reports))
<1>1. i + 1 \in Int /\ 1 <= i + 1 /\ i + 1 <= Len(Kids(c, sub))
  BY HasLen
<1>2. IsChild(Nth(c, sub, i + 1), "Expr")
  BY <1>1, NthOK, Answers
<1> QED
  BY <1>2, GettersOK, QuietOK, OneOK, ConcatOK DEF Fold

\* All turns of foldLeftAssoc, with what the operator needs before each turn.
LEMMA FoldsOK ==
  ASSUME TreeDone, NEW c \in DOMAIN tree, tree[c].sym \in ExprContexts,
         NEW sub \in ExprContexts, Has(c, sub), NEW steps,
         steps = [i \in 1..(Len(Kids(c, sub)) - 1) |-> steps[i]],
         \A i \in 1..(Len(Kids(c, sub)) - 1) : \E pre, op :
            CodeOK(pre) /\ steps[i] = Fold(c, sub, i, op, pre),
         Visit(c) = Loop("Expr", << << getExpr(The(c, sub), Result) >> >> \o steps)
  PROVE  VisitOK(c)
<1>1. Len(Kids(c, sub)) - 1 \in Int
  BY KidsOK, SeqFacts
<1>2. BlocksOK(steps)
  BY <1>1, FoldOK, FunBlocksOK
<1> QED
  BY <1>2, Answers, FirstOK, LoopOK

\* visitDisjunction folds its operands, each cast to Expr *.
LEMMA visitDisjunction_OK ==
  ASSUME TreeDone, NEW c \in DOMAIN tree, tree[c].sym = "disjunction"
  PROVE  VisitOK(c)
<1> DEFINE n == Len(Kids(c, "conjunction")) - 1
           op(i) == "Disj"
           steps == [i \in 1..n |-> Fold(c, "conjunction", i, op(i), Silent(i))]
<1>1. Visit(c) = Loop("Expr", << << getExpr(The(c, "conjunction"), Result) >> >> \o steps)
  BY DEF Visit, visitDisjunction, foldLeftAssoc
<1>2. \A i \in 1..n : \E pre, o : CodeOK(pre) /\ steps[i] = Fold(c, "conjunction", i, o, pre)
  BY EmptyOK DEF Silent
<1>3. steps = [i \in 1..n |-> steps[i]]
  OBVIOUS
<1>4. "conjunction" \in ExprContexts /\ tree[c].sym \in ExprContexts
  BY DEF ExprContexts
<1> HIDE DEF steps
<1> QED
  BY <1>1, <1>2, <1>3, <1>4, ChainHas, FoldsOK

\* visitConjunction folds its operands, each cast to Expr *.
LEMMA visitConjunction_OK ==
  ASSUME TreeDone, NEW c \in DOMAIN tree, tree[c].sym = "conjunction"
  PROVE  VisitOK(c)
<1> DEFINE n == Len(Kids(c, "equality")) - 1
           op(i) == "Conj"
           steps == [i \in 1..n |-> Fold(c, "equality", i, op(i), Silent(i))]
<1>1. Visit(c) = Loop("Expr", << << getExpr(The(c, "equality"), Result) >> >> \o steps)
  BY DEF Visit, visitConjunction, foldLeftAssoc
<1>2. \A i \in 1..n : \E pre, o : CodeOK(pre) /\ steps[i] = Fold(c, "equality", i, o, pre)
  BY EmptyOK DEF Silent
<1>3. steps = [i \in 1..n |-> steps[i]]
  OBVIOUS
<1>4. "equality" \in ExprContexts /\ tree[c].sym \in ExprContexts
  BY DEF ExprContexts
<1> HIDE DEF steps
<1> QED
  BY <1>1, <1>2, <1>3, <1>4, ChainHas, FoldsOK

\* visitEquality folds its operands, each cast to Expr *.
LEMMA visitEquality_OK ==
  ASSUME TreeDone, NEW c \in DOMAIN tree, tree[c].sym = "equality"
  PROVE  VisitOK(c)
<1> DEFINE n == Len(Kids(c, "comparison")) - 1
           op(i) == getBinaryOp(Nth(c, "equalityOperator", i))
           steps == [i \in 1..n |-> Fold(c, "comparison", i, op(i), Silent(i))]
<1>1. Visit(c) = Loop("Expr", << << getExpr(The(c, "comparison"), Result) >> >> \o steps)
  BY DEF Visit, visitEquality, foldLeftAssoc
<1>2. \A i \in 1..n : \E pre, o : CodeOK(pre) /\ steps[i] = Fold(c, "comparison", i, o, pre)
  BY EmptyOK DEF Silent
<1>3. steps = [i \in 1..n |-> steps[i]]
  OBVIOUS
<1>4. "comparison" \in ExprContexts /\ tree[c].sym \in ExprContexts
  BY DEF ExprContexts
<1> HIDE DEF steps
<1> QED
  BY <1>1, <1>2, <1>3, <1>4, ChainHas, FoldsOK

\* visitElvisExpr is one foldLeftAssoc.
LEMMA visitElvisExpr_OK ==
  ASSUME TreeDone, NEW c \in DOMAIN tree, tree[c].sym = "elvisExpr"
  PROVE  VisitOK(c)
<1> DEFINE n == Len(Kids(c, "bitwiseOr")) - 1
           op(i) == "Elvis"
           steps == [i \in 1..n |-> Fold(c, "bitwiseOr", i, op(i), Silent(i))]
<1>1. Visit(c) = Loop("Expr", << << getExpr(The(c, "bitwiseOr"), Result) >> >> \o steps)
  BY DEF Visit, visitElvisExpr, foldLeftAssoc
<1>2. \A i \in 1..n : \E pre, o : CodeOK(pre) /\ steps[i] = Fold(c, "bitwiseOr", i, o, pre)
  BY EmptyOK DEF Silent
<1>3. steps = [i \in 1..n |-> steps[i]]
  OBVIOUS
<1>4. "bitwiseOr" \in ExprContexts /\ tree[c].sym \in ExprContexts
  BY DEF ExprContexts
<1> HIDE DEF steps
<1> QED
  BY <1>1, <1>2, <1>3, <1>4, ChainHas, FoldsOK

\* visitBitwiseOr folds its operands, each cast to Expr *.
LEMMA visitBitwiseOr_OK ==
  ASSUME TreeDone, NEW c \in DOMAIN tree, tree[c].sym = "bitwiseOr"
  PROVE  VisitOK(c)
<1> DEFINE n == Len(Kids(c, "bitwiseXor")) - 1
           op(i) == "BitOr"
           steps == [i \in 1..n |-> Fold(c, "bitwiseXor", i, op(i), Silent(i))]
<1>1. Visit(c) = Loop("Expr", << << getExpr(The(c, "bitwiseXor"), Result) >> >> \o steps)
  BY DEF Visit, visitBitwiseOr, foldLeftAssoc
<1>2. \A i \in 1..n : \E pre, o : CodeOK(pre) /\ steps[i] = Fold(c, "bitwiseXor", i, o, pre)
  BY EmptyOK DEF Silent
<1>3. steps = [i \in 1..n |-> steps[i]]
  OBVIOUS
<1>4. "bitwiseXor" \in ExprContexts /\ tree[c].sym \in ExprContexts
  BY DEF ExprContexts
<1> HIDE DEF steps
<1> QED
  BY <1>1, <1>2, <1>3, <1>4, ChainHas, FoldsOK

\* visitBitwiseXor folds its operands, each cast to Expr *.
LEMMA visitBitwiseXor_OK ==
  ASSUME TreeDone, NEW c \in DOMAIN tree, tree[c].sym = "bitwiseXor"
  PROVE  VisitOK(c)
<1> DEFINE n == Len(Kids(c, "bitwiseAnd")) - 1
           op(i) == "BitXor"
           steps == [i \in 1..n |-> Fold(c, "bitwiseAnd", i, op(i), Silent(i))]
<1>1. Visit(c) = Loop("Expr", << << getExpr(The(c, "bitwiseAnd"), Result) >> >> \o steps)
  BY DEF Visit, visitBitwiseXor, foldLeftAssoc
<1>2. \A i \in 1..n : \E pre, o : CodeOK(pre) /\ steps[i] = Fold(c, "bitwiseAnd", i, o, pre)
  BY EmptyOK DEF Silent
<1>3. steps = [i \in 1..n |-> steps[i]]
  OBVIOUS
<1>4. "bitwiseAnd" \in ExprContexts /\ tree[c].sym \in ExprContexts
  BY DEF ExprContexts
<1> HIDE DEF steps
<1> QED
  BY <1>1, <1>2, <1>3, <1>4, ChainHas, FoldsOK

\* visitBitwiseAnd folds its operands, each cast to Expr *.
LEMMA visitBitwiseAnd_OK ==
  ASSUME TreeDone, NEW c \in DOMAIN tree, tree[c].sym = "bitwiseAnd"
  PROVE  VisitOK(c)
<1> DEFINE n == Len(Kids(c, "bitwiseShift")) - 1
           op(i) == "BitAnd"
           steps == [i \in 1..n |-> Fold(c, "bitwiseShift", i, op(i), Silent(i))]
<1>1. Visit(c) = Loop("Expr", << << getExpr(The(c, "bitwiseShift"), Result) >> >> \o steps)
  BY DEF Visit, visitBitwiseAnd, foldLeftAssoc
<1>2. \A i \in 1..n : \E pre, o : CodeOK(pre) /\ steps[i] = Fold(c, "bitwiseShift", i, o, pre)
  BY EmptyOK DEF Silent
<1>3. steps = [i \in 1..n |-> steps[i]]
  OBVIOUS
<1>4. "bitwiseShift" \in ExprContexts /\ tree[c].sym \in ExprContexts
  BY DEF ExprContexts
<1> HIDE DEF steps
<1> QED
  BY <1>1, <1>2, <1>3, <1>4, ChainHas, FoldsOK

\* visitAddition folds its operands, each cast to Expr *.
LEMMA visitAddition_OK ==
  ASSUME TreeDone, NEW c \in DOMAIN tree, tree[c].sym = "addition"
  PROVE  VisitOK(c)
<1> DEFINE n == Len(Kids(c, "multiplication")) - 1
           op(i) == getBinaryOp(Nth(c, "additionOperator", i))
           steps == [i \in 1..n |-> Fold(c, "multiplication", i, op(i), Silent(i))]
<1>1. Visit(c) = Loop("Expr", << << getExpr(The(c, "multiplication"), Result) >> >> \o steps)
  BY DEF Visit, visitAddition, foldLeftAssoc
<1>2. \A i \in 1..n : \E pre, o : CodeOK(pre) /\ steps[i] = Fold(c, "multiplication", i, o, pre)
  BY EmptyOK DEF Silent
<1>3. steps = [i \in 1..n |-> steps[i]]
  OBVIOUS
<1>4. "multiplication" \in ExprContexts /\ tree[c].sym \in ExprContexts
  BY DEF ExprContexts
<1> HIDE DEF steps
<1> QED
  BY <1>1, <1>2, <1>3, <1>4, ChainHas, FoldsOK

\* visitMultiplication folds its operands, each cast to Expr *.
LEMMA visitMultiplication_OK ==
  ASSUME TreeDone, NEW c \in DOMAIN tree, tree[c].sym = "multiplication"
  PROVE  VisitOK(c)
<1> DEFINE n == Len(Kids(c, "asExpr")) - 1
           op(i) == getBinaryOp(Nth(c, "multiplicationOperator", i))
           steps == [i \in 1..n |-> Fold(c, "asExpr", i, op(i), Silent(i))]
<1>1. Visit(c) = Loop("Expr", << << getExpr(The(c, "asExpr"), Result) >> >> \o steps)
  BY DEF Visit, visitMultiplication, foldLeftAssoc
<1>2. \A i \in 1..n : \E pre, o : CodeOK(pre) /\ steps[i] = Fold(c, "asExpr", i, o, pre)
  BY EmptyOK DEF Silent
<1>3. steps = [i \in 1..n |-> steps[i]]
  OBVIOUS
<1>4. "asExpr" \in ExprContexts /\ tree[c].sym \in ExprContexts
  BY DEF ExprContexts
<1> HIDE DEF steps
<1> QED
  BY <1>1, <1>2, <1>3, <1>4, ChainHas, FoldsOK

\* The type arguments of a typeRef or of a call suffix.
LEMMA TypeArgsOK ==
  ASSUME TreeDone, NEW c \in DOMAIN tree
  PROVE  CodeOK(TypeArgs(c))
<1> DEFINE args == The(c, "typeArguments")
           list == The(args, "typeArgument")
<1>1. CASE Has(c, "typeArguments") /\ Has(args, "typeArgument")
  <2>1. args \in DOMAIN tree
    BY <1>1, TheOK DEF Has
  <2>2. list \in DOMAIN tree
    BY <1>1, <2>1, TheOK DEF Has
  <2> HIDE DEF list
  <2>3. CodeOK(GetAll("Type", Kids(list, "type"), "TypeArgs"))
    BY <2>2, ListOK
  <2> QED
    BY <2>3, IfOK DEF TypeArgs, list
<1>2. CASE ~ (Has(c, "typeArguments") /\ Has(args, "typeArgument"))
  BY <1>2, IfOK DEF TypeArgs
<1> QED
  BY <1>1, <1>2

\* The arguments of a call suffix.
LEMMA ArgumentsOK ==
  ASSUME TreeDone, NEW c \in DOMAIN tree
  PROVE  CodeOK(Arguments(c))
<1> DEFINE list == The(c, "valueArguments")
           args == Kids(list, "valueArgument")
           code == [i \in DOMAIN args |-> getExpr(The(args[i], "expression"), "Arguments")]
<1>1. CASE Has(c, "valueArguments")
  <2>1. list \in DOMAIN tree
    BY <1>1, TheOK DEF Has
  <2> HIDE DEF list
  <2>2. /\ IsSeq(args)
        /\ \A i \in DOMAIN args : args[i] \in DOMAIN tree /\ tree[args[i]].sym = "valueArgument"
    BY <2>1, KidsOK
  <2>3. Len(args) \in Int /\ DOMAIN args = 1..Len(args)
    BY <2>2, SeqFacts
  <2> HIDE DEF args
  <2>4. \A i \in DOMAIN args : InstrOK(getExpr(The(args[i], "expression"), "Arguments"))
    BY <2>2, ChildOK, ExprHas, GettersOK DEF ExprContexts
  <2>5. IsSeq(code)
    BY <2>3, FunSeq
  <2>6. CodeOK(code)
    BY <2>4, <2>5 DEF CodeOK
  <2> QED
    BY <2>6, IfOK DEF Arguments, args, list
<1>2. CASE ~ Has(c, "valueArguments")
  BY <1>2, IfOK DEF Arguments
<1> QED
  BY <1>1, <1>2

\* visitTypeRef casts the type arguments to Type *.
LEMMA visitTypeRef_OK ==
  ASSUME TreeDone, NEW c \in DOMAIN tree, tree[c].sym = "typeRef"
  PROVE  VisitOK(c)
  BY TypeArgsOK, Answers, QuietOK, OneOK, ConcatOK, VisitorOK
  DEF Visit, visitTypeRef, TypeContexts

\* visitFunctionType casts the parameter types and the return type.
LEMMA visitFunctionType_OK ==
  ASSUME TreeDone, NEW c \in DOMAIN tree, tree[c].sym = "functionType"
  PROVE  VisitOK(c)
<1> DEFINE list == The(c, "paramTypeList")
<1>1. list # Null => CodeOK(GetAll("Type", Kids(list, "type"), "Parameters"))
  BY TheOK, ListOK
<1>2. CodeOK(<< New(Node("FunctionType", c, c)), getType(The(c, "type"), "ReturnType") >>)
  BY ChildOK, DeclHas, GettersOK, QuietOK, TwoOK
<1> QED
  BY <1>1, <1>2, Answers, IfOK, ConcatOK, VisitorOK DEF Visit, visitFunctionType, TypeContexts

\* visitForStmt casts the initializers, the condition, the update and the body,
\* each of the first three when it is there.
LEMMA visitForStmt_OK ==
  ASSUME TreeDone, NEW c \in DOMAIN tree, tree[c].sym = "forStmt"
  PROVE  VisitOK(c)
<1> DEFINE decls == The(c, "variableDecls")
           inits == GetAll("Declaration", Kids(decls, "variableDecl"), "InitStmts")
           condition == << getExpr(The(c, "expression"), "Condition") >>
           update == << getStmt(The(c, "forUpdate"), "Update") >>
           body == << getBlock(The(c, "block"), "Body") >>
           code == << New(Node("ForStmt", c, c)) >> \o If(decls # Null, inits) \o
             If(Has(c, "expression"), condition) \o If(Has(c, "forUpdate"), update) \o body
<1>1. CodeOK(If(decls # Null, inits))
  BY TheOK, ListOK, IfOK
<1>2. /\ Has(c, "expression") => CodeOK(condition)
      /\ Has(c, "forUpdate") => CodeOK(update)
      /\ CodeOK(body)
  BY ChildOK, StmtHas, GettersOK, OneOK DEF ExprContexts
<1>3. CodeOK(code)
  BY <1>1, <1>2, QuietOK, OneOK, IfOK, ConcatOK
<1>4. Visit(c) = Visitor("Statement", code) /\ Answer(tree[c].sym) = "Statement"
  BY Answers DEF Visit, visitForStmt, StmtContexts
<1> QED
  BY <1>3, <1>4, VisitorOK

\* visitBitwiseShift reports `> >` and folds all the same.
LEMMA visitBitwiseShift_OK ==
  ASSUME TreeDone, NEW c \in DOMAIN tree, tree[c].sym = "bitwiseShift"
  PROVE  VisitOK(c)
<1> DEFINE n == Len(Kids(c, "addition")) - 1
           ops == Kids(c, "bitwiseShiftOperator")
           apart(i) ==
             /\ ~ Has(ops[i], "LSHIFT")
             /\ tree[Nth(ops[i], "GT", 2)].start # tree[Nth(ops[i], "GT", 1)].stop + 1
           op(i) == IF Has(ops[i], "LSHIFT") THEN "LShift" ELSE "RShift"
           pre(i) == If(apart(i), << Error(Nth(ops[i], "GT", 1), Nth(ops[i], "GT", 2),
                       "right shift requires two adjacent '>' tokens") >>)
           steps == [i \in 1..n |-> Fold(c, "addition", i, op(i), pre(i))]
<1>1. Visit(c) = Loop("Expr", << << getExpr(The(c, "addition"), Result) >> >> \o steps)
  BY DEF Visit, visitBitwiseShift, foldLeftAssoc
<1>2. \A i : CodeOK(pre(i))
  BY QuietOK, OneOK, IfOK
<1>3. \A i \in 1..n : steps[i] = Fold(c, "addition", i, op(i), pre(i))
  OBVIOUS
<1>4. steps = [i \in 1..n |-> steps[i]]
  OBVIOUS
<1>5. "addition" \in ExprContexts /\ tree[c].sym \in ExprContexts
  BY DEF ExprContexts
<1> HIDE DEF steps, pre, op
<1>6. \A i \in 1..n : \E p, o : CodeOK(p) /\ steps[i] = Fold(c, "addition", i, o, p)
  BY <1>2, <1>3
<1> QED
  BY <1>1, <1>4, <1>5, <1>6, ChainHas, FoldsOK

\* visitClassDecl casts the members and the defaults of its type parameters.
LEMMA visitClassDecl_OK ==
  ASSUME TreeDone, NEW c \in DOMAIN tree, tree[c].sym = "classDecl"
  PROVE  VisitOK(c)
<1> DEFINE params == The(c, "typeParameters")
           body == The(c, "classBody")
           typeParam(p) ==
             << Sub(Named(Node("TypeParam", p, p), p)) >> \o
             If(Has(p, "type"), << getType(The(p, "type"), "DefaultType") >>) \o
             << Attach("TypeParams") >>
           list == IF params # Null THEN Kids(params, "typeParameter") ELSE << >>
           steps == [i \in DOMAIN list |-> typeParam(list[i])]
           members == GetAll("Declaration", Kids(body, "declaration"), "Members")
           last == << If(body # Null, members) >>
           head == << New(Named(Node("ClassDecl", c, c), c)) >>
<1>1. IsSeq(list) /\ \A i \in DOMAIN list : list[i] \in DOMAIN tree
  <2>1. CASE params = Null
    <3>1. list = << >>
      BY <2>1
    <3>2. IsSeq(<< >>) /\ DOMAIN << >> = {}
      BY DEF IsSeq
    <3> QED
      BY <3>1, <3>2
  <2>2. CASE params # Null
    <3>1. list = Kids(params, "typeParameter")
      BY <2>2
    <3>2. params \in DOMAIN tree
      BY <2>2, TheOK
    <3> HIDE DEF list, params
    <3> QED
      BY <3>1, <3>2, KidsOK
  <2> QED
    BY <2>1, <2>2
<1>2. BlocksOK(steps)
  <2>1. \A p \in DOMAIN tree : CodeOK(typeParam(p))
    BY ChildOK, GettersOK, QuietOK, OneOK, IfOK, ConcatOK
  <2>2. Len(list) \in Int /\ DOMAIN list = 1..Len(list)
    BY <1>1, SeqFacts
  <2> HIDE DEF typeParam, list
  <2>3. \A i \in 1..Len(list) : CodeOK(steps[i])
    BY <1>1, <2>1, <2>2
  <2>4. steps = [i \in 1..Len(list) |-> steps[i]]
    BY <2>2
  <2> QED
    BY <2>2, <2>3, <2>4, FunBlocksOK
<1>3. BlocksOK(last) /\ CodeOK(head)
  BY TheOK, ListOK, IfOK, QuietOK, OneOK, OneBlockOK
<1>4. /\ Visit(c) = Loop("Declaration", << head >> \o steps \o last)
      /\ Answer(tree[c].sym) = "Declaration"
  BY Answers DEF Visit, visitClassDecl, DeclContexts
<1> HIDE DEF steps, last, head
<1>5. BlocksOK(<< head >> \o steps \o last) /\ Len(<< head >> \o steps \o last) > 0
  <2>1. BlocksOK(<< head >> \o steps) /\ Len(<< head >> \o steps) > 0
    BY <1>2, <1>3, OneBlockOK, ConcatBlocksOK
  <2> QED
    BY <1>3, <2>1, ConcatBlocksOK
<1> QED
  BY <1>4, <1>5 DEF VisitOK, Loop

\* visitType hands on a function type, or wraps an array type per bracket around
\* the type it found.
LEMMA visitType_OK ==
  ASSUME TreeDone, NEW c \in DOMAIN tree, tree[c].sym = "type"
  PROVE  VisitOK(c)
<1> DEFINE sizes == Kids(c, "expression")
           syms == << "parenType", "typeRef", "builtinType" >>
           first == << getType(available(c, syms), Result) >>
           step(i) == << Wrap(Node("ArrayType", c, Nth(c, "RBRACKET", i)), "ElementType"),
                         getExpr(sizes[i], "Size") >>
           steps == [i \in DOMAIN sizes |-> step(i)]
<1>1. Answer(tree[c].sym) = "Type"
  BY Answers DEF TypeContexts
<1>2. CASE Has(c, "functionType")
  BY <1>1, <1>2, ChildOK, ForwardOK DEF Visit, visitType
<1>3. CASE ~ Has(c, "functionType")
  <2>1. DOMAIN syms = 1..3 /\ \A i \in DOMAIN syms : Answer(syms[i]) = "Type"
    BY Answers DEF TypeContexts
  <2>2. CodeOK(first)
    <3>1. \E i \in DOMAIN syms : Has(c, syms[i])
      BY <1>3, DeclHas
    <3> QED
      BY <2>1, <3>1, AvailableOK, GettersOK, OneOK
  <2>3. Len(sizes) \in Int /\ DOMAIN sizes = 1..Len(sizes)
    BY KidsOK, SeqFacts
  <2>4. \A i \in DOMAIN sizes : CodeOK(step(i))
    <3>1. \A i \in DOMAIN sizes : IsChild(sizes[i], "Expr")
      BY KidsOK, Answers DEF IsChild, ExprContexts
    <3> QED
      BY <3>1, GettersOK, QuietOK, TwoOK
  <2>5. Visit(c) = Loop("Type", << first >> \o steps)
    BY <1>3 DEF Visit, visitType
  <2>6. BlocksOK(steps)
    <3> HIDE DEF step, sizes
    <3>1. steps = [i \in 1..Len(sizes) |-> steps[i]] /\ \A i \in 1..Len(sizes) : CodeOK(steps[i])
      BY <2>3, <2>4
    <3> QED
      BY <2>3, <3>1, FunBlocksOK
  <2> HIDE DEF steps, first
  <2> QED
    BY <1>1, <2>2, <2>5, <2>6, LoopOK
<1> QED
  BY <1>2, <1>3

\* visitComparison returns its first operand after a dangling `>`, a binary
\* expression, or a chain.
LEMMA visitComparison_OK ==
  ASSUME TreeDone, NEW c \in DOMAIN tree, tree[c].sym = "comparison"
  PROVE  VisitOK(c)
<1> DEFINE kids == Kids(c, "comparisonOperator")
           ops == [i \in DOMAIN kids |-> getBinaryOp(kids[i])]
           n == Len(Kids(c, "infixExpr")) - 1
           steps == [i \in 1..n |-> Fold(c, "infixExpr", i, ops[i], Silent(i))]
<1>1. "infixExpr" \in ExprContexts /\ tree[c].sym \in ExprContexts
  BY DEF ExprContexts
<1>2. Answer(tree[c].sym) = "Expr"
  BY <1>1, Answers
<1>3. CASE Visit(c) = DanglingCall(c)
  <2> DEFINE code ==
        << Error(The(c, "GT"), The(c, "GT"), "expected '(' after type argument list"),
           New(Flagged(Node("CallExpr", c, c), "ExplicitTypeArgs", TRUE)),
           getExpr(Nth(c, "infixExpr", 1), "Callee") >> \o TypeArgs(c) \o Arguments(c)
  <2>1. CodeOK(code)
    <3>1. InstrOK(getExpr(Nth(c, "infixExpr", 1), "Callee"))
      BY <1>1, ChildOK, ChainHas, HasLen, GettersOK
    <3> QED
      BY <3>1, QuietOK, ThreeOK, TypeArgsOK, ArgumentsOK, ConcatOK
  <2>2. Visit(c) = Visitor("Expr", code)
    BY <1>3 DEF DanglingCall
  <2> QED
    BY <1>2, <2>1, <2>2, VisitorOK
<1>4. CASE Visit(c) = ComparisonChain(c, ops)
  <2> DEFINE mixed == \E i \in DOMAIN ops : Ascending(ops[i]) # Ascending(ops[1])
             code ==
               << New([Node("ComparisonChainExpr", c, c) EXCEPT !.ops = ops]) >> \o
               GetAll("Expr", Kids(c, "infixExpr"), "Operands") \o
               If(mixed, << Error(c, c, "comparison chain with mixed operators") >>)
  <2>1. CodeOK(code)
    <3> HIDE DEF mixed, ops
    <3> QED
      BY <1>1, ListOK, QuietOK, OneOK, IfOK, ConcatOK
  <2>2. Visit(c) = Visitor("Expr", code)
    BY <1>4 DEF ComparisonChain
  <2> QED
    BY <1>2, <2>1, <2>2, VisitorOK
<1>5. CASE Visit(c) = foldLeftAssoc(c, "infixExpr", LAMBDA i : ops[i], Silent)
  <2>1. Visit(c) = Loop("Expr", << << getExpr(The(c, "infixExpr"), Result) >> >> \o steps)
    BY <1>5 DEF foldLeftAssoc
  <2>2. \A i \in 1..n : \E pre, o : CodeOK(pre) /\ steps[i] = Fold(c, "infixExpr", i, o, pre)
    BY EmptyOK DEF Silent
  <2>3. steps = [i \in 1..n |-> steps[i]]
    OBVIOUS
  <2> HIDE DEF steps
  <2> QED
    BY <1>1, <2>1, <2>2, <2>3, ChainHas, FoldsOK
<1> QED
  BY <1>3, <1>4, <1>5 DEF Visit, visitComparison

\* The elements of S that f puts no later than o.
Upto(S, f, o) == {p \in S : f[p] <= f[o]}

\* Distinct numbers rank a finite set from 1 to its size.
LEMMA Ranks ==
  ASSUME NEW S, IsFiniteSet(S), NEW f, \A o \in S : f[o] \in Int,
         \A o, p \in S : f[o] = f[p] => o = p,
         NEW i \in 1..Cardinality(S)
  PROVE  \E o \in S : Cardinality(Upto(S, f, o)) = i
<1> DEFINE n == Cardinality(S)
           below(o) == {p \in S : f[p] <= f[o]}
           rank == [o \in S |-> Cardinality(below(o))]
<1>1. n \in Nat
  BY FS_CardinalityType
<1>2. \A o \in S : IsFiniteSet(below(o)) /\ Cardinality(below(o)) <= n
  <2> TAKE o \in S
  <2>1. below(o) \in SUBSET S
    OBVIOUS
  <2> HIDE DEF below
  <2> QED
    BY <2>1, FS_Subset
<1>3. \A o \in S : Cardinality(below(o)) \in 1..n
  <2> TAKE o \in S
  <2>1. below(o) # {}
    OBVIOUS
  <2> HIDE DEF below
  <2>2. Cardinality(below(o)) \in Nat /\ Cardinality(below(o)) # 0
    BY <1>2, <2>1, FS_CardinalityType, FS_EmptySet
  <2> QED
    BY <1>1, <1>2, <2>2
<1>4. ASSUME NEW o \in S, NEW p \in S, f[o] < f[p]
      PROVE  Cardinality(below(o)) # Cardinality(below(p))
  <2>1. below(o) \in SUBSET below(p) /\ p \in below(p) /\ p \notin below(o)
    BY <1>4
  <2> HIDE DEF below
  <2> QED
    BY <1>2, <2>1, FS_Subset
<1>5. ASSUME NEW o \in S, NEW p \in S, Cardinality(below(o)) = Cardinality(below(p))
      PROVE  o = p
  <2>1. ~ (f[o] < f[p]) /\ ~ (f[p] < f[o])
    BY <1>4, <1>5
  <2>2. f[o] = f[p]
    BY <2>1
  <2> QED
    BY <2>2
<1> HIDE DEF below
<1>6. rank \in Injection(S, 1..n)
  BY <1>3, <1>5 DEF Injection, IsInjective
<1>7. IsFiniteSet(1..n) /\ Cardinality(1..n) = n
  BY <1>1, FS_Interval
<1>8. rank \in Surjection(S, 1..n)
  BY <1>6, <1>7, FS_Injection
<1>9. PICK o \in S : rank[o] = i
  BY <1>8 DEF Surjection
<1> QED
  BY <1>9 DEF below, Upto

\* The rank in a set that is made of two parts.
LEMMA SplitRank ==
  ASSUME NEW A, IsFiniteSet(A), NEW B, IsFiniteSet(B), A \cap B = {},
         NEW o \in A \cup B, NEW f, \A p \in A \cup B : f[p] \in Int,
         NEW a, a = Cardinality(Upto(A, f, o)), NEW b, b = Cardinality(Upto(B, f, o))
  PROVE  /\ Cardinality(Upto(A \cup B, f, o)) = a + b
         /\ a \in Nat /\ a <= Cardinality(A) /\ (o \in A => a # 0)
         /\ b \in Nat /\ b <= Cardinality(B) /\ (o \in B => b # 0)
<1> DEFINE below(S) == {p \in S : f[p] <= f[o]}
<1>1. \A S : below(S) \in SUBSET S
  OBVIOUS
<1>2. o \in A => below(A) # {}
  OBVIOUS
<1>3. o \in B => below(B) # {}
  OBVIOUS
<1>4. below(A \cup B) = below(A) \cup below(B) /\ below(A) \cap below(B) = {}
  OBVIOUS
<1> HIDE DEF below
<1>5. IsFiniteSet(below(A)) /\ Cardinality(below(A)) <= Cardinality(A)
  BY <1>1, FS_Subset
<1>6. IsFiniteSet(below(B)) /\ Cardinality(below(B)) <= Cardinality(B)
  BY <1>1, FS_Subset
<1>7. /\ Cardinality(below(A)) \in Nat /\ (o \in A => Cardinality(below(A)) # 0)
      /\ Cardinality(below(B)) \in Nat /\ (o \in B => Cardinality(below(B)) # 0)
  BY <1>2, <1>3, <1>5, <1>6, FS_CardinalityType, FS_EmptySet
<1>8. Cardinality(below(A) \cap below(B)) = 0
  BY <1>4, FS_EmptySet
<1>9. Cardinality(below(A) \cup below(B)) =
        Cardinality(below(A)) + Cardinality(below(B)) - Cardinality(below(A) \cap below(B))
  BY <1>5, <1>6, FS_Union
<1>10. Cardinality(below(A \cup B)) = Cardinality(below(A)) + Cardinality(below(B))
  <2>1. Cardinality(below(A \cup B)) = Cardinality(below(A) \cup below(B))
    BY <1>4
  <2>2. Cardinality(below(A \cup B)) = Cardinality(below(A)) + Cardinality(below(B)) - 0
    BY <1>8, <1>9, <2>1
  <2> QED
    BY <1>7, <2>2
<1> QED
  BY <1>5, <1>6, <1>7, <1>10 DEF below, Upto

\* The children of one rule, as a set.
Elements(c, sym) == {Kids(c, sym)[i] : i \in DOMAIN Kids(c, sym)}

\* There are as many as the list has.
LEMMA ElementsOK ==
  ASSUME TreeDone, NEW c \in DOMAIN tree, NEW sym
  PROVE  /\ IsFiniteSet(Elements(c, sym)) /\ Cardinality(Elements(c, sym)) = Len(Kids(c, sym))
         /\ \A o \in Elements(c, sym) : o \in DOMAIN tree /\ tree[o].sym = sym
<1> DEFINE kids == Kids(c, sym)
           n == Len(kids)
           S == Elements(c, sym)
<1>1. /\ n \in Nat /\ DOMAIN kids = 1..n
      /\ \A i \in 1..n : kids[i] \in DOMAIN tree /\ tree[kids[i]].sym = sym
      /\ \A i, j \in 1..n : kids[i] = kids[j] => i = j
  BY TreeKids, SeqFacts DEF TreeDone
<1>2. S = {kids[i] : i \in 1..n}
  BY <1>1 DEF Elements
<1> HIDE DEF S
<1>3. [i \in 1..n |-> kids[i]] \in Bijection(1..n, S)
  <2> HIDE DEF kids, n
  <2> QED
    BY <1>1, <1>2 DEF Bijection, Injection, Surjection, IsInjective
<1>4. IsFiniteSet(1..n) /\ Cardinality(1..n) = n
  BY <1>1, FS_Interval
<1>5. ExistsBijection(1..n, S)
  BY <1>3 DEF ExistsBijection
<1>6. IsFiniteSet(S) /\ Cardinality(S) = n
  BY <1>4, <1>5, FS_Bijection
<1> QED
  BY <1>1, <1>2, <1>6 DEF S

\* The merge of `in` and `is` operators: the i-th of them exists, and what it
\* takes as its right operand is there.
LEMMA MergeOK ==
  ASSUME TreeDone, NEW c \in DOMAIN tree, tree[c].sym = "infixExpr",
         NEW i \in 1..(Len(Kids(c, "inOperator")) + Len(Kids(c, "isOperator")))
  PROVE  LET ins == Elements(c, "inOperator")
             ops == ins \cup Elements(c, "isOperator")
             upTo(o, S) == Cardinality({p \in S : tree[p].start <= tree[o].start})
             op == CHOOSE o \in ops : upTo(o, ops) = i
         IN  /\ op \in ins => IsChild(Nth(c, "elvisExpr", upTo(op, ins) + 1), "Expr")
             /\ op \notin ins => IsChild(Nth(c, "type", i - upTo(op, ins)), "Type")
<1> DEFINE ins == Elements(c, "inOperator")
           iss == Elements(c, "isOperator")
           ops == ins \cup iss
           a == Len(Kids(c, "inOperator"))
           b == Len(Kids(c, "isOperator"))
           f == [p \in DOMAIN tree |-> tree[p].start]
           upTo(o, S) == Cardinality({p \in S : tree[p].start <= tree[o].start})
           op == CHOOSE o \in ops : upTo(o, ops) = i
<1>1. /\ IsFiniteSet(ins) /\ Cardinality(ins) = a
      /\ \A p \in ins : p \in DOMAIN tree /\ tree[p].sym = "inOperator"
  BY ElementsOK
<1>2. /\ IsFiniteSet(iss) /\ Cardinality(iss) = b
      /\ \A p \in iss : p \in DOMAIN tree /\ tree[p].sym = "isOperator"
  BY ElementsOK
<1>3. /\ a \in Nat /\ b \in Nat /\ i \in Int
      /\ Len(Kids(c, "elvisExpr")) = a + 1 /\ Len(Kids(c, "type")) = b
  BY HasLen, AlsoHas
<1>4. i \in 1..(a + b)
  OBVIOUS
<1> HIDE DEF a, b, ins, iss
<1>5. ins \cap iss = {}
  BY <1>1, <1>2
<1>6. IsFiniteSet(ops) /\ Cardinality(ops) = a + b
  <2>1. Cardinality(ins \cap iss) = 0
    BY <1>5, FS_EmptySet
  <2>2. /\ IsFiniteSet(ops)
        /\ Cardinality(ops) = Cardinality(ins) + Cardinality(iss) - Cardinality(ins \cap iss)
    BY <1>1, <1>2, FS_Union
  <2> HIDE DEF ops
  <2> QED
    BY <1>1, <1>2, <1>3, <2>1, <2>2
<1>7. /\ \A p \in ops : f[p] \in Int /\ f[p] = tree[p].start
      /\ \A p, q \in ops : f[p] = f[q] => p = q
  <2>1. ops \subseteq Operators /\ ops \subseteq DOMAIN tree
    BY <1>1, <1>2 DEF Operators
  <2>2. \A p \in DOMAIN tree : f[p] \in Int /\ f[p] = tree[p].start
    BY DEF TreeDone, NodesOK, Offset
  <2> HIDE DEF f, ops
  <2> QED
    BY <2>1, <2>2 DEF TreeDone
<1> HIDE DEF f
<1>8. \A S, o : (S \subseteq ops /\ o \in ops) =>
        upTo(o, S) = Cardinality(Upto(S, f, o))
  <2> SUFFICES ASSUME NEW S, NEW o, S \subseteq ops, o \in ops
               PROVE  {p \in S : tree[p].start <= tree[o].start} = Upto(S, f, o)
    OBVIOUS
  <2> HIDE DEF ops
  <2> QED
    BY <1>7 DEF Upto
<1> HIDE DEF upTo
<1>9. \E o \in ops : upTo(o, ops) = i
  <2> HIDE DEF ops
  <2>1. PICK o \in ops : Cardinality(Upto(ops, f, o)) = i
    BY <1>4, <1>6, <1>7, Ranks
  <2> QED
    BY <1>8, <2>1
<1>10. op \in ops /\ upTo(op, ops) = i
  BY <1>9
<1> HIDE DEF op
<1>11. /\ upTo(op, ops) = upTo(op, ins) + upTo(op, iss)
       /\ upTo(op, ins) \in Nat /\ upTo(op, ins) <= a
       /\ upTo(op, iss) \in Nat /\ upTo(op, iss) <= b /\ (op \in iss => upTo(op, iss) # 0)
  <2>1. /\ upTo(op, ops) = Cardinality(Upto(ins \cup iss, f, op))
        /\ upTo(op, ins) = Cardinality(Upto(ins, f, op))
        /\ upTo(op, iss) = Cardinality(Upto(iss, f, op))
    BY <1>8, <1>10
  <2>2. \A p \in ins \cup iss : f[p] \in Int
    BY <1>7
  <2> QED
    BY <1>1, <1>2, <1>5, <1>10, <2>1, <2>2, SplitRank
<1>12. CASE op \in ins
  <2>1. upTo(op, ins) + 1 \in Int /\ 1 <= upTo(op, ins) + 1
        /\ upTo(op, ins) + 1 <= Len(Kids(c, "elvisExpr"))
    BY <1>3, <1>11
  <2>2. IsChild(Nth(c, "elvisExpr", upTo(op, ins) + 1), "Expr")
    BY <2>1, NumberedOK DEF ExprContexts
  <2> QED
    BY <1>12, <2>2 DEF ins, iss, ops, upTo, op
<1>13. CASE op \notin ins
  <2>1. op \in iss
    BY <1>10, <1>13
  <2>2. i - upTo(op, ins) \in Int /\ 1 <= i - upTo(op, ins)
        /\ i - upTo(op, ins) <= Len(Kids(c, "type"))
    BY <1>3, <1>10, <1>11, <2>1
  <2>3. IsChild(Nth(c, "type", i - upTo(op, ins)), "Type")
    BY <2>2, NumberedOK
  <2> QED
    BY <1>13, <2>3 DEF ins, iss, ops, upTo, op
<1> QED
  BY <1>12, <1>13

\* visitInfixExpr merges `in` and `is` by position and casts each right operand
\* to the type of its own rule.
LEMMA visitInfixExpr_OK ==
  ASSUME TreeDone, NEW c \in DOMAIN tree, tree[c].sym = "infixExpr"
  PROVE  VisitOK(c)
<1> DEFINE first == The(c, "elvisExpr")
           ins == Elements(c, "inOperator")
           iss == Elements(c, "isOperator")
           ops == ins \cup iss
           upTo(o, S) == Cardinality({p \in S : tree[p].start <= tree[o].start})
           op(i) == CHOOSE o \in ops : upTo(o, ops) = i
           in(sub) == << Wrap(WithOp(Node("BinaryExpr", first, sub), "In"), "LHS"),
                         getExpr(sub, "RHS") >>
           is(type) == << Wrap(Node("IsExpr", first, type), "Operand"),
                          getType(type, "CheckType") >>
           step(i) == IF op(i) \in ins THEN in(Nth(c, "elvisExpr", upTo(op(i), ins) + 1))
                      ELSE is(Nth(c, "type", i - upTo(op(i), ins)))
           n == Len(Kids(c, "inOperator")) + Len(Kids(c, "isOperator"))
           steps == [i \in 1..n |-> step(i)]
<1>1. "elvisExpr" \in ExprContexts /\ Answer(tree[c].sym) = "Expr"
  BY Answers DEF ExprContexts
<1>2. Visit(c) = Loop("Expr", << << getExpr(first, Result) >> >> \o steps)
  BY DEF Visit, visitInfixExpr, Elements
<1>3. ASSUME NEW i \in 1..n PROVE CodeOK(step(i))
  <2>1. /\ op(i) \in ins => IsChild(Nth(c, "elvisExpr", upTo(op(i), ins) + 1), "Expr")
        /\ op(i) \notin ins => IsChild(Nth(c, "type", i - upTo(op(i), ins)), "Type")
    BY MergeOK
  <2>2. \A x : IsChild(x, "Expr") => CodeOK(in(x))
    BY GettersOK, QuietOK, TwoOK
  <2>3. \A x : IsChild(x, "Type") => CodeOK(is(x))
    BY GettersOK, QuietOK, TwoOK
  <2> HIDE DEF in, is, op, upTo, ins
  <2> QED
    BY <2>1, <2>2, <2>3
<1>4. n \in Int
  BY KidsOK, SeqFacts
<1>5. BlocksOK(steps)
  <2> HIDE DEF step, n
  <2> QED
    BY <1>3, <1>4, FunBlocksOK
<1> HIDE DEF steps
<1> QED
  BY <1>1, <1>2, <1>5, ChainHas, FirstOK, LoopOK

\* visitPrefixUnaryExpr wraps its operand once per prefix, the last one first.
LEMMA visitPrefixUnaryExpr_OK ==
  ASSUME TreeDone, NEW c \in DOMAIN tree, tree[c].sym = "prefixUnaryExpr"
  PROVE  VisitOK(c)
<1> DEFINE operand == The(c, "postfixUnaryExpr")
           prefixes == Kids(c, "unaryPrefix")
           n == Len(prefixes)
           unary(p) ==
             << Wrap(WithOp(Node("UnaryExpr", p, operand),
                            getPrefixUnaryOp(The(p, "prefixUnaryOperator"))), "Operand") >>
           steps == [i \in 1..n |-> unary(prefixes[n + 1 - i])]
<1>1. "postfixUnaryExpr" \in ExprContexts /\ Answer(tree[c].sym) = "Expr"
  BY Answers DEF ExprContexts
<1>2. Visit(c) = Loop("Expr", << << getExpr(operand, Result) >> >> \o steps)
  BY DEF Visit, visitPrefixUnaryExpr
<1>3. \A p : CodeOK(unary(p))
  BY QuietOK, OneOK
<1>4. n \in Int
  BY KidsOK, SeqFacts
<1>5. BlocksOK(steps)
  <2> HIDE DEF unary, n
  <2> QED
    BY <1>3, <1>4, FunBlocksOK
<1> HIDE DEF steps
<1> QED
  BY <1>1, <1>2, <1>5, ExprHas, FirstOK, LoopOK

\* visitPostfixUnaryExpr wraps its operand once per suffix, three kinds of them.
LEMMA visitPostfixUnaryExpr_OK ==
  ASSUME TreeDone, NEW c \in DOMAIN tree, tree[c].sym = "postfixUnaryExpr"
  PROVE  VisitOK(c)
<1> DEFINE posts == Kids(c, "unaryPostfix")
           call(p) == The(p, "callSuffix")
           index(p) == The(p, "indexingSuffix")
           nav(p) == The(p, "navigationSuffix")
           calling(p) ==
             << Wrap(Flagged(Node("CallExpr", c, p), "ExplicitTypeArgs",
                             Has(call(p), "typeArguments")), "Callee") >> \o
             TypeArgs(call(p)) \o Arguments(call(p))
           indexing(p) ==
             << Wrap(Node("IndexExpr", c, p), "Base"),
                getExpr(The(index(p), "expression"), "Index") >>
           member(p) ==
             << Wrap(Flagged(Named(Node("MemberExpr", c, p), nav(p)), "NullSafe",
                             Has(The(nav(p), "memberAccessOperator"), "QUEST_DOT")), "Base") >>
           steps == [i \in DOMAIN posts |-> Suffix(c, posts[i])]
<1>1. "primaryExpr" \in ExprContexts /\ "expression" \in ExprContexts
      /\ Answer(tree[c].sym) = "Expr"
  BY Answers DEF ExprContexts
<1>2. Visit(c) = Loop("Expr", << << getExpr(The(c, "primaryExpr"), Result) >> >> \o steps)
  BY DEF Visit, visitPostfixUnaryExpr
<1>3. ASSUME NEW p \in DOMAIN tree PROVE CodeOK(Suffix(c, p))
  <2>0. Suffix(c, p) = IF call(p) # Null THEN calling(p)
                       ELSE IF index(p) # Null THEN indexing(p) ELSE member(p)
    BY DEF Suffix
  <2>1. CASE call(p) # Null
    <3>1. call(p) \in DOMAIN tree
      BY <2>1, TheOK
    <3> HIDE DEF call
    <3>2. CodeOK(TypeArgs(call(p))) /\ CodeOK(Arguments(call(p)))
      BY <3>1, TypeArgsOK, ArgumentsOK
    <3> QED
      BY <2>0, <2>1, <3>2, QuietOK, OneOK, ConcatOK
  <2>2. CASE index(p) # Null
    <3>1. index(p) \in DOMAIN tree /\ tree[index(p)].sym = "indexingSuffix"
      BY <2>2, KidsOK DEF The, Nth
    <3> HIDE DEF index
    <3>2. CodeOK(indexing(p))
      BY <1>1, <3>1, ChildOK, ExprHas, GettersOK, QuietOK, TwoOK
    <3> QED
      BY <2>0, <2>1, <2>2, <3>2
  <2>3. CASE call(p) = Null /\ index(p) = Null
    BY <2>0, <2>3, QuietOK, OneOK
  <2> QED
    BY <2>1, <2>2, <2>3
<1>4. Len(posts) \in Int /\ DOMAIN posts = 1..Len(posts)
      /\ \A i \in DOMAIN posts : posts[i] \in DOMAIN tree
  BY KidsOK, SeqFacts
<1>5. BlocksOK(steps)
  <2> HIDE DEF posts
  <2>1. steps = [i \in 1..Len(posts) |-> steps[i]] /\ \A i \in 1..Len(posts) : CodeOK(steps[i])
    BY <1>3, <1>4
  <2> QED
    BY <1>4, <2>1, FunBlocksOK
<1> HIDE DEF steps
<1> QED
  BY <1>1, <1>2, <1>5, ExprHas, FirstOK, LoopOK

-----------------------------------------------------------------------------
\* Every visitor, and the inherited visitChildren of the rules that have none,
\* answers visit() with the type of its rule and casts each child to the type of
\* the child's rule.
LEMMA AnyVisitOK ==
  ASSUME TreeDone, NEW c \in DOMAIN tree
  PROVE  VisitOK(c)
<1> DEFINE others == {"file", "topLevelObject", "parameter", "block", "catchClause", "label"}
           sym == tree[c].sym
<1>1. CASE sym \in DeclContexts
  BY <1>1, visitDeclaration_OK, visitFunctionDecl_OK, visitClassDecl_OK, visitVariableDecl_OK
  DEF DeclContexts
<1>2. CASE sym \in TypeContexts
  BY <1>2, visitType_OK, visitParenType_OK, visitTypeRef_OK, visitFunctionType_OK,
     visitBuiltinType_OK
  DEF TypeContexts
<1>3. CASE sym \in StmtContexts
  BY <1>3, visitStatement_OK, visitDeclStatement_OK, visitAssignment_OK,
     visitControlStatement_OK, visitForStmt_OK, visitForUpdate_OK, visitForEachStmt_OK,
     visitWhileStmt_OK, visitDoWhileStmt_OK, visitIfStmt_OK, visitTryStatement_OK,
     visitExprStmt_OK
  DEF StmtContexts
<1>4. CASE sym \in ExprContexts
  BY <1>4, visitExpression_OK, visitDisjunction_OK, visitConjunction_OK, visitEquality_OK,
     visitComparison_OK, visitInfixExpr_OK, visitElvisExpr_OK, visitBitwiseOr_OK,
     visitBitwiseXor_OK, visitBitwiseAnd_OK, visitBitwiseShift_OK, visitAddition_OK,
     visitMultiplication_OK, visitAsExpr_OK, visitPrefixUnaryExpr_OK,
     visitPostfixUnaryExpr_OK, visitPrimaryExpr_OK, visitParenExpr_OK,
     visitLiteralConstant_OK, visitCollectionLiteral_OK, visitThisLiteral_OK,
     visitIfExpression_OK, visitJumpExpression_OK
  DEF ExprContexts
<1>5. CASE sym \in others
  BY <1>5, visitFile_OK, visitTopLevelObject_OK, visitParameter_OK, visitBlock_OK,
     visitCatchClause_OK, visitLabel_OK
<1>6. CASE sym \notin DeclContexts \cup TypeContexts \cup StmtContexts \cup ExprContexts \cup others
  <2>1. Visit(c) = Visitor("empty", << >>) /\ Answer(sym) = "empty"
    BY <1>6 DEF Visit, Answer, DeclContexts, TypeContexts, StmtContexts, ExprContexts
  <2> QED
    BY <2>1, EmptyOK, VisitorOK
<1> QED
  BY <1>1, <1>2, <1>3, <1>4, <1>5, <1>6

-----------------------------------------------------------------------------
(* Sequences that grow and shrink.                                         *)

\* Storing into an element keeps the length.
LEMMA ExceptSameLen ==
  ASSUME NEW s, IsSeq(s), NEW i, NEW x
  PROVE  IsSeq([s EXCEPT ![i] = x]) /\ Len([s EXCEPT ![i] = x]) = Len(s)
<1> DEFINE S == {s[j] : j \in DOMAIN s} \cup {x}
           t == [s EXCEPT ![i] = x]
<1>1. s \in Seq(S) /\ Len(s) \in Nat /\ DOMAIN s = 1..Len(s)
  BY DEF IsSeq
<1>2. t = [j \in 1..Len(s) |-> t[j]] /\ DOMAIN t = 1..Len(s)
  BY <1>1
<1> HIDE DEF t
<1>3. IsSeq(t)
  BY <1>1, <1>2, FunSeq
<1>4. Len(t) = Len(s)
  BY <1>1, <1>2, <1>3, SeqFacts
<1> QED
  BY <1>3, <1>4 DEF t

\* t is s with x in front of it.
Pushed(t, x, s) == t = << x >> \o s

\* A call is pushed: it is the innermost, all others keep their order.
LEMMA PushSeq ==
  ASSUME NEW s, IsSeq(s), NEW x, NEW t, Pushed(t, x, s)
  PROVE  /\ IsSeq(t) /\ Len(t) = Len(s) + 1
         /\ DOMAIN t = 1..(Len(s) + 1) /\ Len(s) \in Nat
         /\ t[1] = x
         /\ \A i \in DOMAIN s : t[i + 1] = s[i]
<1> DEFINE one == << x >>
           S == {s[j] : j \in DOMAIN s} \cup {x}
<1>1. IsSeq(one) /\ Len(one) = 1
  BY DEF IsSeq
<1>2. one \in Seq(S) /\ s \in Seq(S)
  BY DEF IsSeq
<1>3. /\ t \in Seq(S)  /\ Len(t) = Len(s) + 1 /\ Len(s) \in Nat /\ DOMAIN s = 1..Len(s)
      /\ \A i \in 1..Len(t) : t[i] = IF i <= 1 THEN one[i] ELSE s[i - 1]
  BY <1>2 DEF Pushed
<1>4. IsSeq(t)
  BY <1>1, ConcatSeq DEF Pushed
<1>5. one[1] = x
  OBVIOUS
<1> HIDE DEF S, one
<1>6. DOMAIN t = 1..Len(t)
  BY <1>3
<1> QED
  BY <1>3, <1>4, <1>5, <1>6

\* The innermost call is replaced.
LEMMA ReplaceHead ==
  ASSUME NEW s, IsSeq(s), s # << >>, NEW x, NEW t, Pushed(t, x, Tail(s))
  PROVE  /\ IsSeq(t) /\ Len(t) = Len(s) /\ t[1] = x
         /\ \A i \in 2..Len(s) : t[i] = s[i]
<1>1. PICK r : r = Tail(s)
  OBVIOUS
<1>2. /\ IsSeq(r) /\ Len(r) = Len(s) - 1 /\ DOMAIN r = 1..(Len(s) - 1)
      /\ \A i \in DOMAIN r : r[i] = s[i + 1]
  BY <1>1, TailSeq
<1>3. Pushed(t, x, r)
  BY <1>1
<1>4. /\ IsSeq(t) /\ Len(t) = Len(r) + 1 /\ t[1] = x
      /\ \A i \in DOMAIN r : t[i + 1] = r[i]
  BY <1>2, <1>3, PushSeq
<1>5. Len(s) \in Nat
  BY SeqFacts
<1>6. ASSUME NEW i \in 2..Len(s) PROVE t[i] = s[i]
  <2>1. i - 1 \in DOMAIN r /\ (i - 1) + 1 = i
    BY <1>2, <1>5
  <2> QED
    BY <1>2, <1>4, <2>1
<1>7. Len(t) = Len(s)
  BY <1>2, <1>4, <1>5
<1> QED
  BY <1>4, <1>6, <1>7

\* t is s with its first two elements replaced by x.
Popped(t, x, s) == Pushed(t, x, SubSeq(s, 3, Len(s)))

\* A call returns: it and its caller make way for the resumed caller.
LEMMA DropTwo ==
  ASSUME NEW s, IsSeq(s), Len(s) > 1, NEW x, NEW t, Popped(t, x, s)
  PROVE  /\ IsSeq(t) /\ Len(t) = Len(s) - 1 /\ t[1] = x
         /\ \A i \in 2..(Len(s) - 1) : t[i] = s[i + 1]
<1> DEFINE S == {s[j] : j \in DOMAIN s}
<1>1. PICK n, r : n = Len(s) /\ r = SubSeq(s, 3, n)
  OBVIOUS
<1>2. n \in Nat /\ n > 1 /\ DOMAIN s = 1..n
  BY <1>1, SeqFacts
<1>3. \A i \in 3..n : s[i] \in S
  BY <1>2
<1> HIDE DEF S
<1>4. /\ r \in Seq(S) /\ Len(r) = n - 2
      /\ \A i \in 1..(n - 2) : r[i] = s[i + 2]
  <2>1. /\ r \in Seq(S) /\ Len(r) = IF 3 <= n THEN n - 3 + 1 ELSE 0
        /\ \A i \in 1..(n - 3 + 1) : r[i] = s[3 + i - 1]
    BY <1>1, <1>2, <1>3, SubSeqProperties
  <2> QED
    BY <1>2, <2>1
<1>5. IsSeq(r)
  <2>1. r = [i \in 1..Len(r) |-> r[i]] /\ Len(r) \in Int
    BY <1>2, <1>4
  <2> QED
    BY <2>1, FunSeq
<1>6. Pushed(t, x, r)
  BY <1>1 DEF Popped
<1>7. /\ IsSeq(t) /\ Len(t) = Len(r) + 1 /\ t[1] = x /\ DOMAIN r = 1..(n - 2)
      /\ \A i \in DOMAIN r : t[i + 1] = r[i]
  BY <1>4, <1>5, <1>6, PushSeq, SeqFacts
<1>8. ASSUME NEW i \in 2..(n - 1) PROVE t[i] = s[i + 1]
  <2>1. i - 1 \in 1..(n - 2) /\ (i - 1) + 1 = i /\ (i - 1) + 2 = i + 1
    BY <1>2
  <2>2. t[(i - 1) + 1] = r[i - 1] /\ r[i - 1] = s[(i - 1) + 2]
    BY <1>4, <1>7, <2>1
  <2> QED
    BY <2>1, <2>2
<1>9. Len(t) = n - 1
  BY <1>2, <1>4, <1>7
<1> QED
  BY <1>1, <1>7, <1>8, <1>9

-----------------------------------------------------------------------------
(* The parse tree.                                                         *)

\* The elements of a sequence that grows.
LEMMA AppendElements ==
  ASSUME NEW s, IsSeq(s), NEW x
  PROVE  /\ DOMAIN Append(s, x) = 1..(Len(s) + 1)
         /\ \A i \in DOMAIN Append(s, x) :
              \/ i \in DOMAIN s /\ Append(s, x)[i] = s[i]
              \/ i = Len(s) + 1 /\ Append(s, x)[i] = x
<1> DEFINE S == {s[i] : i \in DOMAIN s} \cup {x}
           t == Append(s, x)
<1>1. s \in Seq(S)
  BY DEF IsSeq
<1>2. /\ t \in Seq(S) /\ Len(t) = Len(s) + 1 /\ Len(s) \in Nat /\ DOMAIN s = 1..Len(s)
      /\ \A i \in 1..Len(t) : t[i] = IF i <= Len(s) THEN s[i] ELSE x
  BY <1>1
<1> HIDE DEF t, S
<1>3. DOMAIN t = 1..(Len(s) + 1)
  BY <1>2
<1>4. ASSUME NEW i \in 1..(Len(s) + 1)
      PROVE  (i \in DOMAIN s /\ t[i] = s[i]) \/ (i = Len(s) + 1 /\ t[i] = x)
  BY <1>2
<1> QED
  BY <1>3, <1>4 DEF t

\* A rule or a token the parser adds to the tree becomes the last child of its
\* parent and changes no other node.
LEMMA GrownOK ==
  ASSUME TreeTyped, NodesOK, NEW sym, NEW start \in Offset, NEW stop \in Offset, NEW text,
         NEW parent, tree' = Grown(NewTreeNode(sym, start, stop, text), parent)
  PROVE  /\ TreeTyped' /\ NodesOK' /\ tree' # << >>
         /\ tree'[1].sym = IF tree = << >> THEN sym ELSE tree[1].sym
         /\ Len(tree') = Len(tree) + 1 /\ Len(tree) \in Nat
         /\ DOMAIN tree = 1..Len(tree) /\ DOMAIN tree' = 1..(Len(tree) + 1)
         /\ \A c \in DOMAIN tree :
              /\ tree'[c].sym = tree[c].sym /\ tree'[c].start = tree[c].start
              /\ tree'[c].kids =
                   IF c = parent THEN AppendAt(tree[c].kids, sym, Len(tree) + 1) ELSE tree[c].kids
         /\ tree'[Len(tree) + 1].sym = sym /\ tree'[Len(tree) + 1].start = start
         /\ tree'[Len(tree) + 1].kids = << >>
<1>0. PICK id : id = Len(tree) + 1
  OBVIOUS
<1> DEFINE node == NewTreeNode(sym, start, stop, text)
           grown(c) == [tree[c] EXCEPT !.kids = AppendAt(@, sym, id)]
<1>1. Len(tree) \in Nat /\ DOMAIN tree = 1..Len(tree)
  BY SeqFacts DEF TreeTyped
<1>2. /\ DOMAIN node = NodeFields /\ node.sym = sym /\ node.kids = << >>
      /\ node.start = start /\ node.stop = stop
  BY DEF NewTreeNode, NodeFields
<1> HIDE DEF node
<1>3. /\ tree' = [i \in 1..id |-> tree'[i]] /\ DOMAIN tree' = 1..id
      /\ tree'[id] = node
      /\ \A c \in DOMAIN tree : tree'[c] = IF c = parent THEN grown(c) ELSE tree[c]
  BY <1>0, <1>1, <1>2 DEF Grown, node
<1>4. IsSeq(tree') /\ id \in 1..id /\ id \in Nat
  BY <1>0, <1>1, <1>3, FunSeq
<1>5. ASSUME NEW c \in DOMAIN tree
      PROVE  /\ c \in DOMAIN tree' /\ tree'[c].sym = tree[c].sym /\ DOMAIN tree'[c] = NodeFields
             /\ tree'[c].start = tree[c].start /\ tree'[c].stop = tree[c].stop
             /\ tree'[c].kids = IF c = parent THEN AppendAt(tree[c].kids, sym, id) ELSE tree[c].kids
  <2>1. c \in DOMAIN tree' /\ DOMAIN tree[c] = NodeFields
    BY <1>0, <1>1, <1>3 DEF NodesOK
  <2>2. CASE c = parent
    <3>1. tree'[c] = [tree[c] EXCEPT !.kids = AppendAt(tree[c].kids, sym, id)]
      BY <1>3, <2>2
    <3> QED
      BY <2>1, <2>2, <3>1 DEF NodeFields
  <2>3. CASE c # parent
    BY <1>3, <2>1, <2>3
  <2> QED
    BY <2>2, <2>3
<1>6. \A c \in DOMAIN tree' : c \in DOMAIN tree \/ c = id
  BY <1>0, <1>1, <1>3
<1> HIDE DEF grown
<1>7. NodesOK'
  BY <1>2, <1>3, <1>5, <1>6 DEF NodesOK, Offset
<1>8. ASSUME NEW c \in DOMAIN tree, NEW k \in DOMAIN tree[c].kids
      PROVE  /\ IsSeq(tree[c].kids[k])
             /\ \A i \in DOMAIN tree[c].kids[k] :
                  /\ tree[c].kids[k][i] \in DOMAIN tree' /\ tree'[tree[c].kids[k][i]].sym = k
                  /\ tree[c].kids[k][i] # id
             /\ \A i, j \in DOMAIN tree[c].kids[k] :
                  tree[c].kids[k][i] = tree[c].kids[k][j] => i = j
  <2>1. ChildrenOK(tree[c].kids)
    BY DEF TreeTyped
  <2> QED
    BY <1>0, <1>1, <1>5, <2>1 DEF ChildrenOK
<1>9. id \in DOMAIN tree' /\ tree'[id].sym = sym
  BY <1>2, <1>3, <1>4
<1>10. IsSeq(<< id >>) /\ \A i \in DOMAIN << id >> : << id >>[i] = id
  BY DEF IsSeq
<1>11. ASSUME NEW c \in DOMAIN tree, NEW k \in DOMAIN AppendAt(tree[c].kids, sym, id)
       PROVE  LET list == AppendAt(tree[c].kids, sym, id)[k] IN
              /\ IsSeq(list)
              /\ \A i \in DOMAIN list : list[i] \in DOMAIN tree' /\ tree'[list[i]].sym = k
              /\ \A i, j \in DOMAIN list : list[i] = list[j] => i = j
  <2> DEFINE kids == tree[c].kids
  <2>1. CASE k # sym
    <3>1. k \in DOMAIN kids /\ AppendAt(kids, sym, id)[k] = kids[k]
      BY <2>1 DEF AppendAt
    <3> QED
      BY <1>8, <3>1
  <2>2. CASE k = sym /\ sym \in DOMAIN kids
    <3>1. AppendAt(kids, sym, id)[k] = Append(kids[sym], id)
      BY <2>2 DEF AppendAt
    <3>2. PICK old, new : old = kids[sym] /\ new = Append(old, id)
      OBVIOUS
    <3>3. /\ IsSeq(old)
          /\ \A i \in DOMAIN old : /\ old[i] \in DOMAIN tree' /\ tree'[old[i]].sym = k
                                   /\ old[i] # id
          /\ \A i, j \in DOMAIN old : old[i] = old[j] => i = j
      BY <1>8, <2>2, <3>2
    <3>4. /\ IsSeq(new)
          /\ \A i \in DOMAIN new : \/ i \in DOMAIN old /\ new[i] = old[i]
                                   \/ i = Len(old) + 1 /\ new[i] = id
      BY <3>2, <3>3, AppendSeq, AppendElements
    <3> QED
      BY <1>9, <2>2, <3>1, <3>2, <3>3, <3>4
  <2>3. CASE k = sym /\ sym \notin DOMAIN kids
    <3>1. AppendAt(kids, sym, id)[k] = << id >> /\ DOMAIN << id >> = {1}
      BY <2>3 DEF AppendAt
    <3> QED
      BY <1>9, <1>10, <2>3, <3>1
  <2> QED
    BY <2>1, <2>2, <2>3
<1>12. \A c \in DOMAIN tree' : ChildrenOK(tree[c].kids)'
  <2>1. ASSUME NEW c \in DOMAIN tree PROVE ChildrenOK(tree[c].kids)'
    <3>1. PICK kids : kids = tree'[c].kids
      OBVIOUS
    <3>2. ASSUME NEW k \in DOMAIN kids
          PROVE  /\ IsSeq(kids[k])
                 /\ \A i \in DOMAIN kids[k] :
                      kids[k][i] \in DOMAIN tree' /\ tree'[kids[k][i]].sym = k
                 /\ \A i, j \in DOMAIN kids[k] : kids[k][i] = kids[k][j] => i = j
      <4>1. CASE c = parent
        BY <1>5, <1>11, <3>1, <4>1
      <4>2. CASE c # parent
        BY <1>5, <1>8, <3>1, <4>2
      <4> QED
        BY <4>1, <4>2
    <3> QED
      BY <3>1, <3>2 DEF ChildrenOK
  <2>2. ChildrenOK(tree[id].kids)'
    BY <1>2, <1>3 DEF ChildrenOK
  <2> QED
    BY <1>6, <2>1, <2>2
<1>13. tree' # << >> /\ tree'[1].sym = IF tree = << >> THEN sym ELSE tree[1].sym
  BY <1>0, <1>1, <1>3, <1>4, <1>5, <1>9
<1>14. /\ Len(tree') = Len(tree) + 1
       /\ tree'[id].start = start /\ tree'[id].kids = << >>
  BY <1>0, <1>1, <1>2, <1>3
<1> QED
  BY <1>0, <1>1, <1>3, <1>4, <1>5, <1>7, <1>9, <1>12, <1>13, <1>14 DEF TreeTyped

-----------------------------------------------------------------------------
(* What is left to derive.                                                 *)

\* The symbols of a production, as items of the context it is entered for.
Items(p, id) == [i \in 1..Len(p) |-> Item(p[i], id)]

\* They belong to that context only, and are as many as in the production.
LEMMA CountItems ==
  ASSUME NEW p, IsSeq(p), NEW id
  PROVE  /\ IsSeq(Items(p, id)) /\ Len(Items(p, id)) = Len(p) /\ DOMAIN Items(p, id) = 1..Len(p)
         /\ \A i \in 1..Len(p) : Items(p, id)[i] = Item(p[i], id)
         /\ \A s, c : Count(Items(p, id), Item(s, c)) = IF c = id THEN Count(p, s) ELSE 0
<1>0. PICK m : m = Items(p, id)
  OBVIOUS
<1>1. Len(p) \in Nat /\ DOMAIN p = 1..Len(p)
  BY SeqFacts
<1>2. m = [i \in 1..Len(p) |-> m[i]] /\ DOMAIN m = 1..Len(p)
      /\ \A i \in 1..Len(p) : m[i] = Item(p[i], id)
  BY <1>0 DEF Items
<1>3. IsSeq(m) /\ Len(m) = Len(p)
  <2>1. IsSeq(m)
    BY <1>1, <1>2, FunSeq
  <2> QED
    BY <1>1, <1>2, <2>1, SeqFacts
<1>4. ASSUME NEW s, NEW c PROVE Count(m, Item(s, c)) = IF c = id THEN Count(p, s) ELSE 0
  <2>1. \A i \in 1..Len(p) : m[i] = Item(s, c) <=> (p[i] = s /\ id = c)
    BY <1>2 DEF Item
  <2>2. CASE c = id
    <3>1. {i \in DOMAIN m : m[i] = Item(s, c)} = {i \in DOMAIN p : p[i] = s}
      BY <1>1, <1>2, <2>1, <2>2
    <3> QED
      BY <2>2, <3>1 DEF Count
  <2>3. CASE c # id
    BY <1>2, <1>3, <2>1, <2>3, CountType
  <2> QED
    BY <2>2, <2>3
<1> QED
  BY <1>0, <1>2, <1>3, <1>4

\* The first item of the work list.
LEMMA WorkHead ==
  ASSUME WorkOK, work # << >>
  PROVE  /\ IsSeq(work) /\ IsSeq(Tail(work))
         /\ Head(work) = Item(Head(work).sym, Head(work).parent)
         /\ Head(work).parent \in 0..Len(tree)
         /\ \A i \in DOMAIN Tail(work) :
              /\ Tail(work)[i] = Item(Tail(work)[i].sym, Tail(work)[i].parent)
              /\ Tail(work)[i].parent \in 0..Len(tree)
         /\ \A s, c : Count(work, Item(s, c)) =
              Count(Tail(work), Item(s, c)) +
                (IF s = Head(work).sym /\ c = Head(work).parent THEN 1 ELSE 0)
<1>1. PICK w, t, h : w = work /\ t = Tail(w) /\ h = Head(w)
  OBVIOUS
<1>2. /\ IsSeq(w) /\ \A i \in DOMAIN w : /\ w[i] = Item(w[i].sym, w[i].parent)
                                         /\ w[i].parent \in 0..Len(tree)
  BY <1>1 DEF WorkOK
<1>3. /\ IsSeq(t) /\ \A i \in DOMAIN t : i + 1 \in DOMAIN w /\ t[i] = w[i + 1]
      /\ h = w[1] /\ 1 \in DOMAIN w
  BY <1>1, <1>2, TailSeq
<1>4. ASSUME NEW s, NEW c
      PROVE  Count(w, Item(s, c)) =
               Count(t, Item(s, c)) + (IF s = h.sym /\ c = h.parent THEN 1 ELSE 0)
  <2>1. PICK x : x = Item(s, c)
    OBVIOUS
  <2>2. Count(w, x) = Count(t, x) + (IF h = x THEN 1 ELSE 0)
    BY <1>1, <1>2, CountTail
  <2>3. h = x <=> s = h.sym /\ c = h.parent
    BY <1>2, <1>3, <2>1 DEF Item
  <2> QED
    BY <2>1, <2>2, <2>3
<1> QED
  BY <1>1, <1>2, <1>3, <1>4

\* The children listed under a symbol.
Listed(kids, s) == IF s \in DOMAIN kids THEN kids[s] ELSE << >>

\* A new child makes the list of its symbol longer, and no other.
LEMMA ListedGrown ==
  ASSUME NEW kids, NEW s, IsSeq(Listed(kids, s)), NEW sym, NEW id
  PROVE  Len(Listed(AppendAt(kids, sym, id), s)) = Len(Listed(kids, s)) + IF s = sym THEN 1 ELSE 0
<1> DEFINE grown == AppendAt(kids, sym, id)
<1>1. Len(Listed(kids, s)) \in Nat
  BY SeqFacts
<1>2. CASE s = sym /\ s \in DOMAIN kids
  <2>1. PICK old : old = kids[s]
    OBVIOUS
  <2>2. Listed(grown, s) = Append(old, id) /\ Listed(kids, s) = old
    BY <1>2, <2>1 DEF AppendAt, Listed
  <2>3. Len(Append(old, id)) = Len(old) + 1
    BY <2>2, AppendSeq
  <2> QED
    BY <1>2, <2>2, <2>3
<1>3. CASE s = sym /\ s \notin DOMAIN kids
  <2>1. Listed(grown, s) = << id >> /\ Listed(kids, s) = << >>
    BY <1>3 DEF AppendAt, Listed
  <2> QED
    BY <1>3, <2>1
<1>4. CASE s # sym
  <2>1. Listed(grown, s) = Listed(kids, s)
    BY <1>4 DEF AppendAt, Listed
  <2> QED
    BY <1>1, <1>4, <2>1
<1> QED
  BY <1>2, <1>3, <1>4

\* The head of the work list becomes the last child of its parent: no context
\* leaves its production.
LEMMA DerivesGrown ==
  ASSUME TreeTyped, WorkOK, work # << >>, NEW c \in DOMAIN tree, NEW p, IsSeq(p), Derives(c, p),
         Head(work).sym # Exit, NEW id,
         tree'[c].kids = IF c = Head(work).parent
                         THEN AppendAt(tree[c].kids, Head(work).sym, id) ELSE tree[c].kids,
         \A s : s # Exit => Count(work', Item(s, c)) = Count(Tail(work), Item(s, c))
  PROVE  Derives(c, p)'
<1>1. ASSUME NEW s, s # Exit
      PROVE  Len(Kids(c, s)') + Count(work', Item(s, c)) = Count(p, s)
  <2>0. PICK sym, parent : sym = Head(work).sym /\ parent = Head(work).parent
    OBVIOUS
  <2>1. Len(Kids(c, s)') = Len(Kids(c, s)) + IF c = parent /\ s = sym THEN 1 ELSE 0
    <3>1. Kids(c, s) = Listed(tree[c].kids, s) /\ Kids(c, s)' = Listed(tree'[c].kids, s)
      BY DEF Kids, Listed
    <3>2. IsSeq(Kids(c, s)) /\ Len(Kids(c, s)) \in Nat
      BY TreeKids, SeqFacts
    <3>3. CASE c = parent
      <4>1. PICK kids : kids = tree[c].kids
        OBVIOUS
      <4>2. tree'[c].kids = AppendAt(kids, sym, id)
        BY <2>0, <3>3, <4>1
      <4>3. Len(Listed(AppendAt(kids, sym, id), s)) =
              Len(Listed(kids, s)) + IF s = sym THEN 1 ELSE 0
        BY <3>1, <3>2, <4>1, ListedGrown
      <4> QED
        BY <3>1, <3>3, <4>1, <4>2, <4>3
    <3>4. CASE c # parent
      BY <2>0, <3>1, <3>2, <3>4
    <3> QED
      BY <3>3, <3>4
  <2>2. Count(work, Item(s, c)) =
          Count(Tail(work), Item(s, c)) + (IF s = sym /\ c = parent THEN 1 ELSE 0)
    BY <2>0, WorkHead
  <2>3. Len(Kids(c, s)) + Count(work, Item(s, c)) = Count(p, s)
    BY <1>1, DerivesAll DEF WorkOK
  <2>4. Count(work', Item(s, c)) = Count(Tail(work), Item(s, c))
    BY <1>1
  <2>5. Len(Kids(c, s)) \in Nat /\ Count(Tail(work), Item(s, c)) \in Nat
    BY TreeKids, SeqFacts, WorkHead, CountType
  <2> QED
    BY <2>1, <2>2, <2>3, <2>4, <2>5
<1> QED
  BY <1>1 DEF Derives

\* Leaving a rule keeps every context in its production.
LEMMA DerivesLeft ==
  ASSUME TreeTyped, WorkOK, work # << >>, NEW c \in DOMAIN tree, NEW p, IsSeq(p), Derives(c, p),
         Head(work).sym = Exit, tree'[c].kids = tree[c].kids, work' = Tail(work)
  PROVE  Derives(c, p)'
<1>1. ASSUME NEW s, s # Exit
      PROVE  Len(Kids(c, s)') + Count(work', Item(s, c)) = Count(p, s)
  <2>1. Kids(c, s)' = Kids(c, s)
    BY DEF Kids
  <2>2. PICK t : t = Tail(work)
    OBVIOUS
  <2>3. Count(work, Item(s, c)) = Count(t, Item(s, c)) + 0 /\ Count(t, Item(s, c)) \in Nat
    BY <1>1, <2>2, WorkHead, CountType
  <2>4. Len(Kids(c, s)) + Count(work, Item(s, c)) = Count(p, s)
    BY <1>1, DerivesAll DEF WorkOK
  <2> QED
    BY <2>1, <2>2, <2>3, <2>4
<1> QED
  BY <1>1 DEF Derives

\* The rule symbols are not tokens the work list treats specially.
LEMMA NotRules ==
  /\ Exit \notin Rules /\ "EOF" \notin Rules /\ "IN" \notin Rules /\ "IS" \notin Rules
  /\ "inOperator" \in Rules /\ "isOperator" \in Rules /\ "file" \in Rules
  /\ Productions("inOperator") = {<< "IN" >>} /\ Productions("isOperator") = {<< "IS" >>}
<1> DEFINE tokens == {"exit", "EOF", "IN", "IS"}
<1>1. /\ tokens \cap DOMAIN DeclRules = {} /\ "file" \in DOMAIN DeclRules
      /\ "inOperator" \notin DOMAIN DeclRules /\ "isOperator" \notin DOMAIN DeclRules
  BY DEF DeclRules
<1>2. /\ tokens \cap DOMAIN TypeRules = {}
      /\ "inOperator" \notin DOMAIN TypeRules /\ "isOperator" \notin DOMAIN TypeRules
  BY DEF TypeRules
<1>3. /\ tokens \cap DOMAIN StmtRules = {}
      /\ "inOperator" \notin DOMAIN StmtRules /\ "isOperator" \notin DOMAIN StmtRules
  BY DEF StmtRules
<1>4. tokens \cap DOMAIN ExprRules = {}
  BY DEF ExprRules
<1>5. /\ {"inOperator", "isOperator"} \subseteq DOMAIN ExprRules
      /\ ExprRules["inOperator"] = One("IN") /\ ExprRules["isOperator"] = One("IS")
  BY DEF ExprRules
<1>6. Productions("inOperator") = ExprRules["inOperator"]
  BY <1>1, <1>2, <1>3 DEF Productions
<1>7. Productions("isOperator") = ExprRules["isOperator"]
  BY <1>1, <1>2, <1>3 DEF Productions
<1>8. tokens \cap Rules = {}
  BY <1>1, <1>2, <1>3, <1>4 DEF Rules
<1> QED
  BY <1>1, <1>5, <1>6, <1>7, <1>8 DEF Rules, Exit, One

-----------------------------------------------------------------------------
(* The shape of the tree.                                                  *)

\* Neither the tree, what is left to derive, nor the next token changes.
LEMMA StableShapes ==
  ASSUME IInv, UNCHANGED << table, tree, work, offset >>, erred' = erred \/ erred',
         phase' = "building" => work = << >>
  PROVE  WorkOK' /\ ShapesOK' /\ OperatorsApart'
<1>1. TreeTyped /\ WorkOK /\ ShapesOK /\ OperatorsApart /\ ScalarsOK
  BY DEF IInv
<1>2. WorkOK'
  BY <1>1 DEF WorkOK
<1>3. OperatorsApart'
  BY <1>1 DEF OperatorsApart, Operators
<1>4. ASSUME ~ erred, NEW c \in DOMAIN tree, tree[c].sym \in Rules
      PROVE  \E p \in {Default[tree[c].sym]} \cup Choices[tree[c].sym] : Derives(c, p)'
  <2>1. PICK p \in {Default[tree[c].sym]} \cup Choices[tree[c].sym] : Derives(c, p)
    BY <1>1, <1>4 DEF ShapesOK
  <2>2. IsSeq(p) /\ IsSeq(work)
    BY <1>1, <1>4, <2>1, RunProductions DEF WorkOK
  <2>3. ASSUME NEW s, s # Exit
        PROVE  Len(Kids(c, s)') + Count(work', Item(s, c)) = Count(p, s)
    <3>1. Kids(c, s)' = Kids(c, s)
      BY DEF Kids
    <3>2. Len(Kids(c, s)) + Count(work, Item(s, c)) = Count(p, s)
      BY <1>1, <2>1, <2>2, <2>3, DerivesAll
    <3> QED
      BY <3>1, <3>2
  <2>4. Derives(c, p)'
    BY <2>3 DEF Derives
  <2> QED
    BY <2>4
<1>5. ShapesOK'
  BY <1>4 DEF ShapesOK, Default, Choices
<1> QED
  BY <1>2, <1>3, <1>5

\* A token is matched, or the end of the file.
LEMMA MatchShapes ==
  ASSUME IInv, phase = "parsing", work # << >>, Head(work).sym \notin Rules \cup {Exit},
         NEW stop \in Offset, NEW text,
         tree' = Grown(NewTreeNode(Head(work).sym, offset, stop, text), Head(work).parent),
         work' = Tail(work), UNCHANGED << table, erred, phase >>,
         offset' \in Offset,
         offset' > offset \/ (offset' = offset /\ Head(work).sym \notin {"IN", "IS"})
  PROVE  WorkOK' /\ ShapesOK' /\ OperatorsApart'
<1>1. TreeTyped /\ NodesOK /\ WorkOK /\ ShapesOK /\ OperatorsApart /\ ScalarsOK
  BY DEF IInv
<1>2. PICK id, sym, parent : /\ id = Len(tree) + 1
                             /\ sym = Head(work).sym /\ parent = Head(work).parent
  OBVIOUS
<1>3. /\ id \in Nat /\ DOMAIN tree = 1..(id - 1) /\ DOMAIN tree' = 1..id /\ Len(tree') = id
      /\ \A c \in DOMAIN tree :
           /\ tree'[c].sym = tree[c].sym /\ tree'[c].start = tree[c].start
           /\ tree'[c].kids = IF c = parent THEN AppendAt(tree[c].kids, sym, id) ELSE tree[c].kids
      /\ tree'[id].sym = sym /\ tree'[id].start = offset
  <2>1. offset \in Offset
    BY <1>1 DEF ScalarsOK
  <2>2. PICK n : n = Len(tree) /\ tree' = Grown(NewTreeNode(sym, offset, stop, text), parent)
    BY <1>2
  <2>3. /\ Len(tree') = n + 1 /\ n \in Nat
        /\ DOMAIN tree = 1..n /\ DOMAIN tree' = 1..(n + 1)
        /\ \A c \in DOMAIN tree :
             /\ tree'[c].sym = tree[c].sym /\ tree'[c].start = tree[c].start
             /\ tree'[c].kids =
                  IF c = parent THEN AppendAt(tree[c].kids, sym, n + 1) ELSE tree[c].kids
        /\ tree'[n + 1].sym = sym /\ tree'[n + 1].start = offset
    BY <1>1, <2>1, <2>2, GrownOK
  <2> QED
    BY <1>2, <2>2, <2>3
<1>4. WorkOK'
  <2>1. IsSeq(work') /\ \A i \in DOMAIN work' : /\ work'[i] = Item(work'[i].sym, work'[i].parent)
                                                /\ work'[i].parent \in 0..Len(tree)
    BY <1>1, WorkHead
  <2> QED
    BY <1>2, <1>3, <2>1 DEF WorkOK
<1>5. ASSUME ~ erred, NEW c \in DOMAIN tree', tree'[c].sym \in Rules
      PROVE  \E p \in {Default[tree'[c].sym]} \cup Choices[tree'[c].sym] : Derives(c, p)'
  <2>1. c \in DOMAIN tree /\ tree'[c].sym = tree[c].sym
    BY <1>2, <1>3, <1>5
  <2>2. PICK p \in {Default[tree[c].sym]} \cup Choices[tree[c].sym] : Derives(c, p)
    BY <1>1, <1>5, <2>1 DEF ShapesOK
  <2>3. IsSeq(p)
    BY <1>1, <1>5, <2>1, <2>2, RunProductions
  <2>4. tree'[c].kids = IF c = Head(work).parent
                        THEN AppendAt(tree[c].kids, Head(work).sym, id) ELSE tree[c].kids
    BY <1>2, <1>3, <2>1
  <2>5. \A s : s # Exit => Count(work', Item(s, c)) = Count(Tail(work), Item(s, c))
    OBVIOUS
  <2>6. Derives(c, p)'
    BY <1>1, <2>1, <2>2, <2>3, <2>4, <2>5, DerivesGrown
  <2> QED
    BY <2>1, <2>2, <2>6
<1>6. ShapesOK'
  BY <1>5 DEF ShapesOK, Default, Choices
<1>7. OperatorsApart'
  <2>0. offset \in Int /\ offset' \in Int
    BY <1>1 DEF ScalarsOK, Offset
  <2>1. Operators' = Operators
    <3>1. id \notin Operators'
      BY <1>2, <1>3, NotRules DEF Operators
    <3> QED
      BY <1>3, <3>1 DEF Operators
  <2>2. \A c \in Operators : tree'[c].start = tree[c].start /\ tree[c].start \in Int
    BY <1>1, <1>3 DEF Operators, NodesOK, Offset
  <2>3. ASSUME ~ erred, NEW c \in Operators PROVE tree[c].start < offset'
    BY <1>1, <2>0, <2>2, <2>3 DEF OperatorsApart
  <2> QED
    BY <1>1, <2>1, <2>2, <2>3 DEF OperatorsApart
<1> QED
  BY <1>4, <1>6, <1>7

\* A rule is left.
LEMMA ExitShapes ==
  ASSUME IInv, phase = "parsing", ExitRule, UNCHANGED << erred, phase >>
  PROVE  WorkOK' /\ ShapesOK' /\ OperatorsApart'
<1>1. TreeTyped /\ NodesOK /\ WorkOK /\ ShapesOK /\ OperatorsApart /\ ScalarsOK
  BY DEF IInv
<1>2. PICK p : tree' = [tree EXCEPT ![p].stop = lastStop]
  BY DEF ExitRule
<1>3. ASSUME NEW c \in DOMAIN tree
      PROVE  /\ tree'[c].sym = tree[c].sym /\ tree'[c].kids = tree[c].kids
             /\ tree'[c].start = tree[c].start
  BY <1>1, <1>2 DEF NodesOK, NodeFields
<1>4. DOMAIN tree' = DOMAIN tree /\ Len(tree') = Len(tree)
  BY <1>1, <1>2, ExceptSameLen DEF TreeTyped
<1>5. /\ work # << >> /\ Head(work).sym = Exit /\ work' = Tail(work)
      /\ UNCHANGED << table, offset >>
  BY DEF ExitRule
<1>6. WorkOK'
  <2>1. IsSeq(work') /\ \A i \in DOMAIN work' : /\ work'[i] = Item(work'[i].sym, work'[i].parent)
                                                /\ work'[i].parent \in 0..Len(tree)
    BY <1>1, <1>5, WorkHead
  <2> QED
    BY <1>4, <2>1 DEF WorkOK
<1>7. ASSUME ~ erred, NEW c \in DOMAIN tree, tree[c].sym \in Rules
      PROVE  \E p1 \in {Default[tree[c].sym]} \cup Choices[tree[c].sym] : Derives(c, p1)'
  <2>1. PICK p1 \in {Default[tree[c].sym]} \cup Choices[tree[c].sym] : Derives(c, p1)
    BY <1>1, <1>7 DEF ShapesOK
  <2>2. IsSeq(p1)
    BY <1>1, <1>7, <2>1, RunProductions
  <2>3. Derives(c, p1)'
    BY <1>1, <1>3, <1>5, <2>1, <2>2, DerivesLeft
  <2> QED
    BY <2>1, <2>3
<1>8. ShapesOK'
  BY <1>3, <1>4, <1>5, <1>7 DEF ShapesOK, Default, Choices
<1>9. OperatorsApart'
  <2>1. Operators' = Operators
    BY <1>3, <1>4 DEF Operators
  <2>2. \A c \in Operators : tree'[c].start = tree[c].start
    BY <1>3 DEF Operators
  <2>3. ASSUME ~ erred, NEW c \in Operators PROVE tree[c].start < offset
    BY <1>1, <1>5, <2>3 DEF OperatorsApart, Exit
  <2> QED
    BY <1>1, <1>5, <2>1, <2>2, <2>3 DEF OperatorsApart
<1> QED
  BY <1>6, <1>8, <1>9

\* A rule is entered by one of its productions.
LEMMA EnterShapes ==
  ASSUME IInv, phase = "parsing", EnterRule, UNCHANGED << erred, phase >>
  PROVE  WorkOK' /\ ShapesOK' /\ OperatorsApart'
<1>1. TreeTyped /\ NodesOK /\ WorkOK /\ ShapesOK /\ OperatorsApart /\ ScalarsOK
  BY DEF IInv
<1>2. PICK id, sym, parent, rest : /\ id = Len(tree) + 1 /\ rest = Tail(work)
                                   /\ sym = Head(work).sym /\ parent = Head(work).parent
  OBVIOUS
<1>3. /\ work # << >> /\ sym \in Rules
      /\ tree' = Grown(NewTreeNode(sym, offset, offset, "ok"), parent)
      /\ UNCHANGED << table, offset >>
  <2>1. DOMAIN Default = Rules
    BY <1>1, TablesAssumption DEF ScalarsOK, Default
  <2> QED
    BY <1>2, <2>1 DEF EnterRule
<1>4. PICK p : /\ p \in {Default[sym]} \cup Choices[sym]
               /\ work' = Items(p, id) \o << Item(Exit, id) >> \o rest
  BY <1>2 DEF EnterRule, Items
<1>5. p \in Productions(sym) /\ IsSeq(p)
  BY <1>1, <1>3, <1>4, RunProductions
<1>6. /\ id \in Nat /\ DOMAIN tree = 1..(id - 1) /\ DOMAIN tree' = 1..id /\ Len(tree') = id
      /\ \A c \in DOMAIN tree :
           /\ tree'[c].sym = tree[c].sym /\ tree'[c].start = tree[c].start
           /\ tree'[c].kids = IF c = parent THEN AppendAt(tree[c].kids, sym, id) ELSE tree[c].kids
      /\ tree'[id].sym = sym /\ tree'[id].start = offset /\ tree'[id].kids = << >>
  <2>1. offset \in Offset
    BY <1>1 DEF ScalarsOK
  <2>2. PICK n : n = Len(tree)
    OBVIOUS
  <2>3. /\ Len(tree') = n + 1 /\ n \in Nat
        /\ DOMAIN tree = 1..n /\ DOMAIN tree' = 1..(n + 1)
        /\ \A c \in DOMAIN tree :
             /\ tree'[c].sym = tree[c].sym /\ tree'[c].start = tree[c].start
             /\ tree'[c].kids =
                  IF c = parent THEN AppendAt(tree[c].kids, sym, n + 1) ELSE tree[c].kids
        /\ tree'[n + 1].sym = sym /\ tree'[n + 1].start = offset /\ tree'[n + 1].kids = << >>
    BY <1>1, <1>3, <2>1, <2>2, GrownOK
  <2> QED
    BY <1>2, <2>2, <2>3
<1>7. PICK first, last, both : /\ first = Items(p, id) /\ last = << Item(Exit, id) >>
                               /\ both = first \o last /\ work' = both \o rest
  BY <1>4
<1>8. /\ IsSeq(first) /\ DOMAIN first = 1..Len(p) /\ Len(first) = Len(p) /\ Len(p) \in Nat
      /\ \A i \in 1..Len(p) : first[i] = Item(p[i], id)
      /\ \A s, c : Count(first, Item(s, c)) = IF c = id THEN Count(p, s) ELSE 0
  BY <1>5, <1>7, CountItems, SeqFacts
<1>9. /\ IsSeq(last) /\ DOMAIN last = {1} /\ last[1] = Item(Exit, id)
      /\ \A s, c : s # Exit => Count(last, Item(s, c)) = 0
  <2>1. DOMAIN last = {1} /\ last[1] = Item(Exit, id)
    BY <1>7
  <2>2. ASSUME NEW s, NEW c, s # Exit PROVE Count(last, Item(s, c)) = 0
    <3>1. Item(s, c) # Item(Exit, id)
      BY <2>2 DEF Item
    <3> QED
      BY <1>7, <3>1, CountOne
  <2> QED
    BY <1>7, <2>1, <2>2, CountOne
<1>10. /\ IsSeq(rest) /\ \A i \in DOMAIN rest : /\ rest[i] = Item(rest[i].sym, rest[i].parent)
                                                /\ rest[i].parent \in 0..Len(tree)
  BY <1>1, <1>2, <1>3, WorkHead
<1>11. /\ IsSeq(both) /\ IsSeq(work')
       /\ \A i \in DOMAIN both : \/ i \in DOMAIN first /\ both[i] = first[i]
                                 \/ i - Len(first) \in DOMAIN last
                                    /\ both[i] = last[i - Len(first)]
       /\ \A i \in DOMAIN work' : \/ i \in DOMAIN both /\ work'[i] = both[i]
                                  \/ i - Len(both) \in DOMAIN rest /\ work'[i] = rest[i - Len(both)]
       /\ Len(both) = Len(first) + Len(last) /\ Len(work') = Len(both) + Len(rest)
  <2>1. /\ IsSeq(both) /\ Len(both) = Len(first) + Len(last)
        /\ \A i \in DOMAIN both : \/ i \in DOMAIN first /\ both[i] = first[i]
                                  \/ i - Len(first) \in DOMAIN last
                                     /\ both[i] = last[i - Len(first)]
    BY <1>7, <1>8, <1>9, ConcatSeq
  <2> QED
    BY <1>7, <1>10, <2>1, ConcatSeq, SMTT(30)
<1>12. ASSUME NEW i \in DOMAIN both
       PROVE  both[i] = Item(both[i].sym, both[i].parent) /\ both[i].parent = id
  <2>1. \E s : both[i] = Item(s, id)
    BY <1>8, <1>9, <1>11
  <2>2. PICK s : both[i] = Item(s, id)
    BY <2>1
  <2> QED
    BY <2>2 DEF Item
<1>13. WorkOK'
  <2>1. 0..Len(tree) \subseteq 0..id /\ id \in 0..id
    BY <1>2, <1>6
  <2>2. \A i \in DOMAIN work' : /\ work'[i] = Item(work'[i].sym, work'[i].parent)
                                /\ work'[i].parent \in 0..Len(tree')
    BY <1>6, <1>10, <1>11, <1>12, <2>1
  <2> QED
    BY <1>11, <2>2 DEF WorkOK
<1>14. ASSUME NEW s, s # Exit, NEW c
       PROVE  Count(work', Item(s, c)) =
                (IF c = id THEN Count(p, s) ELSE 0) + Count(rest, Item(s, c))
  <2>1. PICK x : x = Item(s, c)
    OBVIOUS
  <2>2. Count(both, x) = Count(first, x) + Count(last, x)
    BY <1>7, <1>8, <1>9, CountConcat
  <2>3. Count(work', x) = Count(both, x) + Count(rest, x)
    BY <1>7, <1>10, <1>11, CountConcat
  <2>4. Count(last, x) = 0 /\ Count(first, x) = IF c = id THEN Count(p, s) ELSE 0
    BY <1>8, <1>9, <1>14, <2>1
  <2>5. Count(first, x) \in Nat /\ Count(rest, x) \in Nat
    BY <1>8, <1>10, CountType
  <2> QED
    BY <2>1, <2>2, <2>3, <2>4, <2>5
<1>15. ASSUME ~ erred, NEW c \in DOMAIN tree, tree[c].sym \in Rules
       PROVE  \E q \in {Default[tree[c].sym]} \cup Choices[tree[c].sym] : Derives(c, q)'
  <2>1. PICK q \in {Default[tree[c].sym]} \cup Choices[tree[c].sym] : Derives(c, q)
    BY <1>1, <1>15 DEF ShapesOK
  <2>2. IsSeq(q)
    BY <1>1, <1>15, <2>1, RunProductions
  <2>3. tree'[c].kids = IF c = Head(work).parent
                        THEN AppendAt(tree[c].kids, Head(work).sym, id) ELSE tree[c].kids
    BY <1>2, <1>6
  <2>4. ASSUME NEW s, s # Exit PROVE Count(work', Item(s, c)) = Count(Tail(work), Item(s, c))
    <3>1. c # id
      BY <1>6
    <3>2. Count(rest, Item(s, c)) \in Nat
      BY <1>10, CountType
    <3>3. Count(work', Item(s, c)) = 0 + Count(rest, Item(s, c))
      BY <1>14, <2>4, <3>1
    <3>4. Count(work', Item(s, c)) = Count(rest, Item(s, c))
      BY <3>2, <3>3
    <3> QED
      BY <1>2, <3>4
  <2>5. Head(work).sym # Exit
    BY <1>2, <1>3, NotRules
  <2>6. Derives(c, q)'
    BY <1>1, <1>3, <2>1, <2>2, <2>3, <2>4, <2>5, DerivesGrown
  <2> QED
    BY <2>1, <2>6
<1>16. Derives(id, p)'
  <2>1. ASSUME NEW s, s # Exit
        PROVE  Len(Kids(id, s)') + Count(work', Item(s, id)) = Count(p, s)
    <3>1. Kids(id, s)' = << >>
      BY <1>6 DEF Kids
    <3>2. \A i \in DOMAIN rest : rest[i] # Item(s, id)
      BY <1>2, <1>6, <1>10 DEF Item
    <3>3. Count(rest, Item(s, id)) = 0 /\ Count(p, s) \in Nat
      BY <1>5, <1>10, <3>2, CountType
    <3>4. Count(work', Item(s, id)) = Count(p, s)
      BY <1>14, <2>1, <3>3
    <3> QED
      BY <3>1, <3>3, <3>4
  <2> QED
    BY <2>1 DEF Derives
<1>17. ShapesOK'
  <2>1. ASSUME ~ erred, NEW c \in DOMAIN tree', tree'[c].sym \in Rules
        PROVE  \E q \in {Default[tree'[c].sym]} \cup Choices[tree'[c].sym] : Derives(c, q)'
    <3>1. c = id \/ c \in DOMAIN tree
      BY <1>6
    <3>2. CASE c = id
      BY <1>4, <1>6, <1>16, <3>2
    <3>3. CASE c \in DOMAIN tree
      BY <1>6, <1>15, <2>1, <3>3
    <3> QED
      BY <3>1, <3>2, <3>3
  <2> QED
    BY <1>3, <2>1 DEF ShapesOK, Default, Choices
<1>18. OperatorsApart'
  <2>0. offset \in Int
    BY <1>1 DEF ScalarsOK, Offset
  <2>1. ASSUME ~ erred, NEW c \in Operators PROVE tree[c].start < offset
    BY <1>1, <1>2, <1>3, <2>1, NotRules DEF OperatorsApart
  <2>2. \A c \in Operators : tree'[c].start = tree[c].start /\ tree[c].start \in Int
    BY <1>1, <1>6 DEF Operators, NodesOK, Offset
  <2>3. \A c \in Operators' : c \in Operators \/ c = id
    BY <1>6 DEF Operators
  <2>4. ASSUME id \in Operators'
        PROVE  work' # << >> /\ Head(work').parent = id /\ Head(work').sym \in {"IN", "IS"}
    <3>1. sym \in {"inOperator", "isOperator"}
      BY <1>6, <2>4 DEF Operators
    <3>2. p = << "IN" >> \/ p = << "IS" >>
      BY <1>5, <3>1, NotRules
    <3>3. Len(p) = 1 /\ p[1] \in {"IN", "IS"}
      BY <3>2
    <3>4. first[1] = Item(p[1], id) /\ Len(first) = 1 /\ 1 \in DOMAIN first
      BY <1>8, <3>3
    <3>5. Len(last) = 1 /\ Len(rest) \in Nat
      BY <1>7, <1>10, SeqFacts
    <3>6. 1 \in DOMAIN both /\ 1 \in DOMAIN work' /\ work' # << >>
      BY <1>11, <3>4, <3>5, SeqFacts
    <3>7. both[1] = first[1] /\ work'[1] = both[1]
      <4>1. 1 - Len(first) \notin DOMAIN last /\ 1 - Len(both) \notin DOMAIN rest
        BY <1>9, <1>10, <1>11, <3>4, <3>5, SeqFacts
      <4> QED
        BY <1>11, <3>6, <4>1
    <3>8. Head(work') = Item(p[1], id)
      BY <1>11, <3>4, <3>6, <3>7, TailSeq
    <3> QED
      BY <3>3, <3>6, <3>8 DEF Item
  <2>5. tree'[id].start = offset /\ offset' = offset
    BY <1>3, <1>6
  <2>6. ASSUME ~ erred, NEW c \in Operators', NEW d \in Operators', tree'[c].start = tree'[d].start
        PROVE  c = d
    BY <1>1, <2>0, <2>1, <2>2, <2>3, <2>5, <2>6 DEF OperatorsApart
  <2>7. ASSUME ~ erred, NEW c \in Operators'
        PROVE  \/ tree'[c].start < offset'
               \/ /\ tree'[c].start = offset' /\ work' # << >>
                  /\ Head(work').parent = c /\ Head(work').sym \in {"IN", "IS"}
    BY <2>1, <2>2, <2>3, <2>4, <2>5, <2>7
  <2> QED
    BY <2>6, <2>7 DEF OperatorsApart
<1> QED
  BY <1>13, <1>17, <1>18

-----------------------------------------------------------------------------
(* The initial state and the parser.                                       *)

\* Nothing has been parsed and nothing is running at the start.
LEMMA InitInv == Init => IInv
<1> SUFFICES ASSUME Init PROVE IInv
  OBVIOUS
<1> USE DEF Init, NoTree, NoDiagnostics
<1>1. IsSeq(<< >>) /\ DOMAIN << >> = {}
  BY DEF IsSeq
<1>2. TreeTyped /\ NodesOK /\ FileFirst
  BY <1>1 DEF TreeTyped, NodesOK, FileFirst
<1>3. CallsOK /\ LocalsOK
  BY <1>1 DEF CallsOK, LocalsOK, Null
<1>4. ScalarsOK
  <2>1. 0 \in Offset
    BY SizeModAssumption DEF Offset
  <2>2. 0 \in Nat /\ 0 \in 0..MaxCalls
    BY CallsAssumption
  <2> QED
    BY <2>1, <2>2 DEF ScalarsOK
<1>5. EngineOK /\ ErrorBars
  BY <1>1 DEF EngineOK, ErrorsPending, ErrorBars, NoProgramOnSyntaxError
<1>6. WorkOK /\ ShapesOK /\ OperatorsApart
  BY <1>1 DEF WorkOK, ShapesOK, OperatorsApart, Operators
<1> QED
  BY <1>2, <1>3, <1>4, <1>5, <1>6 DEF IInv

\* No visitor runs outside build().
LEMMA NoCalls == ASSUME IInv, phase # "building" PROVE stack = << >>
  BY DEF IInv, CallsOK

\* With no visitor running, the calls are trivially well typed.
LEMMA QuietCalls ==
  ASSUME IInv, stack' = << >>, UNCHANGED arena, program' \in 0..Len(arena)
  PROVE  CallsOK' /\ LocalsOK'
<1>1. IsSeq(<< >>) /\ DOMAIN << >> = {}
  BY DEF IsSeq
<1> QED
  BY <1>1 DEF IInv, CallsOK, LocalsOK

\* Every step of the parser keeps the tree typed and its root the file rule.
LEMMA ParserInv ==
  ASSUME IInv, RunParser
  PROVE  IInv'
<1>1. phase = "parsing" /\ ParserStep /\ UNCHANGED << astVars, diagVars, phase, callVars >>
  BY DEF RunParser
<1>2. stack' = << >> /\ UNCHANGED << arena, crash, Diagnostics, HasErrors, calls, erred, program >>
  BY <1>1, NoCalls DEF astVars, diagVars, callVars
<1>3. CallsOK' /\ LocalsOK'
  BY <1>2, QuietCalls DEF IInv, LocalsOK
<1>4. EngineOK' /\ ErrorBars'
  BY <1>1, <1>2 DEF IInv, EngineOK, ErrorsPending, ErrorBars, NoProgramOnSyntaxError
<1>5. TreeTyped /\ NodesOK /\ FileFirst /\ ScalarsOK
  BY DEF IInv
<1>6. SizeMod \in Nat \ {0}
  BY SizeModAssumption
<1>7. CASE EnterRule
  <2>1. PICK p :
        /\ fuel' = IF p = Default[Head(work).sym] THEN fuel ELSE fuel - 1
        /\ p \in {Default[Head(work).sym]} \cup (IF fuel > 0 THEN Choices[Head(work).sym] ELSE {})
    BY <1>7 DEF EnterRule
  <2>2. fuel' \in Nat
    BY <1>5, <1>6, <2>1 DEF ScalarsOK
  <2>3. /\ tree' = Grown(NewTreeNode(Head(work).sym, offset, offset, "ok"), Head(work).parent)
        /\ UNCHANGED << table, bufferSize, offset, lastStop >>
    BY <1>7 DEF EnterRule
  <2>4. /\ TreeTyped' /\ NodesOK' /\ tree' # << >>
        /\ tree'[1].sym = IF tree = << >> THEN Head(work).sym ELSE tree[1].sym
    BY <1>5, <2>3, GrownOK DEF ScalarsOK
  <2>5. FileFirst' /\ ScalarsOK'
    BY <1>1, <1>2, <1>5, <2>2, <2>3, <2>4 DEF FileFirst, ScalarsOK
  <2>6. WorkOK' /\ ShapesOK' /\ OperatorsApart'
    BY <1>1, <1>2, <1>7, EnterShapes
  <2> QED
    BY <1>3, <1>4, <2>4, <2>5, <2>6 DEF IInv
<1>8. CASE MatchToken
  <2>1. PICK text : 
        tree' = Grown(NewTreeNode(Head(work).sym, offset, offset, text), Head(work).parent)
    BY <1>8 DEF MatchToken
  <2>2. offset + 2 \in Offset /\ UNCHANGED << table, bufferSize, fuel >> /\ lastStop' = offset
    BY <1>8 DEF MatchToken
  <2>3. offset' \in Offset
    <3>1. PICK gap \in {0, 1} : offset' = offset + 1 + gap
      BY <1>8 DEF MatchToken
    <3> QED
      BY <1>5, <1>6, <2>2, <3>1 DEF ScalarsOK, Offset
  <2>4. /\ TreeTyped' /\ NodesOK' /\ tree' # << >>
        /\ tree'[1].sym = IF tree = << >> THEN Head(work).sym ELSE tree[1].sym
    BY <1>5, <2>1, GrownOK DEF ScalarsOK
  <2>5. FileFirst' /\ ScalarsOK'
    BY <1>1, <1>2, <1>5, <2>2, <2>3, <2>4 DEF FileFirst, ScalarsOK, Offset
  <2>6. WorkOK' /\ ShapesOK' /\ OperatorsApart'
    <3>1. /\ work # << >> /\ work' = Tail(work) /\ UNCHANGED << table, erred, phase >>
          /\ Head(work).sym \notin Rules \cup {Exit} /\ offset \in Offset
      BY <1>1, <1>2, <1>5, <1>8, TablesAssumption DEF MatchToken, ScalarsOK, Default
    <3>2. offset' > offset
      <4>1. PICK gap \in {0, 1} : offset' = offset + 1 + gap
        BY <1>8 DEF MatchToken
      <4> QED
        BY <3>1, <4>1 DEF Offset
    <3> QED
      BY <1>1, <2>1, <2>3, <3>1, <3>2, MatchShapes
  <2> QED
    BY <1>3, <1>4, <2>4, <2>5, <2>6 DEF IInv
<1>9. CASE MatchEOF
  <2>1. /\ lastStop' = (offset - 1) % SizeMod
        /\ tree' = Grown(NewTreeNode("EOF", offset, lastStop', "ok"), Head(work).parent)
        /\ bufferSize' = offset /\ UNCHANGED << table, offset, fuel >>
        /\ Head(work).sym = "EOF"
    BY <1>9 DEF MatchEOF
  <2>2. lastStop' \in Offset /\ offset \in Offset
    BY <1>5, <1>6, <2>1 DEF ScalarsOK, Offset
  <2>3. /\ TreeTyped' /\ NodesOK' /\ tree' # << >>
        /\ tree'[1].sym = IF tree = << >> THEN "EOF" ELSE tree[1].sym
    BY <1>5, <2>1, <2>2, GrownOK
  <2>4. FileFirst' /\ ScalarsOK'
    BY <1>1, <1>2, <1>5, <2>1, <2>2, <2>3 DEF FileFirst, ScalarsOK
  <2>5. WorkOK' /\ ShapesOK' /\ OperatorsApart'
    <3>1. PICK stop \in Offset :
            tree' = Grown(NewTreeNode("EOF", offset, stop, "ok"), Head(work).parent)
      BY <2>1, <2>2
    <3>2. work # << >> /\ work' = Tail(work) /\ UNCHANGED << table, erred, phase >>
      BY <1>1, <1>2, <1>9, <2>1 DEF MatchEOF
    <3>3. "EOF" \notin Rules \cup {Exit} /\ "EOF" \notin {"IN", "IS"}
      BY NotRules DEF Exit
    <3> QED
      BY <1>1, <2>1, <2>2, <3>1, <3>2, <3>3, MatchShapes
  <2> QED
    BY <1>3, <1>4, <2>3, <2>4, <2>5 DEF IInv
<1>10. CASE ExitRule
  <2> DEFINE p == Head(work).parent
  <2>1. /\ tree' = [tree EXCEPT ![p].stop = lastStop] /\ Head(work).sym = "exit"
        /\ UNCHANGED << table, bufferSize, offset, lastStop, fuel >>
    BY <1>10 DEF ExitRule, Exit
  <2> HIDE DEF p
  <2>2. ASSUME NEW c \in DOMAIN tree
        PROVE  /\ tree'[c].sym = tree[c].sym /\ tree'[c].kids = tree[c].kids
               /\ tree'[c].start = tree[c].start /\ DOMAIN tree'[c] = NodeFields
               /\ tree'[c].stop \in Offset
    BY <1>5, <2>1 DEF NodesOK, NodeFields, ScalarsOK
  <2>3. IsSeq(tree') /\ DOMAIN tree' = DOMAIN tree /\ Len(tree') = Len(tree)
    BY <1>5, <2>1, ExceptSameLen DEF TreeTyped
  <2>4. TreeTyped' /\ NodesOK'
    BY <1>5, <2>2, <2>3 DEF TreeTyped, ChildrenOK, NodesOK
  <2>5. FileFirst' /\ ScalarsOK'
    <3>1. tree # << >> => tree' # << >> /\ 1 \in DOMAIN tree
      BY <1>5, <2>3, SeqFacts DEF TreeTyped, IsSeq
    <3> QED
      BY <1>1, <1>2, <1>5, <2>1, <2>2, <3>1 DEF FileFirst, ScalarsOK
  <2>6. WorkOK' /\ ShapesOK' /\ OperatorsApart'
    BY <1>1, <1>2, <1>10, ExitShapes
  <2> QED
    BY <1>3, <1>4, <2>4, <2>5, <2>6 DEF IInv
<1> QED
  BY <1>1, <1>7, <1>8, <1>9, <1>10 DEF ParserStep

-----------------------------------------------------------------------------
(* The calls of the builder.                                               *)

\* The typing of a call only depends on the tree, which the builder never changes.
LEMMA StableFrame ==
  ASSUME tree' = tree, NEW f, FrameOK(f)
  PROVE  FrameOK(f)'
<1>1. \A x, as : IsChild(x, as) => IsChild(x, as)'
  BY DEF IsChild
<1>2. \A code : CodeOK(code) => CodeOK(code)'
  BY <1>1 DEF CodeOK, InstrOK
<1>3. \A blocks : BlocksOK(blocks) => BlocksOK(blocks)'
  BY <1>2 DEF BlocksOK
<1> QED
  BY <1>1, <1>2, <1>3 DEF FrameOK, Forwarding

\* A call that is just entered is well typed: the typing of its visitor.
LEMMA FreshFrame ==
  ASSUME TreeDone, NEW c \in DOMAIN tree
  PROVE  FrameOK(Frame(c)) /\ Frame(c).ctx = c /\ Frame(c).res = Null /\ Frame(c).obj = Null
<1> DEFINE v == Visit(c)
           answer == Answer(tree[c].sym)
<1>1. /\ DOMAIN Frame(c) = FrameFields /\ Frame(c).ctx = c /\ Frame(c).any = v.any
      /\ Frame(c).now = v.code[1] /\ Frame(c).later = Tail(v.code)
      /\ Frame(c).res = Null /\ Frame(c).obj = Null
  BY DEF Frame, FrameFields
<1>2. VisitOK(c)
  BY AnyVisitOK
<1>3. CASE v.any = answer /\ BlocksOK(v.code) /\ Len(v.code) > 0
  <2>1. v.code # << >>
    BY <1>3
  <2>2. CodeOK(v.code[1]) /\ BlocksOK(Tail(v.code))
    BY <1>3, <2>1, TailSeq DEF BlocksOK
  <2> QED
    BY <1>1, <1>3, <2>2 DEF FrameOK
<1>4. CASE v.any = "any" /\ \E x : v = Forward(x) /\ IsChild(x, answer)
  <2>1. PICK x : v = Forward(x) /\ IsChild(x, answer)
    BY <1>4
  <2>2. v.code = << << Get("any", x, Result) >> >>
    BY <2>1 DEF Forward, Visitor
  <2>3. v.code[1] = << Get("any", x, Result) >> /\ Tail(v.code) = << >>
    BY <2>2
  <2>4. v.code[1] # << >> /\ v.code[1][1].child = x
    BY <2>3 DEF Get
  <2> QED
    BY <1>1, <1>4, <2>1, <2>3, <2>4 DEF FrameOK, Forwarding
<1> QED
  BY <1>2, <1>3, <1>4 DEF VisitOK

\* The innermost call.
LEMMA StackFacts ==
  ASSUME CallsOK, stack # << >>
  PROVE  /\ Len(stack) \in Nat \ {0} /\ DOMAIN stack = 1..Len(stack)
         /\ Top = stack[1] /\ FrameOK(Top) /\ 1 \in DOMAIN stack
  BY TailSeq, SeqFacts DEF CallsOK, Top

\* An instruction that only moves the innermost call on.
LEMMA TopStep ==
  ASSUME CallsOK, LocalsOK, stack # << >>, UNCHANGED << tree, phase, program >>,
         NEW f, FrameOK(f), f.ctx = Top.ctx,
         IsSeq(stack'), Len(stack') = Len(stack), stack'[1] = f,
         \A i \in 2..Len(stack) : stack'[i] = stack[i],
         f.res \in 0..Len(arena'), f.obj \in 0..Len(arena'),
         IsSeq(arena'), Len(arena') >= Len(arena)
  PROVE  CallsOK' /\ LocalsOK'
<1>1. /\ IsSeq(stack) /\ Len(stack) \in Nat \ {0} /\ DOMAIN stack = 1..Len(stack)
      /\ Top = stack[1]
  BY StackFacts DEF CallsOK
<1>3. DOMAIN stack' = 1..Len(stack)
  BY <1>1, SeqFacts
<1>4. \A k \in DOMAIN stack' : FrameOK(stack[k])'
  <2>1. \A k \in DOMAIN stack' : FrameOK(stack'[k])
    BY <1>1, <1>3 DEF CallsOK
  <2> QED
    BY <2>1, StableFrame
<1>5. \A k \in DOMAIN stack' : k # Len(stack') => Awaits(stack[k + 1], stack[k])'
  <2>1. ASSUME NEW k \in 1..Len(stack), k # Len(stack)
        PROVE  Awaits(stack'[k + 1], stack'[k])
    <3>1. stack'[k + 1] = stack[k + 1] /\ stack'[k].ctx = stack[k].ctx
      <4>1. k + 1 \in 2..Len(stack) /\ (k = 1 \/ k \in 2..Len(stack))
        BY <1>1, <2>1
      <4>2. stack'[1].ctx = stack[1].ctx
        BY <1>1, <1>3
      <4> QED
        BY <1>3, <4>1, <4>2
    <3> QED
      BY <1>1, <2>1, <3>1 DEF CallsOK, Awaits
  <2> QED
    BY <1>3, <2>1 DEF Awaits
<1>6. /\ phase' = "building" /\ stack'[Len(stack')].ctx = 1 /\ tree'[1].sym = "file"
  BY <1>1, <1>3 DEF CallsOK
<1>7. CallsOK'
  BY <1>3, <1>4, <1>5, <1>6 DEF CallsOK
<1>8. LocalsOK'
  <2>1. Len(arena) \in Nat /\ Len(arena') \in Nat
    BY SeqFacts DEF LocalsOK
  <2> QED
    BY <1>1, <1>3, <2>1 DEF LocalsOK
<1> QED
  BY <1>7, <1>8

\* visit(child) pushes a well-typed call that its caller waits for.
LEMMA PushCall ==
  ASSUME TreeDone, CallsOK, LocalsOK, stack # << >>, UNCHANGED << tree, phase, program, arena >>,
         NEW c \in DOMAIN tree, IsSeq(stack'), Len(stack') = Len(stack) + 1,
         stack'[1] = Frame(c), \A i \in DOMAIN stack : stack'[i + 1] = stack[i],
         Top.now # << >>, Top.now[1].do = "get", Top.now[1].child = c
  PROVE  CallsOK' /\ LocalsOK'
<1>1. /\ IsSeq(stack) /\ Len(stack) \in Nat \ {0} /\ DOMAIN stack = 1..Len(stack)
      /\ Top = stack[1]
  BY StackFacts DEF CallsOK
<1>2. FrameOK(Frame(c)) /\ Frame(c).ctx = c /\ Frame(c).res = 0 /\ Frame(c).obj = 0
  BY FreshFrame DEF Null
<1>3. /\ DOMAIN stack' = 1..(Len(stack) + 1)
      /\ \A i \in 2..(Len(stack) + 1) : stack'[i] = stack[i - 1] /\ i - 1 \in DOMAIN stack
  <2>1. DOMAIN stack' = 1..(Len(stack) + 1)
    BY <1>1, SeqFacts
  <2>2. ASSUME NEW i \in 2..(Len(stack) + 1)
        PROVE  stack'[i] = stack[i - 1] /\ i - 1 \in DOMAIN stack
    <3>1. i - 1 \in DOMAIN stack /\ (i - 1) + 1 = i
      BY <1>1
    <3> QED
      BY <3>1
  <2> QED
    BY <2>1, <2>2
<1>4. \A k \in DOMAIN stack' : FrameOK(stack[k])'
  <2>1. \A k \in DOMAIN stack' : k = 1 \/ k \in 2..(Len(stack) + 1)
    BY <1>1, <1>3
  <2>2. \A k \in DOMAIN stack' : FrameOK(stack'[k])
    BY <1>2, <1>3, <2>1 DEF CallsOK
  <2> QED
    BY <2>2, StableFrame
<1>5. \A k \in DOMAIN stack' : k # Len(stack') => Awaits(stack[k + 1], stack[k])'
  <2>1. Awaits(stack'[2], stack'[1])
    BY <1>1, <1>2, <1>3 DEF Awaits
  <2>2. ASSUME NEW k \in 2..(Len(stack) + 1), k # Len(stack) + 1
        PROVE  Awaits(stack'[k + 1], stack'[k])
    <3>1. /\ k - 1 \in DOMAIN stack /\ k - 1 # Len(stack) /\ (k - 1) + 1 = k
          /\ k + 1 \in 2..(Len(stack) + 1) /\ (k + 1) - 1 = k
      BY <1>1, <2>2
    <3>2. stack'[k] = stack[k - 1] /\ stack'[k + 1] = stack[k]
      BY <1>3, <3>1
    <3>3. Awaits(stack[(k - 1) + 1], stack[k - 1])
      BY <3>1 DEF CallsOK
    <3> QED
      BY <3>1, <3>2, <3>3
  <2>3. \A k \in DOMAIN stack' : k = 1 \/ k \in 2..(Len(stack) + 1)
    BY <1>1, <1>3
  <2> QED
    BY <1>3, <2>1, <2>2, <2>3 DEF Awaits
<1>6. /\ phase' = "building" /\ stack'[Len(stack')].ctx = 1 /\ tree'[1].sym = "file"
  BY <1>1, <1>3 DEF CallsOK
<1>7. CallsOK'
  BY <1>3, <1>4, <1>5, <1>6 DEF CallsOK
<1>8. LocalsOK'
  <2>1. Len(arena) \in Nat
    BY SeqFacts DEF LocalsOK
  <2>2. \A k \in DOMAIN stack' : k = 1 \/ k \in 2..(Len(stack) + 1)
    BY <1>1, <1>3
  <2> QED
    BY <1>2, <1>3, <2>1, <2>2 DEF LocalsOK
<1> QED
  BY <1>7, <1>8

-----------------------------------------------------------------------------
(* The instructions.                                                       *)

\* g is the call f after an instruction that sets its locals.
Stepped(f, g, res, obj) == g = [f EXCEPT !.now = Tail(@), !.res = res, !.obj = obj]

\* An instruction other than a visit leaves well-typed code behind.
LEMMA StepFrame ==
  ASSUME NEW f, FrameOK(f), f.now # << >>, f.now[1].do # "get", NEW res, NEW obj,
         NEW g, Stepped(f, g, res, obj)
  PROVE  FrameOK(g) /\ g.ctx = f.ctx /\ g.res = res /\ g.obj = obj
<1> DEFINE answer == Answer(tree[f.ctx].sym)
<1>1. f.any = answer /\ CodeOK(f.now) /\ BlocksOK(f.later)
  BY DEF FrameOK, Forwarding, Get
<1>2. /\ DOMAIN g = FrameFields /\ g.ctx = f.ctx /\ g.any = f.any /\ g.later = f.later
      /\ g.now = Tail(f.now) /\ g.res = res /\ g.obj = obj
  BY DEF FrameOK, FrameFields, Stepped
<1>3. CodeOK(Tail(f.now))
  BY <1>1, TailSeq DEF CodeOK
<1> QED
  BY <1>1, <1>2, <1>3 DEF FrameOK

\* The next instruction of the innermost call.
LEMMA NowFacts ==
  ASSUME CallsOK, stack # << >>, Top.now # << >>
  PROVE  Head(Top.now) = Top.now[1]
<1>1. FrameOK(Top)
  BY StackFacts
<1>2. IsSeq(Top.now)
  BY <1>1 DEF FrameOK, Forwarding, CodeOK, IsSeq
<1> QED
  BY <1>2, TailSeq

\* Advance keeps the calls well typed and their pointers in the arena.
LEMMA AdvanceInv ==
  ASSUME CallsOK, LocalsOK, stack # << >>, UNCHANGED << tree, phase, program >>,
         Top.now # << >>, Head(Top.now).do # "get",
         IsSeq(arena'), Len(arena') >= Len(arena),
         NEW res \in 0..Len(arena'), NEW obj \in 0..Len(arena'), Advance(res, obj)
  PROVE  CallsOK' /\ LocalsOK'
<1>1. PICK top, f : top = Top /\ f = [top EXCEPT !.now = Tail(@), !.res = res, !.obj = obj]
  OBVIOUS
<1>2. FrameOK(top) /\ IsSeq(stack)
  BY <1>1, StackFacts DEF CallsOK
<1>3. top.now # << >> /\ top.now[1].do # "get"
  BY <1>1, NowFacts
<1>4. FrameOK(f) /\ f.ctx = top.ctx /\ f.res = res /\ f.obj = obj
  <2>1. Stepped(top, f, res, obj)
    BY <1>1 DEF Stepped
  <2> QED
    BY <1>2, <1>3, <2>1, StepFrame
<1>5. Pushed(stack', f, Tail(stack))
  BY <1>1 DEF Advance, Pushed
<1>6. /\ IsSeq(stack') /\ Len(stack') = Len(stack) /\ stack'[1] = f
      /\ \A i \in 2..Len(stack) : stack'[i] = stack[i]
  BY <1>2, <1>5, ReplaceHead
<1>7. f.ctx = Top.ctx
  BY <1>1, <1>4
<1> QED
  BY <1>4, <1>6, <1>7, TopStep

\* A call that returns leaves the calls below its caller as they are.
LEMMA PopStep ==
  ASSUME CallsOK, LocalsOK, Len(stack) > 1, UNCHANGED << tree, phase, program >>,
         NEW f, FrameOK(f), f.ctx = stack[2].ctx,
         IsSeq(stack'), Len(stack') = Len(stack) - 1, stack'[1] = f,
         \A i \in 2..(Len(stack) - 1) : stack'[i] = stack[i + 1],
         f.res \in 0..Len(arena'), f.obj \in 0..Len(arena'),
         IsSeq(arena'), Len(arena') >= Len(arena)
  PROVE  CallsOK' /\ LocalsOK'
<1>1. PICK n : n = Len(stack) - 1
  OBVIOUS
<1>2. /\ IsSeq(stack) /\ n \in Nat \ {0} /\ DOMAIN stack = 1..(n + 1) /\ Len(stack) = n + 1
      /\ stack # << >>
  <2>1. IsSeq(stack) /\ Len(stack) \in Nat /\ DOMAIN stack = 1..Len(stack)
    BY SeqFacts DEF CallsOK
  <2>2. stack # << >>
    BY <2>1
  <2> QED
    BY <1>1, <2>1, <2>2
<1>3. DOMAIN stack' = 1..n /\ Len(stack') = n
  BY <1>1, SeqFacts
<1>4. \A k \in 1..n : k = 1 \/ k \in 2..n
  BY <1>2
<1>5. \A k \in 2..n : stack'[k] = stack[k + 1] /\ k + 1 \in DOMAIN stack
  BY <1>1, <1>2
<1>6. \A k \in DOMAIN stack' : FrameOK(stack[k])'
  <2>1. \A k \in DOMAIN stack' : FrameOK(stack'[k])
    BY <1>3, <1>4, <1>5 DEF CallsOK
  <2> QED
    BY <2>1, StableFrame
<1>7. \A k \in DOMAIN stack' : k # Len(stack') => Awaits(stack[k + 1], stack[k])'
  <2>1. ASSUME NEW k \in 1..n, k # n
        PROVE  Awaits(stack'[k + 1], stack'[k])
    <3>1. stack'[k + 1] = stack[(k + 1) + 1] /\ stack'[k].ctx = stack[k + 1].ctx
      <4>1. k + 1 \in 2..n /\ 1 + 1 = 2
        BY <1>2, <2>1
      <4>2. stack'[1].ctx = stack[1 + 1].ctx
        BY <4>1
      <4> QED
        BY <1>4, <1>5, <4>1, <4>2
    <3>2. k + 1 \in DOMAIN stack /\ k + 1 # Len(stack)
      BY <1>2, <2>1
    <3>3. Awaits(stack[(k + 1) + 1], stack[k + 1])
      BY <3>2 DEF CallsOK
    <3> QED
      BY <3>1, <3>3 DEF Awaits
  <2> QED
    BY <1>3, <2>1 DEF Awaits
<1>8. /\ phase' = "building" /\ stack'[Len(stack')].ctx = 1 /\ tree'[1].sym = "file"
  <2>1. phase = "building" /\ stack[n + 1].ctx = 1 /\ tree[1].sym = "file"
    BY <1>2 DEF CallsOK
  <2>2. stack'[n].ctx = stack[n + 1].ctx
    BY <1>2, <1>4, <1>5
  <2> QED
    BY <1>3, <2>1, <2>2
<1>9. CallsOK'
  BY <1>3, <1>6, <1>7, <1>8 DEF CallsOK
<1>10. LocalsOK'
  <2>1. Len(arena) \in Nat /\ Len(arena') \in Nat
    BY SeqFacts DEF LocalsOK
  <2>2. program' \in 0..Len(arena')
    BY <2>1 DEF LocalsOK
  <2>3. ASSUME NEW k \in 1..n
        PROVE  stack'[k].res \in 0..Len(arena') /\ stack'[k].obj \in 0..Len(arena')
    <3>1. CASE k = 1
      BY <3>1
    <3>2. CASE k \in 2..n
      <4>1. stack[k + 1].res \in 0..Len(arena) /\ stack[k + 1].obj \in 0..Len(arena)
        BY <1>5, <3>2 DEF LocalsOK
      <4> QED
        BY <1>5, <2>1, <3>2, <4>1
    <3> QED
      BY <1>4, <3>1, <3>2
  <2> QED
    BY <1>3, <2>2, <2>3 DEF LocalsOK
<1> QED
  BY <1>9, <1>10

\* g is the call f once the visit i has returned the pointer res and the
\* type any.
Resumed(f, g, i, res, any) ==
  g = IF i.slot # Result THEN [f EXCEPT !.now = Tail(@)]
      ELSE [[f EXCEPT !.now = Tail(@)] EXCEPT !.res = res,
              !.any = IF i.as = "any" THEN any ELSE @]

\* The any a visitor returns has exactly the type its caller casts to, and the
\* caller goes on with well-typed code.
LEMMA ResumeFrame ==
  ASSUME NEW f, FrameOK(f), NEW x \in DOMAIN tree, f.now # << >>, f.now[1].do = "get",
         f.now[1].child = x, x # Null, NEW res, NEW any, any = Answer(tree[x].sym),
         NEW g, Resumed(f, g, f.now[1], res, any)
  PROVE  /\ f.now[1].as \in {"any", any}
         /\ FrameOK(g) /\ g.ctx = f.ctx /\ g.obj = f.obj /\ g.res \in {f.res, res}
<1>1. PICK answer : answer = Answer(tree[f.ctx].sym)
  OBVIOUS
<1>2. /\ DOMAIN g = FrameFields /\ g.ctx = f.ctx /\ g.later = f.later
      /\ g.now = Tail(f.now) /\ g.obj = f.obj /\ g.res \in {f.res, res}
      /\ g.any = IF f.now[1].slot = Result /\ f.now[1].as = "any" THEN any ELSE f.any
  <2>1. DOMAIN f = {"ctx", "any", "now", "later", "res", "obj"}
    BY DEF FrameOK, FrameFields
  <2>2. CASE f.now[1].slot # Result
    BY <2>1, <2>2 DEF Resumed, FrameFields
  <2>3. CASE f.now[1].slot = Result
    <3>1. g = [[f EXCEPT !.now = Tail(@)] EXCEPT !.res = res,
                !.any = IF f.now[1].as = "any" THEN any ELSE @]
      BY <2>3 DEF Resumed
    <3> QED
      BY <2>1, <2>3, <3>1 DEF FrameFields
  <2> QED
    BY <2>2, <2>3
<1>3. CASE f.any = answer /\ CodeOK(f.now) /\ BlocksOK(f.later)
  <2>1. InstrOK(f.now[1]) /\ CodeOK(Tail(f.now))
    BY <1>3, TailSeq DEF CodeOK
  <2>2. f.now[1].as # "any" /\ f.now[1].as = any
    BY <2>1 DEF InstrOK, IsChild
  <2>3. g.any = answer
    BY <1>2, <1>3, <2>2
  <2> QED
    BY <1>1, <1>2, <1>3, <2>1, <2>2, <2>3 DEF FrameOK
<1>4. CASE Forwarding(f.any, f.now, f.later, answer)
  <2>1. /\ f.later = << >> /\ f.now = << Get("any", f.now[1].child, Result) >>
        /\ IsChild(f.now[1].child, answer)
    BY <1>4 DEF Forwarding
  <2>2. f.now[1].as = "any" /\ f.now[1].slot = Result /\ Tail(f.now) = << >>
    <3>1. PICK get : f.now = << get >> /\ get = Get("any", f.now[1].child, Result)
      BY <2>1
    <3>2. get.as = "any" /\ get.slot = Result
      BY <3>1 DEF Get
    <3>3. f.now[1] = get /\ Tail(f.now) = << >>
      BY <3>1
    <3> QED
      BY <3>2, <3>3
  <2>3. any = answer
    BY <2>1 DEF IsChild
  <2>4. CodeOK(<< >>) /\ BlocksOK(<< >>)
    BY EmptyOK DEF BlocksOK, IsSeq
  <2> QED
    BY <1>1, <1>2, <2>1, <2>2, <2>3, <2>4 DEF FrameOK
<1> QED
  BY <1>1, <1>3, <1>4 DEF FrameOK

\* A return neither throws nor disturbs a call.
LEMMA ReturnInv ==
  ASSUME TreeTyped, CallsOK, LocalsOK, Return, UNCHANGED << tree, phase, program >>
  PROVE  CallsOK' /\ LocalsOK' /\ crash' = "none"
<1>1. PICK top, caller, i : top = Top /\ caller = Caller /\ i = caller.now[1]
  OBVIOUS
<1>2. /\ crash = "none" /\ stack # << >> /\ Top.now = << >> /\ Top.later = << >>
      /\ Len(stack) > 1
  BY DEF Return, Finished, Running
<1>3. /\ Len(stack) \in Nat /\ DOMAIN stack = 1..Len(stack) /\ top = stack[1]
      /\ caller = stack[2] /\ 1 \in DOMAIN stack /\ 2 \in DOMAIN stack
      /\ 1 # Len(stack) /\ 1 + 1 = 2 /\ IsSeq(stack)
  BY <1>1, <1>2, StackFacts DEF Caller, CallsOK
<1>4. FrameOK(top) /\ FrameOK(caller) /\ Awaits(caller, top)
  BY <1>3 DEF CallsOK
<1>5. top.ctx \in DOMAIN tree /\ top.any = Answer(tree[top.ctx].sym)
  BY <1>1, <1>2, <1>4 DEF FrameOK, Forwarding
<1>6. top.ctx # Null
  BY <1>5, SeqFacts DEF TreeTyped, Null
<1>7. caller.now # << >> /\ i.do = "get" /\ i.child = top.ctx
  BY <1>1, <1>4 DEF Awaits
<1>8. Head(Caller.now) = i
  <2>1. IsSeq(caller.now)
    BY <1>4 DEF FrameOK, Forwarding, CodeOK, IsSeq
  <2> QED
    BY <1>1, <1>7, <2>1, TailSeq
<1>9. PICK g : Resumed(caller, g, caller.now[1], top.res, top.any)
  BY DEF Resumed
<1>10. /\ i.as \in {"any", top.any}
       /\ FrameOK(g) /\ g.ctx = caller.ctx /\ g.obj = caller.obj
       /\ g.res \in {caller.res, top.res}
  <2>1. PICK x \in DOMAIN tree : x = top.ctx
    BY <1>5
  <2>2. caller.now[1].do = "get" /\ caller.now[1].child = x /\ x # Null
    BY <1>1, <1>6, <1>7, <2>1
  <2>3. top.any = Answer(tree[x].sym)
    BY <1>5, <2>1
  <2>4. /\ caller.now[1].as \in {"any", top.any}
        /\ FrameOK(g) /\ g.ctx = caller.ctx /\ g.obj = caller.obj
        /\ g.res \in {caller.res, top.res}
    BY <1>4, <1>7, <1>9, <2>2, <2>3, ResumeFrame
  <2> QED
    BY <1>1, <2>4
<1>11. Popped(stack', g, stack) /\ crash' = crash
  BY <1>1, <1>8, <1>9, <1>10 DEF Return, Resumed, Pushed, Popped
<1>12. /\ IsSeq(stack') /\ Len(stack') = Len(stack) - 1 /\ stack'[1] = g
       /\ \A k \in 2..(Len(stack) - 1) : stack'[k] = stack[k + 1]
  <2>1. IsSeq(stack) /\ Len(stack) > 1 /\ Popped(stack', g, stack)
    BY <1>2, <1>3, <1>11
  <2>2. PICK t : t = stack'
    OBVIOUS
  <2>3. /\ IsSeq(t) /\ Len(t) = Len(stack) - 1 /\ t[1] = g
        /\ \A k \in 2..(Len(stack) - 1) : t[k] = stack[k + 1]
    BY <2>1, <2>2, DropTwo
  <2> QED
    BY <2>2, <2>3
<1>13. IsSeq(arena') /\ Len(arena') = Len(arena) /\ Len(arena) \in Nat
  <2>1. IsSeq(arena) /\ Len(arena) \in Nat
    BY SeqFacts DEF LocalsOK
  <2>2. \/ arena' = arena
        \/ \E j, n : arena' = [arena EXCEPT ![j] = n]
    <3>1. arena' = IF i.slot = Result THEN arena
                   ELSE [arena EXCEPT ![Caller.obj].slots = AppendAt(@, i.slot, Top.res)]
      BY <1>1, <1>8, <1>10 DEF Return
    <3> QED
      BY <3>1
  <2>3. CASE \E j, n : arena' = [arena EXCEPT ![j] = n]
    <3>1. PICK j, n : arena' = [arena EXCEPT ![j] = n]
      BY <2>3
    <3> QED
      BY <2>1, <3>1, ExceptSameLen
  <2> QED
    BY <2>1, <2>2, <2>3
<1>14. g.res \in 0..Len(arena') /\ g.obj \in 0..Len(arena') /\ Len(arena') >= Len(arena)
  BY <1>3, <1>10, <1>13 DEF LocalsOK
<1>15. CallsOK' /\ LocalsOK'
  BY <1>2, <1>3, <1>10, <1>12, <1>13, <1>14, PopStep
<1> QED
  BY <1>2, <1>11, <1>15

\* What no step of the builder touches.
LEMMA BuilderFrame ==
  ASSUME IInv, phase = "building", UNCHANGED << parserVars, phase, callVars >>,
         crash' = "none", HasErrors' \in BOOLEAN,
         CallsOK', LocalsOK', EngineOK'
  PROVE  IInv'
<1>1. UNCHANGED << table, tree, bufferSize, work, offset, lastStop, fuel, calls, erred, program >>
  BY DEF parserVars, callVars
<1>2. TreeTyped' /\ NodesOK'
  BY <1>1 DEF IInv, TreeTyped, ChildrenOK, NodesOK
<1>3. FileFirst' /\ ScalarsOK' /\ ErrorBars'
  BY <1>1 DEF IInv, FileFirst, ScalarsOK, ErrorBars, NoProgramOnSyntaxError
<1>4. WorkOK' /\ ShapesOK' /\ OperatorsApart'
  <2>1. work = << >>
    BY DEF IInv, WorkOK
  <2> QED
    BY <1>1, <2>1, StableShapes
<1> QED
  BY <1>2, <1>3, <1>4 DEF IInv

\* Every instruction of the builder keeps the invariant.
LEMMA BuilderInv ==
  ASSUME IInv, RunBuilder
  PROVE  IInv'
<1>1. phase = "building" /\ BuilderStep /\ UNCHANGED << parserVars, phase, callVars >>
  BY DEF RunBuilder
<1>2. UNCHANGED << tree, phase, program >>
  BY <1>1 DEF parserVars, callVars
<1>3. TreeTyped /\ TreeDone /\ CallsOK /\ LocalsOK /\ EngineOK /\ HasErrors \in BOOLEAN
  BY <1>1, TreeBuilt DEF IInv, ScalarsOK
<1>4. IsSeq(arena) /\ Len(arena) \in Nat
  BY <1>3, SeqFacts DEF LocalsOK
<1>5. stack # << >> => Top.res \in 0..Len(arena) /\ Top.obj \in 0..Len(arena)
  BY <1>3, StackFacts DEF LocalsOK
<1>6. UNCHANGED << Diagnostics, HasErrors >> => EngineOK' /\ HasErrors' \in BOOLEAN
  BY <1>3 DEF EngineOK, ErrorsPending
<1>7. CASE Allocate
  <2>1. PICK n : arena' = Append(arena, n)
    BY <1>7 DEF Allocate
  <2>2. IsSeq(arena') /\ Len(arena') = Len(arena) + 1
    BY <1>4, <2>1, AppendSeq
  <2>3. /\ stack # << >> /\ Top.now # << >> /\ Head(Top.now).do # "get" /\ crash' = "none"
        /\ UNCHANGED << Diagnostics, HasErrors >>
    BY <1>7 DEF Allocate, Executing, Running
  <2>4. PICK res, obj : /\ res \in {Top.res, Len(arena) + 1} /\ obj = Len(arena) + 1
                        /\ Advance(res, obj)
    BY <1>7 DEF Allocate
  <2>5. res \in 0..Len(arena') /\ obj \in 0..Len(arena')
    BY <1>4, <1>5, <2>2, <2>3, <2>4
  <2>6. CallsOK' /\ LocalsOK'
    BY <1>2, <1>3, <1>4, <2>2, <2>3, <2>4, <2>5, AdvanceInv
  <2> QED
    BY <1>1, <1>6, <2>3, <2>6, BuilderFrame
<1>8. CASE AttachSub
  <2>1. PICK n, j : arena' = [arena EXCEPT ![j] = n]
    BY <1>8 DEF AttachSub
  <2>2. IsSeq(arena') /\ Len(arena') = Len(arena)
    BY <1>4, <2>1, ExceptSameLen
  <2>3. /\ stack # << >> /\ Top.now # << >> /\ Head(Top.now).do # "get" /\ crash' = "none"
        /\ UNCHANGED << Diagnostics, HasErrors >> /\ Advance(Top.res, Top.res)
    BY <1>8 DEF AttachSub, Executing, Running
  <2>4. CallsOK' /\ LocalsOK'
    BY <1>2, <1>3, <1>4, <1>5, <2>2, <2>3, AdvanceInv
  <2> QED
    BY <1>1, <1>6, <2>3, <2>4, BuilderFrame
<1>9. CASE SetVisibility
  <2>1. PICK n, j : arena' = [arena EXCEPT ![j] = n]
    BY <1>9 DEF SetVisibility
  <2>2. IsSeq(arena') /\ Len(arena') = Len(arena)
    BY <1>4, <2>1, ExceptSameLen
  <2>3. /\ stack # << >> /\ Top.now # << >> /\ Head(Top.now).do # "get" /\ crash' = "none"
        /\ UNCHANGED << Diagnostics, HasErrors >> /\ Advance(Top.res, Top.obj)
    BY <1>9 DEF SetVisibility, Executing, Running
  <2>4. CallsOK' /\ LocalsOK'
    BY <1>2, <1>3, <1>4, <1>5, <2>2, <2>3, AdvanceInv
  <2> QED
    BY <1>1, <1>6, <2>3, <2>4, BuilderFrame
<1>10. CASE ReportError
  <2>1. /\ stack # << >> /\ Top.now # << >> /\ Head(Top.now).do # "get" /\ crash' = "none"
        /\ UNCHANGED arena /\ Advance(Top.res, Top.obj)
    BY <1>10 DEF ReportError, Executing, Running
  <2>2. CallsOK' /\ LocalsOK'
    BY <1>2, <1>3, <1>4, <1>5, <2>1, AdvanceInv
  <2>3. PICK d : Diagnostics' = Append(Diagnostics, d) /\ HasErrors' = TRUE
    BY <1>10 DEF ReportError, report
  <2>4. EngineOK'
    BY <1>3, <2>3, AppendSeq DEF EngineOK, ErrorsPending
  <2> QED
    BY <1>1, <2>1, <2>2, <2>3, <2>4, BuilderFrame
<1>11. CASE Call
  <2> DEFINE child == Head(Top.now).child
  <2>1. /\ stack # << >> /\ Top.now # << >> /\ Head(Top.now).do = "get" /\ crash = "none"
        /\ UNCHANGED << arena, Diagnostics, HasErrors >>
    BY <1>11 DEF Call, Executing, Running
  <2>2. Head(Top.now) = Top.now[1] /\ FrameOK(Top)
    BY <1>3, <2>1, NowFacts, StackFacts
  <2>3. child \in DOMAIN tree
    <3>1. CASE CodeOK(Top.now)
      <4>1. InstrOK(Top.now[1])
        BY <2>1, <3>1, TailSeq DEF CodeOK
      <4> QED
        BY <2>1, <2>2, <4>1 DEF InstrOK, IsChild
    <3>2. CASE IsChild(Top.now[1].child, Answer(tree[Top.ctx].sym))
      BY <2>2, <3>2 DEF IsChild
    <3> QED
      BY <2>2, <3>1, <3>2 DEF FrameOK, Forwarding
  <2>4. child # Null
    BY <1>3, <2>3, SeqFacts DEF TreeTyped, Null
  <2>5. stack' = << Frame(child) >> \o stack /\ UNCHANGED crash
    BY <1>11, <2>4 DEF Call
  <2>6. PICK c \in DOMAIN tree : c = child
    BY <2>3
  <2>7. Pushed(stack', Frame(c), stack) /\ IsSeq(stack)
    BY <1>3, <2>5, <2>6 DEF Pushed, CallsOK
  <2>8. /\ IsSeq(stack') /\ Len(stack') = Len(stack) + 1 /\ stack'[1] = Frame(c)
        /\ \A i \in DOMAIN stack : stack'[i + 1] = stack[i]
    BY <2>7, PushSeq
  <2>9. CallsOK' /\ LocalsOK'
    BY <1>2, <1>3, <2>1, <2>2, <2>6, <2>8, PushCall
  <2> QED
    BY <1>1, <1>6, <2>1, <2>5, <2>9, BuilderFrame
<1>12. CASE NextIteration
  <2>1. /\ stack # << >> /\ Top.now = << >> /\ Top.later # << >> /\ crash' = "none"
        /\ UNCHANGED << arena, Diagnostics, HasErrors >>
    BY <1>12 DEF NextIteration, Running
  <2>2. PICK top, f : top = Top /\ f = [top EXCEPT !.now = Head(top.later), !.later = Tail(@)]
    OBVIOUS
  <2>3. FrameOK(top) /\ IsSeq(stack)
    BY <1>3, <2>1, <2>2, StackFacts DEF CallsOK
  <2>4. /\ top.any = Answer(tree[top.ctx].sym) /\ BlocksOK(top.later)
    BY <2>1, <2>2, <2>3 DEF FrameOK, Forwarding
  <2>5. CodeOK(Head(top.later)) /\ BlocksOK(Tail(top.later))
    BY <2>1, <2>2, <2>4, TailSeq DEF BlocksOK
  <2>6. /\ DOMAIN f = FrameFields /\ f.ctx = top.ctx /\ f.any = top.any
        /\ f.now = Head(top.later) /\ f.later = Tail(top.later)
        /\ f.res = top.res /\ f.obj = top.obj
    BY <2>2, <2>3 DEF FrameOK, FrameFields
  <2>7. FrameOK(f)
    BY <2>3, <2>4, <2>5, <2>6 DEF FrameOK
  <2>8. Pushed(stack', f, Tail(stack))
    BY <1>12, <2>2 DEF NextIteration, Pushed
  <2>9. /\ IsSeq(stack') /\ Len(stack') = Len(stack) /\ stack'[1] = f
        /\ \A i \in 2..Len(stack) : stack'[i] = stack[i]
    BY <2>1, <2>3, <2>8, ReplaceHead
  <2>10. /\ f.ctx = Top.ctx /\ IsSeq(arena') /\ Len(arena') >= Len(arena)
         /\ f.res \in 0..Len(arena') /\ f.obj \in 0..Len(arena')
    BY <1>4, <1>5, <2>1, <2>2, <2>6
  <2>11. CallsOK' /\ LocalsOK'
    BY <1>2, <1>3, <2>1, <2>7, <2>9, <2>10, TopStep
  <2> QED
    BY <1>1, <1>6, <2>1, <2>11, BuilderFrame
<1>13. CASE Return
  <2>1. CallsOK' /\ LocalsOK' /\ crash' = "none"
    BY <1>2, <1>3, <1>13, ReturnInv
  <2>2. UNCHANGED << Diagnostics, HasErrors >>
    BY <1>13 DEF Return
  <2> QED
    BY <1>1, <1>6, <2>1, <2>2, BuilderFrame
<1> QED
  BY <1>1, <1>7, <1>8, <1>9, <1>10, <1>11, <1>12, <1>13 DEF BuilderStep

-----------------------------------------------------------------------------
(* The calls of parse().                                                   *)

\* Entering parse(), a syntax error, refusing the tree and printing the
\* diagnostics keep the invariant.
LEMMA CallInv ==
  ASSUME IInv, StartParse \/ SyntaxError \/ RefuseTree \/ PrintDiagnostics
  PROVE  IInv'
<1>1. phase # "building" /\ UNCHANGED << arena, stack, crash >>
  BY DEF StartParse, SyntaxError, RefuseTree, PrintDiagnostics, astVars
<1>2. stack' = << >>
  BY <1>1, NoCalls
<1>3. program' \in 0..Len(arena)
  <2>1. program' \in {program, 0}
    BY DEF StartParse, SyntaxError, RefuseTree, PrintDiagnostics, callVars, Null
  <2>2. Len(arena) \in Nat /\ program \in 0..Len(arena)
    BY SeqFacts DEF IInv, LocalsOK
  <2> QED
    BY <2>1, <2>2
<1>4. CallsOK' /\ LocalsOK'
  BY <1>1, <1>2, <1>3, QuietCalls
<1>5. IsSeq(<< >>) /\ DOMAIN << >> = {}
  BY DEF IsSeq
<1>6. TreeTyped' /\ NodesOK'
  <2>1. tree' = tree \/ tree' = << >>
    BY DEF StartParse, StartFile, SyntaxError, Recover, RefuseTree, PrintDiagnostics, parserVars
  <2>2. CASE tree' = tree
    BY <2>2 DEF IInv, TreeTyped, ChildrenOK, NodesOK
  <2>3. CASE tree' = << >>
    BY <1>5, <2>3 DEF TreeTyped, NodesOK
  <2> QED
    BY <2>1, <2>2, <2>3
<1>7. CASE StartParse
  <2>1. PICK b \in Blanks : offset' = b
    BY <1>7 DEF StartParse, StartFile
  <2>2. b \in Offset /\ 0 \in Offset /\ MaxChoices \in Nat
    BY <2>1, BoundsAssumption, SizeModAssumption DEF Offset, IInv, ScalarsOK, Blanks, MaxChoices
  <2>3. calls + 1 \in 0..MaxCalls
    BY <1>7, CallsAssumption DEF StartParse, IInv, ScalarsOK
  <2>4. ScalarsOK'
    BY <1>1, <1>7, <2>1, <2>2, <2>3
       DEF StartParse, StartFile, IInv, ScalarsOK, diagVars
  <2>5. tree' = << >> /\ work' = << Item("file", Null) >>
    BY <1>7 DEF StartParse, StartFile
  <2>6. work' # << >> /\ Head(work').sym = "file"
    <3>1. PICK it : it = Item("file", Null)
      OBVIOUS
    <3>2. work' = << it >> /\ it.sym = "file"
      BY <2>5, <3>1 DEF Item
    <3> QED
      BY <3>2
  <2>7. FileFirst'
    BY <2>5, <2>6 DEF FileFirst
  <2>8. EngineOK' /\ ErrorBars'
    BY <1>7 DEF StartParse, IInv, EngineOK, ErrorBars, ErrorsPending, NoProgramOnSyntaxError,
                diagVars
  <2>9. WorkOK'
    <3>1. PICK it : it = Item("file", 0)
      OBVIOUS
    <3>2. it = Item(it.sym, it.parent) /\ it.parent = 0
      BY <3>1 DEF Item
    <3>3. work' = << it >> /\ Len(tree') = 0 /\ phase' = "parsing"
      BY <1>7, <2>5, <3>1 DEF Null, StartParse
    <3>4. IsSeq(work') /\ DOMAIN work' = {1} /\ work'[1] = it
      BY <3>3 DEF IsSeq
    <3> QED
      BY <3>2, <3>3, <3>4 DEF WorkOK
  <2>10. ShapesOK' /\ OperatorsApart'
    BY <1>5, <2>5 DEF ShapesOK, OperatorsApart, Operators
  <2> QED
    BY <1>4, <1>6, <2>4, <2>7, <2>8, <2>9, <2>10 DEF IInv
<1>8. CASE SyntaxError
  <2>1. /\ HasErrors' = TRUE /\ erred' = TRUE /\ phase' = "parsing" /\ phase = "parsing"
        /\ UNCHANGED << table, bufferSize, offset, lastStop, fuel, calls, crash >>
    BY <1>8 DEF SyntaxError, report, Recover, astVars
  <2>2. PICK d : Diagnostics' = Append(Diagnostics, d)
    BY <1>8 DEF SyntaxError, report
  <2>3. EngineOK'
    BY <2>1, <2>2, AppendSeq DEF IInv, EngineOK, ErrorsPending
  <2>4. ScalarsOK' /\ FileFirst' /\ ErrorBars'
    BY <2>1 DEF IInv, ScalarsOK, FileFirst, ErrorBars, NoProgramOnSyntaxError
  <2>5. WorkOK' /\ ShapesOK' /\ OperatorsApart'
    BY <1>5, <1>8, <2>1 DEF SyntaxError, Recover, WorkOK, ShapesOK, OperatorsApart
  <2> QED
    BY <1>4, <1>6, <2>3, <2>4, <2>5 DEF IInv
<1>9. CASE RefuseTree
  <2>1. /\ phase' = "idle" /\ program' = Null
        /\ UNCHANGED << parserVars, crash, Diagnostics, HasErrors, calls, erred >>
    BY <1>9 DEF RefuseTree, astVars, diagVars
  <2>2. ScalarsOK' /\ FileFirst' /\ EngineOK' /\ ErrorBars'
    BY <2>1 DEF IInv, ScalarsOK, FileFirst, EngineOK, ErrorBars, ErrorsPending,
                NoProgramOnSyntaxError, parserVars
  <2>3. WorkOK' /\ ShapesOK' /\ OperatorsApart'
    BY <2>1, StableShapes DEF parserVars
  <2> QED
    BY <1>4, <1>6, <2>2, <2>3 DEF IInv
<1>10. CASE PrintDiagnostics
  <2>1. /\ phase = "idle" /\ Diagnostics' = << >> /\ HasErrors' = FALSE
        /\ UNCHANGED << parserVars, crash, phase, calls, erred, program >>
    BY <1>10 DEF PrintDiagnostics, print, astVars, callVars
  <2>2. ScalarsOK' /\ FileFirst' /\ EngineOK' /\ ErrorBars'
    BY <1>5, <2>1 DEF IInv, ScalarsOK, FileFirst, EngineOK, ErrorBars, ErrorsPending,
                      NoProgramOnSyntaxError, parserVars
  <2>3. WorkOK' /\ ShapesOK' /\ OperatorsApart'
    BY <2>1, StableShapes DEF parserVars
  <2> QED
    BY <1>4, <1>6, <2>2, <2>3 DEF IInv
<1> QED
  BY <1>7, <1>8, <1>9, <1>10

\* parse() only starts the builder on a tree whose root is the file rule.
LEMMA AcceptInv ==
  ASSUME IInv, AcceptTree
  PROVE  IInv'
<1>1. /\ phase = "parsing" /\ work = << >> /\ ~ HasErrors /\ phase' = "building"
      /\ stack' = << Frame(1) >> /\ UNCHANGED << arena, crash >>
      /\ UNCHANGED << parserVars, diagVars, callVars >>
  BY DEF AcceptTree, StartBuild, Parsed
<1>2. tree # << >> /\ tree[1].sym = "file"
  BY <1>1 DEF IInv, FileFirst
<1>3. 1 \in DOMAIN tree /\ TreeTyped
  <2>1. IsSeq(tree) /\ Len(tree) \in Nat /\ DOMAIN tree = 1..Len(tree) /\ TreeTyped
    BY SeqFacts DEF IInv, TreeTyped
  <2> QED
    BY <1>2, <2>1, TailSeq
<1>4. PICK f : f = Frame(1)
  OBVIOUS
<1>5. FrameOK(f) /\ f.ctx = 1 /\ f.res = 0 /\ f.obj = 0
  <2>1. TreeDone
    BY <1>1, TreeComplete DEF IInv, ErrorBars
  <2> QED
    BY <1>3, <1>4, <2>1, FreshFrame DEF Null
<1>6. /\ IsSeq(stack') /\ Len(stack') = 1 /\ DOMAIN stack' = {1} /\ stack'[1] = f
  <2>1. stack' = << f >>
    BY <1>1, <1>4
  <2> QED
    BY <2>1 DEF IsSeq
<1>7. UNCHANGED << table, tree, bufferSize, work, offset, lastStop, fuel, Diagnostics, HasErrors,
                   calls, erred, program >>
  BY <1>1 DEF parserVars, diagVars, callVars
<1>8. CallsOK'
  <2>1. \A k \in DOMAIN stack' : FrameOK(stack[k])'
    <3>1. FrameOK(stack'[1])
      BY <1>5, <1>6
    <3> QED
      BY <1>6, <1>7, <3>1, StableFrame
  <2> QED
    BY <1>1, <1>2, <1>5, <1>6, <1>7, <2>1 DEF CallsOK
<1>9. LocalsOK'
  <2>1. Len(arena) \in Nat /\ IsSeq(arena) /\ program \in 0..Len(arena)
    BY SeqFacts DEF IInv, LocalsOK
  <2> QED
    BY <1>1, <1>5, <1>6, <1>7, <2>1 DEF LocalsOK
<1>10. TreeTyped' /\ NodesOK'
  BY <1>7 DEF IInv, TreeTyped, ChildrenOK, NodesOK
<1>11. ScalarsOK' /\ FileFirst' /\ EngineOK' /\ ErrorBars'
  BY <1>1, <1>7 DEF IInv, ScalarsOK, FileFirst, EngineOK, ErrorBars, ErrorsPending,
                    NoProgramOnSyntaxError
<1>12. WorkOK' /\ ShapesOK' /\ OperatorsApart'
  BY <1>1, <1>7, StableShapes
<1> QED
  BY <1>8, <1>9, <1>10, <1>11, <1>12 DEF IInv

\* visitFile returned a Program *, so the cast in build() does not throw.
LEMMA ReturnProgramInv ==
  ASSUME IInv, ReturnProgram
  PROVE  IInv'
<1>1. /\ phase = "building" /\ phase' = "idle" /\ program' = Top.res
      /\ UNCHANGED << arena, Diagnostics, HasErrors, calls, erred >>
      /\ crash = "none" /\ stack # << >> /\ Top.now = << >> /\ Len(stack) = 1
      /\ UNCHANGED parserVars
  BY DEF ReturnProgram, EndBuild, Built, Finished, Running
<1>2. FrameOK(Top) /\ Top = stack[1] /\ 1 \in DOMAIN stack
  BY <1>1, StackFacts DEF IInv
<1>3. Top.any = "Program"
  <2>1. Top.ctx = 1 /\ tree[1].sym = "file"
    BY <1>1, <1>2 DEF IInv, CallsOK
  <2>2. Top.any = Answer("file")
    BY <1>1, <1>2, <2>1 DEF FrameOK, Forwarding
  <2> QED
    BY <2>2, Answers
<1>4. stack' = << >> /\ UNCHANGED crash
  BY <1>3 DEF ReturnProgram, EndBuild
<1>5. program' \in 0..Len(arena)
  BY <1>1, <1>2 DEF IInv, LocalsOK
<1>6. CallsOK' /\ LocalsOK'
  BY <1>1, <1>4, <1>5, QuietCalls
<1>7. UNCHANGED << table, tree, bufferSize, work, offset, lastStop, fuel >>
  BY <1>1 DEF parserVars
<1>8. TreeTyped' /\ NodesOK'
  BY <1>7 DEF IInv, TreeTyped, ChildrenOK, NodesOK
<1>9. ~ erred
  BY <1>1 DEF IInv, ErrorBars
<1>10. ScalarsOK' /\ FileFirst' /\ EngineOK' /\ ErrorBars'
  BY <1>1, <1>4, <1>7, <1>9 DEF IInv, ScalarsOK, FileFirst, EngineOK, ErrorBars, ErrorsPending,
                                NoProgramOnSyntaxError
<1>11. WorkOK' /\ ShapesOK' /\ OperatorsApart'
  BY <1>1, <1>7, StableShapes
<1> QED
  BY <1>6, <1>8, <1>10, <1>11 DEF IInv

\* A step that changes nothing.
LEMMA StutterInv ==
  ASSUME IInv, UNCHANGED vars
  PROVE  IInv'
<1>1. UNCHANGED << table, tree, bufferSize, work, offset, lastStop, fuel, arena, stack, crash,
                   Diagnostics, HasErrors, phase, calls, erred, program >>
  BY DEF vars, parserVars, astVars, diagVars, callVars
<1>2. CallsOK'
  <2>1. \A f : FrameOK(f) => FrameOK(f)'
    BY <1>1, StableFrame
  <2> QED
    BY <1>1, <2>1 DEF IInv, CallsOK, Awaits
<1>3. TreeTyped' /\ NodesOK' /\ LocalsOK'
  BY <1>1 DEF IInv, TreeTyped, ChildrenOK, NodesOK, LocalsOK
<1>4. ScalarsOK' /\ FileFirst' /\ EngineOK' /\ ErrorBars'
  BY <1>1 DEF IInv, ScalarsOK, FileFirst, EngineOK, ErrorBars, ErrorsPending,
              NoProgramOnSyntaxError
<1>5. WorkOK' /\ ShapesOK' /\ OperatorsApart'
  <2>1. phase' = "building" => work = << >>
    BY <1>1 DEF IInv, WorkOK
  <2> QED
    BY <1>1, <2>1, StableShapes
<1> QED
  BY <1>2, <1>3, <1>4, <1>5 DEF IInv

\* Every step of parse(), of its parser and of its builder keeps the invariant.
LEMMA NextInv == IInv /\ [Next]_vars => IInv'
<1> SUFFICES ASSUME IInv, [Next]_vars PROVE IInv'
  OBVIOUS
<1>1. CASE StartParse \/ SyntaxError \/ RefuseTree \/ PrintDiagnostics
  BY <1>1, CallInv
<1>2. CASE RunParser
  BY <1>2, ParserInv
<1>3. CASE AcceptTree
  BY <1>3, AcceptInv
<1>4. CASE RunBuilder
  BY <1>4, BuilderInv
<1>5. CASE ReturnProgram
  BY <1>5, ReturnProgramInv
<1>6. CASE Terminated \/ UNCHANGED vars
  BY <1>6, StutterInv DEF Terminated
<1> QED
  BY <1>1, <1>2, <1>3, <1>4, <1>5, <1>6 DEF Next

\* IInv holds in every state of every run of parse(): the tree is typed as the
\* grammar says, every visitor in progress is well typed, waits for the one above
\* it and only holds pointers into the arena, and the engine knows of its errors.
THEOREM Invariance == Spec => []IInv
  BY InitInv, NextInv, PTL DEF Spec

\* ASTBuilder never throws std::bad_any_cast: for every table of productions and
\* every file, each any_cast asks for the exact pointer type its visitor returned.
THEOREM NoBadAnyCastHolds == Spec => []NoBadAnyCast
<1>1. IInv => NoBadAnyCast
  BY DEF IInv, ScalarsOK, NoBadAnyCast
<1> QED
  BY <1>1, Invariance, PTL

\* No visitor visits a null pointer: whenever one dereferences Ctx->x() without
\* asking, or after asking for something else, the productions of its rule give
\* its context an x, for every table of productions and every file.
THEOREM NoNullVisitHolds == Spec => []NoNullVisit
<1>1. IInv => NoNullVisit
  BY DEF IInv, ScalarsOK, NoNullVisit
<1> QED
  BY <1>1, Invariance, PTL

\* Every variable keeps its type: children of a context have the rule they are
\* listed under, offsets fit a size_t, and the pointers of all visitors in progress
\* point into the arena of ASTContext or are null.
THEOREM TypeCorrect == Spec => []TypeOK
<1>1. IInv => TypeOK
  <2> SUFFICES ASSUME IInv PROVE TypeOK
    OBVIOUS
  <2>1. \A c \in DOMAIN tree :
          /\ tree[c].start \in Offset /\ tree[c].stop \in Offset
          /\ \A s \in DOMAIN tree[c].kids :
               \A i \in DOMAIN tree[c].kids[s] :
                 /\ tree[c].kids[s][i] \in DOMAIN tree
                 /\ tree[tree[c].kids[s][i]].sym = s
    BY DEF IInv, TreeTyped, ChildrenOK, NodesOK
  <2>2. ASSUME NEW f \in DOMAIN stack
        PROVE  /\ stack[f].ctx \in DOMAIN tree /\ stack[f].any \in Tags
               /\ stack[f].res \in 0..Len(arena) /\ stack[f].obj \in 0..Len(arena)
    <3>1. FrameOK(stack[f])
      BY DEF IInv, CallsOK
    <3>2. stack[f].any \in Tags
      <4>1. \A sym : Answer(sym) \in Tags
        BY DEF Answer, Tags
      <4> QED
        BY <3>1, <4>1 DEF FrameOK, Forwarding, Tags
    <3> QED
      BY <3>1, <3>2 DEF FrameOK, IInv, LocalsOK
  <2>3. program \in 0..Len(arena)
    BY DEF IInv, LocalsOK
  <2> QED
    BY <2>1, <2>2, <2>3 DEF TypeOK, IInv, ScalarsOK
<1> QED
  BY <1>1, Invariance, PTL

\* DiagnosticsEngine::hasErrors is true exactly while an error waits to be printed,
\* in every order of parser errors, builder errors, calls and prints.
THEOREM ErrorsPendingHolds == Spec => []ErrorsPending
<1>1. IInv => ErrorsPending
  BY DEF IInv, EngineOK
<1> QED
  BY <1>1, Invariance, PTL

\* parse() of a file with a syntax error returns nullptr, whatever the engine held
\* before the call and however far recovery got.
THEOREM NoProgramOnSyntaxErrorHolds == Spec => []NoProgramOnSyntaxError
<1>1. IInv => NoProgramOnSyntaxError
  BY DEF IInv, ErrorBars
<1> QED
  BY <1>1, Invariance, PTL
==============================================================================
