-------------------------- MODULE SubsequenceProofs --------------------------
(***************************************************************************)
(* Lemmas about Select, which the proofs about ServerRelay and Machine rest   *)
(* on.  Induction is over sets of numbers: the least number outside of a set   *)
(* that holds zero and is closed under successors would have a predecessor in  *)
(* it.  The least number of a set is Min of it (LeastExists).                   *)
(***************************************************************************)
EXTENDS Subsequence, SequencesExt, SequenceTheorems, WellFoundedInduction, TLAPS

\* A set with zero and the successor of each of its numbers has all numbers.
LEMMA SetInduction ==
  ASSUME NEW S, 0 \in S, \A n \in Nat : n \in S => n + 1 \in S
  PROVE  Nat \subseteq S
<1> DEFINE T == Nat \ S
<1> SUFFICES ASSUME T # {} PROVE FALSE
  OBVIOUS
<1>1. \E x \in T : \A y \in T : <<y, x>> \notin OpToRel(<, Nat)
  <2> HIDE DEF T
  <2>1. T \subseteq Nat
    BY DEF T
  <2> QED
    BY <2>1, NatLessThanWellFounded, WFMin
<1>2. PICK x \in T : \A y \in T : ~ (y < x)
  BY <1>1 DEF OpToRel
<1>3. x # 0 /\ x - 1 \in Nat
  OBVIOUS
<1>4. x - 1 \in S
  BY <1>2, <1>3
<1> QED
  BY <1>3, <1>4

\* A set of numbers has a least one, which Min finds.
LEMMA LeastExists ==
  ASSUME NEW T \in SUBSET Nat, T # {}
  PROVE  Min(T) \in T /\ \A y \in T : Min(T) <= y
<1>1. \E x \in T : \A y \in T : <<y, x>> \notin OpToRel(<, Nat)
  BY NatLessThanWellFounded, WFMin
<1>2. PICK x \in T : \A y \in T : ~ (y < x)
  BY <1>1 DEF OpToRel
<1>3. \E z \in T : \A y \in T : z <= y
  BY <1>2
<1> QED
  BY <1>3 DEF Min

\* One place of the recursion.
Selecting(f, s, T, i) == IF i = 0 THEN <<>>
                         ELSE IF s[i] \in T THEN Append(f[i - 1], s[i]) ELSE f[i - 1]

\* f takes n steps of F from a.
Follows(f, a, n, F) == f[0] = a /\ \A i \in 1..n : f[i] = F[<<i, f[i - 1]>>]

\* A recursion over the numbers up to n has a function that satisfies it.
LEMMA StepsExist ==
  ASSUME NEW V, NEW a \in V, NEW n \in Nat, NEW F \in [Nat \X V -> V]
  PROVE  \E f \in [0..n -> V] : Follows(f, a, n, F)
<1> DEFINE Goes(f, m) == Follows(f, a, m, F)
           Good == {m \in Nat : \E f \in [0..m -> V] : Goes(f, m)}
<1>1. 0 \in Good
  <2> DEFINE f == [i \in 0..0 |-> a]
  <2>1. f \in [0..0 -> V] /\ Goes(f, 0)
    BY DEF Follows
  <2> QED
    BY <2>1
<1>2. ASSUME NEW m \in Nat, m \in Good PROVE m + 1 \in Good
  <2>1. PICK f \in [0..m -> V] : Goes(f, m)
    BY <1>2
  <2>a. f[0] = a /\ \A i \in 1..m : f[i] = F[<<i, f[i - 1]>>]
    BY <2>1 DEF Follows
  <2>2. PICK v \in V : v = F[<<m + 1, f[m]>>]
    OBVIOUS
  <2> DEFINE g == [i \in 0..(m + 1) |-> IF i = m + 1 THEN v ELSE f[i]]
  <2>3. g \in [0..(m + 1) -> V]
    <3>1. \A i \in 0..(m + 1) : i # m + 1 => i \in 0..m
      OBVIOUS
    <3>2. \A i \in 0..(m + 1) : (IF i = m + 1 THEN v ELSE f[i]) \in V
      BY <3>1
    <3> QED
      BY <3>2
  <2>4. g[0] = a
    BY <2>a
  <2>5. ASSUME NEW i \in 1..(m + 1) PROVE g[i] = F[<<i, g[i - 1]>>]
    <3>1. i - 1 \in 0..m /\ i \in 0..(m + 1) /\ i - 1 \in 0..(m + 1) /\ i - 1 # m + 1
      OBVIOUS
    <3>2. g[i - 1] = f[i - 1]
      BY <3>1
    <3>3. CASE i = m + 1
      <4>1. g[i] = v /\ i - 1 = m
        BY <3>1, <3>3
      <4> HIDE DEF g
      <4> QED
        BY <2>2, <3>2, <3>3, <4>1
    <3>4. CASE i # m + 1
      <4>1. g[i] = f[i] /\ i \in 1..m
        BY <3>1, <3>4
      <4> HIDE DEF g
      <4> QED
        BY <2>a, <3>2, <4>1
    <3> QED
      BY <3>3, <3>4
  <2> HIDE DEF g
  <2>6. m + 1 \in Nat /\ Goes(g, m + 1)
    BY <2>4, <2>5 DEF Follows
  <2> QED
    BY <2>3, <2>6
<1> HIDE DEF Good
<1>3. Nat \subseteq Good
  BY <1>1, <1>2, SetInduction
<1> QED
  BY <1>3 DEF Good

Selector(f, s, T, n) == f = [i \in 0..n |-> Selecting(f, s, T, i)]

\* What the recursion defines is defined.
LEMMA SelectionsExist ==
  ASSUME NEW s, NEW T, NEW n \in Nat
  PROVE  \E f : Selector(f, s, T, n)
<1> DEFINE Good == {m \in Nat : \E f : Selector(f, s, T, m)}
<1>1. 0 \in Good
  <2> DEFINE f == [i \in 0..0 |-> <<>>]
  <2>1. f = [i \in 0..0 |-> Selecting(f, s, T, i)]
    BY DEF Selecting
  <2> HIDE DEF f
  <2> QED
    BY <2>1 DEF Selector
<1>2. ASSUME NEW m \in Nat, m \in Good PROVE m + 1 \in Good
  <2>1. PICK f : Selector(f, s, T, m)
    BY <1>2
  <2> DEFINE g == [i \in 0..(m + 1) |-> IF i <= m THEN f[i] ELSE Selecting(f, s, T, i)]
  <2>2. ASSUME NEW i \in 0..(m + 1) PROVE g[i] = Selecting(g, s, T, i)
    <3>1. i # 0 => i - 1 \in 0..(m + 1) /\ i - 1 <= m
      OBVIOUS
    <3>2. i # 0 => g[i - 1] = f[i - 1]
      BY <3>1
    <3>3. i <= m => f[i] = Selecting(f, s, T, i)
      BY <2>1 DEF Selector
    <3>4. g[i] = Selecting(f, s, T, i)
      BY <3>3
    <3> HIDE DEF g
    <3> QED
      BY <3>2, <3>4 DEF Selecting
  <2>3. g = [i \in 0..(m + 1) |-> Selecting(g, s, T, i)]
    BY <2>2
  <2> HIDE DEF g
  <2> QED
    BY <2>3 DEF Selector
<1> HIDE DEF Good
<1>3. Nat \subseteq Good
  BY <1>1, <1>2, SetInduction
<1> QED
  BY <1>3 DEF Good

\* Two selections of sequences that agree up to n agree up to n.
LEMMA SelectionsAgree ==
  ASSUME NEW s, NEW t, NEW T, NEW m \in Nat, NEW n \in Nat, NEW f, NEW g,
         Selector(f, s, T, m), Selector(g, t, T, n),
         NEW k \in Nat, k <= m, k <= n, \A i \in 1..k : s[i] = t[i]
  PROVE  f[k] = g[k]
<1> DEFINE Good == {i \in Nat : i <= k => f[i] = g[i]}
<1>0. /\ \A i \in 0..m : f[i] = Selecting(f, s, T, i)
      /\ \A i \in 0..n : g[i] = Selecting(g, t, T, i)
  BY DEF Selector
<1>1. 0 \in Good
  BY <1>0 DEF Selecting
<1>2. ASSUME NEW i \in Nat, i \in Good PROVE i + 1 \in Good
  <2> SUFFICES ASSUME i + 1 <= k PROVE f[i + 1] = g[i + 1]
    OBVIOUS
  <2>1. f[i] = g[i] /\ s[i + 1] = t[i + 1] /\ i + 1 \in 0..m /\ i + 1 \in 0..n /\ (i + 1) - 1 = i
    BY <1>2
  <2> QED
    BY <1>0, <2>1 DEF Selecting
<1> HIDE DEF Good
<1>3. Nat \subseteq Good
  BY <1>1, <1>2, SetInduction
<1> QED
  BY <1>3 DEF Good

LEMMA SelectionsDef ==
  ASSUME NEW S, NEW s \in Seq(S), NEW T
  PROVE  Selector(Selections(s, T), s, T, Len(s))
<1>1. Len(s) \in Nat
  OBVIOUS
<1>2. Selections(s, T) = CHOOSE f : Selector(f, s, T, Len(s))
  BY DEF Selections, Selector, Selecting
<1> QED
  BY <1>1, <1>2, SelectionsExist

\* The recursion, place by place.
LEMMA SelectionsStep ==
  ASSUME NEW S, NEW s \in Seq(S), NEW T, NEW i \in 0..Len(s)
  PROVE  Selections(s, T)[i] = Selecting(Selections(s, T), s, T, i)
<1> DEFINE f == Selections(s, T)
<1>1. Selector(f, s, T, Len(s))
  BY SelectionsDef
<1> HIDE DEF f
<1>2. f[i] = Selecting(f, s, T, i)
  BY <1>1 DEF Selector
<1> QED
  BY <1>2 DEF f

LEMMA SelectEmpty == ASSUME NEW T PROVE Select(<<>>, T) = <<>>
<1>1. <<>> \in Seq({}) /\ Len(<<>>) = 0 /\ 0 \in 0..Len(<<>>)
  OBVIOUS
<1>2. Selections(<<>>, T)[0] = Selecting(Selections(<<>>, T), <<>>, T, 0)
  BY <1>1, SelectionsStep
<1> QED
  BY <1>1, <1>2 DEF Select, Selecting

LEMMA SelectAppend ==
  ASSUME NEW S, NEW s \in Seq(S), NEW e \in S, NEW T
  PROVE  Select(Append(s, e), T) = IF e \in T THEN Append(Select(s, T), e) ELSE Select(s, T)
<1> DEFINE t == Append(s, e)
           n == Len(s)
           f == Selections(s, T)
           g == Selections(t, T)
<1>1. /\ t \in Seq(S) /\ Len(t) = n + 1 /\ n \in Nat /\ t[n + 1] = e
      /\ \A i \in 1..n : s[i] = t[i]
  BY AppendProperties
<1>2. Selector(f, s, T, n)
  BY SelectionsDef
<1> HIDE DEF t
<1>3. Selector(g, t, T, n + 1)
  BY <1>1, SelectionsDef
<1>4. n + 1 \in 0..Len(t)
  BY <1>1
<1>5. g[n + 1] = Selecting(g, t, T, n + 1)
  BY <1>1, <1>4, SelectionsStep
<1> HIDE DEF n, f, g
<1>6. n + 1 \in Nat /\ n <= n /\ n <= n + 1 /\ (n + 1) - 1 = n /\ n + 1 # 0
  BY <1>1
<1>7. f[n] = g[n]
  BY <1>1, <1>2, <1>3, <1>6, SelectionsAgree
<1>8. Select(s, T) = f[n] /\ Select(t, T) = g[n + 1]
  BY <1>1 DEF Select, f, g, n
<1> QED
  BY <1>1, <1>5, <1>6, <1>7, <1>8 DEF Selecting, t

\* An element put behind two sequences in a row.
LEMMA ConcatAppend ==
  ASSUME NEW S, NEW s \in Seq(S), NEW t \in Seq(S), NEW e \in S
  PROVE  /\ s \o t \in Seq(S) /\ Append(t, e) \in Seq(S)
         /\ s \o Append(t, e) = Append(s \o t, e)
<1>1. s \o t \in Seq(S) /\ Append(t, e) \in Seq(S) /\ <<e>> \in Seq(S)
  BY ConcatProperties, AppendProperties
<1>2. (s \o t) \o <<e>> = s \o (t \o <<e>>)
  BY <1>1, ConcatAssociative
<1> DEFINE u == s \o t
<1>3. Append(u, e) = u \o <<e>>
  <2> HIDE DEF u
  <2> QED
    BY <1>1, AppendIsConcat
<1>4. Append(t, e) = t \o <<e>>
  BY AppendIsConcat
<1> QED
  BY <1>1, <1>2, <1>3, <1>4

\* What is put behind f comes before w.
LEMMA AppendInside ==
  ASSUME NEW S, NEW f \in Seq(S), NEW w \in Seq(S), NEW e \in S
  PROVE  Append(f, e) \o w = f \o (<<e>> \o w)
<1>1. <<e>> \in Seq(S) /\ Append(f, e) = f \o <<e>>
  BY AppendIsConcat
<1>2. (f \o <<e>>) \o w = f \o (<<e>> \o w)
  BY <1>1, ConcatAssociative
<1> QED
  BY <1>1, <1>2

\* A sequence of one more element than n is one of n and an element.
LEMMA LastApart ==
  ASSUME NEW S, NEW t \in Seq(S), NEW n \in Nat, Len(t) = n + 1
  PROVE  \E u \in Seq(S), e \in S : t = Append(u, e) /\ Len(u) = n
<1>1. t # <<>>
  OBVIOUS
<1>2. PICK u \in Seq(S), e \in S : t = Append(u, e)
  BY <1>1, SequenceEmptyOrAppend
<1>3. Len(Append(u, e)) = Len(u) + 1 /\ Len(u) \in Nat
  OBVIOUS
<1>4. Len(u) = n
  BY <1>2, <1>3
<1> QED
  BY <1>2, <1>4

\* What is selected is in the set and in the sequence.
LEMMA SelectIsSeq ==
  ASSUME NEW S, NEW s \in Seq(S), NEW T
  PROVE  Select(s, T) \in Seq(S \cap T)
<1> DEFINE Good == {n \in Nat : \A t \in Seq(S) : Len(t) = n => Select(t, T) \in Seq(S \cap T)}
<1>1. 0 \in Good
  <2> SUFFICES ASSUME NEW t \in Seq(S), Len(t) = 0 PROVE Select(t, T) \in Seq(S \cap T)
    OBVIOUS
  <2>1. t = <<>>
    OBVIOUS
  <2> QED
    BY <2>1, SelectEmpty, EmptySeq
<1>2. ASSUME NEW n \in Nat, n \in Good PROVE n + 1 \in Good
  <2> SUFFICES ASSUME NEW t \in Seq(S), Len(t) = n + 1 PROVE Select(t, T) \in Seq(S \cap T)
    OBVIOUS
  <2>1. PICK u \in Seq(S), e \in S : t = Append(u, e) /\ Len(u) = n
    BY LastApart
  <2>2. Select(u, T) \in Seq(S \cap T)
    BY <1>2, <2>1
  <2>3. Select(t, T) = IF e \in T THEN Append(Select(u, T), e) ELSE Select(u, T)
    BY <2>1, SelectAppend
  <2>4. e \in T => Append(Select(u, T), e) \in Seq(S \cap T)
    <3> DEFINE v == Select(u, T)
    <3> HIDE DEF v
    <3>1. v \in Seq(S \cap T)
      BY <2>2 DEF v
    <3>2. e \in T => Append(v, e) \in Seq(S \cap T)
      BY <3>1, AppendProperties
    <3> QED
      BY <3>2 DEF v
  <2> QED
    BY <2>2, <2>3, <2>4
<1> HIDE DEF Good
<1>3. Nat \subseteq Good
  BY <1>1, <1>2, SetInduction
<1>4. Len(s) \in Nat
  OBVIOUS
<1> QED
  BY <1>3, <1>4 DEF Good

LEMMA SelectionInside ==
  ASSUME NEW S, NEW s \in Seq(S), NEW T
  PROVE  Select(s, T) \in Seq(S)
<1> DEFINE v == Select(s, T)
           C == S \cap T
<1>1. v \in Seq(C)
  BY SelectIsSeq
<1>2. C \subseteq S
  OBVIOUS
<1> HIDE DEF v, C
<1>3. v \in Seq(S)
  BY <1>1, <1>2, SeqMonotonic
<1> QED
  BY <1>3 DEF v

\* A selection from two sequences in a row is the two selections in a row.
LEMMA SelectConcat ==
  ASSUME NEW S, NEW s \in Seq(S), NEW t \in Seq(S), NEW T
  PROVE  Select(s \o t, T) = Select(s, T) \o Select(t, T)
<1> DEFINE Good == {n \in Nat : \A u \in Seq(S) : Len(u) = n =>
                                  Select(s \o u, T) = Select(s, T) \o Select(u, T)}
<1>0. \A u \in Seq(S) : Select(u, T) \in Seq(S)
  BY SelectionInside
<1>1. 0 \in Good
  <2> SUFFICES ASSUME NEW u \in Seq(S), Len(u) = 0
               PROVE  Select(s \o u, T) = Select(s, T) \o Select(u, T)
    OBVIOUS
  <2>1. u = <<>> /\ s \o u = s
    OBVIOUS
  <2>2. Select(s, T) \o <<>> = Select(s, T)
    BY <1>0, ConcatEmptySeq
  <2> QED
    BY <2>1, <2>2, SelectEmpty
<1>2. ASSUME NEW n \in Nat, n \in Good PROVE n + 1 \in Good
  <2> SUFFICES ASSUME NEW u \in Seq(S), Len(u) = n + 1
               PROVE  Select(s \o u, T) = Select(s, T) \o Select(u, T)
    OBVIOUS
  <2>1. PICK v \in Seq(S), e \in S : u = Append(v, e) /\ Len(v) = n
    BY LastApart
  <2>2. Select(s \o v, T) = Select(s, T) \o Select(v, T)
    BY <1>2, <2>1
  <2>3. s \o u = Append(s \o v, e) /\ s \o v \in Seq(S)
    BY <2>1, ConcatAppend
  <2>4. Select(s, T) \o Append(Select(v, T), e) = Append(Select(s, T) \o Select(v, T), e)
    BY <1>0, ConcatAppend
  <2>5. Select(u, T) = IF e \in T THEN Append(Select(v, T), e) ELSE Select(v, T)
    BY <2>1, SelectAppend
  <2>6. Select(s \o u, T) = IF e \in T THEN Append(Select(s \o v, T), e) ELSE Select(s \o v, T)
    <3> DEFINE w == s \o v
    <3>1. w \in Seq(S) /\ s \o u = Append(w, e)
      BY <2>3
    <3> HIDE DEF w
    <3>2. Select(Append(w, e), T) = IF e \in T THEN Append(Select(w, T), e) ELSE Select(w, T)
      BY <3>1, SelectAppend
    <3>3. Select(s \o u, T) = IF e \in T THEN Append(Select(w, T), e) ELSE Select(w, T)
      BY <3>1, <3>2, Zenon
    <3> QED
      BY <3>3 DEF w
  <2> QED
    BY <2>2, <2>4, <2>5, <2>6, Zenon
<1> HIDE DEF Good
<1>3. Nat \subseteq Good
  BY <1>1, <1>2, SetInduction
<1>4. Len(t) \in Nat
  OBVIOUS
<1> QED
  BY <1>3, <1>4 DEF Good

\* A selection begins with the head, if that is in the set.
LEMMA SelectHeadTail ==
  ASSUME NEW S, NEW s \in Seq(S), s # <<>>, NEW T
  PROVE  Select(s, T) = (IF Head(s) \in T THEN <<Head(s)>> ELSE <<>>) \o Select(Tail(s), T)
<1> DEFINE h == Head(s)
           r == Tail(s)
           one == <<h>>
<1>1. one \in Seq(S) /\ r \in Seq(S) /\ s = one \o r /\ h \in S /\ <<>> \in Seq(S)
  OBVIOUS
<1>2. one = Append(<<>>, h)
  OBVIOUS
<1> HIDE DEF h, r
<1>3. Select(Append(<<>>, h), T) = IF h \in T THEN Append(<<>>, h) ELSE <<>>
  <2> DEFINE empty == <<>>
  <2>1. empty \in Seq(S) /\ Select(empty, T) = empty
    BY <1>1, SelectEmpty
  <2> HIDE DEF empty
  <2>2. Select(Append(empty, h), T) = IF h \in T THEN Append(Select(empty, T), h) ELSE Select(empty, T)
    BY <1>1, <2>1, SelectAppend
  <2>3. Select(Append(empty, h), T) = IF h \in T THEN Append(empty, h) ELSE empty
    BY <2>1, <2>2, Zenon
  <2> QED
    BY <2>3 DEF empty
<1> HIDE DEF one
<1>4. Select(one, T) = IF h \in T THEN one ELSE <<>>
  BY <1>2, <1>3, Zenon
<1>5. Select(one \o r, T) = Select(one, T) \o Select(r, T)
  BY <1>1, SelectConcat
<1>6. Select(s, T) = (IF h \in T THEN one ELSE <<>>) \o Select(r, T)
  BY <1>1, <1>4, <1>5, Zenon
<1> QED
  BY <1>6, Zenon DEF one, h, r

\* Nothing is selected where nothing is in the set.
LEMMA SelectNone ==
  ASSUME NEW S, NEW s \in Seq(S), NEW T, S \cap T = {}
  PROVE  Select(s, T) = <<>>
<1> DEFINE v == Select(s, T)
<1>1. v \in Seq({})
  BY SelectIsSeq
<1> HIDE DEF v
<1>2. v = <<>>
  BY <1>1
<1> QED
  BY <1>2 DEF v

-----------------------------------------------------------------------------
(* Prefixes, suffixes and numbered sequences *)

\* Moving the head of one sequence to the end of the one before it changes
\* nothing about the two in a row.
LEMMA ConcatShift ==
  ASSUME NEW S, NEW u \in Seq(S), NEW s \in Seq(S), s # <<>>
  PROVE  Append(u, Head(s)) \o Tail(s) = u \o s
<1> DEFINE h == Head(s)
           r == Tail(s)
           a == Append(u, h)
<1>1. h \in S /\ r \in Seq(S) /\ Len(r) = Len(s) - 1 /\ Len(s) # 0 /\ s[1] = h
      /\ \A i \in 1..Len(r) : r[i] = s[i + 1]
  BY HeadTailProperties
<1> HIDE DEF h, r
<1>2. a \in Seq(S) /\ Len(a) = Len(u) + 1 /\ a[Len(u) + 1] = h /\ \A i \in 1..Len(u) : a[i] = u[i]
  BY <1>1, AppendProperties
<1> HIDE DEF a
<1>3. /\ a \o r \in Seq(S) /\ Len(a \o r) = Len(a) + Len(r)
      /\ \A i \in 1..(Len(a) + Len(r)) : (a \o r)[i] = IF i <= Len(a) THEN a[i] ELSE r[i - Len(a)]
  BY <1>1, <1>2, ConcatProperties
<1>4. /\ u \o s \in Seq(S) /\ Len(u \o s) = Len(u) + Len(s)
      /\ \A i \in 1..(Len(u) + Len(s)) : (u \o s)[i] = IF i <= Len(u) THEN u[i] ELSE s[i - Len(u)]
  BY ConcatProperties
<1> DEFINE x == a \o r
           y == u \o s
<1>5. Len(x) = Len(y)
  BY <1>1, <1>2, <1>3, <1>4
<1>6. ASSUME NEW i \in 1..Len(x) PROVE x[i] = y[i]
  <2>1. i \in 1..(Len(a) + Len(r)) /\ i \in 1..(Len(u) + Len(s)) /\ i \in Int /\ Len(u) \in Nat
    BY <1>3, <1>4, <1>5
  <2>2. CASE i <= Len(u)
    BY <1>2, <1>3, <1>4, <2>1, <2>2
  <2>3. CASE i = Len(u) + 1
    <3>1. x[i] = a[i]
      BY <1>2, <1>3, <2>1, <2>3
    <3>2. y[i] = s[1]
      BY <1>4, <2>1, <2>3
    <3> QED
      BY <1>1, <1>2, <2>3, <3>1, <3>2
  <2>4. CASE i > Len(u) + 1
    <3>1. x[i] = r[i - Len(a)]
      BY <1>2, <1>3, <2>1, <2>4
    <3>2. y[i] = s[i - Len(u)]
      BY <1>4, <2>1, <2>4
    <3>3. i - Len(a) \in 1..Len(r) /\ (i - Len(a)) + 1 = i - Len(u)
      BY <1>1, <1>2, <2>1, <2>4
    <3> QED
      BY <1>1, <3>1, <3>2, <3>3
  <2> QED
    BY <2>1, <2>2, <2>3, <2>4
<1>7. x \in Seq(S) /\ y \in Seq(S)
  BY <1>3, <1>4
<1> HIDE DEF x, y
<1>8. x = y
  BY <1>5, <1>6, <1>7, SeqEqual
<1> QED
  BY <1>8 DEF x, y, a, h, r

\* IsPrefix, by places.
LEMMA PrefixByPlace ==
  ASSUME NEW S, NEW s \in Seq(S), NEW t \in Seq(S)
  PROVE  IsPrefix(s, t) <=> Len(s) <= Len(t) /\ \A i \in 1..Len(s) : s[i] = t[i]
<1> DEFINE a == SubSeq(s, 1, Len(s))
           b == SubSeq(t, 1, Len(s))
<1>1. a = s
  BY SubSeqFull
<1>2. ASSUME Len(s) <= Len(t)
      PROVE  b \in Seq(S) /\ Len(b) = Len(s) /\ \A i \in 1..Len(s) : b[i] = t[i]
  BY <1>2
<1> HIDE DEF a, b
<1>3. ASSUME Len(s) <= Len(t), \A i \in 1..Len(s) : s[i] = t[i] PROVE a = b
  BY <1>1, <1>2, <1>3, SeqEqual
<1>4. ASSUME Len(s) <= Len(t), a = b PROVE \A i \in 1..Len(s) : s[i] = t[i]
  BY <1>1, <1>2, <1>4
<1> QED
  BY <1>3, <1>4 DEF IsPrefix, a, b

\* IsSuffix, by places.
LEMMA SuffixByPlace ==
  ASSUME NEW S, NEW s \in Seq(S), NEW t \in Seq(S)
  PROVE  IsSuffix(s, t) <=> /\ Len(s) <= Len(t)
                            /\ \A i \in 1..Len(s) : s[i] = t[(Len(t) - Len(s)) + i]
<1> DEFINE a == Reverse(s)
           b == Reverse(t)
           m == Len(s)
           n == Len(t)
<1>1. m \in Nat /\ n \in Nat
  OBVIOUS
<1>2. a \in Seq(S) /\ Len(a) = m /\ \A i \in 1..m : a[i] = s[(m - i) + 1]
  BY DEF Reverse
<1>3. b \in Seq(S) /\ Len(b) = n /\ \A i \in 1..n : b[i] = t[(n - i) + 1]
  BY DEF Reverse
<1> HIDE DEF a, b
<1>4. IsPrefix(a, b) <=> m <= n /\ \A i \in 1..m : a[i] = b[i]
  BY <1>1, <1>2, <1>3, PrefixByPlace
<1>5. IsSuffix(s, t) <=> IsPrefix(a, b)
  BY DEF IsSuffix, a, b
<1>6. ASSUME m <= n
      PROVE  (\A i \in 1..m : a[i] = b[i]) <=> (\A i \in 1..m : s[i] = t[(n - m) + i])
  <2>1. ASSUME NEW i \in 1..m, \A j \in 1..m : a[j] = b[j] PROVE s[i] = t[(n - m) + i]
    <3>1. (m - i) + 1 \in 1..m /\ (m - ((m - i) + 1)) + 1 = i
          /\ (n - ((m - i) + 1)) + 1 = (n - m) + i /\ (m - i) + 1 \in 1..n
      BY <1>1, <1>6
    <3> QED
      BY <1>2, <1>3, <2>1, <3>1
  <2>2. ASSUME NEW i \in 1..m, \A j \in 1..m : s[j] = t[(n - m) + j] PROVE a[i] = b[i]
    <3>1. (m - i) + 1 \in 1..m /\ (n - m) + ((m - i) + 1) = (n - i) + 1 /\ i \in 1..n
      BY <1>1, <1>6
    <3> QED
      BY <1>2, <1>3, <2>2, <3>1
  <2> QED
    BY <2>1, <2>2
<1> QED
  BY <1>4, <1>5, <1>6

\* The same element at the end of both.
LEMMA SuffixAppend ==
  ASSUME NEW S, NEW s \in Seq(S), NEW t \in Seq(S), NEW e \in S, IsSuffix(s, t)
  PROVE  IsSuffix(Append(s, e), Append(t, e))
<1> DEFINE a == Append(s, e)
           b == Append(t, e)
<1>1. /\ a \in Seq(S) /\ Len(a) = Len(s) + 1 /\ a[Len(s) + 1] = e
      /\ \A i \in 1..Len(s) : a[i] = s[i]
  BY AppendProperties
<1>2. /\ b \in Seq(S) /\ Len(b) = Len(t) + 1 /\ b[Len(t) + 1] = e
      /\ \A i \in 1..Len(t) : b[i] = t[i]
  BY AppendProperties
<1>3. Len(s) <= Len(t) /\ \A i \in 1..Len(s) : s[i] = t[(Len(t) - Len(s)) + i]
  BY SuffixByPlace
<1> HIDE DEF a, b
<1>4. ASSUME NEW i \in 1..Len(a) PROVE a[i] = b[(Len(b) - Len(a)) + i]
  <2>1. CASE i = Len(s) + 1
    BY <1>1, <1>2, <1>3, <2>1
  <2>2. CASE i \in 1..Len(s)
    <3>1. (Len(t) - Len(s)) + i \in 1..Len(t) /\ Len(b) - Len(a) = Len(t) - Len(s)
      BY <1>1, <1>2, <1>3, <2>2
    <3> QED
      BY <1>1, <1>2, <1>3, <2>2, <3>1
  <2> QED
    BY <1>1, <2>1, <2>2
<1>5. a \in Seq(S) /\ b \in Seq(S) /\ Len(a) <= Len(b)
  BY <1>1, <1>2, <1>3
<1>6. IsSuffix(a, b)
  BY <1>4, <1>5, SuffixByPlace
<1> QED
  BY <1>6 DEF a, b
LEMMA SuffixEmpty == ASSUME NEW S, NEW t \in Seq(S) PROVE IsSuffix(<<>>, t)
<1> DEFINE e == <<>>
<1>1. e \in Seq(S) /\ Len(e) = 0
  OBVIOUS
<1> HIDE DEF e
<1>2. Len(e) <= Len(t) /\ \A i \in 1..Len(e) : e[i] = t[(Len(t) - Len(e)) + i]
  BY <1>1
<1>3. IsSuffix(e, t)
  BY <1>1, <1>2, SuffixByPlace
<1> QED
  BY <1>3 DEF e

\* The end of a log from a place is a suffix of what was heard, one packet later.
LEMMA SuffixGrows ==
  ASSUME NEW S, NEW l \in Seq(S), NEW e \in S, NEW j \in Nat, j <= Len(l), NEW t \in Seq(S),
         IsSuffix(SubSeq(l, j + 1, Len(l)), t), NEW g, g = Append(l, e)
  PROVE  IsSuffix(SubSeq(g, j + 1, Len(g)), Append(t, e))
<1>1. PICK a : a = SubSeq(l, j + 1, Len(l))
  OBVIOUS
<1>2. a \in Seq(S) /\ SubSeq(g, j + 1, Len(g)) = Append(a, e)
  <2> DEFINE n == Len(l)
             b == SubSeq(g, j + 1, n + 1)
             c == Append(a, e)
  <2>0. n \in Nat
    OBVIOUS
  <2>1. /\ g \in Seq(S) /\ Len(g) = n + 1 /\ g[n + 1] = e /\ \A i \in 1..n : g[i] = l[i]
    BY AppendProperties
  <2>2. a \in Seq(S) /\ Len(a) = n - j /\ \A i \in 1..(n - j) : a[i] = l[j + i]
    BY <1>1
  <2> HIDE DEF n
  <2>3. b \in Seq(S) /\ Len(b) = (n - j) + 1 /\ \A i \in 1..((n - j) + 1) : b[i] = g[j + i]
    BY <2>0, <2>1 DEF n
  <2> HIDE DEF b
  <2>4. c \in Seq(S) /\ Len(c) = (n - j) + 1 /\ c[(n - j) + 1] = e /\ \A i \in 1..(n - j) : c[i] = a[i]
    BY <2>2, AppendProperties
  <2> HIDE DEF c
  <2>5. ASSUME NEW i \in 1..((n - j) + 1) PROVE b[i] = c[i]
    <3>1. CASE i = (n - j) + 1
      <4>1. j + i = n + 1
        BY <2>0, <3>1
      <4> QED
        BY <2>1, <2>3, <2>4, <3>1, <4>1
    <3>2. CASE i \in 1..(n - j)
      <4>1. j + i \in 1..n
        BY <2>0, <3>2
      <4> QED
        BY <2>1, <2>2, <2>3, <2>4, <3>2, <4>1
    <3>3. i = (n - j) + 1 \/ i \in 1..(n - j)
      BY <2>0 DEF n
    <3> QED
      BY <3>1, <3>2, <3>3
  <2>6. b = c
    BY <2>3, <2>4, <2>5, SeqEqual
  <2> QED
    BY <2>1, <2>2, <2>6 DEF b, c, n
<1>3. IsSuffix(a, t)
  BY <1>1
<1>4. IsSuffix(Append(a, e), Append(t, e))
  BY <1>2, <1>3, SuffixAppend
<1> QED
  BY <1>2, <1>4

\* A sequence is a prefix of itself with another behind it, whose head is next.
LEMMA PrefixOfConcat ==
  ASSUME NEW S, NEW u \in Seq(S), NEW s \in Seq(S)
  PROVE  /\ IsPrefix(u, u \o s)
         /\ s # <<>> => Len(u) + 1 \in 1..Len(u \o s) /\ Head(s) = (u \o s)[Len(u) + 1]
<1> DEFINE x == u \o s
<1>1. /\ x \in Seq(S) /\ Len(x) = Len(u) + Len(s)
      /\ \A i \in 1..(Len(u) + Len(s)) : x[i] = IF i <= Len(u) THEN u[i] ELSE s[i - Len(u)]
  BY ConcatProperties
<1> HIDE DEF x
<1>2. Len(u) \in Nat /\ Len(s) \in Nat
  OBVIOUS
<1>3. Len(u) <= Len(x) /\ \A i \in 1..Len(u) : u[i] = x[i]
  BY <1>1, <1>2
<1>4. IsPrefix(u, x)
  BY <1>1, <1>3, PrefixByPlace
<1>5. ASSUME s # <<>> PROVE Len(u) + 1 \in 1..Len(x) /\ Head(s) = x[Len(u) + 1]
  <2>1. Len(s) # 0 /\ Head(s) = s[1]
    BY <1>5
  <2>2. Len(u) + 1 \in 1..Len(x) /\ (Len(u) + 1) - Len(u) = 1 /\ ~ (Len(u) + 1 <= Len(u))
    BY <1>1, <1>2, <2>1
  <2> QED
    BY <1>1, <2>1, <2>2
<1> QED
  BY <1>4, <1>5 DEF x

\* What k numbered, up to n.
Numbered(k, n) == [i \in 1..n |-> <<k, i>>]

LEMMA NumberedGrows ==
  ASSUME NEW S, NEW k, NEW n \in Nat, \A i \in 1..(n + 1) : <<k, i>> \in S
  PROVE  /\ Numbered(k, n) \in Seq(S) /\ <<k, n + 1>> \in S
         /\ Append(Numbered(k, n), <<k, n + 1>>) = Numbered(k, n + 1)
         /\ \A u \in Seq(S) : IsPrefix(u, Numbered(k, n)) => IsPrefix(u, Numbered(k, n + 1))
<1> DEFINE a == Numbered(k, n)
           b == Numbered(k, n + 1)
           e == <<k, n + 1>>
<1>1. e \in S
  OBVIOUS
<1>2. a \in Seq(S) /\ Len(a) = n /\ \A i \in 1..n : a[i] = <<k, i>>
  BY DEF Numbered
<1>3. b \in Seq(S) /\ Len(b) = n + 1 /\ \A i \in 1..(n + 1) : b[i] = <<k, i>>
  BY DEF Numbered
<1>9. b[n + 1] = e /\ \A i \in 1..n : a[i] = b[i]
  <2>1. n + 1 \in 1..(n + 1) /\ \A i \in 1..n : i \in 1..(n + 1)
    OBVIOUS
  <2> HIDE DEF a, b
  <2>2. b[n + 1] = e
    BY <1>3, <2>1
  <2>3. ASSUME NEW i \in 1..n PROVE a[i] = b[i]
    <3>1. a[i] = <<k, i>> /\ b[i] = <<k, i>>
      BY <1>2, <1>3, <2>1, Zenon
    <3> QED
      BY <3>1
  <2> QED
    BY <2>2, <2>3
<1> HIDE DEF a, b, e
<1>4. Append(a, e) = b
  <2> DEFINE x == Append(a, e)
  <2>1. /\ x \in Seq(S) /\ Len(x) = n + 1 /\ x[n + 1] = e
        /\ \A i \in 1..n : x[i] = a[i]
    BY <1>1, <1>2, AppendProperties
  <2> HIDE DEF x
  <2>2. ASSUME NEW i \in 1..(n + 1) PROVE x[i] = b[i]
    <3>1. i \in 1..n \/ i = n + 1
      OBVIOUS
    <3> QED
      BY <1>9, <2>1, <3>1
  <2>3. x = b
    BY <1>3, <2>1, <2>2, SeqEqual
  <2> QED
    BY <2>3 DEF x
<1>5. ASSUME NEW u \in Seq(S), IsPrefix(u, a) PROVE IsPrefix(u, b)
  <2>1. Len(u) <= Len(a) /\ \A i \in 1..Len(u) : u[i] = a[i]
    BY <1>2, <1>5, PrefixByPlace
  <2>2. Len(u) \in Nat /\ Len(u) <= n /\ \A i \in 1..Len(u) : i \in 1..n
    BY <1>2, <2>1
  <2>3. \A i \in 1..Len(u) : u[i] = b[i]
    BY <1>9, <2>1, <2>2
  <2>4. Len(u) <= Len(b)
    BY <1>3, <2>2
  <2> QED
    BY <1>3, <2>3, <2>4, PrefixByPlace
<1> QED
  BY <1>1, <1>2, <1>4, <1>5 DEF a, b, e
=============================================================================
