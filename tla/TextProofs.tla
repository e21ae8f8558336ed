---------------------------- MODULE TextProofs ------------------------------
(***************************************************************************)
(* UnicodeText, for any bytes, any font and texts of any length: TextIsSound.  *)
(*                                                                         *)
(* The state says nothing but that a text is bytes; the argument is about what *)
(* the operators return.  A text and its characters are related by where each  *)
(* character begins: Pieces says that they are the text, Cut that they are cut *)
(* where next says, and there is one way to do so (CutUnique).  So whatever is *)
(* shown to be cut rightly (a beginning of the text, characters that their     *)
(* first bytes complete, in any order) is what subs answers.  The loops of     *)
(* subs, wlen and wtrunc are recursive functions: that a function satisfies    *)
(* each recursion is StepsExist of SubsequenceProofs, and what it holds after  *)
(* n steps goes by induction on n.                                            *)
(***************************************************************************)
EXTENDS UnicodeText, SubsequenceProofs

Octet == 0..255

\* A sequence of sequences, joined, as far as the n-th of them.
Flat(f, cs) == f = [i \in 1..Len(cs) |-> IF i = 1 THEN cs[i] ELSE f[i - 1] \o cs[i]]

LEMMA FlatSteps ==
  ASSUME NEW U, NEW cs \in Seq(Seq(U))
  PROVE  \E f \in [0..Len(cs) -> Seq(U)] :
           /\ f[0] = <<>> /\ f[Len(cs)] = FlattenSeq(cs)
           /\ \A n \in 1..Len(cs) : f[n] = f[n - 1] \o cs[n]
<1> DEFINE V == Seq(U)
           N == Len(cs)
           F == [x \in Nat \X V |-> IF x[1] \in 1..N THEN x[2] \o cs[x[1]] ELSE x[2]]
<1>1. N \in Nat /\ \A n \in 1..N : cs[n] \in V
  OBVIOUS
<1>2. \A v, w \in V : v \o w \in V
  BY ConcatProperties
<1>3. <<>> \in V /\ \A v \in V : <<>> \o v = v
  <2>1. \A v \in V : <<>> \o v = v
    BY EmptySeq, ConcatProperties
  <2> QED
    BY <2>1
<1> HIDE DEF V, N
<1>4. F \in [Nat \X V -> V]
  <2>1. ASSUME NEW x \in Nat \X V PROVE (IF x[1] \in 1..N THEN x[2] \o cs[x[1]] ELSE x[2]) \in V
    BY <1>1, <1>2
  <2> QED
    BY <2>1
<1>5. \A n \in 1..N, v \in V : F[<<n, v>>] = v \o cs[n]
  <2> SUFFICES ASSUME NEW n \in 1..N, NEW v \in V PROVE F[<<n, v>>] = v \o cs[n]
    OBVIOUS
  <2>1. <<n, v>> \in Nat \X V
    BY <1>1
  <2> QED
    BY <2>1
<1> HIDE DEF F
<1>6. PICK g \in [0..N -> V] : Follows(g, <<>>, N, F)
  BY <1>1, <1>3, <1>4, StepsExist
<1>7. g[0] = <<>> /\ \A n \in 1..N : g[n] = F[<<n, g[n - 1]>>]
  BY <1>6 DEF Follows
<1>8. ASSUME NEW n \in 1..N PROVE g[n] = g[n - 1] \o cs[n]
  <2>1. n - 1 \in 0..N
    BY <1>1
  <2>2. g[n - 1] \in V
    BY <1>6, <2>1
  <2> QED
    BY <1>5, <1>7, <2>2
<1>9. CASE N = 0
  <2>1. FlattenSeq(cs) = <<>> /\ g[N] = <<>>
    BY <1>7, <1>9 DEF FlattenSeq, N
  <2> QED
    BY <1>6, <1>7, <1>8, <2>1 DEF V, N
<1>10. CASE N # 0
  <2>1. 1 \in 1..N /\ N \in 1..N
    BY <1>1, <1>10
  <2> DEFINE e == [i \in 1..N |-> g[i]]
  <2>2. ASSUME NEW i \in 1..N PROVE e[i] = IF i = 1 THEN cs[i] ELSE e[i - 1] \o cs[i]
    <3>1. CASE i = 1
      <4>1. g[1] = <<>> \o cs[1]
        <5>1. 1 - 1 = 0
          OBVIOUS
        <5> QED
          BY <1>7, <1>8, <2>1, <5>1
      <4> QED
        BY <1>1, <1>3, <2>1, <3>1, <4>1
    <3>2. CASE i # 1
      <4>1. i - 1 \in 1..N
        BY <1>1, <3>2
      <4> QED
        BY <1>8, <3>2, <4>1
    <3> QED
      BY <3>1, <3>2
  <2>3. Flat(e, cs)
    BY <2>2 DEF Flat, N
  <2> DEFINE f == CHOOSE f : Flat(f, cs)
  <2>4. Flat(f, cs)
    BY <2>3
  <2>5. FlattenSeq(cs) = f[N]
    BY <1>10 DEF FlattenSeq, Flat, N
  <2> HIDE DEF f, e
  <2>6. \A i \in 1..N : f[i] = IF i = 1 THEN cs[i] ELSE f[i - 1] \o cs[i]
    BY <2>4 DEF Flat, N
  <2> DEFINE Good == {n \in Nat : n \in 1..N => f[n] = g[n]}
  <2>7. 0 \in Good
    OBVIOUS
  <2>8. ASSUME NEW n \in Nat, n \in Good PROVE n + 1 \in Good
    <3>1. ASSUME n + 1 \in 1..N PROVE f[n + 1] = g[n + 1]
      <4>1. CASE n = 0
        <5>1. f[1] = cs[1] /\ g[1] = <<>> \o cs[1]
          <6>1. 1 - 1 = 0
            OBVIOUS
          <6> QED
            BY <1>7, <1>8, <2>1, <2>6, <6>1
        <5> QED
          BY <1>1, <1>3, <2>1, <4>1, <5>1
      <4>2. CASE n # 0
        <5>1. n \in 1..N /\ (n + 1) - 1 = n /\ n + 1 # 1
          BY <1>1, <3>1, <4>2
        <5>2. f[n] = g[n]
          BY <2>8, <5>1
        <5>3. f[n + 1] = f[n] \o cs[n + 1] /\ g[n + 1] = g[n] \o cs[n + 1]
          BY <1>8, <2>6, <3>1, <5>1
        <5> QED
          BY <5>2, <5>3
      <4> QED
        BY <4>1, <4>2
    <3> QED
      BY <3>1
  <2> HIDE DEF Good
  <2>9. N \in Good
    BY <1>1, <2>7, <2>8, SetInduction
  <2>10. f[N] = g[N]
    BY <2>1, <2>9 DEF Good
  <2> QED
    BY <1>6, <1>7, <1>8, <2>5, <2>10 DEF V, N
<1> QED
  BY <1>9, <1>10

\* What comes after what in a text.
LEMMA Glued ==
  ASSUME NEW S, NEW u \in Seq(S), NEW c \in Seq(S)
  PROVE  /\ u \o c \in Seq(S) /\ Len(u \o c) = Len(u) + Len(c)
         /\ \A x \in 1..Len(u) : (u \o c)[x] = u[x]
         /\ \A x \in 1..Len(c) : (u \o c)[Len(u) + x] = c[x]
<1>1. PICK l \in Nat, m \in Nat : l = Len(u) /\ m = Len(c)
  OBVIOUS
<1>2. /\ u \o c \in Seq(S) /\ Len(u \o c) = l + m
      /\ \A i \in 1..(l + m) : (u \o c)[i] = IF i <= l THEN u[i] ELSE c[i - l]
  BY <1>1, ConcatProperties, Zenon
<1>3. ASSUME NEW x \in 1..l PROVE (u \o c)[x] = u[x]
  <2>1. x \in 1..(l + m) /\ x <= l
    OBVIOUS
  <2> QED
    BY <1>2, <2>1
<1>4. ASSUME NEW x \in 1..m PROVE (u \o c)[l + x] = c[x]
  <2>1. l + x \in 1..(l + m) /\ ~(l + x <= l) /\ (l + x) - l = x
    OBVIOUS
  <2>2. (u \o c)[l + x] = c[(l + x) - l]
    BY <1>2, <2>1
  <2> QED
    BY <2>1, <2>2
<1> QED
  BY <1>1, <1>2, <1>3, <1>4, Zenon

\* The pieces of a text and where each of them begins.
Pieces(t, cs, s) ==
  /\ s \in [1..(Len(cs) + 1) -> Nat \ {0}] /\ s[1] = 1 /\ s[Len(cs) + 1] = Len(t) + 1
  /\ \A k \in 1..Len(cs) : /\ s[k + 1] = s[k] + Len(cs[k])
                           /\ \A x \in 1..Len(cs[k]) : cs[k][x] = t[s[k] + x - 1]

\* Those of a text are that text.
LEMMA FlattenPieces ==
  ASSUME NEW U, NEW t \in Seq(U), NEW cs \in Seq(Seq(U)), NEW s, Pieces(t, cs, s)
  PROVE  FlattenSeq(cs) = t
<1> DEFINE N == Len(cs)
<1>1. N \in Nat /\ Len(t) \in Nat /\ \A n \in 1..N : cs[n] \in Seq(U) /\ Len(cs[n]) \in Nat
  OBVIOUS
<1>2. PICK f \in [0..N -> Seq(U)] :
        f[0] = <<>> /\ f[N] = FlattenSeq(cs) /\ \A n \in 1..N : f[n] = f[n - 1] \o cs[n]
  BY FlatSteps
<1>3. /\ s \in [1..(N + 1) -> Nat \ {0}] /\ s[1] = 1 /\ s[N + 1] = Len(t) + 1
      /\ \A k \in 1..N : /\ s[k + 1] = s[k] + Len(cs[k])
                         /\ \A x \in 1..Len(cs[k]) : cs[k][x] = t[s[k] + x - 1]
  BY DEF Pieces
<1> HIDE DEF N
<1>a. ASSUME NEW n \in Nat, n + 1 <= N
      PROVE  n <= N /\ n + 1 \in 1..N /\ n \in 0..N /\ (n + 1) - 1 = n /\ n + 1 \in 1..(N + 1)
  BY <1>1, <1>a
<1> DEFINE Agrees(n) == Len(f[n]) = s[n + 1] - 1 /\ \A x \in 1..Len(f[n]) : f[n][x] = t[x]
           Good == {n \in Nat : n <= N => Agrees(n)}
<1>4. 0 \in Good
  BY <1>2, <1>3
<1>5. ASSUME NEW n \in Nat, n \in Good PROVE n + 1 \in Good
  <2>0. n + 1 \in Nat
    OBVIOUS
  <2> SUFFICES ASSUME n + 1 <= N PROVE Agrees(n + 1)
    BY <2>0, Zenon
  <2>1. n <= N /\ n + 1 \in 1..N /\ n \in 0..N /\ (n + 1) - 1 = n /\ n + 1 \in 1..(N + 1)
    BY <1>a, Zenon
  <2>2. PICK u \in Seq(U), c \in Seq(U) : u = f[n] /\ c = cs[n + 1]
    BY <1>1, <1>2, <2>1
  <2>3. Len(u) = s[n + 1] - 1 /\ \A x \in 1..Len(u) : u[x] = t[x]
    BY <1>5, <2>1, <2>2
  <2>4. f[n + 1] = u \o c
    BY <1>2, <2>1, <2>2
  <2>5. /\ Len(u \o c) = Len(u) + Len(c)
        /\ \A x \in 1..Len(u) : (u \o c)[x] = u[x]
        /\ \A x \in 1..Len(c) : (u \o c)[Len(u) + x] = c[x]
    BY Glued
  <2>6. PICK l \in Nat, m \in Nat, b \in Nat : l = Len(u) /\ m = Len(c) /\ b = s[n + 1]
    <3>1. Len(u) \in Nat /\ Len(c) \in Nat
      OBVIOUS
    <3>2. s[n + 1] \in Nat
      BY <1>3, <2>1
    <3> QED
      BY <3>1, <3>2
  <2>7. s[(n + 1) + 1] = b + m /\ (\A x \in 1..m : c[x] = t[b + x - 1]) /\ l = b - 1
    BY <1>3, <2>1, <2>2, <2>3, <2>6
  <2>8. Len(u \o c) = l + m /\ Len(u \o c) = s[(n + 1) + 1] - 1
    BY <2>5, <2>6, <2>7
  <2>9. ASSUME NEW x \in 1..(l + m) PROVE (u \o c)[x] = t[x]
    <3>1. CASE x <= l
      <4>1. x \in 1..Len(u)
        BY <2>6, <3>1
      <4> QED
        BY <2>3, <2>5, <4>1
    <3>2. CASE x > l
      <4>1. PICK y \in 1..m : x = l + y
        <5>1. x - l \in 1..m /\ x = l + (x - l)
          BY <3>2
        <5> QED
          BY <5>1
      <4>2. (u \o c)[x] = c[y]
        BY <2>5, <2>6, <4>1
      <4>3. x = b + y - 1
        BY <2>7, <4>1
      <4> QED
        BY <2>7, <4>2, <4>3
    <3>3. x <= l \/ x > l
      OBVIOUS
    <3> QED
      BY <3>1, <3>2, <3>3
  <2> QED
    BY <2>4, <2>8, <2>9
<1> HIDE DEF Good
<1>6. N \in Good
  BY <1>1, <1>4, <1>5, SetInduction
<1>7. Len(f[N]) = Len(t) /\ \A x \in 1..Len(t) : f[N][x] = t[x]
  BY <1>1, <1>3, <1>6 DEF Good
<1>8. f[N] \in Seq(U)
  BY <1>1, <1>2
<1>9. f[N] = t
  BY <1>7, <1>8, SeqEqual
<1> QED
  BY <1>2, <1>9

\* Any pieces are those of what they make together.
LEMMA FlattenHasPieces ==
  ASSUME NEW U, NEW cs \in Seq(Seq(U))
  PROVE  FlattenSeq(cs) \in Seq(U) /\ \E s : Pieces(FlattenSeq(cs), cs, s)
<1> DEFINE N == Len(cs)
<1>1. N \in Nat /\ \A n \in 1..N : cs[n] \in Seq(U) /\ Len(cs[n]) \in Nat
  OBVIOUS
<1>2. PICK f \in [0..N -> Seq(U)] :
        f[0] = <<>> /\ f[N] = FlattenSeq(cs) /\ \A n \in 1..N : f[n] = f[n - 1] \o cs[n]
  BY FlatSteps
<1> HIDE DEF N
<1>a. \A n \in 0..N : f[n] \in Seq(U) /\ Len(f[n]) \in Nat
  BY <1>2
<1> DEFINE s == [k \in 1..(N + 1) |-> Len(f[k - 1]) + 1]
<1>3. \A k \in 1..(N + 1) : k - 1 \in 0..N /\ s[k] = Len(f[k - 1]) + 1
  BY <1>1
<1>4. s \in [1..(N + 1) -> Nat \ {0}]
  <2>1. \A k \in 1..(N + 1) : Len(f[k - 1]) + 1 \in Nat \ {0}
    BY <1>3, <1>a
  <2> QED
    BY <2>1
<1>5. s[1] = 1 /\ s[N + 1] = Len(FlattenSeq(cs)) + 1
  <2>1. 1 \in 1..(N + 1) /\ N + 1 \in 1..(N + 1) /\ 1 - 1 = 0 /\ (N + 1) - 1 = N
    BY <1>1
  <2>2. s[1] = Len(f[0]) + 1 /\ s[N + 1] = Len(f[N]) + 1
    <3> HIDE DEF s
    <3> QED
      BY <1>3, <2>1
  <2>3. Len(<<>>) = 0
    OBVIOUS
  <2> HIDE DEF s
  <2> QED
    BY <1>2, <2>2, <2>3
<1> HIDE DEF s
<1>6. ASSUME NEW k \in 1..N
      PROVE  /\ Len(f[k]) = Len(f[k - 1]) + Len(cs[k])
             /\ \A x \in 1..Len(f[k - 1]) : f[k][x] = f[k - 1][x]
             /\ \A x \in 1..Len(cs[k]) : f[k][Len(f[k - 1]) + x] = cs[k][x]
  <2>1. k - 1 \in 0..N /\ k \in 0..N
    BY <1>1
  <2>2. PICK u \in Seq(U), c \in Seq(U) : u = f[k - 1] /\ c = cs[k] /\ f[k] = u \o c
    BY <1>1, <1>2, <2>1
  <2>3. /\ Len(u \o c) = Len(u) + Len(c)
        /\ \A x \in 1..Len(u) : (u \o c)[x] = u[x]
        /\ \A x \in 1..Len(c) : (u \o c)[Len(u) + x] = c[x]
    BY Glued
  <2> QED
    BY <2>2, <2>3
\* What was joined stays where it is.
<1>7. ASSUME NEW k \in 0..N
      PROVE  Len(f[k]) <= Len(f[N]) /\ \A x \in 1..Len(f[k]) : f[N][x] = f[k][x]
  <2> DEFINE Begin(d) == Len(f[k]) <= Len(f[k + d]) /\ \A x \in 1..Len(f[k]) : f[k + d][x] = f[k][x]
             Good == {d \in Nat : k + d <= N => Begin(d)}
  <2>1. 0 \in Good
    <3>1. k + 0 = k /\ Len(f[k]) \in Nat
      BY <1>a
    <3> QED
      BY <3>1
  <2>2. ASSUME NEW d \in Nat, d \in Good PROVE d + 1 \in Good
    <3> SUFFICES ASSUME k + (d + 1) <= N PROVE Begin(d + 1)
      OBVIOUS
    <3>1. k + d <= N /\ k + (d + 1) \in 1..N /\ (k + (d + 1)) - 1 = k + d /\ k + d \in 0..N
      BY <1>1
    <3>2. Begin(d)
      BY <2>2, <3>1
    <3>3. PICK l \in Nat, m \in Nat, n \in Nat, o \in Nat :
            l = Len(f[k]) /\ m = Len(f[k + d]) /\ n = Len(f[k + (d + 1)]) /\ o = Len(cs[k + (d + 1)])
      <4>1. k + (d + 1) \in 0..N
        BY <3>1
      <4> QED
        BY <1>1, <1>a, <3>1, <4>1
    <3>4. n = m + o /\ \A x \in 1..m : f[k + (d + 1)][x] = f[k + d][x]
      <4>1. PICK b \in 1..N : b = k + (d + 1) /\ b - 1 = k + d
        BY <3>1
      <4>2. Len(f[b]) = Len(f[b - 1]) + Len(cs[b]) /\ \A x \in 1..Len(f[b - 1]) : f[b][x] = f[b - 1][x]
        BY <1>6
      <4> QED
        BY <3>3, <4>1, <4>2
    <3>5. l <= m /\ \A x \in 1..l : f[k + d][x] = f[k][x]
      BY <3>2, <3>3
    <3>6. ASSUME NEW x \in 1..l PROVE f[k + (d + 1)][x] = f[k][x]
      <4>1. x \in 1..m
        BY <3>5
      <4> QED
        BY <3>4, <3>5, <4>1
    <3>7. l <= n
      BY <3>4, <3>5
    <3> QED
      BY <3>3, <3>6, <3>7
  <2> HIDE DEF Good
  <2>3. N - k \in Nat /\ k + (N - k) = N
    BY <1>1
  <2>4. N - k \in Good
    BY <2>1, <2>2, <2>3, SetInduction
  <2> QED
    BY <1>1, <2>3, <2>4 DEF Good
<1>8. ASSUME NEW k \in 1..N
      PROVE  s[k + 1] = s[k] + Len(cs[k]) /\ \A x \in 1..Len(cs[k]) : cs[k][x] = f[N][s[k] + x - 1]
  <2>1. k \in 1..(N + 1) /\ k + 1 \in 1..(N + 1) /\ (k + 1) - 1 = k /\ k - 1 \in 0..N /\ k \in 0..N
    BY <1>1
  <2>2. PICK l \in Nat, m \in Nat, n \in Nat : l = Len(f[k - 1]) /\ m = Len(cs[k]) /\ n = Len(f[k])
    BY <1>1, <1>a, <2>1
  <2>3. s[k] = l + 1 /\ s[k + 1] = n + 1 /\ n = l + m
    BY <1>3, <1>6, <2>1, <2>2
  <2>4. ASSUME NEW x \in 1..m PROVE cs[k][x] = f[N][s[k] + x - 1]
    <3>1. l + x \in 1..n /\ s[k] + x - 1 = l + x
      BY <2>3
    <3>2. f[k][l + x] = cs[k][x]
      BY <1>6, <2>2
    <3>3. f[N][l + x] = f[k][l + x]
      BY <1>7, <2>1, <2>2, <3>1
    <3> QED
      BY <3>1, <3>2, <3>3
  <2>5. s[k + 1] = s[k] + m
    BY <2>3
  <2> QED
    BY <2>2, <2>4, <2>5
<1>9. f[N] \in Seq(U)
  BY <1>1, <1>a
<1>10. Pieces(FlattenSeq(cs), cs, s)
  BY <1>2, <1>4, <1>5, <1>8 DEF Pieces, N
<1> QED
  BY <1>2, <1>9, <1>10

\* Pieces come one after the other.
LEMMA PiecesOrder ==
  ASSUME NEW U, NEW t \in Seq(U), NEW cs \in Seq(Seq(U)), NEW s, Pieces(t, cs, s),
         NEW i \in 1..(Len(cs) + 1), NEW j \in 1..(Len(cs) + 1), i <= j
  PROVE  s[i] <= s[j]
<1> DEFINE N == Len(cs)
<1>1. /\ N \in Nat /\ s \in [1..(N + 1) -> Nat \ {0}]
      /\ \A k \in 1..N : s[k + 1] = s[k] + Len(cs[k]) /\ Len(cs[k]) \in Nat
  BY DEF Pieces
<1> HIDE DEF N
<1> DEFINE Good == {d \in Nat : i + d <= N + 1 => s[i] <= s[i + d]}
<1>0. i \in 1..(N + 1) /\ j \in 1..(N + 1)
  BY DEF N
<1>2. 0 \in Good
  <2>1. s[i] \in Nat /\ i + 0 = i
    BY <1>0, <1>1
  <2> QED
    BY <2>1
<1>3. ASSUME NEW d \in Nat, d \in Good PROVE d + 1 \in Good
  <2> SUFFICES ASSUME i + (d + 1) <= N + 1 PROVE s[i] <= s[i + (d + 1)]
    OBVIOUS
  <2>1. i + d <= N + 1 /\ i + d \in 1..N /\ i + (d + 1) = (i + d) + 1 /\ i + d \in 1..(N + 1)
    BY <1>0, <1>1
  <2>2. s[i] <= s[i + d]
    BY <1>3, <2>1
  <2>3. PICK a \in Nat, b \in Nat, l \in Nat : a = s[i] /\ b = s[i + d] /\ l = Len(cs[i + d])
    BY <1>0, <1>1, <2>1
  <2>4. s[i + (d + 1)] = b + l
    BY <1>1, <2>1, <2>3
  <2>5. a <= b
    BY <2>2, <2>3, Zenon
  <2>6. a <= b + l
    BY <2>5
  <2> QED
    BY <2>3, <2>4, <2>6, Zenon
<1> HIDE DEF Good
<1>4. j - i \in Nat /\ i + (j - i) = j
  BY <1>0
<1>5. j - i \in Good
  BY <1>2, <1>3, <1>4, SetInduction
<1> QED
  BY <1>0, <1>4, <1>5 DEF Good

\* A part of a sequence.
LEMMA CutOut ==
  ASSUME NEW S, NEW s \in Seq(S), NEW i \in 1..(Len(s) + 1), NEW j \in (i - 1)..Len(s)
  PROVE  /\ SubSeq(s, i, j) \in Seq(S) /\ Len(SubSeq(s, i, j)) = j - i + 1
         /\ \A k \in 1..(j - i + 1) : SubSeq(s, i, j)[k] = s[i + k - 1]
<1>1. i \in Int /\ j \in Int /\ (IF i <= j THEN j - i + 1 ELSE 0) = j - i + 1
  OBVIOUS
<1>2. \A k \in i..j : s[k] \in S
  OBVIOUS
<1>3. /\ SubSeq(s, i, j) \in Seq(S) /\ Len(SubSeq(s, i, j)) = IF i <= j THEN j - i + 1 ELSE 0
      /\ \A k \in 1..(j - i + 1) : SubSeq(s, i, j)[k] = s[i + k - 1]
  BY <1>1, <1>2, SubSeqProperties
<1> QED
  BY <1>1, <1>3, Zenon

\* A part of a text, from b to before e.
PartIs(t, b, e) ==
  /\ SubSeq(t, b, e - 1) \in Seq(Octet) /\ Len(SubSeq(t, b, e - 1)) = e - b
  /\ \A x \in 1..(e - b) : SubSeq(t, b, e - 1)[x] = t[b + x - 1]

LEMMA PartOfText ==
  ASSUME NEW t \in Seq(Octet), NEW b \in 1..(Len(t) + 1), NEW e \in b..(Len(t) + 1)
  PROVE  PartIs(t, b, e)
<1>1. b \in 1..(Len(t) + 1) /\ e - 1 \in (b - 1)..Len(t)
  OBVIOUS
<1>2. /\ SubSeq(t, b, e - 1) \in Seq(Octet) /\ Len(SubSeq(t, b, e - 1)) = (e - 1) - b + 1
      /\ \A x \in 1..((e - 1) - b + 1) : SubSeq(t, b, e - 1)[x] = t[b + x - 1]
  BY <1>1, CutOut, Zenon
<1>3. (e - 1) - b + 1 = e - b
  OBVIOUS
<1> QED
  BY <1>2, <1>3 DEF PartIs

\* Some of the pieces are those of that part of the text.
PartOf(t, cs, s, i, j) ==
  /\ SubSeq(cs, i, j) \in Seq(Seq(Octet)) /\ Len(SubSeq(cs, i, j)) = j - i + 1
  /\ \A k \in 1..(j - i + 1) : SubSeq(cs, i, j)[k] = cs[i + k - 1]
  /\ SubSeq(t, s[i], s[j + 1] - 1) \in Seq(Octet) /\ Len(SubSeq(t, s[i], s[j + 1] - 1)) = s[j + 1] - s[i]
  /\ \A x \in 1..(s[j + 1] - s[i]) : SubSeq(t, s[i], s[j + 1] - 1)[x] = t[s[i] + x - 1]
  /\ Pieces(SubSeq(t, s[i], s[j + 1] - 1), SubSeq(cs, i, j), [k \in 1..(j - i + 2) |-> s[i + k - 1] - s[i] + 1])
  /\ FlattenSeq(SubSeq(cs, i, j)) = SubSeq(t, s[i], s[j + 1] - 1)

LEMMA PiecesPart ==
  ASSUME NEW t \in Seq(Octet), NEW cs \in Seq(Seq(Octet)), NEW s, Pieces(t, cs, s),
         NEW i \in 1..(Len(cs) + 1), NEW j \in 0..Len(cs), i <= j + 1
  PROVE  PartOf(t, cs, s, i, j)
<1> DEFINE N == Len(cs)
           ds == SubSeq(cs, i, j)
           r == [k \in 1..(j - i + 2) |-> s[i + k - 1] - s[i] + 1]
<1>1. /\ N \in Nat /\ s \in [1..(N + 1) -> Nat \ {0}] /\ s[N + 1] = Len(t) + 1
      /\ \A k \in 1..N : /\ s[k + 1] = s[k] + Len(cs[k])
                         /\ \A x \in 1..Len(cs[k]) : cs[k][x] = t[s[k] + x - 1]
      /\ i \in 1..(N + 1) /\ j \in 0..N /\ j + 1 \in 1..(N + 1)
  <2>1. N \in Nat /\ i \in 1..(N + 1) /\ j \in 0..N /\ j + 1 \in 1..(N + 1)
    OBVIOUS
  <2>2. /\ s \in [1..(N + 1) -> Nat \ {0}] /\ s[N + 1] = Len(t) + 1
        /\ \A k \in 1..N : /\ s[k + 1] = s[k] + Len(cs[k])
                           /\ \A x \in 1..Len(cs[k]) : cs[k][x] = t[s[k] + x - 1]
    BY DEF Pieces
  <2> QED
    BY <2>1, <2>2
<1>0. \A k \in 1..N : cs[k] \in Seq(Octet) /\ Len(cs[k]) \in Nat
  OBVIOUS
<1>2. ds \in Seq(Seq(Octet)) /\ Len(ds) = j - i + 1 /\ \A k \in 1..(j - i + 1) : ds[k] = cs[i + k - 1]
  <2>1. i \in 1..(Len(cs) + 1) /\ j \in (i - 1)..Len(cs)
    OBVIOUS
  <2> QED
    BY <2>1, CutOut, Zenon
<1>3. PICK a \in Nat \ {0}, b \in Nat \ {0} : a = s[i] /\ b = s[j + 1]
  BY <1>1
<1>o. \A k \in 1..(N + 1), l \in 1..(N + 1) : k <= l => s[k] <= s[l]
  BY PiecesOrder
<1>4. a <= b /\ b <= Len(t) + 1 /\ \A k \in i..(j + 1) : a <= s[k] /\ s[k] <= b
  <2>1. N + 1 \in 1..(N + 1) /\ \A k \in i..(j + 1) : k \in 1..(N + 1)
    BY <1>1
  <2>2. a <= b
    BY <1>1, <1>3, <1>o
  <2>3. b <= Len(t) + 1
    BY <1>1, <1>3, <1>o, <2>1
  <2> HIDE DEF N
  <2>4. ASSUME NEW k \in i..(j + 1) PROVE a <= s[k] /\ s[k] <= b
    <3>1. k \in 1..(N + 1) /\ i <= k /\ k <= j + 1
      BY <2>1
    <3>2. s[i] <= s[k] /\ s[k] <= s[j + 1]
      BY <1>1, <1>o, <3>1
    <3> QED
      BY <1>3, <3>2, Zenon
  <2> QED
    BY <2>2, <2>3, <2>4, Zenon
<1> DEFINE u == SubSeq(t, a, b - 1)
<1>5. u \in Seq(Octet) /\ Len(u) = b - a /\ \A x \in 1..(b - a) : u[x] = t[a + x - 1]
  <2>0. a <= b /\ b <= Len(t) + 1
    BY <1>4, Zenon
  <2>1. a \in 1..(Len(t) + 1) /\ b \in a..(Len(t) + 1)
    BY <2>0
  <2>2. PartIs(t, a, b)
    BY <2>1, PartOfText, Zenon
  <2> QED
    BY <2>2, Zenon DEF PartIs
<1> HIDE DEF ds, u, N
<1>6. \A k \in 1..(j - i + 2) : i + k - 1 \in i..(j + 1) /\ i + k - 1 \in 1..(N + 1) /\ r[k] = s[i + k - 1] - a + 1
  BY <1>1, <1>3
<1>7. r \in [1..(j - i + 2) -> Nat \ {0}]
  <2>1. ASSUME NEW k \in 1..(j - i + 2) PROVE s[i + k - 1] - s[i] + 1 \in Nat \ {0}
    <3>1. PICK c \in Nat : c = s[i + k - 1] /\ a <= c
      BY <1>1, <1>4, <1>6
    <3>2. c - a + 1 \in Nat \ {0}
      BY <3>1
    <3> QED
      BY <1>3, <3>1, <3>2
  <2> QED
    BY <2>1
<1> HIDE DEF r
<1>8. Len(ds) + 1 = j - i + 2 /\ r[1] = 1 /\ r[Len(ds) + 1] = Len(u) + 1
  <2>1. Len(ds) + 1 = j - i + 2 /\ 1 \in 1..(j - i + 2) /\ j - i + 2 \in 1..(j - i + 2)
    BY <1>1, <1>2
  <2>2. i + 1 - 1 = i /\ i + (j - i + 2) - 1 = j + 1
    BY <1>1
  <2>3. r[1] = s[i] - a + 1 /\ r[j - i + 2] = s[j + 1] - a + 1
    BY <1>6, <2>1, <2>2
  <2>4. a - a + 1 = 1 /\ b - a + 1 = Len(u) + 1
    BY <1>5
  <2> QED
    BY <1>3, <2>1, <2>3, <2>4
<1>9. ASSUME NEW k \in 1..Len(ds)
      PROVE  r[k + 1] = r[k] + Len(ds[k]) /\ \A x \in 1..Len(ds[k]) : ds[k][x] = u[r[k] + x - 1]
  <2>1. PICK m \in 1..N : m = i + k - 1 /\ m + 1 = i + (k + 1) - 1
    BY <1>1, <1>2
  <2>2. k \in 1..(j - i + 1) /\ k \in 1..(j - i + 2) /\ k + 1 \in 1..(j - i + 2) /\ m \in i..(j + 1) /\ m + 1 \in i..(j + 1)
    BY <1>1, <1>2, <2>1
  <2>3. PICK c \in Nat, d \in Nat, l \in Nat : c = s[m] /\ d = s[m + 1] /\ l = Len(cs[m])
    <3>1. m \in 1..(N + 1) /\ m + 1 \in 1..(N + 1)
      BY <1>1
    <3> QED
      BY <1>0, <1>1, <3>1 DEF N
  <2>4. ds[k] = cs[m] /\ r[k] = c - a + 1 /\ r[k + 1] = d - a + 1
    BY <1>2, <1>6, <2>1, <2>2, <2>3
  <2>5. d = c + l /\ a <= c /\ d <= b
    BY <1>1, <1>4, <2>2, <2>3
  <2>6. ASSUME NEW x \in 1..l PROVE ds[k][x] = u[r[k] + x - 1]
    <3> DEFINE y == c - a + x
    <3>1. y = r[k] + x - 1 /\ y \in Nat
      <4>1. PICK e \in Int : e = c - a + 1
        OBVIOUS
      <4>2. e + x - 1 = c - a + x /\ c - a + x \in Nat
        BY <2>5, <4>1
      <4> QED
        BY <2>4, <4>1, <4>2
    <3>2. y \in 1..(b - a) /\ a + y - 1 = c + x - 1
      <4>1. x >= 1 /\ x <= l /\ x \in Nat
        OBVIOUS
      <4> QED
        BY <2>5, <4>1
    <3> HIDE DEF y
    <3>3. u[y] = t[c + x - 1]
      BY <1>5, <3>2
    <3>4. cs[m][x] = t[c + x - 1]
      BY <1>1, <2>3
    <3> QED
      BY <2>4, <3>1, <3>3, <3>4
  <2>7. r[k + 1] = r[k] + l
    BY <2>4, <2>5
  <2> QED
    BY <2>3, <2>4, <2>6, <2>7
<1>10. Pieces(u, ds, r)
  <2>1. r \in [1..(Len(ds) + 1) -> Nat \ {0}]
    BY <1>7, <1>8
  <2> QED
    BY <1>8, <1>9, <2>1 DEF Pieces
<1>11. FlattenSeq(ds) = u
  BY <1>2, <1>5, <1>10, FlattenPieces
<1> QED
  BY <1>2, <1>3, <1>5, <1>10, <1>11 DEF PartOf, ds, u, r

\* How many bytes a character has that begins with c; none if none begins so.
Bytes(c) == CASE c <= 128 -> 1 [] c > 192 /\ c <= 224 -> 2 [] c > 224 /\ c <= 240 -> 3
              [] c > 240 /\ c <= 248 -> 4 [] c > 248 /\ c <= 252 -> 5 [] OTHER -> 0

LEMMA NextIs ==
  ASSUME NEW t \in Seq(Octet), NEW a \in 1..Len(t)
  PROVE  /\ t[a] \in Octet /\ Bytes(t[a]) \in 0..5
         /\ next(t, a) = IF Bytes(t[a]) # 0 /\ a + Bytes(t[a]) <= Len(t) THEN a + Bytes(t[a]) ELSE Len(t) + 1
         /\ next(t, a) \in (a + 1)..(Len(t) + 1)
<1>1. PICK c \in Octet, n \in Nat : c = t[a] /\ n = Len(t)
  OBVIOUS
<1>2. Bytes(c) \in 0..5
  BY DEF Bytes, Octet
<1>3. PICK w \in 0..5 : w = Bytes(c)
  BY <1>2
<1>4. next(t, a) = IF w # 0 /\ a + w <= n THEN a + w ELSE n + 1
  <2>1. CASE w = 0
    <3>1. ~(c <= 128) /\ ~(c > 192 /\ c <= 224) /\ ~(c > 224 /\ c <= 240) /\ ~(c > 240 /\ c <= 248) /\ ~(c > 248 /\ c <= 252)
      BY <1>3, <2>1 DEF Bytes
    <3>2. next(t, a) = IF a + n <= n THEN a + n ELSE n + 1
      BY <1>1, <3>1 DEF next
    <3> QED
      BY <1>1, <2>1, <3>2
  <2>2. CASE w # 0
    <3>1. next(t, a) = IF a + w <= n THEN a + w ELSE n + 1
      BY <1>1, <1>3, <2>2 DEF next, Bytes
    <3> QED
      BY <2>2, <3>1
  <2> QED
    BY <2>1, <2>2
<1>5. next(t, a) \in (a + 1)..(n + 1)
  BY <1>1, <1>4
<1> QED
  BY <1>1, <1>3, <1>4, <1>5

\* The characters up to a byte, and where each of them begins.
Upto(t, cs, e, s) ==
  /\ s \in [1..(Len(cs) + 1) -> Nat \ {0}] /\ s[1] = 1 /\ s[Len(cs) + 1] = e
  /\ \A k \in 1..Len(cs) : /\ s[k] <= Len(t) /\ s[k + 1] = next(t, s[k])
                           /\ cs[k] = SubSeq(t, s[k], s[k + 1] - 1)

LEMMA UptoStep ==
  ASSUME NEW t \in Seq(Octet), NEW cs \in Seq(Seq(Octet)), NEW e \in 1..Len(t), NEW s, Upto(t, cs, e, s)
  PROVE  /\ Append(cs, SubSeq(t, e, next(t, e) - 1)) \in Seq(Seq(Octet)) /\ next(t, e) \in 1..(Len(t) + 1)
         /\ \E r : Upto(t, Append(cs, SubSeq(t, e, next(t, e) - 1)), next(t, e), r)
<1>1. PICK n \in Nat, N \in Nat : n = next(t, e) /\ n \in (e + 1)..(Len(t) + 1) /\ N = Len(cs)
  BY NextIs
<1>2. PICK c : c = SubSeq(t, e, n - 1)
  OBVIOUS
<1>3. c \in Seq(Octet)
  <2>1. \A i \in e..(n - 1) : t[i] \in Octet
    BY <1>1
  <2> QED
    BY <1>1, <1>2, <2>1, SubSeqProperties
<1>4. PICK ds : ds = Append(cs, c)
  OBVIOUS
<1>5. ds \in Seq(Seq(Octet)) /\ Len(ds) = N + 1 /\ ds[N + 1] = c /\ \A k \in 1..N : ds[k] = cs[k]
  BY <1>1, <1>3, <1>4, AppendProperties
<1> DEFINE r == [k \in 1..(N + 2) |-> IF k = N + 2 THEN n ELSE s[k]]
<1>6. /\ s \in [1..(N + 1) -> Nat \ {0}] /\ s[1] = 1 /\ s[N + 1] = e
      /\ \A k \in 1..N : s[k] <= Len(t) /\ s[k + 1] = next(t, s[k]) /\ cs[k] = SubSeq(t, s[k], s[k + 1] - 1)
  BY <1>1 DEF Upto
<1>7. r \in [1..(N + 2) -> Nat \ {0}] /\ r[N + 2] = n /\ \A k \in 1..(N + 1) : r[k] = s[k]
  BY <1>1, <1>6
<1> HIDE DEF r
<1>8. ASSUME NEW k \in 1..(N + 1)
      PROVE  r[k] <= Len(t) /\ r[k + 1] = next(t, r[k]) /\ ds[k] = SubSeq(t, r[k], r[k + 1] - 1)
  <2>1. CASE k = N + 1
    <3>1. k + 1 = N + 2 /\ r[k] = e /\ r[k + 1] = n
      BY <1>6, <1>7, <2>1
    <3>2. e <= Len(t) /\ n = next(t, e)
      BY <1>1
    <3>3. ds[k] = SubSeq(t, e, n - 1)
      BY <1>2, <1>5, <2>1
    <3> QED
      BY <3>1, <3>2, <3>3
  <2>2. CASE k \in 1..N
    <3>1. k + 1 \in 1..(N + 1)
      BY <2>2
    <3> QED
      BY <1>5, <1>6, <1>7, <2>2, <3>1
  <2> QED
    BY <2>1, <2>2
<1>9. Upto(t, ds, n, r)
  <2>1. Len(ds) + 1 = N + 2 /\ 1 \in 1..(N + 1)
    BY <1>5
  <2>2. r[1] = 1
    BY <1>6, <1>7, <2>1
  <2> QED
    BY <1>5, <1>7, <1>8, <2>1, <2>2 DEF Upto
<1>10. n \in 1..(Len(t) + 1)
  BY <1>1
<1>11. ds = Append(cs, SubSeq(t, e, next(t, e) - 1)) /\ n = next(t, e)
  BY <1>1, <1>2, <1>4, Zenon
<1> QED
  BY <1>5, <1>9, <1>10, <1>11, Zenon

\* The steps of the iterator.
CutOne(t, r) ==
  IF r.start > Len(t) THEN r
  ELSE [start |-> next(t, r.start), all |-> Append(r.all, SubSeq(t, r.start, next(t, r.start) - 1))]
Cutting(f, t) ==
  f = [n \in 0..Len(t) |-> IF n = 0 THEN [start |-> 1, all |-> <<>>] ELSE CutOne(t, f[n - 1])]

\* What it has after n of them.
CutStates(t) == [start : 1..(Len(t) + 1), all : Seq(Seq(Octet))]
IsCut(t, r, n) ==
  r \in CutStates(t) /\ (r.start = Len(t) + 1 \/ r.start > n) /\ \E s : Upto(t, r.all, r.start, s)

LEMMA CutOneKeeps ==
  ASSUME NEW t \in Seq(Octet), NEW n \in Nat, NEW r, IsCut(t, r, n)
  PROVE  IsCut(t, CutOne(t, r), n + 1)
<1>1. r \in CutStates(t) /\ (r.start = Len(t) + 1 \/ r.start > n) /\ \E s : Upto(t, r.all, r.start, s)
  BY DEF IsCut
<1>2. PICK e \in 1..(Len(t) + 1), cs \in Seq(Seq(Octet)) : e = r.start /\ cs = r.all
  BY <1>1 DEF CutStates
<1>3. CASE e > Len(t)
  <2>1. CutOne(t, r) = r /\ r.start = Len(t) + 1
    BY <1>2, <1>3 DEF CutOne
  <2> QED
    BY <1>1, <2>1 DEF IsCut
<1>4. CASE e <= Len(t)
  <2>1. PICK s : Upto(t, cs, e, s)
    BY <1>1, <1>2
  <2>2. e \in 1..Len(t)
    BY <1>4
  <2>3. PICK ds : ds = Append(cs, SubSeq(t, e, next(t, e) - 1))
    OBVIOUS
  <2>4. ds \in Seq(Seq(Octet)) /\ next(t, e) \in 1..(Len(t) + 1) /\ \E q : Upto(t, ds, next(t, e), q)
    BY <2>1, <2>2, <2>3, UptoStep
  <2>5. CutOne(t, r) = [start |-> next(t, e), all |-> ds]
    <3>1. ~(r.start > Len(t))
      BY <1>2, <1>4
    <3> QED
      BY <1>2, <2>3, <3>1 DEF CutOne
  <2>6. CutOne(t, r).start = next(t, e) /\ CutOne(t, r).all = ds /\ CutOne(t, r) \in CutStates(t)
    BY <2>4, <2>5 DEF CutStates
  <2>7. next(t, e) > n + 1
    <3>1. next(t, e) \in (e + 1)..(Len(t) + 1) /\ e > n
      BY <1>1, <1>2, <2>2, NextIs
    <3> QED
      BY <3>1
  <2> QED
    BY <2>4, <2>6, <2>7 DEF IsCut
<1> QED
  BY <1>2, <1>3, <1>4

\* A text is cut at the bytes that next gives, and all of it.
Cut(t, cs, s) ==
  Pieces(t, cs, s) /\ \A k \in 1..Len(cs) : s[k] <= Len(t) /\ s[k + 1] = next(t, s[k])

LEMMA SubsIs ==
  ASSUME NEW t \in Seq(Octet)
  PROVE  subs(t) \in Seq(Seq(Octet)) /\ \E s : Cut(t, subs(t), s)
<1> DEFINE N == Len(t)
           V == CutStates(t)
           a == [start |-> 1, all |-> <<>>]
           F == [x \in Nat \X V |-> CutOne(t, x[2])]
<1>0. N \in Nat
  OBVIOUS
<1>1. IsCut(t, a, 0)
  <2>1. a \in CutStates(t) /\ a.start = 1 /\ a.all = <<>>
    BY DEF CutStates
  <2>2. Upto(t, <<>>, 1, [k \in 1..1 |-> 1])
    BY DEF Upto
  <2> HIDE DEF a
  <2> QED
    BY <2>1, <2>2 DEF IsCut
<1>2. ASSUME NEW r \in V PROVE CutOne(t, r) \in V
  <2>1. PICK e \in 1..(Len(t) + 1), cs \in Seq(Seq(Octet)) : e = r.start /\ cs = r.all
    BY DEF CutStates
  <2>2. CASE e > Len(t)
    BY <2>1, <2>2 DEF CutOne
  <2>3. CASE e <= Len(t)
    <3>1. e \in 1..Len(t)
      BY <2>3
    <3>2. PICK n \in Nat : n = next(t, e) /\ n \in (e + 1)..(Len(t) + 1)
      BY <3>1, NextIs
    <3>3. SubSeq(t, e, n - 1) \in Seq(Octet)
      <4>1. \A i \in e..(n - 1) : t[i] \in Octet
        BY <3>1, <3>2
      <4> QED
        BY <3>2, <4>1, SubSeqProperties
    <3>4. PICK c \in Seq(Octet) : c = SubSeq(t, e, n - 1)
      BY <3>3
    <3>5. Append(cs, c) \in Seq(Seq(Octet))
      BY AppendProperties
    <3>6. CutOne(t, r) = [start |-> n, all |-> Append(cs, c)]
      <4>1. ~(r.start > Len(t))
        BY <2>1, <2>3
      <4> QED
        BY <2>1, <3>2, <3>4, <4>1 DEF CutOne
    <3>7. n \in 1..(Len(t) + 1)
      BY <3>2
    <3> QED
      BY <3>5, <3>6, <3>7 DEF CutStates
  <2> QED
    BY <2>1, <2>2, <2>3
<1>3. a \in V
  BY <1>1 DEF IsCut
<1> HIDE DEF V, a, N
<1>4. F \in [Nat \X V -> V] /\ \A n \in Nat, v \in V : F[<<n, v>>] = CutOne(t, v)
  BY <1>2
<1> HIDE DEF F
<1>5. PICK g \in [0..N -> V] : Follows(g, a, N, F)
  BY <1>0, <1>3, <1>4, StepsExist
<1>6. g[0] = a /\ \A n \in 1..N : g[n] = F[<<n, g[n - 1]>>]
  BY <1>5 DEF Follows
<1>7. ASSUME NEW n \in 1..N PROVE g[n] = CutOne(t, g[n - 1])
  <2>1. n - 1 \in 0..N /\ n \in Nat
    BY <1>0
  <2>2. g[n - 1] \in V
    BY <1>5, <2>1
  <2> QED
    BY <1>4, <1>6, <2>1, <2>2
<1>8. Cutting(g, t)
  <2>1. ASSUME NEW n \in 0..N PROVE g[n] = IF n = 0 THEN a ELSE CutOne(t, g[n - 1])
    <3>1. n = 0 \/ n \in 1..N
      BY <1>0
    <3> QED
      BY <1>6, <1>7, <3>1
  <2> QED
    BY <1>5, <2>1 DEF Cutting, a, N
<1> DEFINE f == CHOOSE f : Cutting(f, t)
<1>9. Cutting(f, t)
  BY <1>8
<1>10. subs(t) = f[N].all
  BY DEF subs, Cutting, CutOne, N
<1> HIDE DEF f
<1>11. \A n \in 0..N : f[n] = IF n = 0 THEN a ELSE CutOne(t, f[n - 1])
  BY <1>9 DEF Cutting, a, N
<1>12. f[0] = a /\ \A n \in 1..N : f[n] = CutOne(t, f[n - 1])
  <2>1. 0 \in 0..N /\ \A n \in 1..N : n \in 0..N /\ n # 0
    BY <1>0
  <2> QED
    BY <1>11, <2>1
<1> DEFINE Good == {n \in Nat : n <= N => IsCut(t, f[n], n)}
<1>13. 0 \in Good
  BY <1>1, <1>12
<1>14. ASSUME NEW n \in Nat, n \in Good PROVE n + 1 \in Good
  <2> SUFFICES ASSUME n + 1 <= N PROVE IsCut(t, f[n + 1], n + 1)
    OBVIOUS
  <2>1. n <= N /\ n + 1 \in 1..N /\ (n + 1) - 1 = n
    BY <1>0
  <2>2. IsCut(t, f[n], n) /\ f[n + 1] = CutOne(t, f[n])
    BY <1>12, <1>14, <2>1
  <2> QED
    BY <2>2, CutOneKeeps
<1> HIDE DEF Good
<1>15. IsCut(t, f[N], N)
  <2>1. N \in Good
    BY <1>0, <1>13, <1>14, SetInduction
  <2> QED
    BY <1>0, <2>1 DEF Good
<1>16. \E cs \in Seq(Seq(Octet)) : cs = subs(t) /\ \E s : Upto(t, cs, N + 1, s)
  <2>1. f[N] \in CutStates(t) /\ (f[N].start = N + 1 \/ f[N].start > N) /\ \E s : Upto(t, f[N].all, f[N].start, s)
    BY <1>15 DEF IsCut, N
  <2>2. f[N].start \in 1..(N + 1) /\ f[N].all \in Seq(Seq(Octet))
    BY <2>1 DEF CutStates, N
  <2>3. f[N].start = N + 1
    BY <1>0, <2>1, <2>2
  <2> QED
    BY <1>10, <2>1, <2>2, <2>3
<1>a. PICK cs \in Seq(Seq(Octet)) : cs = subs(t) /\ \E s : Upto(t, cs, N + 1, s)
  BY <1>16
<1>b. PICK s : Upto(t, cs, N + 1, s)
  BY <1>a
<1>17. Cut(t, cs, s)
  <2>1. /\ s \in [1..(Len(cs) + 1) -> Nat \ {0}] /\ s[1] = 1 /\ s[Len(cs) + 1] = Len(t) + 1
        /\ \A k \in 1..Len(cs) : s[k] <= Len(t) /\ s[k + 1] = next(t, s[k]) /\ cs[k] = SubSeq(t, s[k], s[k + 1] - 1)
    BY <1>b DEF Upto, N
  <2>2. ASSUME NEW k \in 1..Len(cs)
        PROVE  s[k + 1] = s[k] + Len(cs[k]) /\ \A x \in 1..Len(cs[k]) : cs[k][x] = t[s[k] + x - 1]
    <3>1. PICK b \in 1..Len(t) : b = s[k]
      <4>1. k \in 1..(Len(cs) + 1)
        OBVIOUS
      <4>2. s[k] \in Nat \ {0} /\ s[k] <= Len(t)
        BY <2>1, <4>1
      <4>3. \A x \in Nat \ {0} : x <= Len(t) => x \in 1..Len(t)
        OBVIOUS
      <4> QED
        BY <4>2, <4>3
    <3>2. PICK e \in (b + 1)..(Len(t) + 1) : e = s[k + 1]
      BY <2>1, <3>1, NextIs
    <3>3. PartIs(t, b, e)
      <4>1. b \in 1..(Len(t) + 1) /\ e \in b..(Len(t) + 1)
        BY <3>1, <3>2
      <4> QED
        BY <4>1, PartOfText
    <3>4. cs[k] = SubSeq(t, b, e - 1)
      BY <2>1, <3>1, <3>2
    <3>6. Len(cs[k]) = e - b /\ \A x \in 1..(e - b) : cs[k][x] = t[b + x - 1]
      BY <3>3, <3>4 DEF PartIs
    <3>7. e = b + (e - b)
      BY <3>1, <3>2
    <3> QED
      BY <3>1, <3>2, <3>6, <3>7
  <2> QED
    BY <2>1, <2>2 DEF Cut, Pieces
<1> QED
  BY <1>a, <1>17

\* There is one way to cut a text.
LEMMA CutUnique ==
  ASSUME NEW t \in Seq(Octet), NEW cs \in Seq(Seq(Octet)), NEW s, Cut(t, cs, s),
         NEW ds \in Seq(Seq(Octet)), NEW r, Cut(t, ds, r)
  PROVE  cs = ds
<1> DEFINE M == Len(cs)
           N == Len(ds)
           L == Len(t)
<1>1. M \in Nat /\ N \in Nat /\ L \in Nat
  OBVIOUS
<1>2. /\ s \in [1..(M + 1) -> Nat \ {0}] /\ s[1] = 1 /\ s[M + 1] = L + 1
      /\ \A k \in 1..M : s[k] <= L /\ s[k + 1] = next(t, s[k])
  BY DEF Cut, Pieces
<1>3. /\ r \in [1..(N + 1) -> Nat \ {0}] /\ r[1] = 1 /\ r[N + 1] = L + 1
      /\ \A k \in 1..N : r[k] <= L /\ r[k + 1] = next(t, r[k])
  BY DEF Cut, Pieces
<1>s. \A k \in 1..M : s[k + 1] = s[k] + Len(cs[k]) /\ \A x \in 1..Len(cs[k]) : cs[k][x] = t[s[k] + x - 1]
  BY DEF Cut, Pieces
<1>r. \A k \in 1..N : r[k + 1] = r[k] + Len(ds[k]) /\ \A x \in 1..Len(ds[k]) : ds[k][x] = t[r[k] + x - 1]
  BY DEF Cut, Pieces
<1>t. (\A k \in 1..M : cs[k] \in Seq(Octet)) /\ \A k \in 1..N : ds[k] \in Seq(Octet)
  OBVIOUS
<1> HIDE DEF M, N, L
<1> DEFINE Good == {k \in Nat : k <= M => k <= N /\ s[k + 1] = r[k + 1]}
<1>4. 0 \in Good
  BY <1>1, <1>2, <1>3
<1>5. ASSUME NEW k \in Nat, k \in Good PROVE k + 1 \in Good
  <2> SUFFICES ASSUME k + 1 <= M PROVE k + 1 <= N /\ s[(k + 1) + 1] = r[(k + 1) + 1]
    OBVIOUS
  <2>1. k <= M /\ k + 1 \in 1..M
    BY <1>1
  <2>2. k <= N /\ s[k + 1] = r[k + 1] /\ s[k + 1] <= L
    BY <1>2, <1>5, <2>1
  <2>3. k # N
    <3>1. ASSUME k = N PROVE FALSE
      <4>1. r[k + 1] = L + 1
        BY <1>3, <3>1
      <4>2. L + 1 <= L
        BY <2>2, <4>1
      <4> QED
        BY <1>1, <4>2
    <3> QED
      BY <3>1
  <2>4. k + 1 \in 1..N /\ k + 1 <= N
    BY <1>1, <2>2, <2>3
  <2> QED
    BY <1>2, <1>3, <2>1, <2>2, <2>4
<1> HIDE DEF Good
<1>6. \A k \in Nat : k \in Good
  BY <1>4, <1>5, SetInduction
<1>7. \A k \in 0..M : k <= N /\ s[k + 1] = r[k + 1]
  BY <1>1, <1>6 DEF Good
<1>8. M = N
  <2>1. M <= N /\ r[M + 1] = L + 1
    BY <1>1, <1>2, <1>7
  <2>2. ASSUME M # N PROVE FALSE
    <3>1. M + 1 \in 1..N
      BY <1>1, <2>1, <2>2
    <3>2. L + 1 <= L
      BY <1>3, <2>1, <3>1
    <3> QED
      BY <1>1, <3>2
  <2> QED
    BY <2>2
<1>9. \A k \in 1..(M + 1) : s[k] = r[k]
  <2> SUFFICES ASSUME NEW k \in 1..(M + 1) PROVE s[k] = r[k]
    OBVIOUS
  <2>1. k - 1 \in 0..M /\ (k - 1) + 1 = k
    BY <1>1
  <2> QED
    BY <1>7, <2>1
<1>10. ASSUME NEW k \in 1..M PROVE cs[k] = ds[k]
  <2>1. PICK a \in Nat, b \in Nat, c \in Seq(Octet), d \in Seq(Octet) :
          a = s[k] /\ b = s[k + 1] /\ c = cs[k] /\ d = ds[k]
    <3>1. k \in 1..(M + 1) /\ k + 1 \in 1..(M + 1)
      BY <1>1
    <3> QED
      BY <1>2, <1>t, <1>8, <3>1
  <2>2. PICK m \in Nat, n \in Nat : m = Len(c) /\ n = Len(d)
    OBVIOUS
  <2>3. k \in 1..N /\ r[k] = a /\ r[k + 1] = b
    <3>1. k \in 1..(M + 1) /\ k + 1 \in 1..(M + 1)
      BY <1>1
    <3> QED
      BY <1>8, <1>9, <2>1, <3>1
  <2>4. b = a + m /\ \A x \in 1..m : c[x] = t[a + x - 1]
    BY <1>s, <2>1, <2>2
  <2>5. b = a + n /\ \A x \in 1..n : d[x] = t[a + x - 1]
    BY <1>r, <2>1, <2>2, <2>3
  <2>7. m = n
    <3>1. m = b - a /\ n = b - a
      BY <2>4, <2>5
    <3> QED
      BY <3>1
  <2>8. Len(c) = Len(d) /\ \A x \in 1..Len(c) : c[x] = d[x]
    BY <2>2, <2>4, <2>5, <2>7
  <2>6. c = d
    BY <2>8, SeqEqual
  <2> QED
    BY <2>1, <2>6
<1>11. cs = ds
  BY <1>8, <1>10, SeqEqual DEF M, N
<1> QED
  BY <1>11

LEMMA CutIsSubs ==
  ASSUME NEW t \in Seq(Octet), NEW cs \in Seq(Seq(Octet)), NEW s, Cut(t, cs, s)
  PROVE  subs(t) = cs
  BY SubsIs, CutUnique

\* Where the characters begin, and that none is empty.
LEMMA CutSteps ==
  ASSUME NEW t \in Seq(Octet), NEW cs \in Seq(Seq(Octet)), NEW s, Cut(t, cs, s), NEW k \in 1..Len(cs)
  PROVE  /\ cs[k] \in Seq(Octet) /\ Len(cs[k]) \in Nat \ {0} /\ cs[k] # <<>>
         /\ s[k] \in 1..Len(t) /\ s[k + 1] \in 1..(Len(t) + 1) /\ s[k + 1] = s[k] + Len(cs[k])
         /\ cs[k][1] = t[s[k]] /\ t[s[k]] \in Octet
         /\ \A x \in 1..Len(cs[k]) : cs[k][x] = t[s[k] + x - 1]
<1>1. PICK L \in Nat, N \in Nat : L = Len(t) /\ N = Len(cs)
  OBVIOUS
<1>2. k \in 1..(N + 1) /\ k + 1 \in 1..(N + 1)
  BY <1>1
<1>3. /\ s \in [1..(N + 1) -> Nat \ {0}] /\ s[k] <= L /\ s[k + 1] = next(t, s[k])
      /\ s[k + 1] = s[k] + Len(cs[k]) /\ \A x \in 1..Len(cs[k]) : cs[k][x] = t[s[k] + x - 1]
  BY <1>1 DEF Cut, Pieces
<1>4. PICK a \in 1..L : a = s[k]
  <2>1. s[k] \in Nat \ {0}
    BY <1>2, <1>3
  <2> QED
    BY <1>3, <2>1
<1>5. PICK b \in (a + 1)..(L + 1) : b = s[k + 1]
  BY <1>1, <1>3, <1>4, NextIs
<1>6. cs[k] \in Seq(Octet)
  OBVIOUS
<1>7. PICK m \in Nat : m = Len(cs[k])
  BY <1>6
<1>8. b = a + m
  BY <1>3, <1>4, <1>5, <1>7
<1>9. m # 0 /\ cs[k] # <<>>
  <2>1. m # 0
    BY <1>8
  <2>2. Len(<<>>) = 0
    OBVIOUS
  <2> QED
    BY <1>7, <2>1, <2>2
<1>10. cs[k][1] = t[a]
  <2>1. 1 \in 1..m /\ a + 1 - 1 = a
    BY <1>9
  <2> QED
    BY <1>3, <1>4, <1>7, <2>1
<1>11. t[a] \in Octet
  BY <1>1
<1>12. b \in 1..(L + 1)
  OBVIOUS
<1> QED
  BY <1>1, <1>3, <1>4, <1>5, <1>6, <1>7, <1>9, <1>10, <1>11, <1>12

\* A text's characters are the text, and none of them is empty.
LEMMA CharsAreText ==
  ASSUME NEW t \in Seq(Octet)
  PROVE  FlattenSeq(subs(t)) = t /\ \A i \in DOMAIN subs(t) : subs(t)[i] # <<>>
<1>1. PICK cs \in Seq(Seq(Octet)) : cs = subs(t)
  BY SubsIs
<1>0. PICK s : Cut(t, cs, s)
  BY <1>1, SubsIs
<1>2. FlattenSeq(cs) = t
  BY <1>0, FlattenPieces DEF Cut
<1>3. \A i \in 1..Len(cs) : cs[i] # <<>>
  BY <1>0, CutSteps
<1> QED
  BY <1>1, <1>2, <1>3

\* The first characters of a text are those of its beginning.
LEMMA SubsOfPrefix ==
  ASSUME NEW t \in Seq(Octet), NEW cs \in Seq(Seq(Octet)), NEW s, Cut(t, cs, s), NEW n \in 0..Len(cs)
  PROVE  /\ SubSeq(cs, 1, n) \in Seq(Seq(Octet)) /\ Len(SubSeq(cs, 1, n)) = n
         /\ \A k \in 1..n : SubSeq(cs, 1, n)[k] = cs[k]
         /\ FlattenSeq(SubSeq(cs, 1, n)) = SubSeq(t, 1, s[n + 1] - 1)
         /\ FlattenSeq(SubSeq(cs, 1, n)) \in Seq(Octet)
         /\ subs(FlattenSeq(SubSeq(cs, 1, n))) = SubSeq(cs, 1, n)
<1>1. PICK L \in Nat, N \in Nat : L = Len(t) /\ N = Len(cs)
  OBVIOUS
<1>2. /\ s \in [1..(N + 1) -> Nat \ {0}] /\ s[1] = 1 /\ s[N + 1] = L + 1
      /\ \A k \in 1..N : s[k] <= L /\ s[k + 1] = next(t, s[k])
  BY <1>1 DEF Cut, Pieces
<1>3. 1 \in 1..(Len(cs) + 1) /\ n \in 0..Len(cs) /\ 1 <= n + 1
  OBVIOUS
<1>4. Pieces(t, cs, s)
  BY DEF Cut
<1>5. PartOf(t, cs, s, 1, n)
  BY <1>3, <1>4, PiecesPart
<1>6. PICK l \in Nat : l + 1 = s[n + 1] /\ l <= L
  <2>1. n + 1 \in 1..(N + 1) /\ N + 1 \in 1..(N + 1) /\ n + 1 <= N + 1
    BY <1>1
  <2>2. s[n + 1] <= s[N + 1]
    BY <1>1, <1>4, <2>1, PiecesOrder
  <2>3. PICK b \in Nat \ {0} : b = s[n + 1]
    BY <1>2, <2>1
  <2>5. b <= L + 1
    BY <1>2, <2>2, <2>3
  <2>4. b - 1 \in Nat /\ (b - 1) + 1 = b /\ b - 1 <= L
    BY <2>5
  <2> QED
    BY <2>3, <2>4
<1>7. PICK ds \in Seq(Seq(Octet)), u \in Seq(Octet) : ds = SubSeq(cs, 1, n) /\ u = SubSeq(t, 1, s[n + 1] - 1)
  <2>1. SubSeq(cs, 1, n) \in Seq(Seq(Octet)) /\ SubSeq(t, s[1], s[n + 1] - 1) \in Seq(Octet)
    BY <1>5, Zenon DEF PartOf
  <2> QED
    BY <1>2, <2>1, Zenon
<1>r. PICK r : r = [k \in 1..(n - 1 + 2) |-> s[1 + k - 1] - s[1] + 1]
  OBVIOUS
<1>8. /\ Len(ds) = n /\ (\A k \in 1..n : ds[k] = cs[k]) /\ FlattenSeq(ds) = u /\ Pieces(u, ds, r)
      /\ Len(u) = l /\ \A x \in 1..l : u[x] = t[x]
  <2>5. ds = SubSeq(cs, 1, n) /\ u = SubSeq(t, s[1], s[n + 1] - 1)
    BY <1>2, <1>7
  <2>1. /\ Len(ds) = n - 1 + 1 /\ (\A k \in 1..(n - 1 + 1) : ds[k] = cs[1 + k - 1]) /\ FlattenSeq(ds) = u
        /\ Pieces(u, ds, r) /\ Len(u) = s[n + 1] - s[1]
        /\ \A x \in 1..(s[n + 1] - s[1]) : u[x] = t[s[1] + x - 1]
    BY <1>5, <1>r, <2>5, Zenon DEF PartOf
  <2>2. n - 1 + 1 = n /\ \A k \in 1..n : 1 + k - 1 = k
    OBVIOUS
  <2>3. s[n + 1] - s[1] = l
    <3>1. (l + 1) - 1 = l
      OBVIOUS
    <3> QED
      BY <1>2, <1>6, <3>1
  <2>4. \A x \in 1..l : s[1] + x - 1 = x
    BY <1>2
  <2> QED
    BY <2>1, <2>2, <2>3, <2>4
<1>9. ASSUME NEW k \in 1..(n + 1) PROVE r[k] = s[k]
  <2>1. k \in 1..(n - 1 + 2) /\ 1 + k - 1 = k
    OBVIOUS
  <2>2. s[k] \in Nat
    <3>1. k \in 1..(N + 1)
      BY <1>1
    <3> QED
      BY <1>2, <3>1
  <2>3. r[k] = s[k] - 1 + 1
    BY <1>2, <1>r, <2>1
  <2> QED
    BY <2>2, <2>3
<1>10. ASSUME NEW k \in 1..n PROVE r[k] <= l /\ r[k + 1] = next(u, r[k])
  <2>1. PICK a \in 1..L, b \in 1..(L + 1) : a = s[k] /\ b = s[k + 1] /\ b = next(t, a)
    <3>1. k \in 1..Len(cs) /\ k \in 1..N
      BY <1>1
    <3>2. s[k] \in 1..Len(t) /\ s[k + 1] \in 1..(Len(t) + 1)
      BY <3>1, CutSteps
    <3> QED
      BY <1>1, <1>2, <3>1, <3>2
  <2>2. b <= l + 1
    <3>1. k + 1 \in 1..(Len(cs) + 1) /\ n + 1 \in 1..(Len(cs) + 1) /\ k + 1 <= n + 1
      OBVIOUS
    <3>2. s[k + 1] <= s[n + 1]
      BY <1>4, <3>1, PiecesOrder
    <3> QED
      BY <1>6, <2>1, <3>2
  <2>3. PICK w \in 0..5 : w = Bytes(t[a])
    BY <1>1, NextIs
  <2>4. b = (IF w # 0 /\ a + w <= L THEN a + w ELSE L + 1) /\ b >= a + 1
    <3>1. next(t, a) \in (a + 1)..(L + 1)
      BY <1>1, NextIs
    <3>2. next(t, a) = IF w # 0 /\ a + w <= L THEN a + w ELSE L + 1
      BY <1>1, <2>3, NextIs
    <3> QED
      BY <2>1, <3>1, <3>2
  <2>5. a \in 1..l
    BY <2>2, <2>4
  <2>6. next(u, a) = IF w # 0 /\ a + w <= l THEN a + w ELSE l + 1
    <3>1. u[a] = t[a]
      BY <1>8, <2>5
    <3> QED
      BY <1>8, <2>3, <2>5, <3>1, NextIs
  <2>7. b = next(u, a)
    <3>1. CASE w # 0 /\ a + w <= L
      BY <2>2, <2>4, <2>6, <3>1
    <3>2. CASE ~(w # 0 /\ a + w <= L)
      <4>1. b = L + 1 /\ l = L
        BY <1>6, <2>2, <2>4, <3>2
      <4> QED
        BY <2>6, <3>2, <4>1
    <3> QED
      BY <3>1, <3>2
  <2>8. r[k] = a /\ r[k + 1] = b
    <3>1. k \in 1..(n + 1) /\ k + 1 \in 1..(n + 1)
      OBVIOUS
    <3> QED
      BY <1>9, <2>1, <3>1
  <2> QED
    BY <2>5, <2>7, <2>8
<1>11. Cut(u, ds, r)
  BY <1>8, <1>10 DEF Cut
<1>12. subs(u) = ds
  BY <1>11, CutIsSubs
<1> QED
  BY <1>7, <1>8, <1>12

\* A beginning and the rest are the text.
LEMMA Halves ==
  ASSUME NEW t \in Seq(Octet), NEW cs \in Seq(Seq(Octet)), cs = subs(t), NEW j \in 0..Len(cs)
  PROVE  FlattenSeq(SubSeq(cs, 1, j)) \o FlattenSeq(SubSeq(cs, j + 1, Len(cs))) = t
<1>1. PICK L \in Nat, N \in Nat : L = Len(t) /\ N = Len(cs)
  OBVIOUS
<1>2. PICK s : Cut(t, cs, s)
  BY SubsIs
<1>3. Pieces(t, cs, s) /\ s \in [1..(N + 1) -> Nat \ {0}] /\ s[1] = 1 /\ s[N + 1] = L + 1
  BY <1>1, <1>2 DEF Cut, Pieces
<1>4. PICK a \in 1..(L + 1) : a = s[j + 1]
  <2>1. j + 1 \in 1..(N + 1) /\ N + 1 \in 1..(N + 1) /\ j + 1 <= N + 1
    BY <1>1
  <2>2. s[j + 1] <= s[N + 1]
    BY <1>1, <1>3, <2>1, PiecesOrder
  <2>3. s[j + 1] \in Nat \ {0}
    BY <1>3, <2>1
  <2> QED
    BY <1>3, <2>2, <2>3
<1>5. FlattenSeq(SubSeq(cs, 1, j)) = SubSeq(t, 1, a - 1)
  BY <1>2, <1>4, SubsOfPrefix
<1>6. FlattenSeq(SubSeq(cs, j + 1, N)) = SubSeq(t, a, (L + 1) - 1)
  <2>1. PICK i \in 1..(Len(cs) + 1), n \in 0..Len(cs) : i = j + 1 /\ n = N /\ i <= n + 1
    <3>1. j + 1 \in 1..(Len(cs) + 1) /\ N \in 0..Len(cs) /\ j + 1 <= N + 1
      BY <1>1
    <3> QED
      BY <3>1
  <2>2. PartOf(t, cs, s, i, n)
    BY <1>3, <2>1, PiecesPart
  <2>3. FlattenSeq(SubSeq(cs, i, n)) = SubSeq(t, s[i], s[n + 1] - 1)
    BY <2>2 DEF PartOf
  <2> QED
    BY <1>3, <1>4, <2>1, <2>3
<1>7. PICK u \in Seq(Octet), v \in Seq(Octet) :
        /\ u = SubSeq(t, 1, a - 1) /\ v = SubSeq(t, a, (L + 1) - 1)
        /\ Len(u) = a - 1 /\ Len(v) = (L + 1) - a
        /\ (\A x \in 1..(a - 1) : u[x] = t[1 + x - 1]) /\ \A x \in 1..((L + 1) - a) : v[x] = t[a + x - 1]
  <2>1. 1 \in 1..(Len(t) + 1) /\ a \in 1..(Len(t) + 1) /\ L + 1 \in a..(Len(t) + 1)
    BY <1>1
  <2>2. PartIs(t, 1, a) /\ PartIs(t, a, L + 1)
    BY <2>1, PartOfText
  <2> QED
    BY <2>2 DEF PartIs
<1>8. /\ u \o v \in Seq(Octet) /\ Len(u \o v) = Len(u) + Len(v)
      /\ \A x \in 1..Len(u) : (u \o v)[x] = u[x]
      /\ \A x \in 1..Len(v) : (u \o v)[Len(u) + x] = v[x]
  BY Glued
<1>9. Len(u \o v) = L
  BY <1>7, <1>8
<1>10. ASSUME NEW x \in 1..L PROVE (u \o v)[x] = t[x]
  <2>1. CASE x <= a - 1
    <3>1. x \in 1..(a - 1) /\ 1 + x - 1 = x
      BY <2>1
    <3> QED
      BY <1>7, <1>8, <3>1
  <2>2. CASE x > a - 1
    <3>1. PICK y \in 1..((L + 1) - a) : y = x - (a - 1) /\ (a - 1) + y = x /\ a + y - 1 = x
      <4>1. x - (a - 1) \in 1..((L + 1) - a) /\ (a - 1) + (x - (a - 1)) = x /\ a + (x - (a - 1)) - 1 = x
        BY <2>2
      <4> QED
        BY <4>1
    <3>2. v[y] = t[x]
      BY <1>7, <3>1
    <3>3. (u \o v)[Len(u) + y] = v[y]
      BY <1>7, <1>8
    <3>4. Len(u) + y = x
      BY <1>7, <3>1
    <3> QED
      BY <3>2, <3>3, <3>4
  <2>3. x <= a - 1 \/ x > a - 1
    OBVIOUS
  <2> QED
    BY <2>1, <2>2, <2>3
<1>11. u \o v = t
  BY <1>1, <1>8, <1>9, <1>10, SeqEqual
<1> QED
  BY <1>1, <1>5, <1>6, <1>7, <1>11

\* Two subs that meet at a place are the text, from wherever the places are counted.
LEMMA SubsMeet ==
  ASSUME NEW t \in Seq(Octet), NEW i \in Int, i # -1
  PROVE  sub(t, 1, i) \o sub(t, i + 1, -1) = t
<1>1. PICK cs \in Seq(Seq(Octet)), n \in Nat : cs = subs(t) /\ n = Len(cs) /\ n = len(t)
  BY SubsIs DEF len
<1> DEFINE J == IF i = 0 THEN 0 ELSE IF i > 0 THEN (IF i < n THEN i ELSE n)
                ELSE IF i + n + 1 > 0 THEN i + n + 1 ELSE 0
<1>2. PICK j \in 0..n : j = J
  OBVIOUS
<1>3. SubSeq(cs, 1, 0) = <<>> /\ FlattenSeq(SubSeq(cs, 1, 0)) = <<>>
  <2>1. SubSeq(cs, 1, 0) = <<>>
    <3>1. \A k \in 1..0 : cs[k] \in Seq(Octet)
      OBVIOUS
    <3>2. SubSeq(cs, 1, 0) \in Seq(Seq(Octet)) /\ Len(SubSeq(cs, 1, 0)) = 0
      BY <3>1, SubSeqProperties
    <3> QED
      BY <3>2, EmptySeq
  <2>2. FlattenSeq(<<>>) = <<>>
    BY DEF FlattenSeq
  <2> QED
    BY <2>1, <2>2
<1>4. ASSUME NEW a \in Int, NEW b \in Int, b < a PROVE SubSeq(cs, a, b) = <<>>
  <2>1. \A k \in a..b : cs[k] \in Seq(Octet)
    BY <1>4
  <2>2. SubSeq(cs, a, b) \in Seq(Seq(Octet)) /\ Len(SubSeq(cs, a, b)) = 0
    BY <1>4, <2>1, SubSeqProperties
  <2> QED
    BY <2>2, EmptySeq
<1>5. sub(t, 1, i) = FlattenSeq(SubSeq(cs, 1, j))
  <2>1. CASE i = 0
    BY <1>2, <1>3, <2>1 DEF sub
  <2>2. CASE i > 0
    <3>1. sub(t, 1, i) = FlattenSeq(SubSeq(cs, 1, IF i < n THEN i ELSE n))
      BY <1>1, <2>2 DEF sub
    <3> QED
      BY <1>2, <2>2, <3>1
  <2>3. CASE i < 0
    <3>1. sub(t, 1, i) = FlattenSeq(SubSeq(cs, 1, i + n + 1))
      BY <1>1, <2>3 DEF sub
    <3>2. CASE i + n + 1 > 0
      BY <1>2, <2>3, <3>1, <3>2
    <3>3. CASE i + n + 1 <= 0
      <4>1. SubSeq(cs, 1, i + n + 1) = <<>> /\ j = 0
        BY <1>2, <1>4, <2>3, <3>3
      <4> QED
        BY <1>3, <3>1, <4>1
    <3> QED
      BY <3>2, <3>3
  <2> QED
    BY <2>1, <2>2, <2>3
<1>6. sub(t, i + 1, -1) = FlattenSeq(SubSeq(cs, j + 1, n))
  <2>1. PICK f \in Int : f = IF i + 1 < 0 THEN (IF i + n + 2 > 1 THEN i + n + 2 ELSE 1) ELSE i + 1
    OBVIOUS
  <2>2. sub(t, i + 1, -1) = FlattenSeq(SubSeq(cs, f, n))
    <3>1. i + 1 # 0 /\ (-1) + n + 1 = n /\ (i + 1) + n + 1 = i + n + 2
      OBVIOUS
    <3>2. (CASE i + 1 = 0 -> 1
             [] i + 1 < 0 -> (IF (i + 1) + n + 1 > 1 THEN (i + 1) + n + 1 ELSE 1)
             [] OTHER -> i + 1) = f
      BY <2>1, <3>1
    <3>3. sub(t, i + 1, -1) =
            FlattenSeq(SubSeq(subs(t), CASE i + 1 = 0 -> 1
                    [] i + 1 < 0 -> (IF (i + 1) + n + 1 > 1 THEN (i + 1) + n + 1 ELSE 1)
                    [] OTHER -> i + 1, n))
      BY <1>1, <3>1 DEF sub
    <3> QED
      BY <1>1, <3>2, <3>3
  <2>3. SubSeq(cs, f, n) = SubSeq(cs, j + 1, n)
    <3>1. CASE f = j + 1
      BY <3>1
    <3>2. CASE f # j + 1
      <4>1. f > n /\ j = n
        BY <1>2, <2>1, <3>2
      <4> QED
        BY <1>4, <4>1
    <3> QED
      BY <3>1, <3>2
  <2> QED
    BY <2>2, <2>3
<1> QED
  BY <1>1, <1>5, <1>6, Halves

\* Characters that their first bytes complete stay the characters wherever they stand.
Closed(cs) == \A k \in 1..Len(cs) : Len(cs[k]) \in Nat \ {0} /\ Bytes(cs[k][1]) = Len(cs[k])

LEMMA ClosedCut ==
  ASSUME NEW cs \in Seq(Seq(Octet)), Closed(cs)
  PROVE  FlattenSeq(cs) \in Seq(Octet) /\ subs(FlattenSeq(cs)) = cs
<1>0. PICK u \in Seq(Octet) : u = FlattenSeq(cs)
  BY FlattenHasPieces
<1>1. PICK s : Pieces(u, cs, s)
  BY <1>0, FlattenHasPieces
<1>2. PICK L \in Nat, N \in Nat : L = Len(u) /\ N = Len(cs)
  OBVIOUS
<1>3. /\ s \in [1..(N + 1) -> Nat \ {0}] /\ s[1] = 1 /\ s[N + 1] = L + 1
      /\ \A k \in 1..N : s[k + 1] = s[k] + Len(cs[k]) /\ \A x \in 1..Len(cs[k]) : cs[k][x] = u[s[k] + x - 1]
  BY <1>1, <1>2 DEF Pieces
<1>4. ASSUME NEW k \in 1..N PROVE s[k] <= L /\ s[k + 1] = next(u, s[k])
  <2>1. PICK w \in Nat \ {0} : w = Len(cs[k]) /\ w = Bytes(cs[k][1])
    BY <1>2 DEF Closed
  <2>2. k \in 1..(N + 1) /\ k + 1 \in 1..(N + 1) /\ N + 1 \in 1..(N + 1) /\ k + 1 <= N + 1
    OBVIOUS
  <2>3. PICK a \in Nat \ {0}, b \in Nat \ {0} : a = s[k] /\ b = s[k + 1]
    BY <1>3, <2>2
  <2>4. b = a + w
    BY <1>3, <2>1, <2>3
  <2>5. b <= L + 1
    <3>1. s[k + 1] <= s[N + 1]
      BY <1>1, <1>2, <2>2, PiecesOrder
    <3> QED
      BY <1>3, <2>3, <3>1
  <2>6. a \in 1..L
    BY <2>4, <2>5
  <2>7. cs[k][1] = u[a]
    <3>1. 1 \in 1..w /\ a + 1 - 1 = a
      OBVIOUS
    <3>2. cs[k][1] = u[s[k] + 1 - 1]
      BY <1>3, <2>1, <3>1
    <3> QED
      BY <2>3, <3>1, <3>2
  <2>8. next(u, a) = IF w # 0 /\ a + w <= L THEN a + w ELSE L + 1
    BY <1>2, <2>1, <2>6, <2>7, NextIs
  <2>9. next(u, a) = b
    BY <2>4, <2>5, <2>8
  <2> QED
    BY <2>3, <2>6, <2>9
<1>5. Cut(u, cs, s)
  BY <1>1, <1>2, <1>4 DEF Cut
<1>6. subs(u) = cs
  BY <1>5, CutIsSubs
<1> QED
  BY <1>0, <1>6

\* What stays a character whatever follows it is complete by its first byte.
LEMMA StaysCharacter ==
  ASSUME NEW c \in Seq(Octet), c # <<>>, NEW b \in Octet, subs(Append(c, b))[1] = c
  PROVE  Len(c) \in Nat \ {0} /\ Bytes(c[1]) = Len(c)
<1>1. PICK m \in Nat : m = Len(c)
  OBVIOUS
<1>2. m # 0
  BY <1>1, EmptySeq
<1>3. PICK u \in Seq(Octet) : u = Append(c, b) /\ Len(u) = m + 1 /\ \A i \in 1..m : u[i] = c[i]
  <2>1. /\ Append(c, b) \in Seq(Octet) /\ Len(Append(c, b)) = Len(c) + 1
        /\ \A i \in 1..Len(c) : Append(c, b)[i] = c[i]
    BY AppendProperties
  <2> QED
    BY <1>1, <2>1
<1>a. PICK cs \in Seq(Seq(Octet)) : cs = subs(u)
  BY SubsIs
<1>4. PICK s : cs = subs(u) /\ Cut(u, cs, s)
  BY <1>a, SubsIs
<1>5. PICK N \in Nat : N = Len(cs)
  OBVIOUS
<1>6. s[1] = 1 /\ s[N + 1] = m + 2
  <2>1. s[1] = 1 /\ s[N + 1] = (m + 1) + 1
    BY <1>3, <1>4, <1>5 DEF Cut, Pieces
  <2> QED
    BY <2>1
<1>7. 1 \in 1..N
  <2>1. ASSUME N = 0 PROVE FALSE
    <3>1. N + 1 = 1
      BY <2>1
    <3>2. 1 = m + 2
      BY <1>6, <3>1
    <3> QED
      BY <3>2
  <2> QED
    BY <2>1
<1>8. s[1 + 1] = s[1] + Len(cs[1]) /\ s[1 + 1] = next(u, s[1])
  BY <1>4, <1>5, <1>7 DEF Cut, Pieces
<1>9. 1 + m = next(u, 1)
  BY <1>1, <1>3, <1>4, <1>6, <1>8
<1>10. PICK w \in 0..5 : w = Bytes(u[1]) /\ next(u, 1) = IF w # 0 /\ 1 + w <= m + 1 THEN 1 + w ELSE (m + 1) + 1
  <2>1. 1 \in 1..Len(u)
    BY <1>3
  <2> QED
    BY <1>3, <2>1, NextIs
<1>11. w = m
  BY <1>9, <1>10
<1>12. u[1] = c[1]
  BY <1>2, <1>3
<1> QED
  BY <1>1, <1>2, <1>10, <1>11, <1>12

\* Such a text, reversed twice, is itself.
LEMMA ReverseTwice ==
  ASSUME NEW t \in Seq(Octet), Closed(subs(t))
  PROVE  reverse(reverse(t)) = t
<1>1. PICK cs \in Seq(Seq(Octet)) : cs = subs(t)
  BY SubsIs
<1>2. PICK N \in Nat : N = Len(cs)
  OBVIOUS
<1>3. PICK ds : ds = Reverse(cs)
  OBVIOUS
<1>4. ds = [k \in 1..N |-> cs[(N - k) + 1]]
  BY <1>2, <1>3 DEF Reverse
<1>5. \A k \in 1..N : (N - k) + 1 \in 1..N /\ (N - ((N - k) + 1)) + 1 = k /\ ds[k] = cs[(N - k) + 1]
  BY <1>4
<1>6. ds \in Seq(Seq(Octet)) /\ Len(ds) = N
  <2>1. \A k \in 1..N : cs[(N - k) + 1] \in Seq(Octet)
    BY <1>2, <1>5
  <2>2. ds \in [1..N -> Seq(Octet)]
    BY <1>4, <2>1
  <2> QED
    BY <2>2
<1>7. Closed(ds)
  BY <1>1, <1>2, <1>5, <1>6 DEF Closed
<1>8. Reverse(ds) = cs
  <2>1. Reverse(ds) = [k \in 1..N |-> ds[(N - k) + 1]]
    BY <1>6 DEF Reverse
  <2>2. \A k \in 1..N : ds[(N - k) + 1] = cs[k]
    BY <1>5
  <2>3. \A k \in 1..N : ds[(N - k) + 1] \in Seq(Octet)
    BY <1>2, <2>2
  <2>4. PICK es : es = Reverse(ds)
    OBVIOUS
  <2>5. es \in [1..N -> Seq(Octet)] /\ \A k \in 1..N : es[k] = cs[k]
    BY <2>1, <2>2, <2>3, <2>4
  <2>6. es \in Seq(Seq(Octet)) /\ Len(es) = N
    BY <2>5
  <2>7. es = cs
    BY <1>2, <2>5, <2>6, SeqEqual
  <2> QED
    BY <2>4, <2>7
<1>9. reverse(t) = FlattenSeq(ds)
  BY <1>1, <1>3 DEF reverse
<1>10. subs(FlattenSeq(ds)) = ds
  BY <1>6, <1>7, ClosedCut
<1>11. reverse(reverse(t)) = FlattenSeq(cs)
  BY <1>8, <1>9, <1>10 DEF reverse
<1> QED
  BY <1>1, <1>11, CharsAreText

LEMMA WidthsAreNat ==
  ASSUME NEW c
  PROVE  charWidthOf(c) \in Nat
  BY TextAssumption DEF charWidthOf

\* The columns of the first characters.
Widths(cs, g) ==
  g \in [0..Len(cs) -> Nat] /\ g[0] = 0 /\ \A n \in 1..Len(cs) : g[n] = g[n - 1] + charWidthOf(cs[n])
Adding(f, cs) ==
  f = [n \in 0..Len(cs) |-> IF n = 0 THEN 0 ELSE f[n - 1] + charWidthOf(cs[n])]

LEMMA WlenIs ==
  ASSUME NEW t \in Seq(Octet)
  PROVE  \E g : Widths(subs(t), g) /\ g[Len(subs(t))] = wlen(t)
<1>a. PICK cs \in Seq(Seq(Octet)) : cs = subs(t)
  BY SubsIs, Zenon
<1>b. PICK N \in Nat : N = Len(cs)
  OBVIOUS
<1>1. cs = subs(t) /\ N = Len(cs)
  BY <1>a, <1>b, Zenon
<1> DEFINE F == [x \in Nat \X Nat |-> x[2] + charWidthOf(cs[x[1]])]
<1>2. F \in [Nat \X Nat -> Nat] /\ \A n \in Nat, v \in Nat : F[<<n, v>>] = v + charWidthOf(cs[n])
  <2>1. \A n : charWidthOf(cs[n]) \in Nat
    BY WidthsAreNat, Zenon
  <2>2. \A x \in Nat \X Nat : x[2] + charWidthOf(cs[x[1]]) \in Nat
    BY <2>1
  <2>3. F \in [Nat \X Nat -> Nat]
    BY <2>2, Zenon
  <2>4. \A n \in Nat, v \in Nat : F[<<n, v>>] = v + charWidthOf(cs[n])
    OBVIOUS
  <2> QED
    BY <2>3, <2>4, Zenon
<1> HIDE DEF F
<1>3. PICK g \in [0..N -> Nat] : Follows(g, 0, N, F)
  BY <1>2, StepsExist
<1>4. g[0] = 0 /\ \A n \in 1..N : g[n] = F[<<n, g[n - 1]>>]
  BY <1>3 DEF Follows
<1>5. ASSUME NEW n \in 1..N PROVE n - 1 \in 0..N /\ g[n] = g[n - 1] + charWidthOf(cs[n])
  <2>1. n - 1 \in 0..N
    OBVIOUS
  <2>2. PICK v \in Nat : v = g[n - 1]
    BY <2>1
  <2>3. n \in Nat
    OBVIOUS
  <2>4. F[<<n, v>>] = v + charWidthOf(cs[n])
    BY <1>2, <2>3
  <2>5. g[n] = F[<<n, v>>]
    BY <1>4, <2>2
  <2> QED
    BY <2>1, <2>2, <2>4, <2>5
<1>6. Adding(g, cs)
  <2>1. ASSUME NEW n \in 0..N PROVE g[n] = IF n = 0 THEN 0 ELSE g[n - 1] + charWidthOf(cs[n])
    <3>1. n = 0 \/ n \in 1..N
      OBVIOUS
    <3> QED
      BY <1>4, <1>5, <3>1
  <2> QED
    BY <1>1, <2>1 DEF Adding
<1> DEFINE f == CHOOSE f : Adding(f, cs)
<1>7. Adding(f, cs)
  BY <1>6
<1>8. wlen(t) = f[N]
  BY <1>1 DEF wlen, Adding
<1> HIDE DEF f
<1>9. \A n \in 0..N : f[n] = IF n = 0 THEN 0 ELSE f[n - 1] + charWidthOf(cs[n])
  BY <1>1, <1>7 DEF Adding
<1> DEFINE Good == {n \in Nat : n <= N => f[n] = g[n]}
<1>10. 0 \in Good
  BY <1>4, <1>9
<1>11. ASSUME NEW n \in Nat, n \in Good PROVE n + 1 \in Good
  <2> SUFFICES ASSUME n + 1 <= N PROVE f[n + 1] = g[n + 1]
    OBVIOUS
  <2>1. n <= N /\ n + 1 \in 1..N /\ n + 1 \in 0..N /\ n + 1 # 0 /\ (n + 1) - 1 = n
    OBVIOUS
  <2>2. f[n] = g[n]
    BY <1>11, <2>1
  <2>3. f[n + 1] = f[n] + charWidthOf(cs[n + 1])
    BY <1>9, <2>1
  <2>4. g[n + 1] = g[n] + charWidthOf(cs[n + 1])
    BY <1>5, <2>1
  <2> QED
    BY <2>2, <2>3, <2>4
<1> HIDE DEF Good
<1>12. f[N] = g[N]
  <2>1. N \in Good
    BY <1>10, <1>11, SetInduction
  <2> QED
    BY <2>1 DEF Good
<1>13. Widths(cs, g)
  BY <1>1, <1>3, <1>4, <1>5 DEF Widths
<1> QED
  BY <1>1, <1>8, <1>12, <1>13

\* The columns of a beginning are those of its characters in the text.
LEMMA WlenOfPrefix ==
  ASSUME NEW t \in Seq(Octet), NEW cs \in Seq(Seq(Octet)), cs = subs(t), NEW g, Widths(cs, g), NEW n \in 0..Len(cs)
  PROVE  wlen(FlattenSeq(SubSeq(cs, 1, n))) = g[n]
<1>1. PICK s : Cut(t, cs, s)
  BY SubsIs
<1>2. PICK ds \in Seq(Seq(Octet)), u \in Seq(Octet) :
        /\ ds = SubSeq(cs, 1, n) /\ u = FlattenSeq(ds) /\ subs(u) = ds
        /\ Len(ds) = n /\ \A k \in 1..n : ds[k] = cs[k]
  <2>1. /\ SubSeq(cs, 1, n) \in Seq(Seq(Octet)) /\ Len(SubSeq(cs, 1, n)) = n
        /\ \A k \in 1..n : SubSeq(cs, 1, n)[k] = cs[k]
        /\ FlattenSeq(SubSeq(cs, 1, n)) \in Seq(Octet)
        /\ subs(FlattenSeq(SubSeq(cs, 1, n))) = SubSeq(cs, 1, n)
    BY <1>1, SubsOfPrefix
  <2> QED
    BY <2>1, Zenon
<1>3. PICK h : Widths(ds, h) /\ h[n] = wlen(u)
  <2>1. \E h : Widths(subs(u), h) /\ h[Len(subs(u))] = wlen(u)
    BY WlenIs
  <2> QED
    BY <1>2, <2>1, Zenon
<1>4. PICK N \in Nat : N = Len(cs) /\ n \in 0..N
  OBVIOUS
<1>5. g[0] = 0 /\ \A k \in 1..N : g[k] = g[k - 1] + charWidthOf(cs[k])
  BY <1>4 DEF Widths
<1>6. h[0] = 0 /\ \A k \in 1..n : h[k] = h[k - 1] + charWidthOf(ds[k])
  BY <1>2, <1>3 DEF Widths
<1> DEFINE Good == {k \in Nat : k <= n => h[k] = g[k]}
<1>7. 0 \in Good
  BY <1>5, <1>6
<1>8. ASSUME NEW k \in Nat, k \in Good PROVE k + 1 \in Good
  <2> SUFFICES ASSUME k + 1 <= n PROVE h[k + 1] = g[k + 1]
    OBVIOUS
  <2>1. k <= n /\ k + 1 \in 1..n /\ k + 1 \in 1..N /\ (k + 1) - 1 = k
    BY <1>4
  <2>2. h[k] = g[k] /\ ds[k + 1] = cs[k + 1]
    BY <1>2, <1>8, <2>1
  <2>3. h[k + 1] = h[k] + charWidthOf(ds[k + 1])
    BY <1>6, <2>1
  <2>4. g[k + 1] = g[k] + charWidthOf(cs[k + 1])
    BY <1>5, <2>1
  <2> QED
    BY <2>2, <2>3, <2>4
<1> HIDE DEF Good
<1>9. n \in Good
  <2>1. Nat \subseteq Good
    BY <1>7, <1>8, SetInduction
  <2>2. n \in Nat
    BY <1>4
  <2> QED
    BY <2>1, <2>2
<1>10. h[n] = g[n]
  BY <1>4, <1>9 DEF Good
<1> QED
  BY <1>2, <1>3, <1>10

\* A beginning and the next character are the beginning that is one longer.
LEMMA PrefixStep ==
  ASSUME NEW t \in Seq(Octet), NEW cs \in Seq(Seq(Octet)), cs = subs(t), NEW n \in 1..Len(cs)
  PROVE  FlattenSeq(SubSeq(cs, 1, n - 1)) \o cs[n] = FlattenSeq(SubSeq(cs, 1, n))
<1>1. PICK s : Cut(t, cs, s)
  BY SubsIs
<1>2. PICK L \in Nat : L = Len(t)
  OBVIOUS
<1>3. PICK a \in 1..L, b \in 1..(L + 1), c \in Seq(Octet), m \in Nat :
        /\ a = s[n] /\ b = s[n + 1] /\ c = cs[n] /\ m = Len(c) /\ b = a + m
        /\ \A x \in 1..m : c[x] = t[a + x - 1]
  <2>1. /\ cs[n] \in Seq(Octet) /\ Len(cs[n]) \in Nat \ {0}
        /\ s[n] \in 1..Len(t) /\ s[n + 1] \in 1..(Len(t) + 1) /\ s[n + 1] = s[n] + Len(cs[n])
        /\ \A x \in 1..Len(cs[n]) : cs[n][x] = t[s[n] + x - 1]
    BY <1>1, CutSteps
  <2>2. Len(cs[n]) \in Nat /\ s[n] \in 1..L /\ s[n + 1] \in 1..(L + 1)
    BY <1>2, <2>1
  <2> QED
    BY <2>1, <2>2, Zenon
<1>4. n - 1 \in 0..Len(cs) /\ n \in 0..Len(cs) /\ (n - 1) + 1 = n
  OBVIOUS
<1>5. FlattenSeq(SubSeq(cs, 1, n - 1)) = SubSeq(t, 1, a - 1)
  <2>1. FlattenSeq(SubSeq(cs, 1, n - 1)) = SubSeq(t, 1, s[(n - 1) + 1] - 1)
    BY <1>1, <1>4, SubsOfPrefix
  <2> QED
    BY <1>3, <1>4, <2>1
<1>6. FlattenSeq(SubSeq(cs, 1, n)) = SubSeq(t, 1, b - 1)
  <2>1. FlattenSeq(SubSeq(cs, 1, n)) = SubSeq(t, 1, s[n + 1] - 1)
    BY <1>1, <1>4, SubsOfPrefix
  <2> QED
    BY <1>3, <2>1
<1>7. PICK u \in Seq(Octet), v \in Seq(Octet) :
        /\ u = SubSeq(t, 1, a - 1) /\ v = SubSeq(t, 1, b - 1) /\ Len(u) = a - 1 /\ Len(v) = b - 1
        /\ (\A x \in 1..(a - 1) : u[x] = t[1 + x - 1]) /\ \A x \in 1..(b - 1) : v[x] = t[1 + x - 1]
  <2>1. 1 \in 1..(Len(t) + 1) /\ a \in 1..(Len(t) + 1) /\ b \in 1..(Len(t) + 1)
    BY <1>2
  <2>2. PartIs(t, 1, a) /\ PartIs(t, 1, b)
    BY <2>1, PartOfText
  <2> QED
    BY <2>2 DEF PartIs
<1>8. /\ u \o c \in Seq(Octet) /\ Len(u \o c) = Len(u) + Len(c)
      /\ \A x \in 1..Len(u) : (u \o c)[x] = u[x]
      /\ \A x \in 1..Len(c) : (u \o c)[Len(u) + x] = c[x]
  BY Glued
<1>9. Len(u \o c) = b - 1
  <2>0. b = a + m
    BY <1>3, Zenon
  <2>1. (a - 1) + m = b - 1
    BY <2>0
  <2>2. Len(u \o c) = Len(u) + Len(c) /\ Len(u) = a - 1 /\ Len(c) = m
    BY <1>3, <1>7, <1>8, Zenon
  <2> QED
    BY <2>1, <2>2, Zenon
<1>10. ASSUME NEW x \in 1..(b - 1) PROVE (u \o c)[x] = v[x]
  <2>0. v[x] = t[x]
    <3>1. 1 + x - 1 = x
      OBVIOUS
    <3> QED
      BY <1>7, <3>1
  <2>1. CASE x <= a - 1
    <3>1. x \in 1..(a - 1) /\ 1 + x - 1 = x
      BY <2>1
    <3> QED
      BY <1>7, <1>8, <2>0, <3>1
  <2>2. CASE x > a - 1
    <3>1. PICK y \in 1..m : (a - 1) + y = x /\ a + y - 1 = x
      <4>1. b = a + m
        BY <1>3
      <4>2. x - (a - 1) \in 1..m
        BY <2>2, <4>1
      <4>3. (a - 1) + (x - (a - 1)) = x /\ a + (x - (a - 1)) - 1 = x
        OBVIOUS
      <4> QED
        BY <4>2, <4>3
    <3>2. c[y] = t[x]
      BY <1>3, <3>1
    <3>3. (u \o c)[Len(u) + y] = c[y]
      BY <1>3, <1>8
    <3>4. Len(u) + y = x
      BY <1>7, <3>1
    <3> QED
      BY <2>0, <3>2, <3>3, <3>4
  <2>3. x <= a - 1 \/ x > a - 1
    OBVIOUS
  <2> QED
    BY <2>1, <2>2, <2>3
<1>11. u \o c = v
  BY <1>7, <1>8, <1>9, <1>10, SeqEqual
<1> QED
  BY <1>3, <1>5, <1>6, <1>7, <1>11

\* One character more, kept if it ends before the column.
KeepOne(r, c, width) ==
  LET w == r.width + charWidthOf(c) IN [width |-> w, text |-> IF w < width THEN r.text \o c ELSE r.text]
Keeping(f, cs, width) ==
  f = [n \in 0..Len(cs) |-> IF n = 0 THEN [width |-> 0, text |-> <<>>] ELSE KeepOne(f[n - 1], cs[n], width)]

KeptStates == [width : Nat, text : Seq(Octet)]

LEMMA KeepOneIs ==
  ASSUME NEW r \in KeptStates, NEW c \in Seq(Octet), NEW width \in Int
  PROVE  /\ KeepOne(r, c, width) \in KeptStates
         /\ KeepOne(r, c, width).width = r.width + charWidthOf(c)
         /\ KeepOne(r, c, width).text = IF r.width + charWidthOf(c) < width THEN r.text \o c ELSE r.text
<1>1. PICK w \in Nat, u \in Seq(Octet), d \in Nat : w = r.width /\ u = r.text /\ d = charWidthOf(c)
  BY WidthsAreNat DEF KeptStates
<1>2. PICK v \in Seq(Octet), x \in Nat : x = w + d /\ v = IF x < width THEN u \o c ELSE u
  <2>1. u \o c \in Seq(Octet)
    BY Glued
  <2>2. w + d \in Nat
    OBVIOUS
  <2> QED
    BY <2>1, <2>2
<1>3. KeepOne(r, c, width) = [width |-> x, text |-> v]
  BY <1>1, <1>2 DEF KeepOne
<1> QED
  BY <1>1, <1>2, <1>3 DEF KeptStates

\* What the loop keeps, character by character.
LEMMA WtruncIs ==
  ASSUME NEW t \in Seq(Octet), NEW width \in Int
  PROVE  \E g \in [0..Len(subs(t)) -> KeptStates] :
           /\ g[0] = [width |-> 0, text |-> <<>>] /\ g[Len(subs(t))].text = wtrunc(t, width)
           /\ \A n \in 1..Len(subs(t)) : g[n] = KeepOne(g[n - 1], subs(t)[n], width)
<1>1. PICK cs \in Seq(Seq(Octet)), N \in Nat : cs = subs(t) /\ N = Len(cs)
  BY SubsIs
<1> DEFINE V == KeptStates
           a == [width |-> 0, text |-> <<>>]
           F == [x \in Nat \X V |-> IF x[1] \in 1..N THEN KeepOne(x[2], cs[x[1]], width) ELSE x[2]]
<1>2. a \in V
  BY DEF KeptStates
<1>3. \A n \in 1..N, v \in V : KeepOne(v, cs[n], width) \in V
  <2>1. \A n \in 1..N : cs[n] \in Seq(Octet)
    BY <1>1
  <2> QED
    BY <2>1, KeepOneIs
<1> HIDE DEF V, a
<1>4. F \in [Nat \X V -> V]
  <2>1. ASSUME NEW x \in Nat \X V PROVE (IF x[1] \in 1..N THEN KeepOne(x[2], cs[x[1]], width) ELSE x[2]) \in V
    BY <1>3
  <2> QED
    BY <2>1
<1>5. \A n \in 1..N, v \in V : F[<<n, v>>] = KeepOne(v, cs[n], width)
  <2> SUFFICES ASSUME NEW n \in 1..N, NEW v \in V PROVE F[<<n, v>>] = KeepOne(v, cs[n], width)
    OBVIOUS
  <2>1. <<n, v>> \in Nat \X V
    OBVIOUS
  <2> QED
    BY <2>1
<1> HIDE DEF F
<1>6. PICK g \in [0..N -> V] : Follows(g, a, N, F)
  BY <1>2, <1>4, StepsExist
<1>7. g[0] = a /\ \A n \in 1..N : g[n] = F[<<n, g[n - 1]>>]
  BY <1>6 DEF Follows
<1>8. ASSUME NEW n \in 1..N PROVE g[n] = KeepOne(g[n - 1], cs[n], width)
  <2>1. n - 1 \in 0..N
    OBVIOUS
  <2>2. PICK v \in V : v = g[n - 1]
    BY <1>6, <2>1
  <2>3. F[<<n, v>>] = KeepOne(v, cs[n], width)
    BY <1>5
  <2> QED
    BY <1>7, <2>2, <2>3
<1>9. Keeping(g, cs, width)
  <2>1. ASSUME NEW n \in 0..N PROVE g[n] = IF n = 0 THEN a ELSE KeepOne(g[n - 1], cs[n], width)
    <3>1. n = 0 \/ n \in 1..N
      OBVIOUS
    <3> QED
      BY <1>7, <1>8, <3>1
  <2> QED
    BY <1>1, <2>1 DEF Keeping, a
<1> DEFINE f == CHOOSE f : Keeping(f, cs, width)
<1>10. Keeping(f, cs, width)
  BY <1>9
<1>11. wtrunc(t, width) = f[N].text
  <2>1. wtrunc(t, width) = (CHOOSE h : Keeping(h, subs(t), width))[Len(subs(t))].text
    BY Zenon DEF wtrunc, Keeping, KeepOne
  <2> QED
    BY <1>1, <2>1, Zenon
<1> HIDE DEF f
<1>12. \A n \in 0..N : f[n] = IF n = 0 THEN a ELSE KeepOne(f[n - 1], cs[n], width)
  BY <1>1, <1>10 DEF Keeping, a
<1> DEFINE Good == {n \in Nat : n <= N => f[n] = g[n]}
<1>13. 0 \in Good
  BY <1>7, <1>12
<1>14. ASSUME NEW n \in Nat, n \in Good PROVE n + 1 \in Good
  <2> SUFFICES ASSUME n + 1 <= N PROVE f[n + 1] = g[n + 1]
    OBVIOUS
  <2>1. n <= N /\ n + 1 \in 1..N /\ n + 1 \in 0..N /\ n + 1 # 0 /\ (n + 1) - 1 = n
    OBVIOUS
  <2>2. f[n] = g[n]
    BY <1>14, <2>1
  <2>3. f[n + 1] = KeepOne(f[n], cs[n + 1], width)
    BY <1>12, <2>1
  <2>4. g[n + 1] = KeepOne(g[n], cs[n + 1], width)
    BY <1>8, <2>1
  <2> QED
    BY <2>2, <2>3, <2>4
<1> HIDE DEF Good
<1>15. f[N] = g[N]
  <2>1. Nat \subseteq Good
    BY <1>13, <1>14, SetInduction
  <2>2. N \in Good
    BY <2>1
  <2> QED
    BY <2>2 DEF Good
<1> QED
  BY <1>1, <1>6, <1>7, <1>8, <1>11, <1>15 DEF V, a

\* What wtrunc answers is the longest beginning that ends before the column.
LEMMA WtruncKeeps ==
  ASSUME NEW t \in Seq(Octet), NEW w \in Nat \ {0}
  PROVE  \E n \in 0..Len(subs(t)) :
           /\ wtrunc(t, w) = FlattenSeq(SubSeq(subs(t), 1, n))
           /\ wlen(FlattenSeq(SubSeq(subs(t), 1, n))) < w
           /\ n = Len(subs(t)) \/ wlen(FlattenSeq(SubSeq(subs(t), 1, n + 1))) >= w
<1>1. PICK cs \in Seq(Seq(Octet)), N \in Nat : cs = subs(t) /\ N = Len(cs)
  BY SubsIs
<1>2. PICK g : Widths(cs, g)
  BY <1>1, WlenIs
<1>3. g \in [0..N -> Nat] /\ g[0] = 0 /\ \A k \in 1..N : g[k] = g[k - 1] + charWidthOf(cs[k])
  BY <1>1, <1>2 DEF Widths
<1>4. PICK h \in [0..N -> KeptStates] :
        /\ h[0] = [width |-> 0, text |-> <<>>] /\ h[N].text = wtrunc(t, w)
        /\ \A k \in 1..N : h[k] = KeepOne(h[k - 1], cs[k], w)
  <2>1. w \in Int
    OBVIOUS
  <2>2. \E h \in [0..Len(subs(t)) -> KeptStates] :
          /\ h[0] = [width |-> 0, text |-> <<>>] /\ h[Len(subs(t))].text = wtrunc(t, w)
          /\ \A n \in 1..Len(subs(t)) : h[n] = KeepOne(h[n - 1], subs(t)[n], w)
    BY <2>1, WtruncIs
  <2> QED
    BY <1>1, <2>2, Zenon
<1> DEFINE Begin(n) == FlattenSeq(SubSeq(cs, 1, n))
           Kept(k) == /\ h[k].width = g[k]
                      /\ \E n \in 0..k : h[k].text = Begin(n) /\ g[n] < w /\ (n = k \/ (g[n + 1] >= w /\ g[k] >= w))
           Good == {k \in Nat : k <= N => Kept(k)}
<1>5. \A k \in 1..N : Begin(k - 1) \o cs[k] = Begin(k)
  BY <1>1, PrefixStep
<1>6. Begin(0) = <<>>
  <2>1. SubSeq(cs, 1, 0) = <<>>
    <3>1. \A k \in 1..0 : cs[k] \in Seq(Octet)
      OBVIOUS
    <3>2. SubSeq(cs, 1, 0) \in Seq(Seq(Octet)) /\ Len(SubSeq(cs, 1, 0)) = 0
      BY <3>1, SubSeqProperties
    <3> QED
      BY <3>2, EmptySeq
  <2>2. FlattenSeq(<<>>) = <<>>
    BY DEF FlattenSeq
  <2> QED
    BY <2>1, <2>2
<1> HIDE DEF Begin
<1>7. 0 \in Good
  <2>1. h[0].width = 0 /\ h[0].text = <<>>
    BY <1>4
  <2>2. h[0].width = g[0] /\ h[0].text = Begin(0) /\ g[0] < w /\ 0 \in 0..0
    BY <1>3, <1>6, <2>1
  <2>3. Kept(0)
    BY <2>2
  <2> QED
    BY <2>3
<1>8. ASSUME NEW k \in Nat, k \in Good PROVE k + 1 \in Good
  <2> SUFFICES ASSUME k + 1 <= N PROVE Kept(k + 1)
    OBVIOUS
  <2>1. k <= N /\ k \in 0..N /\ k + 1 \in 1..N /\ (k + 1) - 1 = k
    OBVIOUS
  <2>2. PICK n \in 0..k : h[k].text = Begin(n) /\ g[n] < w /\ (n = k \/ (g[n + 1] >= w /\ g[k] >= w))
    BY <1>8, <2>1
  <2>3. PICK r \in KeptStates, c \in Seq(Octet), d \in Nat :
          r = h[k] /\ c = cs[k + 1] /\ d = charWidthOf(c) /\ h[k + 1] = KeepOne(r, c, w)
    <3>1. h[k] \in KeptStates
      BY <2>1
    <3>2. cs[k + 1] \in Seq(Octet)
      BY <1>1, <2>1
    <3>3. h[k + 1] = KeepOne(h[k], cs[k + 1], w)
      BY <1>4, <2>1
    <3> QED
      BY <3>1, <3>2, <3>3, WidthsAreNat
  <2>4. PICK x \in Nat : x = g[k] /\ r.width = x /\ g[k + 1] = x + d
    <3>1. h[k].width = g[k]
      BY <1>8, <2>1
    <3>2. g[k] \in Nat
      BY <1>3, <2>1
    <3>3. g[k + 1] = g[k] + charWidthOf(cs[k + 1])
      BY <1>3, <2>1
    <3> QED
      BY <2>3, <3>1, <3>2, <3>3
  <2>5. h[k + 1].width = x + d /\ h[k + 1].text = IF x + d < w THEN r.text \o c ELSE r.text
    <3>1. /\ KeepOne(r, c, w).width = r.width + charWidthOf(c)
          /\ KeepOne(r, c, w).text = IF r.width + charWidthOf(c) < w THEN r.text \o c ELSE r.text
      <4>1. w \in Int
        OBVIOUS
      <4> QED
        BY <4>1, KeepOneIs
    <3> QED
      BY <2>3, <2>4, <3>1
  <2>6. h[k + 1].width = g[k + 1]
    BY <2>4, <2>5
  <2>7. CASE x + d < w
    <3>1. n = k
      BY <2>2, <2>4, <2>7
    <3>2. h[k + 1].text = Begin(k) \o cs[k + 1]
      BY <2>2, <2>3, <2>5, <2>7, <3>1
    <3>3. Begin(k) \o cs[k + 1] = Begin(k + 1)
      BY <1>5, <2>1
    <3>4. k + 1 \in 0..(k + 1) /\ g[k + 1] < w
      BY <2>4, <2>7
    <3>5. h[k + 1].text = Begin(k + 1)
      BY <3>2, <3>3
    <3> QED
      BY <2>6, <3>4, <3>5
  <2>8. CASE ~(x + d < w)
    <3>1. h[k + 1].text = Begin(n) /\ n \in 0..(k + 1)
      BY <2>2, <2>3, <2>5, <2>8
    <3>2. g[k + 1] >= w /\ g[n + 1] >= w
      <4>1. g[k + 1] >= w
        BY <2>4, <2>8
      <4> QED
        BY <2>2, <4>1
    <3> QED
      BY <2>2, <2>6, <3>1, <3>2
  <2> QED
    BY <2>7, <2>8
<1> HIDE DEF Good
<1>9. Kept(N)
  <2>1. Nat \subseteq Good
    BY <1>7, <1>8, SetInduction
  <2>2. N \in Good
    BY <2>1
  <2> QED
    BY <2>2 DEF Good
<1>10. PICK n \in 0..N : h[N].text = Begin(n) /\ g[n] < w /\ (n = N \/ g[n + 1] >= w)
  BY <1>9
<1>11. wlen(Begin(n)) = g[n]
  BY <1>1, <1>2, WlenOfPrefix DEF Begin
<1>12. ASSUME n # N PROVE wlen(Begin(n + 1)) >= w
  <2>1. n + 1 \in 0..Len(cs)
    BY <1>1, <1>12
  <2>2. wlen(Begin(n + 1)) = g[n + 1]
    BY <1>1, <1>2, <2>1, WlenOfPrefix DEF Begin
  <2> QED
    BY <1>10, <1>12, <2>2
<1> QED
  BY <1>1, <1>4, <1>10, <1>11, <1>12 DEF Begin

\* What the bytes of a character make together, one by one.
Joining(f, t, n) == f = [i \in 1..6 |-> IF i = 1 THEN t[1] % Payload(n) ELSE (f[i - 1] * 64) + (t[i] % 64)]

LEMMA LeadAre ==
  /\ \A x \in 0..127, n \in 2..6 : x \notin Lead(n)
  /\ \A x \in 192..223 : x \in Lead(2)
  /\ \A x \in 224..239 : x \in Lead(3)
<1>1. Lead(2) = 192..223
  BY DEF Lead
<1>2. Lead(3) = 224..239
  BY DEF Lead
<1>3. Lead(4) = 240..247
  BY DEF Lead
<1>4. Lead(5) = 248..251
  BY DEF Lead
<1>5. Lead(6) = 252..253
  BY DEF Lead
<1>6. ASSUME NEW x \in 0..127, NEW n \in 2..6 PROVE x \notin Lead(n)
  <2>1. n = 2 \/ n = 3 \/ n = 4 \/ n = 5 \/ n = 6
    OBVIOUS
  <2> QED
    BY <1>1, <1>2, <1>3, <1>4, <1>5, <2>1
<1> QED
  BY <1>1, <1>2, <1>6

LEMMA BytesAre ==
  /\ \A a \in 0..128 : Bytes(a) = 1
  /\ \A a \in 193..224 : Bytes(a) = 2
  /\ \A a \in 225..240 : Bytes(a) = 3
<1>1. \A a \in 0..128 : Bytes(a) = 1
  BY DEF Bytes
<1>2. \A a \in 193..224 : Bytes(a) = 2
  BY DEF Bytes
<1>3. \A a \in 225..240 : Bytes(a) = 3
  BY DEF Bytes
<1> QED
  BY <1>1, <1>2, <1>3

LEMMA LeadIs ==
  ASSUME NEW n \in 2..6, NEW k \in 2..6, NEW x, x \in Lead(n), x \in Lead(k)
  PROVE  n = k
  BY DEF Lead

\* What a character of n bytes is read as.
LEMMA TocodepointIs ==
  ASSUME NEW t, t # <<>>, NEW n \in {2, 3}, t[1] \in Lead(n), Len(t) = n
  PROVE  tocodepoint(t) = IF n = 2 THEN (t[1] % 32) * 64 + (t[2] % 64)
                          ELSE ((t[1] % 16) * 64 + (t[2] % 64)) * 64 + (t[3] % 64)
<1> DEFINE k == CHOOSE k \in 2..6 : t[1] \in Lead(k)
           f == CHOOSE f : Joining(f, t, k)
<1>1. k = n
  <2>1. n \in 2..6
    OBVIOUS
  <2>2. k \in 2..6 /\ t[1] \in Lead(k)
    BY <2>1
  <2> QED
    BY <2>1, <2>2, LeadIs
<1>2. tocodepoint(t) = IF Len(t) < k THEN 0 ELSE f[k]
  <2>1. ~(\A j \in 2..6 : t[1] \notin Lead(j))
    OBVIOUS
  <2> QED
    BY <2>1, Zenon DEF tocodepoint, Joining
<1> HIDE DEF k, f
<1>3. tocodepoint(t) = f[n]
  BY <1>1, <1>2
<1>4. \E g : Joining(g, t, n)
  <2> DEFINE x1 == t[1] % Payload(n)
             x2 == (x1 * 64) + (t[2] % 64)
             x3 == (x2 * 64) + (t[3] % 64)
             x4 == (x3 * 64) + (t[4] % 64)
             x5 == (x4 * 64) + (t[5] % 64)
             x6 == (x5 * 64) + (t[6] % 64)
             g == [i \in 1..6 |-> CASE i = 1 -> x1 [] i = 2 -> x2 [] i = 3 -> x3 [] i = 4 -> x4
                                    [] i = 5 -> x5 [] i = 6 -> x6]
  <2>1. g[1] = x1 /\ g[2] = x2 /\ g[3] = x3 /\ g[4] = x4 /\ g[5] = x5 /\ g[6] = x6
    <3> HIDE DEF x1, x2, x3, x4, x5, x6
    <3> QED
      OBVIOUS
  <2>2. g = [i \in 1..6 |-> g[i]]
    OBVIOUS
  <2> HIDE DEF g
  <2>3. ASSUME NEW i \in 1..6 PROVE g[i] = IF i = 1 THEN t[1] % Payload(n) ELSE (g[i - 1] * 64) + (t[i] % 64)
    <3>1. CASE i = 1
      BY <2>1, <3>1
    <3>2. CASE i \in 2..6
      <4>1. i = 2 \/ i = 3 \/ i = 4 \/ i = 5 \/ i = 6
        BY <3>2
      <4>2. 2 - 1 = 1 /\ 3 - 1 = 2 /\ 4 - 1 = 3 /\ 5 - 1 = 4 /\ 6 - 1 = 5
        OBVIOUS
      <4>a. /\ g[2] = (g[2 - 1] * 64) + (t[2] % 64) /\ g[3] = (g[3 - 1] * 64) + (t[3] % 64)
            /\ g[4] = (g[4 - 1] * 64) + (t[4] % 64) /\ g[5] = (g[5 - 1] * 64) + (t[5] % 64)
            /\ g[6] = (g[6 - 1] * 64) + (t[6] % 64)
        BY <2>1, <4>2
      <4> HIDE DEF x1, x2, x3, x4, x5, x6
      <4>3. g[i] = (g[i - 1] * 64) + (t[i] % 64)
        BY <4>1, <4>a
      <4> QED
        BY <3>2, <4>3
    <3> QED
      BY <3>1, <3>2
  <2>4. Joining(g, t, n)
    BY <2>2, <2>3 DEF Joining
  <2> QED
    BY <2>4
<1>5. Joining(f, t, n)
  BY <1>1, <1>4 DEF f
<1>6. /\ f[1] = t[1] % Payload(n) /\ f[2] = (f[1] * 64) + (t[2] % 64)
      /\ f[3] = (f[2] * 64) + (t[3] % 64)
  <2>1. \A i \in 1..6 : f[i] = IF i = 1 THEN t[1] % Payload(n) ELSE (f[i - 1] * 64) + (t[i] % 64)
    BY <1>5 DEF Joining
  <2>2. 1 \in 1..6 /\ 2 \in 1..6 /\ 3 \in 1..6 /\ 2 - 1 = 1 /\ 3 - 1 = 2 /\ 2 # 1 /\ 3 # 1
    OBVIOUS
  <2> QED
    BY <2>1, <2>2
<1>7. CASE n = 2
  <2>1. Payload(n) = 32
    BY <1>7 DEF Payload
  <2> QED
    BY <1>3, <1>6, <1>7, <2>1
<1>8. CASE n = 3
  <2>1. Payload(n) = 16
    BY <1>8 DEF Payload
  <2> QED
    BY <1>3, <1>6, <1>8, <2>1
<1> QED
  BY <1>7, <1>8

\* The first character of a text that begins with a whole one.
LEMMA FirstOf ==
  ASSUME NEW c \in Seq(Octet), NEW t \in Seq(Octet), c # <<>>, Bytes(c[1]) = Len(c)
  PROVE  subs(c \o t)[1] = c
<1>1. PICK m \in Nat, l \in Nat : m = Len(c) /\ l = Len(t)
  OBVIOUS
<1>2. m # 0
  BY <1>1, EmptySeq
<1>3. PICK u \in Seq(Octet) : u = c \o t /\ Len(u) = m + l /\ \A i \in 1..m : u[i] = c[i]
  <2>1. c \o t \in Seq(Octet) /\ Len(c \o t) = Len(c) + Len(t) /\ \A i \in 1..Len(c) : (c \o t)[i] = c[i]
    BY Glued
  <2> QED
    BY <1>1, <2>1
<1>a. PICK cs \in Seq(Seq(Octet)) : cs = subs(u)
  BY SubsIs
<1>b. PICK N \in Nat : N = Len(cs)
  OBVIOUS
<1>4. PICK s : cs = subs(u) /\ Cut(u, cs, s) /\ N = Len(cs)
  BY <1>a, <1>b, SubsIs
<1>5. s[1] = 1 /\ s[N + 1] = (m + l) + 1
  BY <1>3, <1>4 DEF Cut, Pieces
<1>6. 1 \in 1..N
  <2>1. ASSUME N = 0 PROVE FALSE
    <3>1. N + 1 = 1
      BY <2>1
    <3>2. 1 = (m + l) + 1
      BY <1>5, <3>1
    <3> QED
      BY <1>2, <3>2
  <2> QED
    BY <2>1
<1>7. s[1 + 1] = next(u, s[1])
  BY <1>4, <1>6 DEF Cut
<1>8. next(u, 1) = 1 + m
  <2>1. 1 \in 1..Len(u) /\ u[1] = c[1]
    BY <1>2, <1>3
  <2>2. next(u, 1) = IF Bytes(u[1]) # 0 /\ 1 + Bytes(u[1]) <= Len(u) THEN 1 + Bytes(u[1]) ELSE Len(u) + 1
    BY <2>1, NextIs
  <2>3. next(u, 1) = IF m # 0 /\ 1 + m <= m + l THEN 1 + m ELSE (m + l) + 1
    BY <1>1, <1>3, <2>1, <2>2
  <2> QED
    BY <1>2, <2>3
<1>9. PICK d \in Seq(Octet), n \in Nat :
        d = cs[1] /\ n = Len(d) /\ s[1 + 1] = 1 + n /\ \A x \in 1..n : d[x] = u[1 + x - 1]
  <2>1. /\ cs[1] \in Seq(Octet) /\ s[1 + 1] = s[1] + Len(cs[1])
        /\ \A x \in 1..Len(cs[1]) : cs[1][x] = u[s[1] + x - 1]
    <3>1. 1 \in 1..Len(cs)
      BY <1>4, <1>6
    <3>2. Cut(u, cs, s)
      BY <1>4
    <3> QED
      BY <3>1, <3>2, CutSteps
  <2>2. Len(cs[1]) \in Nat
    BY <2>1
  <2>3. s[1 + 1] = 1 + Len(cs[1]) /\ \A x \in 1..Len(cs[1]) : cs[1][x] = u[1 + x - 1]
    BY <1>5, <2>1
  <2> QED
    BY <2>1, <2>2, <2>3
<1>10. n = m
  <2>1. s[1 + 1] = 1 + n /\ s[1 + 1] = next(u, s[1]) /\ s[1] = 1
    BY <1>5, <1>7, <1>9, Zenon
  <2>2. 1 + n = 1 + m
    BY <1>8, <2>1, Zenon
  <2> QED
    BY <2>2
<1>11. ASSUME NEW x \in 1..m PROVE d[x] = c[x]
  <2>1. 1 + x - 1 = x
    OBVIOUS
  <2> QED
    BY <1>3, <1>9, <1>10, <2>1
<1>12. d = c
  <2>1. Len(d) = Len(c) /\ Len(d) = m
    BY <1>1, <1>9, <1>10
  <2>2. \A x \in 1..Len(d) : d[x] = c[x]
    BY <1>11, <2>1
  <2>3. d \in Seq(Octet) /\ c \in Seq(Octet)
    OBVIOUS
  <2> QED
    BY <2>1, <2>2, <2>3, SeqEqual, Zenon
<1>13. subs(u)[1] = c /\ u = c \o t
  BY <1>3, <1>4, <1>9, <1>12, Zenon
<1> QED
  BY <1>13, Zenon

\* The code points of each length, and what their bytes hold of them.
Ascii(c)   == c < 128
Short(c)   == c >= 128 /\ c < 2048
Long(c)    == c >= 2048
Sixteen(c) == c < 65536
Rest(c)    == c \div 64
LastBits(c)    == c % 64
FirstBits(c)   == (c \div 4096) % 16
MiddleBits(c)  == (c \div 64) % 64
Sextet     == 0..63
Quintet    == 2..31
Quartet    == 0..15

\* What starts with 0xE0 is cut in two (unicode.cpp:437).
InHalves(c) == c \in 2048..4095

\* One, two and three bytes, read and cut.
One(c)         == <<c>>
Two(q, r)      == <<192 + q, 128 + r>>
Three(q, m, r) == <<224 + q, 128 + m, 128 + r>>

Leads(u, t)      == subs(u \o t)[1] = u
OfTwo(q, r)      == q * 64 + r
OfThree(q, m, r) == (q * 64 + m) * 64 + r

LEMMA OneByte ==
  ASSUME NEW c \in Nat, Ascii(c), NEW t \in Seq(Octet), NEW u, u = One(c)
  PROVE  tocodepoint(u) = c /\ Leads(u, t)
<1> c \in 0..127
  BY SMT DEF Ascii
<1>1. u \in Seq(Octet) /\ Len(u) = 1 /\ u[1] = c /\ u # <<>>
  BY DEF Octet, One
<1>2. \A k \in 2..6 : c \notin Lead(k)
  BY LeadAre
<1>3. tocodepoint(u) = c
  BY <1>1, <1>2, Zenon DEF tocodepoint
<1>4. Bytes(u[1]) = Len(u)
  <2>1. c \in 0..128
    OBVIOUS
  <2>2. Bytes(c) = 1
    BY <2>1, BytesAre
  <2> QED
    BY <1>1, <2>2
<1>5. Leads(u, t)
  BY <1>1, <1>4, FirstOf DEF Leads
<1> QED
  BY <1>3, <1>5

LEMMA TwoBytes ==
  ASSUME NEW q \in Quintet, NEW r \in Sextet, NEW t \in Seq(Octet), NEW u, u = Two(q, r)
  PROVE  tocodepoint(u) = OfTwo(q, r) /\ Leads(u, t)
<1> q \in 2..31 /\ r \in 0..63
  BY DEF Quintet, Sextet
<1>1. u \in Seq(Octet) /\ Len(u) = 2 /\ u[1] = 192 + q /\ u[2] = 128 + r /\ u # <<>>
  BY DEF Octet, Two
<1>2. u[1] \in Lead(2)
  <2>1. PICK a \in 192..223 : a = 192 + q
    OBVIOUS
  <2>2. a \in Lead(2)
    BY LeadAre
  <2> QED
    BY <1>1, <2>1, <2>2
<1>3. Bytes(u[1]) = Len(u)
  <2>1. 192 + q \in 193..224
    OBVIOUS
  <2>2. Bytes(192 + q) = 2
    BY <2>1, BytesAre
  <2> QED
    BY <1>1, <2>2
<1>4. tocodepoint(u) = (u[1] % 32) * 64 + (u[2] % 64)
  <2>1. 2 \in {2, 3}
    OBVIOUS
  <2> QED
    BY <1>1, <1>2, <2>1, TocodepointIs
<1>5. (192 + q) % 32 = q /\ (128 + r) % 64 = r
  OBVIOUS
<1>6. Leads(u, t)
  BY <1>1, <1>3, FirstOf DEF Leads
<1>7. tocodepoint(u) = OfTwo(q, r)
  BY <1>1, <1>4, <1>5 DEF OfTwo
<1> QED
  BY <1>6, <1>7

LEMMA ThreeBytes ==
  ASSUME NEW q \in Quartet, NEW m \in Sextet, NEW r \in Sextet, NEW t \in Seq(Octet),
         NEW u, u = Three(q, m, r)
  PROVE  tocodepoint(u) = OfThree(q, m, r) /\ (q # 0 => Leads(u, t))
<1> q \in 0..15 /\ m \in 0..63 /\ r \in 0..63
  BY DEF Quartet, Sextet
<1>1. u \in Seq(Octet) /\ Len(u) = 3 /\ u[1] = 224 + q /\ u[2] = 128 + m /\ u[3] = 128 + r /\ u # <<>>
  BY DEF Octet, Three
<1>2. u[1] \in Lead(3)
  <2>1. PICK a \in 224..239 : a = 224 + q
    OBVIOUS
  <2>2. a \in Lead(3)
    BY LeadAre
  <2> QED
    BY <1>1, <2>1, <2>2
<1>3. tocodepoint(u) = ((u[1] % 16) * 64 + (u[2] % 64)) * 64 + (u[3] % 64)
  <2>1. 3 \in {2, 3} /\ 3 # 2
    OBVIOUS
  <2>2. tocodepoint(u) = IF 3 = 2 THEN (u[1] % 32) * 64 + (u[2] % 64)
                         ELSE ((u[1] % 16) * 64 + (u[2] % 64)) * 64 + (u[3] % 64)
    BY <1>1, <1>2, <2>1, TocodepointIs
  <2> QED
    BY <2>1, <2>2
<1>4. (224 + q) % 16 = q /\ (128 + m) % 64 = m /\ (128 + r) % 64 = r
  OBVIOUS
<1>5. ASSUME q # 0 PROVE subs(u \o t)[1] = u
  <2>1. 224 + q \in 225..240
    BY <1>5
  <2>2. Bytes(224 + q) = 3
    BY <2>1, BytesAre
  <2>3. Bytes(u[1]) = Len(u)
    BY <1>1, <2>2
  <2> QED
    BY <1>1, <2>3, FirstOf
<1>6. tocodepoint(u) = OfThree(q, m, r)
  BY <1>1, <1>3, <1>4 DEF OfThree
<1> QED
  BY <1>5, <1>6 DEF Leads

LEMMA DigitsOfTwo ==
  ASSUME NEW c \in Nat, Short(c)
  PROVE  Rest(c) \in Quintet /\ LastBits(c) \in Sextet /\ Rest(c) % 32 = Rest(c) /\ c = OfTwo(Rest(c), LastBits(c))
<1>1. PICK x \in Nat, r \in Nat : x = c \div 64 /\ r = c % 64
  BY SMT
<1>2. r \in 0..63 /\ c = x * 64 + r
  BY <1>1, SMT
<1>3. x \in 2..31
  BY <1>2, SMT DEF Short
<1>4. x % 32 = x
  BY <1>3, SMT
<1> QED
  BY <1>1, <1>2, <1>3, <1>4, SMT DEF Rest, LastBits, Quintet, Sextet, OfTwo

LEMMA DigitsOfThree ==
  ASSUME NEW c \in Nat, Long(c), Sixteen(c)
  PROVE  /\ FirstBits(c) \in Quartet /\ MiddleBits(c) \in Sextet /\ LastBits(c) \in Sextet
         /\ c = OfThree(FirstBits(c), MiddleBits(c), LastBits(c)) /\ (InHalves(c) \/ FirstBits(c) # 0)
<1>1. PICK x \in Nat, r \in Nat : x = c \div 64 /\ r = c % 64
  BY SMT
<1>2. r \in 0..63 /\ c = x * 64 + r
  BY <1>1, SMT
<1>3. PICK q \in Nat, m \in Nat : q = x \div 64 /\ m = x % 64
  BY SMT
<1>4. m \in 0..63 /\ x = q * 64 + m
  BY <1>3, SMT
<1>5. q \in 0..15
  BY <1>2, <1>4, SMT DEF Sixteen
<1>6. c \div 4096 = q /\ q % 16 = q
  BY <1>2, <1>4, <1>5, SMT
<1>7. FirstBits(c) = q /\ MiddleBits(c) = m /\ LastBits(c) = r
  BY <1>1, <1>3, <1>6, SMT DEF FirstBits, MiddleBits, LastBits
<1>8. c = OfThree(q, m, r)
  BY <1>2, <1>4, SMT DEF OfThree
<1>9. InHalves(c) \/ q # 0
  BY <1>2, <1>4, SMT DEF InHalves, Long
<1>10. q \in Quartet /\ m \in Sextet /\ r \in Sextet
  BY <1>2, <1>4, <1>5, SMT DEF Quartet, Sextet
<1> QED
  BY <1>7, <1>8, <1>9, <1>10, Zenon

\* What char makes of a code point.
InOne(c, u)   == Ascii(c) /\ u = One(c)
InTwo(c, u)   == \E q \in Quintet, r \in Sextet : u = Two(q, r) /\ c = OfTwo(q, r)
InThree(c, u) == \E q \in Quartet, m \in Sextet, r \in Sextet :
                   /\ u = Three(q, m, r) /\ c = OfThree(q, m, r)
                   /\ InHalves(c) \/ q # 0
Made(c, u)    == InOne(c, u) \/ InTwo(c, u) \/ InThree(c, u)

LEMMA TocharIs ==
  ASSUME NEW c \in Nat, c \in DOMAIN FontWidth, Sixteen(c)
  PROVE  Made(c, tochar(c))
<1>1. c % 65536 = c
  BY SMT DEF Sixteen
<1>2. ASSUME Ascii(c) PROVE InOne(c, tochar(c))
  <2>1. (IF c % 65536 \in DOMAIN FontWidth THEN c % 65536 ELSE 65533) = c
    BY <1>1, SMT
  <2>2. tochar(c) = <<c>>
    BY <1>2, <2>1, SMT DEF tochar, Ascii
  <2> QED
    BY <1>2, <2>2, SMT DEF One, InOne
<1>3. ASSUME Short(c) PROVE InTwo(c, tochar(c))
  <2>1. tochar(c) = Two(Rest(c) % 32, LastBits(c))
    BY <1>1, <1>3, SMT DEF tochar, Two, Rest, LastBits, Short
  <2>2. Rest(c) \in Quintet /\ LastBits(c) \in Sextet /\ Rest(c) % 32 = Rest(c) /\ c = OfTwo(Rest(c), LastBits(c))
    BY <1>3, DigitsOfTwo, Zenon
  <2>3. tochar(c) = Two(Rest(c), LastBits(c))
    BY <2>1, <2>2, Zenon
  <2> QED
    BY <2>2, <2>3, Zenon DEF InTwo
<1>4. ASSUME Long(c) PROVE InThree(c, tochar(c))
  <2>1. tochar(c) = Three(FirstBits(c), MiddleBits(c), LastBits(c))
    BY <1>1, <1>4, SMT DEF tochar, Three, FirstBits, MiddleBits, LastBits, Long
  <2>2. /\ FirstBits(c) \in Quartet /\ MiddleBits(c) \in Sextet /\ LastBits(c) \in Sextet
        /\ c = OfThree(FirstBits(c), MiddleBits(c), LastBits(c)) /\ (InHalves(c) \/ FirstBits(c) # 0)
    BY <1>4, DigitsOfThree, Zenon
  <2> QED
    BY <2>1, <2>2, Zenon DEF InThree
<1>5. Ascii(c) \/ Short(c) \/ Long(c)
  BY SMT DEF Ascii, Short, Long
<1> QED
  BY <1>2, <1>3, <1>4, <1>5, Zenon DEF Made

\* A code point with a glyph, up to 16 bits, is read back as it was.
ReadBack(c, u, t) == tocodepoint(u) = c /\ (~InHalves(c) => Leads(u, t))

LEMMA CharReadsBack ==
  ASSUME NEW c \in Nat, NEW t \in Seq(Octet), NEW u, Made(c, u)
  PROVE  ReadBack(c, u, t)
<1>1. ASSUME InOne(c, u) PROVE ReadBack(c, u, t)
  <2>1. Ascii(c) /\ u = One(c)
    BY <1>1, Zenon DEF InOne
  <2>2. tocodepoint(u) = c /\ Leads(u, t)
    BY <2>1, OneByte, Zenon
  <2> QED
    BY <2>2, Zenon DEF ReadBack
<1>2. ASSUME InTwo(c, u) PROVE ReadBack(c, u, t)
  <2>1. PICK q \in Quintet, r \in Sextet : u = Two(q, r) /\ c = OfTwo(q, r)
    BY <1>2, Zenon DEF InTwo
  <2>2. tocodepoint(u) = OfTwo(q, r) /\ Leads(u, t)
    BY <2>1, TwoBytes, Zenon
  <2> QED
    BY <2>1, <2>2, Zenon DEF ReadBack
<1>3. ASSUME InThree(c, u) PROVE ReadBack(c, u, t)
  <2>1. PICK q \in Quartet, m \in Sextet, r \in Sextet :
          /\ u = Three(q, m, r) /\ c = OfThree(q, m, r)
          /\ InHalves(c) \/ q # 0
    BY <1>3, Zenon DEF InThree
  <2>2. tocodepoint(u) = OfThree(q, m, r) /\ (q # 0 => Leads(u, t))
    BY <2>1, ThreeBytes, Zenon
  <2> QED
    BY <2>1, <2>2, Zenon DEF ReadBack
<1> QED
  BY <1>1, <1>2, <1>3, Zenon DEF Made

TextSpec == TextInit /\ [][TextNext]_text

TextTypeOK == text \in Seq(TextBytes)

\* What holds of a text of any bytes is what TextKept says.
LEMMA TextIsKept ==
  ASSUME TextTypeOK
  PROVE  TextKept
<1>1. PICK t \in Seq(Octet) : t = text /\ text \in Seq(TextBytes)
  <2>1. TextBytes \subseteq Octet
    BY TextAssumption DEF Octet
  <2>2. text \in Seq(Octet)
    BY <2>1 DEF TextTypeOK
  <2> QED
    BY <2>2 DEF TextTypeOK
<1>2. PICK all \in Seq(Seq(Octet)) : all = subs(t)
  BY SubsIs
<1>3. FlattenSeq(all) = t /\ \A i \in DOMAIN all : all[i] # <<>>
  BY <1>2, CharsAreText
<1>4. ASSUME \A i \in DOMAIN all, b \in TextBytes : subs(Append(all[i], b))[1] = all[i]
      PROVE  reverse(reverse(t)) = t
  <2>1. ASSUME NEW k \in 1..Len(all) PROVE Len(all[k]) \in Nat \ {0} /\ Bytes(all[k][1]) = Len(all[k])
    <3>1. PICK s : Cut(t, all, s)
      BY <1>2, SubsIs
    <3>2. s[k] \in 1..Len(t)
      BY <3>1, CutSteps
    <3>3. 1 \in 1..Len(t)
      BY <3>2
    <3>4. t[1] \in TextBytes /\ t[1] \in Octet
      BY <1>1, <3>3
    <3>5. PICK c \in Seq(Octet) : c = all[k] /\ c # <<>>
      BY <1>3
    <3>6. subs(Append(c, t[1]))[1] = c
      BY <1>4, <3>4, <3>5
    <3>7. Len(c) \in Nat \ {0} /\ Bytes(c[1]) = Len(c)
      BY <3>4, <3>5, <3>6, StaysCharacter
    <3> QED
      BY <3>5, <3>7
  <2>2. Closed(subs(t))
    BY <1>2, <2>1 DEF Closed
  <2> QED
    BY <2>2, ReverseTwice
<1>5. ASSUME NEW i \in (-(MaxText + 1))..(MaxText + 1) \ {-1}
      PROVE  sub(t, 1, i) \o sub(t, i + 1, -1) = t
  <2>1. i \in Int /\ i # -1
    BY TextAssumption
  <2> QED
    BY <2>1, SubsMeet
<1>6. ASSUME NEW w \in 1..(2 * MaxText)
      PROVE  \E n \in 0..Len(all) :
               /\ wtrunc(t, w) = FlattenSeq(SubSeq(all, 1, n))
               /\ wlen(FlattenSeq(SubSeq(all, 1, n))) < w
               /\ n = Len(all) \/ wlen(FlattenSeq(SubSeq(all, 1, n + 1))) >= w
  <2>1. w \in Nat \ {0}
    BY TextAssumption
  <2>2. \E n \in 0..Len(subs(t)) :
          /\ wtrunc(t, w) = FlattenSeq(SubSeq(subs(t), 1, n))
          /\ wlen(FlattenSeq(SubSeq(subs(t), 1, n))) < w
          /\ n = Len(subs(t)) \/ wlen(FlattenSeq(SubSeq(subs(t), 1, n + 1))) >= w
    BY <2>1, WtruncKeeps
  <2> QED
    BY <1>2, <2>2
<1> QED
  BY <1>1, <1>2, <1>3, <1>4, <1>5, <1>6, Zenon DEF TextKept

LEMMA TextReadsBack ==
  ASSUME TextTypeOK
  PROVE  CharsReadBack
<1>1. text \in Seq(Octet)
  <2>1. TextBytes \subseteq Octet
    BY TextAssumption DEF Octet
  <2> QED
    BY <2>1 DEF TextTypeOK
<1>2. ASSUME NEW c \in CodePoints, c \in DOMAIN FontWidth, c < 65536
      PROVE  tocodepoint(tochar(c)) = c /\ (c \notin 2048..4095 => subs(tochar(c) \o text)[1] = tochar(c))
  <2>1. c \in Nat
    BY SMT, TextAssumption
  <2>2. Made(c, tochar(c))
    <3>1. Sixteen(c)
      BY <1>2, SMT DEF Sixteen
    <3>2. c \in DOMAIN FontWidth
      BY <1>2, SMT
    <3> QED
      BY <2>1, <3>1, <3>2, TocharIs, Zenon
  <2>3. ReadBack(c, tochar(c), text)
    BY <1>1, <2>1, <2>2, CharReadsBack, Zenon
  <2> QED
    BY <2>3, SMT DEF ReadBack, InHalves, Leads
<1> QED
  BY <1>2, SMT DEF CharsReadBack

THEOREM TextSound == TextSpec => []TextIsSound
<1>1. TextInit => TextTypeOK
  BY DEF TextInit, TextTypeOK
<1>2. TextTypeOK /\ [TextNext]_text => TextTypeOK'
  BY DEF TextTypeOK, TextNext
<1>3. TextTypeOK => TextIsSound
  BY TextIsKept, TextReadsBack DEF TextIsSound
<1> QED
  BY <1>1, <1>2, <1>3, PTL DEF TextSpec
=============================================================================
