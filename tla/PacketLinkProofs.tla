-------------------------- MODULE PacketLinkProofs --------------------------
(***************************************************************************)
(* The two ends of a connection agree on every stream, for every header size,  *)
(* buffer, socket and set of payloads.  First a header: what readyNextPacket   *)
(* makes of the bytes of a size is that size.  Then one read of the buffer,   *)
(* and at last the frames in the stream.                                      *)
(***************************************************************************)
EXTENDS PacketLink, SubsequenceProofs

-----------------------------------------------------------------------------
(* The header *)

\* What is left of a size after each of its bytes.
LEMMA ShiftedIs ==
  ASSUME NEW size \in Nat
  PROVE  /\ Shifted(size) \in [0..HeaderSize -> Nat]
         /\ Shifted(size)[0] = size
         /\ \A i \in 1..HeaderSize : Shifted(size)[i] = Shifted(size)[i - 1] \div Base
<1>0. HeaderSize \in Nat /\ Base \in Nat /\ Base > 1
  BY ConnectionAssumption
<1> DEFINE F == [x \in Nat \X Nat |-> x[2] \div Base]
           Is(f) == f = [i \in 0..HeaderSize |-> IF i = 0 THEN size ELSE f[i - 1] \div Base]
<1>1. F \in [Nat \X Nat -> Nat]
  <2>1. \A x \in Nat \X Nat : x[2] \div Base \in Nat
    BY <1>0
  <2> QED
    BY <2>1
<1>2. \A i \in Nat, v \in Nat : F[<<i, v>>] = v \div Base
  OBVIOUS
<1> HIDE DEF F
<1>c. PICK g \in [0..HeaderSize -> Nat] : Follows(g, size, HeaderSize, F)
  BY <1>0, <1>1, StepsExist
<1>3. g[0] = size /\ \A i \in 1..HeaderSize : g[i] = F[<<i, g[i - 1]>>]
  BY <1>c DEF Follows
<1>4. ASSUME NEW i \in 0..HeaderSize, i # 0 PROVE g[i] = g[i - 1] \div Base
  <2>1. i \in 1..HeaderSize /\ i - 1 \in 0..HeaderSize /\ i \in Nat
    BY <1>0, <1>4
  <2>2. g[i - 1] \in Nat
    BY <2>1
  <2> QED
    BY <1>2, <1>3, <2>1, <2>2
<1>5. Is(g)
  BY <1>3, <1>4
<1>6. PICK f : f = Shifted(size)
  OBVIOUS
<1>7. f = CHOOSE h : Is(h)
  BY <1>6 DEF Shifted
<1>8. Is(f)
  BY <1>5, <1>7
<1>9. f[0] = size /\ \A i \in 1..HeaderSize : f[i] = f[i - 1] \div Base
  <2>1. \A i \in 0..HeaderSize : f[i] = IF i = 0 THEN size ELSE f[i - 1] \div Base
    BY <1>8
  <2> QED
    BY <1>0, <2>1
<1>10. \A i \in 0..HeaderSize : f[i] \in Nat
  <2> DEFINE Good == {i \in Nat : i <= HeaderSize => f[i] \in Nat}
  <2>1. 0 \in Good
    BY <1>9
  <2>2. ASSUME NEW i \in Nat, i \in Good PROVE i + 1 \in Good
    <3> SUFFICES ASSUME i + 1 <= HeaderSize PROVE f[i + 1] \in Nat
      OBVIOUS
    <3>1. f[i] \in Nat /\ i + 1 \in 1..HeaderSize /\ (i + 1) - 1 = i
      BY <1>0, <2>2
    <3>2. f[i + 1] = f[i] \div Base
      BY <1>9, <3>1
    <3>3. PICK v \in Nat : v = f[i]
      BY <3>1
    <3>4. v \div Base \in Nat
      BY <1>0
    <3> QED
      BY <3>2, <3>3, <3>4
  <2> HIDE DEF Good
  <2>3. Nat \subseteq Good
    BY <2>1, <2>2, SetInduction
  <2> QED
    BY <1>0, <2>3 DEF Good
<1>11. f \in [0..HeaderSize -> Nat]
  BY <1>8, <1>10
<1> QED
  BY <1>6, <1>9, <1>11

\* The value of each number of last bytes of a header.
LEMMA ValuesAre ==
  ASSUME NEW header \in Seq(Byte), Len(header) = HeaderSize
  PROVE  /\ Values(header) \in [0..HeaderSize -> Nat]
         /\ Values(header)[0] = 0
         /\ \A i \in 1..HeaderSize :
              Values(header)[i] = header[HeaderSize - i + 1] + Base * Values(header)[i - 1]
<1>0. HeaderSize \in Nat /\ Base \in Nat /\ Base > 1
  BY ConnectionAssumption
<1> DEFINE At(i) == IF i \in 1..HeaderSize THEN header[HeaderSize - i + 1] ELSE 0
           F == [x \in Nat \X Nat |-> At(x[1]) + Base * x[2]]
           Is(f) == f = [i \in 0..HeaderSize |->
                           IF i = 0 THEN 0 ELSE header[HeaderSize - i + 1] + Base * f[i - 1]]
<1>a. \A i \in Nat : At(i) \in Nat
  <2>1. \A i \in 1..HeaderSize : HeaderSize - i + 1 \in 1..Len(header)
    BY <1>0
  <2>2. \A j \in 1..Len(header) : header[j] \in Nat
    BY <1>0 DEF Byte
  <2> QED
    BY <2>1, <2>2
<1>b. \A i \in 1..HeaderSize : At(i) = header[HeaderSize - i + 1]
  OBVIOUS
<1> HIDE DEF At
<1>1. F \in [Nat \X Nat -> Nat]
  <2>1. \A x \in Nat \X Nat : x[1] \in Nat /\ x[2] \in Nat
    OBVIOUS
  <2>2. ASSUME NEW i \in Nat, NEW v \in Nat PROVE At(i) + Base * v \in Nat
    <3>1. PICK a \in Nat : a = At(i)
      BY <1>a
    <3>2. Base * v \in Nat
      BY <1>0
    <3> QED
      BY <3>1, <3>2
  <2> QED
    BY <2>1, <2>2
<1>2. \A i \in Nat, v \in Nat : F[<<i, v>>] = At(i) + Base * v
  OBVIOUS
<1> HIDE DEF F
<1>c. PICK g \in [0..HeaderSize -> Nat] : Follows(g, 0, HeaderSize, F)
  BY <1>0, <1>1, StepsExist
<1>3. g[0] = 0 /\ \A i \in 1..HeaderSize : g[i] = F[<<i, g[i - 1]>>]
  BY <1>c DEF Follows
<1>4. ASSUME NEW i \in 0..HeaderSize, i # 0
      PROVE  g[i] = header[HeaderSize - i + 1] + Base * g[i - 1]
  <2>1. i \in 1..HeaderSize /\ i - 1 \in 0..HeaderSize /\ i \in Nat
    BY <1>0, <1>4
  <2>2. g[i - 1] \in Nat
    BY <2>1
  <2> QED
    BY <1>b, <1>2, <1>3, <2>1, <2>2
<1>5. Is(g)
  BY <1>3, <1>4
<1>6. PICK f : f = Values(header)
  OBVIOUS
<1>7. f = CHOOSE h : Is(h)
  BY <1>6 DEF Values
<1>8. Is(f)
  BY <1>5, <1>7
<1>9. f[0] = 0 /\ \A i \in 1..HeaderSize : f[i] = header[HeaderSize - i + 1] + Base * f[i - 1]
  <2>1. \A i \in 0..HeaderSize :
          f[i] = IF i = 0 THEN 0 ELSE header[HeaderSize - i + 1] + Base * f[i - 1]
    BY <1>8
  <2> QED
    BY <1>0, <2>1
<1>10. \A i \in 0..HeaderSize : f[i] \in Nat
  <2> DEFINE Good == {i \in Nat : i <= HeaderSize => f[i] \in Nat}
  <2>1. 0 \in Good
    BY <1>9
  <2>2. ASSUME NEW i \in Nat, i \in Good PROVE i + 1 \in Good
    <3> SUFFICES ASSUME i + 1 <= HeaderSize PROVE f[i + 1] \in Nat
      OBVIOUS
    <3>1. f[i] \in Nat /\ i + 1 \in 1..HeaderSize /\ (i + 1) - 1 = i /\ i + 1 \in Nat
      BY <1>0, <2>2
    <3>2. f[i + 1] = At(i + 1) + Base * f[i]
      BY <1>b, <1>9, <3>1
    <3>3. PICK a \in Nat : a = At(i + 1)
      BY <1>a, <3>1
    <3>4. Base * f[i] \in Nat
      BY <1>0, <3>1
    <3> QED
      BY <3>2, <3>3, <3>4
  <2> HIDE DEF Good
  <2>3. Nat \subseteq Good
    BY <2>1, <2>2, SetInduction
  <2> QED
    BY <1>0, <2>3 DEF Good
<1>11. f \in [0..HeaderSize -> Nat]
  BY <1>8, <1>10
<1> QED
  BY <1>6, <1>9, <1>11

LEMMA DecodeNat ==
  ASSUME NEW header \in Seq(Byte), Len(header) = HeaderSize
  PROVE  Decode(header) \in Nat
BY ValuesAre, ConnectionAssumption DEF Decode

LEMMA EncodeSeq ==
  ASSUME NEW size \in Nat
  PROVE  /\ Encode(size) \in Seq(Byte) /\ Len(Encode(size)) = HeaderSize
         /\ \A i \in 1..HeaderSize : Encode(size)[i] = Shifted(size)[i - 1] % Base
<1>0. HeaderSize \in Nat /\ Base \in Nat /\ Base > 1
  BY ConnectionAssumption
<1>1. PICK e : e = Encode(size)
  OBVIOUS
<1>2. e = [i \in 1..HeaderSize |-> Shifted(size)[i - 1] % Base]
  BY <1>1 DEF Encode
<1>3. ASSUME NEW i \in 1..HeaderSize PROVE Shifted(size)[i - 1] % Base \in Byte
  <2>1. i - 1 \in 0..HeaderSize
    BY <1>0
  <2>2. PICK n \in Nat : n = Shifted(size)[i - 1]
    BY <2>1, ShiftedIs
  <2>3. n % Base \in 0..(Base - 1)
    BY <1>0
  <2> QED
    BY <2>2, <2>3 DEF Byte
<1>4. e \in [1..HeaderSize -> Byte]
  BY <1>2, <1>3
<1>5. e \in Seq(Byte) /\ Len(e) = HeaderSize
  BY <1>0, <1>4
<1> QED
  BY <1>1, <1>2, <1>5

\* The reader's Connection gets the size that the writer put in the header.
THEOREM HeaderGivesTheSize ==
  ASSUME NEW size \in Nat, InHeader(size)
  PROVE  Decode(Encode(size)) = size
<1>0. HeaderSize \in Nat /\ Base \in Nat /\ Base > 1
  BY ConnectionAssumption
<1>1. PICK e : e = Encode(size)
  OBVIOUS
<1>2. PICK s : s = Shifted(size)
  OBVIOUS
<1>3. PICK v : v = Values(e)
  OBVIOUS
<1>4. /\ e \in Seq(Byte) /\ Len(e) = HeaderSize
      /\ \A i \in 1..HeaderSize : e[i] = s[i - 1] % Base
  BY <1>1, <1>2, EncodeSeq
<1>5. /\ s \in [0..HeaderSize -> Nat] /\ s[0] = size /\ s[HeaderSize] = 0
      /\ \A i \in 1..HeaderSize : s[i] = s[i - 1] \div Base
  BY <1>2, ShiftedIs DEF InHeader
<1>6. /\ v[0] = 0
      /\ \A i \in 1..HeaderSize : v[i] = e[HeaderSize - i + 1] + Base * v[i - 1]
  BY <1>3, <1>4, ValuesAre
<1> DEFINE Good == {i \in Nat : i <= HeaderSize => v[i] = s[HeaderSize - i]}
<1>7. 0 \in Good
  BY <1>0, <1>5, <1>6
<1>8. ASSUME NEW i \in Nat, i \in Good PROVE i + 1 \in Good
  <2> SUFFICES ASSUME i + 1 <= HeaderSize PROVE v[i + 1] = s[HeaderSize - (i + 1)]
    OBVIOUS
  <2>1. PICK j \in 1..HeaderSize : j = HeaderSize - i
    BY <1>0
  <2>2. v[i] = s[j]
    BY <1>0, <1>8, <2>1
  <2>3. v[i + 1] = e[j] + Base * v[i]
    <3>1. i + 1 \in 1..HeaderSize /\ HeaderSize - (i + 1) + 1 = j /\ (i + 1) - 1 = i
      BY <1>0, <2>1
    <3> QED
      BY <1>6, <3>1
  <2>4. PICK r \in Nat : r = s[j - 1]
    <3>1. j - 1 \in 0..HeaderSize
      BY <1>0, <2>1
    <3> QED
      BY <1>5, <3>1
  <2>5. e[j] = r % Base /\ s[j] = r \div Base
    BY <1>4, <1>5, <2>4
  <2>6. r = Base * (r \div Base) + (r % Base) /\ r \div Base \in Nat /\ r % Base \in Nat
    BY <1>0
  <2>7. v[i + 1] = r
    BY <1>0, <2>2, <2>3, <2>5, <2>6
  <2>8. j - 1 = HeaderSize - (i + 1)
    BY <1>0, <2>1
  <2> QED
    BY <2>4, <2>7, <2>8
<1> HIDE DEF Good
<1>9. Nat \subseteq Good
  BY <1>7, <1>8, SetInduction
<1>10. v[HeaderSize] = s[HeaderSize - HeaderSize] /\ HeaderSize - HeaderSize = 0
  BY <1>0, <1>9 DEF Good
<1> QED
  BY <1>1, <1>3, <1>5, <1>10 DEF Decode
-----------------------------------------------------------------------------
(* One read *)

LEMMA MaxOf ==
  ASSUME NEW x \in Int, NEW y \in Int
  PROVE  Max({x, y}) = IF x >= y THEN x ELSE y
<1> DEFINE m == IF x >= y THEN x ELSE y
<1>1. m \in {x, y} /\ \A z \in {x, y} : m >= z
  OBVIOUS
<1>2. \A w \in {x, y} : (\A z \in {x, y} : w >= z) => w = m
  OBVIOUS
<1> HIDE DEF m
<1>3. Max({x, y}) = m
  BY <1>1, <1>2 DEF Max
<1> QED
  BY <1>3 DEF m

LEMMA MinOf ==
  ASSUME NEW x \in Int, NEW y \in Int
  PROVE  Min({x, y}) = IF x <= y THEN x ELSE y
<1> DEFINE m == IF x <= y THEN x ELSE y
<1>1. m \in {x, y} /\ \A z \in {x, y} : m =< z
  OBVIOUS
<1>2. \A w \in {x, y} : (\A z \in {x, y} : w =< z) => w = m
  OBVIOUS
<1> HIDE DEF m
<1>3. Min({x, y}) = m
  BY <1>1, <1>2 DEF Min
<1> QED
  BY <1>3 DEF m

\* The bytes of the stream T after place o are, as far as place m, what d has in its
\* buffer and then what is on the wire.
Holds(d, T, o, m) ==
  /\ \A x \in 1..Len(d.buffer) : o + x <= m => d.buffer[x] = T[o + x]
  /\ \A x \in 1..Len(d.wire) : o + Len(d.buffer) + x <= m
                                 => d.wire[x] = T[o + Len(d.buffer) + x]

\* What can be said of d, whose bytes were all in e.
Moved(d, e, k) ==
  /\ d \in Conn /\ d.peer = e.peer
  /\ Len(d.buffer) = Len(e.buffer) + k /\ Len(d.wire) = Len(e.wire) - k
  /\ \A T : \A o \in Nat, m \in Nat : Holds(e, T, o, m) => Holds(d, T, o, m)

LEMMA ReceivedMoves ==
  ASSUME NEW e \in Conn, NEW k \in 0..Len(e.wire)
  PROVE  Moved(Received(e, k), e, k) /\ Received(e, k).state = e.state
<1>1. PICK b : b = e.buffer
  OBVIOUS
<1>2. PICK w : w = e.wire
  OBVIOUS
<1>3. b \in Seq(Byte) /\ w \in Seq(Byte) /\ k \in Nat /\ k <= Len(w)
  BY <1>1, <1>2 DEF Conn
<1>4. PICK f : f = SubSeq(w, 1, k)
  OBVIOUS
<1>5. f \in Seq(Byte) /\ Len(f) = k /\ \A x \in 1..k : f[x] = w[x]
  BY <1>3, <1>4
<1>6. PICK v : v = SubSeq(w, k + 1, Len(w))
  OBVIOUS
<1>7. v \in Seq(Byte) /\ Len(v) = Len(w) - k /\ \A x \in 1..Len(v) : v[x] = w[k + x]
  BY <1>3, <1>6
<1>8. PICK bf : bf = b \o f
  OBVIOUS
<1>9. /\ bf \in Seq(Byte) /\ Len(bf) = Len(b) + k
      /\ \A x \in 1..Len(b) : bf[x] = b[x]
      /\ \A x \in 1..k : bf[Len(b) + x] = f[x]
  BY <1>3, <1>5, <1>8
<1>10. PICK d : d = Received(e, k)
  OBVIOUS
<1>11. d = [e EXCEPT !.buffer = bf, !.wire = v]
  BY <1>1, <1>2, <1>4, <1>6, <1>8, <1>10 DEF Received, Skip
<1>12. d \in Conn /\ d.peer = e.peer /\ d.state = e.state /\ d.buffer = bf /\ d.wire = v
  BY <1>7, <1>9, <1>11 DEF Conn
<1>13. ASSUME NEW T, NEW o \in Nat, NEW m \in Nat, Holds(e, T, o, m)
       PROVE  Holds(d, T, o, m)
  <2>1. /\ \A x \in 1..Len(b) : o + x <= m => b[x] = T[o + x]
        /\ \A x \in 1..Len(w) : o + Len(b) + x <= m => w[x] = T[o + Len(b) + x]
    BY <1>1, <1>2, <1>13 DEF Holds
  <2>2. ASSUME NEW x \in 1..Len(bf), o + x <= m PROVE bf[x] = T[o + x]
    <3>1. CASE x <= Len(b)
      <4>1. x \in 1..Len(b)
        BY <1>3, <3>1
      <4> QED
        BY <1>9, <2>1, <2>2, <4>1
    <3>2. CASE x > Len(b)
      <4>1. PICK y \in 1..k : x = Len(b) + y
        <5>1. PICK n \in Nat : n = Len(b)
          BY <1>3
        <5>2. x \in 1..(n + k) /\ x > n
          BY <1>9, <3>2, <5>1
        <5>3. x - n \in 1..k /\ x = n + (x - n)
          BY <1>3, <5>2
        <5> QED
          BY <5>1, <5>3
      <4>2. bf[x] = f[y] /\ f[y] = w[y]
        BY <1>5, <1>9, <4>1
      <4>3. y \in 1..Len(w) /\ o + Len(b) + y = o + x
        BY <1>3, <4>1
      <4> QED
        BY <2>1, <2>2, <4>2, <4>3
    <3> QED
      BY <1>3, <3>1, <3>2
  <2>3. ASSUME NEW x \in 1..Len(v), o + Len(bf) + x <= m PROVE v[x] = T[o + Len(bf) + x]
    <3>1. v[x] = w[k + x] /\ k + x \in 1..Len(w)
      BY <1>3, <1>7
    <3>2. o + Len(bf) + x = o + Len(b) + (k + x)
      BY <1>3, <1>9
    <3> QED
      BY <2>1, <2>3, <3>1, <3>2
  <2> QED
    BY <1>12, <2>2, <2>3 DEF Holds
<1> QED
  BY <1>1, <1>2, <1>7, <1>9, <1>10, <1>12, <1>13 DEF Moved

\* What preload leaves when it is asked for as much as a buffer holds, or less.
IsRead(r, e, bytes) ==
  /\ r.ok \in BOOLEAN
  /\ \E k \in 0..Len(e.wire) : Moved(r.c, e, k)
  /\ Len(r.c.buffer) <= Len(e.buffer) \/ Len(r.c.buffer) <= bytes
  /\ r.ok => r.c.state = "Ready" /\ Len(r.c.buffer) >= bytes
  /\ \/ r.c.state = "Ready"
     \/ /\ r.c.state = "Finished" /\ ~r.ok /\ e.peer # "open"
        /\ Len(e.buffer) + Len(e.wire) < bytes

LEMMA PreloadReads ==
  ASSUME NEW e \in Conn, e.state = "Ready", NEW bytes \in Nat, bytes <= MaxBuffer,
         NEW r \in preload(e, bytes)
  PROVE  IsRead(r, e, bytes)
<1>0. MaxBuffer \in Nat
  BY ConnectionAssumption
<1> DEFINE need == Max({0, bytes - Len(e.buffer)})
           all  == Len(e.wire)
<1>1. /\ e.buffer \in Seq(Byte) /\ e.wire \in Seq(Byte) /\ Len(e.buffer) \in Nat
      /\ Len(e.wire) \in Nat
  BY DEF Conn
<1>2. /\ need \in Nat /\ all \in Nat
      /\ need = IF bytes - Len(e.buffer) > 0 THEN bytes - Len(e.buffer) ELSE 0
  BY <1>1, MaxOf
<1>3. Min({bytes, MaxBuffer}) = bytes
  BY <1>0, MinOf
<1>4. r \in ReadLoop(e, bytes)
  BY <1>0, <1>3 DEF preload
<1>5. PICK least \in Int : /\ least = Min({need - 1, all})
                          /\ least <= need - 1 /\ least <= all
  <2> HIDE DEF need, all
  <2> QED
    BY <1>2, MinOf
<1>6. \/ r \in {[ok |-> TRUE, c |-> Received(e, k)] : k \in {need} \cap 0..all}
      \/ r \in {[ok |-> FALSE, c |-> Received(e, k)] : k \in 0..least}
      \/ r \in {[ok |-> FALSE, c |-> [Received(e, k) EXCEPT !.state = "Finished"]] :
                k \in {j \in {all} : need > j /\ e.peer # "open"}}
  BY <1>4, <1>5 DEF ReadLoop
<1>a. PICK n \in Nat : n = Len(e.buffer)
  BY <1>1
<1>b. PICK w \in Nat : w = Len(e.wire) /\ w = all
  BY <1>1
<1>c. need = IF bytes - n > 0 THEN bytes - n ELSE 0
  BY <1>2, <1>a
<1> HIDE DEF need, all
<1>7. CASE r \in {[ok |-> TRUE, c |-> Received(e, k)] : k \in {need} \cap 0..all}
  <2>1. need \in 0..Len(e.wire) /\ r = [ok |-> TRUE, c |-> Received(e, need)]
    BY <1>7, <1>b
  <2>2. Moved(r.c, e, need) /\ r.c.state = "Ready" /\ r.ok = TRUE
    BY <2>1, ReceivedMoves
  <2>3. Len(r.c.buffer) = n + need
    BY <1>a, <2>2 DEF Moved
  <2>4. n + need >= bytes /\ (n + need <= n \/ n + need <= bytes)
    BY <1>2, <1>c
  <2> QED
    BY <1>a, <2>1, <2>2, <2>3, <2>4 DEF IsRead
<1>8. CASE r \in {[ok |-> FALSE, c |-> Received(e, k)] : k \in 0..least}
  <2>1. PICK k \in 0..least : r = [ok |-> FALSE, c |-> Received(e, k)]
    BY <1>8
  <2>2. k \in 0..w /\ k \in 0..Len(e.wire) /\ k <= need - 1
    BY <1>2, <1>5, <1>b
  <2>3. Moved(r.c, e, k) /\ r.c.state = "Ready" /\ r.ok = FALSE
    BY <2>1, <2>2, ReceivedMoves
  <2>4. Len(r.c.buffer) = n + k
    BY <1>a, <2>3 DEF Moved
  <2>5. n + k <= n \/ n + k <= bytes
    BY <1>2, <1>c, <2>2
  <2> QED
    BY <1>a, <2>2, <2>3, <2>4, <2>5 DEF IsRead
<1>9. CASE r \in {[ok |-> FALSE, c |-> [Received(e, k) EXCEPT !.state = "Finished"]] :
                k \in {j \in {all} : need > j /\ e.peer # "open"}}
  <2>1. /\ all \in 0..Len(e.wire) /\ need > all /\ e.peer # "open"
        /\ r = [ok |-> FALSE, c |-> [Received(e, all) EXCEPT !.state = "Finished"]]
    BY <1>9, <1>b
  <2>2. PICK d : d = Received(e, all)
    OBVIOUS
  <2>3. Moved(d, e, all) /\ d.state = "Ready"
    BY <2>1, <2>2, ReceivedMoves
  <2>4. r.c = [d EXCEPT !.state = "Finished"] /\ r.ok = FALSE
    BY <2>1, <2>2
  <2>5. d \in Conn
    BY <2>3 DEF Moved
  <2>6. /\ r.c \in Conn /\ r.c.state = "Finished" /\ r.c.peer = d.peer
        /\ r.c.buffer = d.buffer /\ r.c.wire = d.wire
    BY <2>4, <2>5 DEF Conn, ConnectionState
  <2>7. \A T, o, m : Holds(d, T, o, m) => Holds(r.c, T, o, m)
    BY <2>6 DEF Holds
  <2>8. Moved(r.c, e, all)
    BY <2>3, <2>6, <2>7 DEF Moved
  <2>9. Len(r.c.buffer) = n + w
    BY <1>a, <1>b, <2>8 DEF Moved
  <2>10. n + w < bytes
    BY <1>2, <1>b, <1>c, <2>1
  <2> QED
    BY <1>a, <1>b, <2>1, <2>4, <2>6, <2>8, <2>9, <2>10 DEF IsRead
<1> QED
  BY <1>6, <1>7, <1>8, <1>9
LEMMA MoveTakes ==
  ASSUME NEW d \in Conn, NEW n \in 0..Len(d.buffer)
  PROVE  /\ move(d, n) \in Conn
         /\ move(d, n).state = d.state /\ move(d, n).peer = d.peer
         /\ Len(move(d, n).buffer) = Len(d.buffer) - n
         /\ Len(move(d, n).wire) = Len(d.wire)
         /\ \A T : \A o \in Nat, m \in Nat :
              Holds(d, T, o, m) => Holds(move(d, n), T, o + n, m)
<1>1. PICK b : b = d.buffer
  OBVIOUS
<1>2. b \in Seq(Byte) /\ Len(b) \in Nat /\ n \in Nat /\ n <= Len(b)
  BY <1>1 DEF Conn
<1>3. PICK v : v = SubSeq(b, n + 1, Len(b))
  OBVIOUS
<1>4. v \in Seq(Byte) /\ Len(v) = Len(b) - n /\ \A x \in 1..Len(v) : v[x] = b[n + x]
  BY <1>2, <1>3
<1>5. PICK e : e = move(d, n)
  OBVIOUS
<1>6. e = [d EXCEPT !.buffer = v]
  BY <1>1, <1>2, <1>3, <1>5 DEF move, Skip
<1>7. /\ e \in Conn /\ e.state = d.state /\ e.peer = d.peer /\ e.buffer = v
      /\ e.wire = d.wire
  BY <1>4, <1>6 DEF Conn
<1>8. ASSUME NEW T, NEW o \in Nat, NEW m \in Nat, Holds(d, T, o, m)
      PROVE  Holds(e, T, o + n, m)
  <2>1. /\ \A x \in 1..Len(b) : o + x <= m => b[x] = T[o + x]
        /\ \A x \in 1..Len(d.wire) : o + Len(b) + x <= m => d.wire[x] = T[o + Len(b) + x]
    BY <1>1, <1>8 DEF Holds
  <2>2. ASSUME NEW x \in 1..Len(v), o + n + x <= m PROVE v[x] = T[o + n + x]
    <3>1. v[x] = b[n + x] /\ n + x \in 1..Len(b) /\ o + (n + x) = o + n + x
      BY <1>2, <1>4
    <3> QED
      BY <2>1, <2>2, <3>1
  <2>3. ASSUME NEW x \in 1..Len(d.wire), o + n + Len(v) + x <= m
        PROVE  d.wire[x] = T[o + n + Len(v) + x]
    <3>1. o + n + Len(v) + x = o + Len(b) + x
      BY <1>2, <1>4
    <3> QED
      BY <2>1, <2>3, <3>1
  <2> QED
    BY <1>7, <2>2, <2>3 DEF Holds
<1> QED
  BY <1>1, <1>4, <1>5, <1>7, <1>8

\* The header at the start of a buffer, where the frame ends that it announces, and
\* the payload between them.
HeaderIn(d)   == SubSeq(d.buffer, 1, HeaderSize)
EndIn(d)      == HeaderSize + Decode(HeaderIn(d))
PayloadTo(d, n) == SubSeq(d.buffer, HeaderSize + 1, n)

\* The ways in which readyNextPacket ends.
NoHeader(r, h)     == ~h.ok /\ r.ok = FALSE /\ r.c = h.c
BadHeader(r, h)    == /\ h.ok /\ EndIn(h.c) > MaxBuffer
                      /\ r.ok = FALSE /\ r.c = move(h.c, HeaderSize)
NoPayload(r, h, p) == /\ h.ok /\ EndIn(h.c) <= MaxBuffer /\ IsRead(p, h.c, EndIn(h.c))
                      /\ ~p.ok /\ r.ok = FALSE /\ r.c = p.c
Packet(r, h, p, keeps) ==
  /\ h.ok /\ EndIn(h.c) <= MaxBuffer /\ IsRead(p, h.c, EndIn(h.c))
  /\ p.ok /\ r.ok = TRUE /\ r.c = move(p.c, EndIn(h.c))
  /\ r.packet = IF keeps THEN HeaderIn(h.c) \o PayloadTo(p.c, EndIn(h.c))
                         ELSE PayloadTo(p.c, EndIn(h.c))

LEMMA HeaderInSeq ==
  ASSUME NEW d \in Conn, HeaderSize <= Len(d.buffer)
  PROVE  /\ HeaderIn(d) \in Seq(Byte) /\ Len(HeaderIn(d)) = HeaderSize
         /\ \A x \in 1..HeaderSize : HeaderIn(d)[x] = d.buffer[x]
         /\ Decode(HeaderIn(d)) \in Nat /\ EndIn(d) \in Nat /\ EndIn(d) >= HeaderSize
<1>0. HeaderSize \in Nat
  BY ConnectionAssumption
<1>1. PICK b : b = d.buffer
  OBVIOUS
<1>2. b \in Seq(Byte) /\ HeaderSize <= Len(b)
  BY <1>1 DEF Conn
<1>3. PICK h : h = SubSeq(b, 1, HeaderSize)
  OBVIOUS
<1>4. h \in Seq(Byte) /\ Len(h) = HeaderSize /\ \A x \in 1..HeaderSize : h[x] = b[x]
  BY <1>0, <1>2, <1>3
<1>5. Decode(h) \in Nat
  BY <1>4, DecodeNat
<1> QED
  BY <1>0, <1>1, <1>3, <1>4, <1>5 DEF HeaderIn, EndIn

LEMMA ReadyNextPacketEnds ==
  ASSUME NEW e \in Conn, e.state = "Ready", NEW keeps \in BOOLEAN,
         NEW r \in readyNextPacket(e, keeps)
  PROVE  \E h, p : /\ IsRead(h, e, HeaderSize)
                   /\ \/ NoHeader(r, h) \/ BadHeader(r, h)
                      \/ NoPayload(r, h, p) \/ Packet(r, h, p, keeps)
<1>0. HeaderSize \in Nat /\ MaxBuffer \in Nat /\ HeaderSize <= MaxBuffer
  BY ConnectionAssumption
<1> DEFINE header == back_insert(e, 0, HeaderSize)
           Payload(h) == back_insert(h.c, HeaderSize, Decode(h.out))
           End(h) == HeaderSize + Decode(h.out)
           fits == {h \in header : h.ok /\ End(h) <= MaxBuffer}
<1>1. ASSUME NEW h \in header
      PROVE  /\ IsRead(h, e, HeaderSize)
             /\ h.ok => h.out = HeaderIn(h.c) /\ End(h) = EndIn(h.c) /\ EndIn(h.c) \in Nat
                        /\ Decode(h.out) \in Nat /\ h.c \in Conn /\ h.c.state = "Ready"
  <2>1. PICK q \in preload(e, 0 + HeaderSize) :
          h = [ok |-> q.ok, c |-> q.c,
               out |-> IF q.ok THEN SubSeq(q.c.buffer, 0 + 1, 0 + HeaderSize) ELSE <<>>]
    BY <1>1 DEF back_insert
  <2>2. q \in preload(e, HeaderSize)
    BY <1>0, <2>1
  <2>3. IsRead(q, e, HeaderSize)
    BY <1>0, <2>2, PreloadReads
  <2>4. h.ok = q.ok /\ h.c = q.c
    BY <2>1
  <2>5. IsRead(h, e, HeaderSize)
    BY <2>3, <2>4 DEF IsRead
  <2>6. ASSUME h.ok PROVE h.out = HeaderIn(h.c)
    BY <1>0, <2>1, <2>6 DEF HeaderIn
  <2>7. ASSUME h.ok PROVE h.c \in Conn /\ h.c.state = "Ready" /\ HeaderSize <= Len(h.c.buffer)
    BY <1>0, <2>5, <2>7 DEF IsRead, Moved
  <2>8. ASSUME h.ok PROVE EndIn(h.c) \in Nat /\ Decode(h.out) \in Nat /\ End(h) = EndIn(h.c)
    <3>1. h.out = HeaderIn(h.c) /\ h.c \in Conn /\ HeaderSize <= Len(h.c.buffer)
      BY <2>6, <2>7, <2>8
    <3>2. EndIn(h.c) \in Nat /\ Decode(HeaderIn(h.c)) \in Nat
      BY <3>1, HeaderInSeq
    <3> QED
      BY <3>1, <3>2 DEF EndIn
  <2> HIDE DEF header, End
  <2> QED
    BY <2>5, <2>6, <2>7, <2>8
<1>2. ASSUME NEW h \in fits, NEW p \in Payload(h)
      PROVE  /\ IsRead(p, h.c, EndIn(h.c))
             /\ p.ok => p.out = PayloadTo(p.c, EndIn(h.c))
  <2>1. h \in header /\ h.ok /\ End(h) <= MaxBuffer
    BY <1>2
  <2>2. /\ EndIn(h.c) \in Nat /\ EndIn(h.c) <= MaxBuffer /\ Decode(h.out) \in Nat
        /\ HeaderSize + Decode(h.out) = EndIn(h.c) /\ h.c \in Conn /\ h.c.state = "Ready"
    BY <1>1, <2>1
  <2>3. PICK q \in preload(h.c, HeaderSize + Decode(h.out)) :
          p = [ok |-> q.ok, c |-> q.c,
               out |-> IF q.ok
                       THEN SubSeq(q.c.buffer, HeaderSize + 1, HeaderSize + Decode(h.out))
                       ELSE <<>>]
    BY <1>2 DEF back_insert
  <2>4. q \in preload(h.c, EndIn(h.c))
    BY <2>2, <2>3
  <2>5. IsRead(q, h.c, EndIn(h.c))
    BY <2>2, <2>4, PreloadReads
  <2>6. p.ok = q.ok /\ p.c = q.c
    BY <2>3
  <2>7. IsRead(p, h.c, EndIn(h.c))
    BY <2>5, <2>6 DEF IsRead
  <2>8. ASSUME p.ok PROVE p.out = PayloadTo(p.c, EndIn(h.c))
    BY <2>2, <2>3, <2>8 DEF PayloadTo
  <2> QED
    BY <2>7, <2>8
<1>3. \/ r \in {[ok |-> FALSE, c |-> h.c, packet |-> <<>>] : h \in {g \in header : ~g.ok}}
      \/ r \in {[ok |-> FALSE, c |-> move(h.c, HeaderSize), packet |-> <<>>] :
                  h \in {g \in header \ fits : g.ok}}
      \/ \E h \in fits :
           r \in {[ok |-> p.ok,
                   c |-> IF p.ok THEN move(p.c, End(h)) ELSE p.c,
                   packet |-> IF keeps THEN h.out \o p.out ELSE p.out] : p \in Payload(h)}
  BY DEF readyNextPacket
<1> HIDE DEF header, Payload
<1>4. CASE r \in {[ok |-> FALSE, c |-> h.c, packet |-> <<>>] : h \in {g \in header : ~g.ok}}
  <2>1. PICK h \in header : ~h.ok /\ r = [ok |-> FALSE, c |-> h.c, packet |-> <<>>]
    BY <1>4
  <2>2. NoHeader(r, h) /\ IsRead(h, e, HeaderSize)
    BY <1>1, <2>1 DEF NoHeader
  <2> QED
    BY <2>2
<1>5. CASE r \in {[ok |-> FALSE, c |-> move(h.c, HeaderSize), packet |-> <<>>] :
                    h \in {g \in header \ fits : g.ok}}
  <2>1. PICK h \in header : /\ h \notin fits /\ h.ok
                            /\ r = [ok |-> FALSE, c |-> move(h.c, HeaderSize), packet |-> <<>>]
    BY <1>5
  <2>2. /\ IsRead(h, e, HeaderSize) /\ End(h) = EndIn(h.c) /\ EndIn(h.c) \in Nat
    BY <1>1, <2>1
  <2>3. ~ (End(h) <= MaxBuffer)
    BY <2>1
  <2>4. EndIn(h.c) > MaxBuffer
    BY <1>0, <2>2, <2>3
  <2>5. BadHeader(r, h)
    BY <2>1, <2>4 DEF BadHeader
  <2> QED
    BY <2>2, <2>5
<1>6. ASSUME NEW h \in fits,
             r \in {[ok |-> p.ok,
                     c |-> IF p.ok THEN move(p.c, End(h)) ELSE p.c,
                     packet |-> IF keeps THEN h.out \o p.out ELSE p.out] : p \in Payload(h)}
      PROVE  \E p : IsRead(h, e, HeaderSize) /\ (NoPayload(r, h, p) \/ Packet(r, h, p, keeps))
  <2>1. PICK p \in Payload(h) :
          r = [ok |-> p.ok,
               c |-> IF p.ok THEN move(p.c, End(h)) ELSE p.c,
               packet |-> IF keeps THEN h.out \o p.out ELSE p.out]
    BY <1>6
  <2>2. h \in header /\ h.ok /\ End(h) <= MaxBuffer
    BY <1>6
  <2>3. IsRead(h, e, HeaderSize) /\ End(h) = EndIn(h.c) /\ h.out = HeaderIn(h.c)
    BY <1>1, <2>2
  <2>4. /\ IsRead(p, h.c, EndIn(h.c))
        /\ p.ok => p.out = PayloadTo(p.c, EndIn(h.c))
    BY <1>2, <1>6, <2>1
  <2>5. EndIn(h.c) <= MaxBuffer
    BY <2>2, <2>3
  <2>6. p.ok \in BOOLEAN
    BY <2>4 DEF IsRead
  <2>7. CASE p.ok = FALSE
    <3>1. r.ok = FALSE /\ r.c = p.c
      BY <2>1, <2>7
    <3>2. NoPayload(r, h, p)
      BY <2>2, <2>4, <2>5, <2>7, <3>1 DEF NoPayload
    <3> QED
      BY <2>3, <3>2
  <2>8. CASE p.ok = TRUE
    <3>1. /\ r.ok = TRUE /\ r.c = move(p.c, EndIn(h.c)) /\ p.out = PayloadTo(p.c, EndIn(h.c))
          /\ r.packet = IF keeps THEN h.out \o p.out ELSE p.out
      BY <2>1, <2>3, <2>4, <2>8
    <3>2. Packet(r, h, p, keeps)
      BY <2>2, <2>3, <2>4, <2>5, <2>8, <3>1 DEF Packet
    <3> QED
      BY <2>3, <3>2
  <2> QED
    BY <2>6, <2>7, <2>8
<1> QED
  BY <1>3, <1>4, <1>5, <1>6
\* The number of bytes that the reader has or will get.
Bytes(d) == Len(d.buffer) + Len(d.wire)

LEMMA ReadGives ==
  ASSUME NEW e \in Conn, NEW bytes \in Nat, NEW r, IsRead(r, e, bytes)
  PROVE  /\ r.c \in Conn /\ r.c.peer = e.peer /\ Bytes(r.c) = Bytes(e)
         /\ Len(r.c.buffer) \in Nat /\ Len(r.c.wire) \in Nat /\ Bytes(r.c) \in Nat
         /\ \A T : \A o \in Nat, m \in Nat :
              Holds(e, T, o, m) => Holds(r.c, T, o, m)
<1>1. PICK k \in 0..Len(e.wire) : Moved(r.c, e, k)
  BY DEF IsRead
<1>2. /\ Len(e.buffer) \in Nat /\ Len(e.wire) \in Nat
  BY DEF Conn
<1>3. /\ r.c \in Conn /\ r.c.peer = e.peer
      /\ Len(r.c.buffer) = Len(e.buffer) + k /\ Len(r.c.wire) = Len(e.wire) - k
      /\ \A T : \A o \in Nat, m \in Nat :
           Holds(e, T, o, m) => Holds(r.c, T, o, m)
  BY <1>1 DEF Moved
<1>4. PICK b \in Nat, w \in Nat : b = Len(e.buffer) /\ w = Len(e.wire)
  BY <1>2
<1>5. k \in 0..w
  BY <1>4
<1>6. Len(r.c.buffer) = b + k /\ Len(r.c.wire) = w - k
  BY <1>3, <1>4
<1>7. b + k \in Nat /\ w - k \in Nat /\ (b + k) + (w - k) = b + w
  BY <1>5
<1>8. Bytes(e) = b + w /\ Bytes(r.c) = (b + k) + (w - k)
  BY <1>4, <1>6 DEF Bytes
<1>9. Bytes(r.c) = Bytes(e) /\ Bytes(r.c) \in Nat
  BY <1>5, <1>7, <1>8
<1> QED
  BY <1>3, <1>6, <1>7, <1>9

\* Whatever is on the wire, readyNextPacket leaves a Connection.
LEMMA AnyPacket ==
  ASSUME NEW e \in Conn, e.state = "Ready", NEW keeps \in BOOLEAN,
         NEW r \in readyNextPacket(e, keeps)
  PROVE  /\ r.c \in Conn /\ r.c.peer = e.peer /\ r.ok \in BOOLEAN
         /\ r.ok => r.packet \in Seq(Byte)
         /\ r.c.state = "Ready" \/ (r.c.state = "Finished" /\ e.peer # "open")
         /\ Bytes(e) = 0 => r.ok = FALSE /\ Bytes(r.c) = 0
<1>0. HeaderSize \in Nat /\ HeaderSize > 0
  BY ConnectionAssumption
<1>1. PICK h, p : /\ IsRead(h, e, HeaderSize)
                  /\ \/ NoHeader(r, h) \/ BadHeader(r, h)
                     \/ NoPayload(r, h, p) \/ Packet(r, h, p, keeps)
  BY ReadyNextPacketEnds
<1>2. /\ h.c \in Conn /\ h.c.peer = e.peer /\ Bytes(h.c) = Bytes(e)
      /\ Len(h.c.buffer) \in Nat /\ Len(h.c.wire) \in Nat
  BY <1>0, <1>1, ReadGives
<1>3. h.c.state = "Ready" \/ (h.c.state = "Finished" /\ e.peer # "open")
  BY <1>1 DEF IsRead
<1>4. h.ok => h.c.state = "Ready" /\ HeaderSize <= Len(h.c.buffer)
  BY <1>0, <1>1, <1>2 DEF IsRead
<1>5. h.ok => Bytes(e) # 0
  <2>1. PICK b \in Nat, w \in Nat : b = Len(h.c.buffer) /\ w = Len(h.c.wire)
    BY <1>2
  <2>2. Bytes(e) = b + w
    BY <1>2, <2>1 DEF Bytes
  <2>3. ASSUME h.ok PROVE b >= HeaderSize
    BY <1>4, <2>1, <2>3
  <2>4. ASSUME h.ok PROVE b + w # 0
    BY <1>0, <2>3, <2>4
  <2> QED
    BY <2>2, <2>4
<1>6. CASE NoHeader(r, h)
  BY <1>2, <1>3, <1>6 DEF NoHeader
<1>7. CASE BadHeader(r, h)
  <2>1. h.ok /\ r.ok = FALSE /\ r.c = move(h.c, HeaderSize)
    BY <1>7 DEF BadHeader
  <2>2. HeaderSize \in 0..Len(h.c.buffer)
    BY <1>0, <1>2, <1>4, <2>1
  <2>3. r.c \in Conn /\ r.c.state = h.c.state /\ r.c.peer = h.c.peer
    BY <1>2, <2>1, <2>2, MoveTakes
  <2> QED
    BY <1>2, <1>3, <1>5, <2>1, <2>3
<1>8. CASE NoPayload(r, h, p) \/ Packet(r, h, p, keeps)
  <2>1. h.ok /\ IsRead(p, h.c, EndIn(h.c))
    BY <1>8 DEF NoPayload, Packet
  <2>2. /\ HeaderIn(h.c) \in Seq(Byte) /\ EndIn(h.c) \in Nat /\ EndIn(h.c) >= HeaderSize
    BY <1>2, <1>4, <2>1, HeaderInSeq
  <2>3. PICK n \in Nat : n = EndIn(h.c) /\ n >= HeaderSize
    BY <2>2
  <2>4. /\ p.c \in Conn /\ p.c.peer = h.c.peer /\ Len(p.c.buffer) \in Nat
    BY <1>2, <2>1, <2>3, ReadGives
  <2>5. /\ p.c.state = "Ready" \/ (p.c.state = "Finished" /\ h.c.peer # "open")
        /\ p.ok => p.c.state = "Ready" /\ n <= Len(p.c.buffer)
    BY <2>1, <2>3, <2>4 DEF IsRead
  <2>6. CASE NoPayload(r, h, p)
    <3>1. r.ok = FALSE /\ r.c = p.c
      BY <2>6 DEF NoPayload
    <3> QED
      BY <1>2, <1>5, <2>1, <2>4, <2>5, <3>1
  <2>7. CASE Packet(r, h, p, keeps)
    <3>1. /\ p.ok /\ r.ok = TRUE /\ r.c = move(p.c, n)
          /\ r.packet = IF keeps THEN HeaderIn(h.c) \o PayloadTo(p.c, n) ELSE PayloadTo(p.c, n)
      BY <2>3, <2>7 DEF Packet
    <3>2. n \in 0..Len(p.c.buffer)
      BY <2>4, <2>5, <3>1
    <3>3. r.c \in Conn /\ r.c.state = p.c.state /\ r.c.peer = p.c.peer
      BY <2>4, <3>1, <3>2, MoveTakes
    <3>4. PayloadTo(p.c, n) \in Seq(Byte)
      <4>1. PICK b \in Seq(Byte) : b = p.c.buffer
        BY <2>4 DEF Conn
      <4>2. n \in 0..Len(b)
        BY <3>2, <4>1
      <4>3. SubSeq(b, HeaderSize + 1, n) \in Seq(Byte)
        BY <1>0, <2>3, <4>2
      <4> QED
        BY <4>1, <4>3 DEF PayloadTo
    <3>5. HeaderIn(h.c) \o PayloadTo(p.c, n) \in Seq(Byte)
      BY <2>2, <3>4
    <3>6. r.packet \in Seq(Byte)
      BY <3>1, <3>4, <3>5
    <3> QED
      BY <1>2, <1>5, <2>1, <2>4, <2>5, <3>1, <3>3, <3>6
  <2> QED
    BY <1>8, <2>6, <2>7
<1> QED
  BY <1>1, <1>6, <1>7, <1>8

-----------------------------------------------------------------------------
(* A frame in the stream *)

Size(p) == HeaderSize + Len(p)

\* The frame of p begins after place o of the stream T.
FrameAt(p, T, o) ==
  /\ \A x \in 1..HeaderSize : T[o + x] = Encode(Len(p))[x]
  /\ \A x \in 1..Len(p) : T[o + HeaderSize + x] = p[x]

LEMMA FrameIs ==
  ASSUME NEW p \in Payloads
  PROVE  /\ p \in Seq(Byte) /\ Len(p) \in Nat /\ Len(p) > 0
         /\ Encode(Len(p)) \in Seq(Byte) /\ Len(Encode(Len(p))) = HeaderSize
         /\ Decode(Encode(Len(p))) = Len(p)
         /\ Frame(p) \in Seq(Byte) /\ Len(Frame(p)) = Size(p) /\ Size(p) \in Nat
         /\ \A x \in 1..HeaderSize : Frame(p)[x] = Encode(Len(p))[x]
         /\ \A x \in 1..Len(p) : Frame(p)[HeaderSize + x] = p[x]
<1>0. HeaderSize \in Nat /\ HeaderSize > 0
  BY ConnectionAssumption
<1>1. p \in Seq(Byte) /\ p # <<>> /\ InHeader(Len(p))
  BY LinkAssumption
<1>2. Len(p) \in Nat /\ Len(p) > 0
  BY <1>1
<1>3. PICK e : e = Encode(Len(p))
  OBVIOUS
<1>4. e \in Seq(Byte) /\ Len(e) = HeaderSize
  BY <1>2, <1>3, EncodeSeq
<1>5. Decode(e) = Len(p)
  BY <1>1, <1>2, <1>3, HeaderGivesTheSize
<1>6. PICK f : f = e \o p
  OBVIOUS
<1>7. /\ f \in Seq(Byte) /\ Len(f) = HeaderSize + Len(p)
      /\ \A x \in 1..HeaderSize : f[x] = e[x]
      /\ \A x \in 1..Len(p) : f[HeaderSize + x] = p[x]
  <2>0. p \in Seq(Byte) /\ e \in Seq(Byte)
    BY <1>1, <1>4
  <2>1. f \in Seq(Byte) /\ Len(f) = Len(e) + Len(p)
    BY <1>6, <2>0
  <2>2. \A x \in 1..Len(e) : f[x] = e[x]
    BY <1>1, <1>4, <1>6
  <2>3. \A x \in 1..Len(p) : f[Len(e) + x] = p[x]
    BY <1>1, <1>4, <1>6
  <2> QED
    BY <1>4, <2>1, <2>2, <2>3
<1> QED
  BY <1>0, <1>1, <1>2, <1>3, <1>4, <1>5, <1>6, <1>7 DEF Frame, Size

\* readyNextPacket at the start of a frame that fits a buffer: it waits for more of
\* it, or it notices the end of a stream that has not all of the frame, or it gives
\* the packet and goes on behind it.
WaitsFor(r, e, n) ==
  /\ r.ok = FALSE /\ Bytes(r.c) = Bytes(e)
  /\ Len(r.c.buffer) <= Len(e.buffer) \/ Len(r.c.buffer) <= n
  /\ r.c.state = "Ready" \/ (r.c.state = "Finished" /\ Bytes(e) < n)
  /\ \A T : \A o \in Nat, m \in Nat : Holds(e, T, o, m) => Holds(r.c, T, o, m)

Takes(r, e, n) ==
  /\ r.ok = TRUE /\ Bytes(r.c) = Bytes(e) - n
  /\ r.c.state = "Ready"
  /\ Len(e.buffer) <= n => Len(r.c.buffer) = 0
  /\ \A T : \A o \in Nat, m \in Nat : Holds(e, T, o, m) => Holds(r.c, T, o + n, m)

WaitsOrTakes(r, e, q, keeps) ==
  \/ WaitsFor(r, e, Size(q))
  \/ Takes(r, e, Size(q)) /\ r.packet = IF keeps THEN Frame(q) ELSE q

LEMMA SoundPacket ==
  ASSUME NEW e \in Conn, e.state = "Ready", NEW keeps \in BOOLEAN,
         NEW r \in readyNextPacket(e, keeps),
         NEW q \in Payloads, Fits(q),
         NEW S, NEW a \in Nat, NEW z \in Nat,
         Holds(e, S, a, z), a + Size(q) <= z, FrameAt(q, S, a)
  PROVE  WaitsOrTakes(r, e, q, keeps)
<1>0. HeaderSize \in Nat /\ HeaderSize > 0 /\ MaxBuffer \in Nat
  BY ConnectionAssumption
<1>1. PICK h, p : /\ IsRead(h, e, HeaderSize)
                  /\ \/ NoHeader(r, h) \/ BadHeader(r, h)
                     \/ NoPayload(r, h, p) \/ Packet(r, h, p, keeps)
  BY ReadyNextPacketEnds
<1>2. /\ h.c \in Conn /\ h.c.peer = e.peer /\ Bytes(h.c) = Bytes(e)
      /\ Len(h.c.buffer) \in Nat /\ Len(h.c.wire) \in Nat /\ Bytes(h.c) \in Nat
      /\ \A T : \A o \in Nat, m \in Nat : Holds(e, T, o, m) => Holds(h.c, T, o, m)
  BY <1>0, <1>1, ReadGives
<1>3. PICK n \in Nat : n = Size(q)
  BY FrameIs
<1>4. n = HeaderSize + Len(q) /\ n <= MaxBuffer /\ Len(q) \in Nat
  BY <1>3, FrameIs DEF Size, Fits
<1>5. /\ Len(h.c.buffer) <= Len(e.buffer) \/ Len(h.c.buffer) <= HeaderSize
      /\ h.ok => h.c.state = "Ready" /\ Len(h.c.buffer) >= HeaderSize
      /\ \/ h.c.state = "Ready"
         \/ h.c.state = "Finished" /\ Len(e.buffer) + Len(e.wire) < HeaderSize
  BY <1>1 DEF IsRead
<1>6. Len(e.buffer) \in Nat /\ Len(e.wire) \in Nat
  BY DEF Conn
<1>7. ASSUME h.ok PROVE HeaderIn(h.c) = Encode(Len(q)) /\ EndIn(h.c) = n
  <2>1. HeaderSize <= Len(h.c.buffer)
    BY <1>0, <1>2, <1>5, <1>7
  <2>2. PICK b : b = HeaderIn(h.c)
    OBVIOUS
  <2>3. b \in Seq(Byte) /\ Len(b) = HeaderSize /\ \A x \in 1..HeaderSize : b[x] = h.c.buffer[x]
    BY <1>2, <2>1, <2>2, HeaderInSeq
  <2>4. PICK f : f = Encode(Len(q))
    OBVIOUS
  <2>5. f \in Seq(Byte) /\ Len(f) = HeaderSize /\ Decode(f) = Len(q)
    BY <2>4, FrameIs
  <2>6. Holds(h.c, S, a, z)
    BY <1>2
  <2>7. ASSUME NEW x \in 1..HeaderSize PROVE b[x] = f[x]
    <3>1. x \in 1..Len(h.c.buffer) /\ a + x <= z
      <4>1. x \in 1..Len(h.c.buffer) /\ x <= n
        BY <1>0, <1>2, <1>4, <2>1
      <4> QED
        BY <1>0, <1>3, <4>1
    <3>2. h.c.buffer[x] = S[a + x]
      BY <2>6, <3>1 DEF Holds
    <3>3. S[a + x] = f[x]
      BY <2>4 DEF FrameAt
    <3> QED
      BY <2>3, <3>2, <3>3
  <2>8. b = f
    BY <2>3, <2>5, <2>7
  <2> QED
    BY <1>4, <2>2, <2>4, <2>5, <2>8 DEF EndIn
<1>8. CASE NoHeader(r, h)
  <2>1. r.ok = FALSE /\ r.c = h.c
    BY <1>8 DEF NoHeader
  <2>2. Len(h.c.buffer) <= Len(e.buffer) \/ Len(h.c.buffer) <= n
    BY <1>0, <1>2, <1>4, <1>5, <1>6
  <2>3. PICK b \in Nat, w \in Nat : b = Len(e.buffer) /\ w = Len(e.wire) /\ Bytes(e) = b + w
    BY <1>6 DEF Bytes
  <2>4. h.c.state = "Ready" \/ (h.c.state = "Finished" /\ Bytes(e) < n)
    <3>1. HeaderSize <= n
      BY <1>0, <1>4
    <3>2. b + w < HeaderSize => b + w < n
      BY <1>0, <3>1
    <3> QED
      BY <1>5, <2>3, <3>2
  <2> QED
    BY <1>2, <1>3, <2>1, <2>2, <2>4 DEF WaitsFor, WaitsOrTakes
<1>9. CASE BadHeader(r, h)
  BY <1>0, <1>4, <1>7, <1>9 DEF BadHeader
<1>10. ASSUME NoPayload(r, h, p) \/ Packet(r, h, p, keeps)
       PROVE  /\ h.ok /\ IsRead(p, h.c, n)
              /\ p.c \in Conn /\ Bytes(p.c) = Bytes(e)
              /\ Len(p.c.buffer) \in Nat /\ Len(p.c.wire) \in Nat
              /\ Len(p.c.buffer) <= Len(e.buffer) \/ Len(p.c.buffer) <= n
              /\ p.ok => p.c.state = "Ready" /\ Len(p.c.buffer) >= n
              /\ p.c.state = "Ready" \/ (p.c.state = "Finished" /\ Bytes(e) < n)
              /\ \A T : \A o \in Nat, m \in Nat :
                   Holds(e, T, o, m) => Holds(p.c, T, o, m)
  <2>1. h.ok /\ IsRead(p, h.c, n)
    BY <1>7, <1>10 DEF NoPayload, Packet
  <2>2. /\ p.c \in Conn /\ Bytes(p.c) = Bytes(h.c)
        /\ Len(p.c.buffer) \in Nat /\ Len(p.c.wire) \in Nat
        /\ \A T : \A o \in Nat, m \in Nat :
             Holds(h.c, T, o, m) => Holds(p.c, T, o, m)
    BY <1>2, <2>1, ReadGives
  <2>3. /\ Len(p.c.buffer) <= Len(h.c.buffer) \/ Len(p.c.buffer) <= n
        /\ p.ok => p.c.state = "Ready" /\ Len(p.c.buffer) >= n
        /\ \/ p.c.state = "Ready"
           \/ p.c.state = "Finished" /\ Len(h.c.buffer) + Len(h.c.wire) < n
    BY <2>1 DEF IsRead
  <2>4. Len(p.c.buffer) <= Len(e.buffer) \/ Len(p.c.buffer) <= n
    <3>1. PICK x \in Nat, y \in Nat, w \in Nat :
            x = Len(e.buffer) /\ y = Len(h.c.buffer) /\ w = Len(p.c.buffer)
      BY <1>2, <1>6, <2>2
    <3>2. (y <= x \/ y <= HeaderSize) /\ (w <= y \/ w <= n) /\ HeaderSize <= n
      BY <1>0, <1>4, <1>5, <2>3, <3>1
    <3>3. w <= x \/ w <= n
      BY <1>0, <3>2
    <3> QED
      BY <3>1, <3>3
  <2>5. p.c.state = "Ready" \/ (p.c.state = "Finished" /\ Bytes(e) < n)
    BY <1>2, <2>3 DEF Bytes
  <2> QED
    BY <1>2, <2>1, <2>2, <2>3, <2>4, <2>5
<1>11. CASE NoPayload(r, h, p)
  <2>1. r.ok = FALSE /\ r.c = p.c
    BY <1>11 DEF NoPayload
  <2> QED
    BY <1>3, <1>10, <1>11, <2>1 DEF WaitsFor, WaitsOrTakes
<1>12. CASE Packet(r, h, p, keeps)
  <2>1. /\ h.ok /\ p.ok /\ r.ok = TRUE /\ r.c = move(p.c, n)
        /\ r.packet = IF keeps THEN Encode(Len(q)) \o PayloadTo(p.c, n) ELSE PayloadTo(p.c, n)
    BY <1>7, <1>12 DEF Packet
  <2>2. n \in 0..Len(p.c.buffer)
    BY <1>10, <1>12, <2>1
  <2>3. /\ p.c \in Conn /\ p.c.state = "Ready"
        /\ \A T : \A o \in Nat, m \in Nat :
             Holds(e, T, o, m) => Holds(p.c, T, o, m)
    BY <1>10, <1>12, <2>1
  <2>4. /\ r.c.state = "Ready" /\ Len(r.c.buffer) = Len(p.c.buffer) - n
        /\ Len(r.c.wire) = Len(p.c.wire)
        /\ \A T : \A o \in Nat, m \in Nat :
             Holds(p.c, T, o, m) => Holds(r.c, T, o + n, m)
    <3>1. PICK d \in Conn : d = p.c
      BY <2>3
    <3>2. PICK v : v = move(d, n)
      OBVIOUS
    <3>3. n \in 0..Len(d.buffer)
      BY <2>2, <3>1
    <3>4. /\ v.state = d.state /\ Len(v.buffer) = Len(d.buffer) - n
          /\ Len(v.wire) = Len(d.wire)
          /\ \A T : \A o \in Nat, m \in Nat :
               Holds(d, T, o, m) => Holds(v, T, o + n, m)
      BY <3>2, <3>3, MoveTakes
    <3>5. r.c = v
      BY <2>1, <3>1, <3>2
    <3> QED
      BY <2>3, <3>1, <3>4, <3>5
  <2>5. Bytes(r.c) = Bytes(e) - n
    <3>1. PICK y \in Nat, w \in Nat : y = Len(p.c.buffer) /\ w = Len(p.c.wire)
      BY <1>10, <1>12
    <3>2. Bytes(e) = y + w
      BY <1>10, <1>12, <3>1 DEF Bytes
    <3>3. Bytes(r.c) = (y - n) + w
      BY <2>4, <3>1 DEF Bytes
    <3> QED
      BY <3>2, <3>3
  <2>6. Len(e.buffer) <= n => Len(r.c.buffer) = 0
    <3>1. Len(p.c.buffer) <= Len(e.buffer) \/ Len(p.c.buffer) <= n
      BY <1>10, <1>12
    <3>2. Len(p.c.buffer) \in Nat /\ n <= Len(p.c.buffer)
      BY <2>2
    <3> QED
      BY <1>6, <2>4, <3>1, <3>2
  <2>7. PayloadTo(p.c, n) = q
    <3>1. PICK b \in Seq(Byte) : b = p.c.buffer
      BY <2>3 DEF Conn
    <3>2. n \in 0..Len(b)
      BY <2>2, <3>1
    <3>3. PICK v : v = SubSeq(b, HeaderSize + 1, n)
      OBVIOUS
    <3>4. /\ v \in Seq(Byte) /\ Len(v) = Len(q)
          /\ \A x \in 1..Len(v) : v[x] = b[HeaderSize + x]
      BY <1>0, <1>4, <3>2, <3>3
    <3>5. Holds(p.c, S, a, z)
      BY <2>3
    <3>6. ASSUME NEW x \in 1..Len(q) PROVE v[x] = q[x]
      <4>1. HeaderSize + x \in 1..Len(b) /\ a + (HeaderSize + x) <= z
        BY <1>0, <1>3, <1>4, <3>2
      <4>2. b[HeaderSize + x] = S[a + (HeaderSize + x)]
        BY <3>1, <3>5, <4>1 DEF Holds
      <4>3. a + (HeaderSize + x) = a + HeaderSize + x
        BY <1>0
      <4>4. S[a + HeaderSize + x] = q[x]
        BY DEF FrameAt
      <4> QED
        BY <3>4, <4>2, <4>3, <4>4
    <3>7. q \in Seq(Byte)
      BY FrameIs
    <3>8. v = q
      BY <3>4, <3>6, <3>7
    <3> QED
      BY <3>1, <3>3, <3>8 DEF PayloadTo
  <2>8. r.packet = IF keeps THEN Frame(q) ELSE q
    BY <2>1, <2>7 DEF Frame
  <2>9. \A T : \A o \in Nat, m \in Nat : Holds(e, T, o, m) => Holds(r.c, T, o + n, m)
    BY <2>3, <2>4
  <2> QED
    BY <1>3, <2>1, <2>4, <2>5, <2>6, <2>8, <2>9 DEF Takes, WaitsOrTakes
<1> QED
  BY <1>1, <1>8, <1>9, <1>11, <1>12
-----------------------------------------------------------------------------
(* The frames in the stream *)

\* The frames of the first n of s are in the stream T, one after the other, and the
\* i-th of them ends at at[i].
Placed(at, T, s, n) ==
  /\ at[0] = 0
  /\ \A i \in 0..n : at[i] \in Nat
  /\ \A i \in 1..n : at[i] = at[i - 1] + Size(s[i])
  /\ \A i \in 0..n : \A j \in 0..n : i < j => at[i] < at[j]
  /\ \A i \in 1..n : FrameAt(s[i], T, at[i - 1])

\* How many of the frames of s are sound.
Until(s, dm) == IF dm = 0 THEN Len(s) ELSE dm - 1

\* The bytes of the current frame that are still to be written.
Left(pd) == IF pd = <<>> THEN 0 ELSE Len(pd[1])

\* The reader, which has taken d packets, holds what follows in the stream, and that
\* is all that was written.
Carries(at, T, e, d, n, dm, pd) ==
  /\ Holds(e, T, at[d], at[n])
  /\ dm = 0 /\ e.peer # "reset" => at[d] + Bytes(e) + Left(pd) = at[n]
  /\ dm = 0 /\ e.peer = "reset" => at[d] + Bytes(e) <= at[n]
  /\ dm # 0 /\ e.peer # "reset" => at[d] + Bytes(e) >= at[n]

Stream(e, d, s, dm, pd) ==
  \E at, T :
    /\ Placed(at, T, s, Until(s, dm))
    /\ d <= Until(s, dm) => Carries(at, T, e, d, Until(s, dm), dm, pd)

LEMMA BytesNat == ASSUME NEW e \in Conn
                  PROVE  /\ e.buffer \in Seq(Byte) /\ e.wire \in Seq(Byte)
                         /\ Len(e.buffer) \in Nat /\ Len(e.wire) \in Nat
                         /\ Bytes(e) = Len(e.buffer) + Len(e.wire) /\ Bytes(e) \in Nat
BY DEF Conn, Bytes

LEMMA UntilNat ==
  ASSUME NEW s \in Seq(Payloads), NEW dm \in 0..Len(s)
  PROVE  Until(s, dm) \in 0..Len(s)
BY DEF Until

\* A place up to m is not disturbed by what follows it.
LEMMA HoldsLess ==
  ASSUME NEW e \in Conn, NEW T, NEW U, NEW o \in Nat, NEW m \in Nat, NEW n \in Nat,
         Holds(e, T, o, m), n <= m \/ o + Bytes(e) <= m,
         \A x \in 1..m : U[x] = T[x]
  PROVE  Holds(e, U, o, n)
<1>1. PICK b \in Seq(Byte), w \in Seq(Byte) : b = e.buffer /\ w = e.wire
  BY BytesNat
<1>2. PICK i \in Nat, j \in Nat : i = Len(b) /\ j = Len(w) /\ Bytes(e) = i + j
  BY <1>1, BytesNat
<1>3. /\ \A x \in 1..i : o + x <= m => b[x] = T[o + x]
      /\ \A x \in 1..j : o + i + x <= m => w[x] = T[o + i + x]
  BY <1>1, <1>2 DEF Holds
<1>4. ASSUME NEW x \in 1..i, o + x <= n PROVE b[x] = U[o + x]
  <2>1. o + x \in 1..m
    BY <1>2, <1>4
  <2>2. b[x] = T[o + x]
    BY <1>3, <2>1
  <2> QED
    BY <2>1, <2>2
<1>5. ASSUME NEW x \in 1..j, o + i + x <= n PROVE w[x] = U[o + i + x]
  <2>1. o + i + x \in 1..m
    BY <1>2, <1>5
  <2> QED
    BY <1>3, <2>1
<1> QED
  BY <1>1, <1>2, <1>4, <1>5 DEF Holds

\* What is written comes after what is there.
LEMMA WriteHolds ==
  ASSUME NEW e \in Conn, NEW w \in Seq(Byte), NEW T, NEW o \in Nat, NEW m \in Nat,
         Holds(e, T, o, m),
         \A y \in 1..Len(w) : o + Bytes(e) + y <= m => w[y] = T[o + Bytes(e) + y]
  PROVE  LET f == [e EXCEPT !.wire = @ \o w]
         IN  Holds(f, T, o, m)
<1>1. PICK b \in Seq(Byte), v \in Seq(Byte) : b = e.buffer /\ v = e.wire
  BY BytesNat
<1>2. PICK i \in Nat, j \in Nat : i = Len(b) /\ j = Len(v) /\ Bytes(e) = i + j
  BY <1>1, BytesNat
<1>3. /\ \A x \in 1..i : o + x <= m => b[x] = T[o + x]
      /\ \A x \in 1..j : o + i + x <= m => v[x] = T[o + i + x]
  BY <1>1, <1>2 DEF Holds
<1>4. PICK u : u = v \o w
  OBVIOUS
<1>5. /\ u \in Seq(Byte) /\ Len(u) = j + Len(w)
      /\ \A x \in 1..j : u[x] = v[x]
  BY <1>2, <1>4
<1>6. \A y \in 1..Len(w) : u[j + y] = w[y]
  BY <1>2, <1>4
<1>7. PICK f : f = [e EXCEPT !.wire = @ \o w]
  OBVIOUS
<1>8. f.buffer = b /\ f.wire = u
  BY <1>1, <1>4, <1>7 DEF Conn
<1>9. PICK k \in Nat : k = Len(w)
  OBVIOUS
<1>10. ASSUME NEW x \in 1..(j + k), o + i + x <= m PROVE u[x] = T[o + i + x]
  <2>1. CASE x <= j
    <3>1. x \in 1..j
      BY <2>1
    <3> QED
      BY <1>3, <1>5, <1>10, <3>1
  <2>2. CASE x > j
    <3>1. PICK y \in 1..k : y = x - j
      BY <2>2
    <3>2. x = j + y /\ o + (i + j) + y = o + i + x
      BY <3>1
    <3>3. u[x] = w[y]
      BY <1>6, <1>9, <3>2
    <3>4. o + Bytes(e) + y <= m /\ o + Bytes(e) + y = o + i + x
      BY <1>2, <1>10, <3>2
    <3> QED
      BY <1>9, <3>3, <3>4
  <2> QED
    BY <2>1, <2>2
<1>11. Holds(f, T, o, m)
  BY <1>2, <1>3, <1>5, <1>8, <1>9, <1>10 DEF Holds
<1> QED
  BY <1>7, <1>11

\* A frame more.
LEMMA PlaceAppend ==
  ASSUME NEW at, NEW T, NEW s \in Seq(Payloads), Placed(at, T, s, Len(s)), NEW p \in Payloads
  PROVE  \E at2, U :
           /\ Placed(at2, U, Append(s, p), Len(s) + 1)
           /\ \A i \in 0..Len(s) : at2[i] = at[i]
           /\ at2[Len(s) + 1] = at[Len(s)] + Size(p)
           /\ \A x \in 1..at[Len(s)] : U[x] = T[x]
           /\ FrameAt(p, U, at[Len(s)])
<1>0. HeaderSize \in Nat /\ HeaderSize > 0
  BY ConnectionAssumption
<1>1. PICK n \in Nat : n = Len(s)
  OBVIOUS
<1>2. PICK o \in Nat : o = at[n]
  BY <1>1 DEF Placed
<1>3. PICK z \in Nat : z = Size(p) /\ z > 0
  BY <1>0, FrameIs DEF Size
<1>4. PICK f \in Seq(Byte) : /\ f = Frame(p) /\ Len(f) = z
                             /\ \A x \in 1..HeaderSize : f[x] = Encode(Len(p))[x]
                             /\ \A x \in 1..Len(p) : f[HeaderSize + x] = p[x]
  BY <1>3, FrameIs
<1>5. PICK t : t = Append(s, p)
  OBVIOUS
<1>6. t \in Seq(Payloads) /\ Len(t) = n + 1 /\ t[n + 1] = p /\ \A i \in 1..n : t[i] = s[i]
  BY <1>1, <1>5
<1>7. \E a : a[n + 1] = o + z /\ \A i \in 0..n : a[i] = at[i]
  <2> DEFINE b == [i \in 0..(n + 1) |-> IF i = n + 1 THEN o + z ELSE at[i]]
  <2>1. b[n + 1] = o + z /\ \A i \in 0..n : b[i] = at[i]
    OBVIOUS
  <2> HIDE DEF b
  <2> QED
    BY <2>1
<1>8. \E U : (\A x \in 1..o : U[x] = T[x]) /\ \A x \in 1..z : U[o + x] = f[x]
  <2> DEFINE V == [x \in 1..(o + z) |-> IF x > o THEN f[x - o] ELSE T[x]]
  <2>1. \A x \in 1..o : V[x] = T[x]
    OBVIOUS
  <2>2. ASSUME NEW x \in 1..z PROVE V[o + x] = f[x]
    <3>1. o + x \in 1..(o + z) /\ o + x > o /\ (o + x) - o = x
      OBVIOUS
    <3> QED
      BY <3>1
  <2> HIDE DEF V
  <2> QED
    BY <2>1, <2>2
<1>9. PICK a : a[n + 1] = o + z /\ \A i \in 0..n : a[i] = at[i]
  BY <1>7
<1>10. PICK U : (\A x \in 1..o : U[x] = T[x]) /\ \A x \in 1..z : U[o + x] = f[x]
  BY <1>8
<1>12. FrameAt(p, U, o)
  <2>1. PICK l \in Nat : l = Len(p) /\ z = HeaderSize + l
    BY <1>3, FrameIs DEF Size
  <2>2. ASSUME NEW x \in 1..HeaderSize PROVE U[o + x] = Encode(Len(p))[x]
    <3>1. x \in 1..z
      BY <1>0, <2>1
    <3> QED
      BY <1>4, <1>10, <3>1
  <2>3. ASSUME NEW x \in 1..l PROVE U[o + HeaderSize + x] = p[x]
    <3>1. HeaderSize + x \in 1..z /\ o + (HeaderSize + x) = o + HeaderSize + x
      BY <1>0, <2>1
    <3> QED
      BY <1>4, <1>10, <2>1, <3>1
  <2> QED
    BY <2>1, <2>2, <2>3 DEF FrameAt
<1>13. /\ at[0] = 0
       /\ \A i \in 0..n : at[i] \in Nat
       /\ \A i \in 1..n : at[i] = at[i - 1] + Size(s[i])
       /\ \A i \in 0..n : \A j \in 0..n : i < j => at[i] < at[j]
       /\ \A i \in 1..n : FrameAt(s[i], T, at[i - 1])
  BY <1>1 DEF Placed
<1>14. a[0] = 0 /\ \A i \in 0..(n + 1) : a[i] \in Nat
  <2>1. 0 \in 0..n /\ o + z \in Nat
    OBVIOUS
  <2>2. \A i \in 0..(n + 1) : i = n + 1 \/ i \in 0..n
    OBVIOUS
  <2> QED
    BY <1>9, <1>13, <2>1, <2>2
<1>15. ASSUME NEW i \in 1..(n + 1) PROVE a[i] = a[i - 1] + Size(t[i])
  <2>1. CASE i = n + 1
    BY <1>2, <1>3, <1>6, <1>9, <2>1
  <2>2. CASE i # n + 1
    <3>1. i \in 1..n /\ i \in 0..n /\ i - 1 \in 0..n
      BY <2>2
    <3> QED
      BY <1>6, <1>9, <1>13, <3>1
  <2> QED
    BY <2>1, <2>2
<1>16. ASSUME NEW i \in 0..(n + 1), NEW j \in 0..(n + 1), i < j PROVE a[i] < a[j]
  <2>0. i \in 0..n
    BY <1>16
  <2>1. i \in 0..n /\ a[i] = at[i] /\ at[i] \in Nat
    BY <1>9, <1>13, <2>0
  <2>2. CASE j = n + 1
    <3>1. at[i] <= o
      <4>1. CASE i = n
        BY <1>2, <4>1
      <4>2. CASE i # n
        BY <1>2, <1>13, <2>1, <4>2
      <4> QED
        BY <4>1, <4>2
    <3> QED
      BY <1>3, <1>9, <2>1, <2>2, <3>1
  <2>3. CASE j # n + 1
    <3>1. j \in 0..n
      BY <2>3
    <3> QED
      BY <1>9, <1>13, <1>16, <2>1, <3>1
  <2> QED
    BY <2>2, <2>3
<1>17. ASSUME NEW i \in 1..(n + 1) PROVE FrameAt(t[i], U, a[i - 1])
  <2>1. CASE i = n + 1
    BY <1>2, <1>6, <1>9, <1>12, <2>1
  <2>2. CASE i # n + 1
    <3>1. i \in 1..n /\ i \in 0..n /\ i - 1 \in 0..n
      BY <2>2
    <3>2. PICK q \in Payloads : q = s[i] /\ q = t[i]
      BY <1>1, <1>6, <3>1
    <3>3. PICK l \in Nat : l = Len(q) /\ Size(q) = HeaderSize + l
      BY FrameIs DEF Size
    <3>a. at[i - 1] \in Nat /\ a[i - 1] = at[i - 1]
      BY <1>9, <1>13, <3>1
    <3>4. PICK b \in Nat : b = at[i - 1] /\ a[i - 1] = b
      BY <3>a
    <3>5. b + HeaderSize + l <= o
      <4>1. at[i] = b + (HeaderSize + l)
        BY <1>13, <3>1, <3>2, <3>3, <3>4
      <4>2. at[i] <= o
        <5>1. CASE i = n
          BY <1>2, <5>1
        <5>2. CASE i # n
          <6>1. i \in 0..n /\ n \in 0..n /\ i < n
            BY <3>1, <5>2
          <6>2. at[i] < at[n]
            BY <1>13, <6>1
          <6>4. at[i] \in Nat
            BY <1>13, <6>1
          <6> QED
            BY <1>2, <6>2, <6>4
        <5> QED
          BY <5>1, <5>2
      <4> QED
        BY <1>0, <4>1, <4>2
    <3>6. FrameAt(q, T, b)
      BY <1>13, <3>1, <3>2, <3>4
    <3>7. ASSUME NEW x \in 1..HeaderSize PROVE U[b + x] = Encode(Len(q))[x]
      <4>1. b + x \in 1..o
        BY <1>0, <3>5
      <4> QED
        BY <1>10, <3>6, <4>1 DEF FrameAt
    <3>8. ASSUME NEW x \in 1..l PROVE U[b + HeaderSize + x] = q[x]
      <4>1. b + HeaderSize + x \in 1..o
        BY <1>0, <3>5
      <4> QED
        BY <1>10, <3>3, <3>6, <4>1 DEF FrameAt
    <3> QED
      BY <3>2, <3>3, <3>4, <3>7, <3>8 DEF FrameAt
  <2> QED
    BY <2>1, <2>2
<1>18. Placed(a, U, t, n + 1)
  BY <1>14, <1>15, <1>16, <1>17 DEF Placed
<1> QED
  BY <1>1, <1>2, <1>3, <1>5, <1>9, <1>10, <1>12, <1>18
-----------------------------------------------------------------------------
(* What the actions make of the stream *)

LEMMA StreamIs ==
  ASSUME NEW e, NEW d, NEW s, NEW dm, NEW pd, Stream(e, d, s, dm, pd)
  PROVE  \E at, T :
           /\ Placed(at, T, s, Until(s, dm))
           /\ d <= Until(s, dm) => Carries(at, T, e, d, Until(s, dm), dm, pd)
BY DEF Stream

\* The frames that are sound stay where they are when others are added or the last
\* ones are not sound any more.
LEMMA PlacedLess ==
  ASSUME NEW at, NEW T, NEW s, NEW t, NEW n \in Nat, NEW m \in Nat,
         Placed(at, T, s, n), m <= n, \A i \in 1..m : t[i] = s[i]
  PROVE  Placed(at, T, t, m)
<1>1. /\ at[0] = 0
      /\ \A i \in 0..n : at[i] \in Nat
      /\ \A i \in 1..n : at[i] = at[i - 1] + Size(s[i])
      /\ \A i \in 0..n : \A j \in 0..n : i < j => at[i] < at[j]
      /\ \A i \in 1..n : FrameAt(s[i], T, at[i - 1])
  BY DEF Placed
<1>2. \A i \in 1..m : i \in 1..n
  OBVIOUS
<1>3. \A i \in 0..m : i \in 0..n
  OBVIOUS
<1>4. \A i \in 1..m : at[i] = at[i - 1] + Size(t[i]) /\ FrameAt(t[i], T, at[i - 1])
  BY <1>1, <1>2
<1>5. /\ \A i \in 0..m : \A j \in 0..m : i < j => at[i] < at[j]
      /\ \A i \in 0..m : at[i] \in Nat
  BY <1>1, <1>3
<1> QED
  BY <1>1, <1>4, <1>5 DEF Placed

LEMMA PlacedOrder ==
  ASSUME NEW at, NEW T, NEW s, NEW n \in Nat, Placed(at, T, s, n),
         NEW i \in 0..n, NEW j \in 0..n, i <= j
  PROVE  at[i] \in Nat /\ at[j] \in Nat /\ at[i] <= at[j]
<1>1. i \in Nat /\ j \in Nat
  OBVIOUS
<1>2. at[i] \in Nat /\ at[j] \in Nat
  BY DEF Placed
<1>3. CASE i = j
  BY <1>2, <1>3
<1>4. CASE i < j
  <2>1. at[i] < at[j]
    BY <1>4 DEF Placed
  <2> QED
    BY <1>2, <2>1
<1> QED
  BY <1>1, <1>3, <1>4

\* The bytes stay where they are.
LEMMA StreamSame ==
  ASSUME NEW e, NEW f, NEW d, NEW s, NEW dm, NEW pd, Stream(e, d, s, dm, pd),
         f.buffer = e.buffer, f.wire = e.wire,
         f.peer = e.peer \/ (e.peer # "reset" /\ f.peer # "reset")
  PROVE  Stream(f, d, s, dm, pd)
<1>1. PICK n : n = Until(s, dm)
  OBVIOUS
<1>2. PICK at, T :
        Placed(at, T, s, n) /\ (d <= n => Carries(at, T, e, d, n, dm, pd))
  BY <1>1, StreamIs
<1>3. Bytes(f) = Bytes(e) /\ \A o, m : Holds(e, T, o, m) => Holds(f, T, o, m)
  BY DEF Bytes, Holds
<1>4. Carries(at, T, e, d, n, dm, pd) => Carries(at, T, f, d, n, dm, pd)
  BY <1>3 DEF Carries
<1> QED
  BY <1>1, <1>2, <1>4 DEF Stream

\* A part of the wire is lost.
LEMMA StreamReset ==
  ASSUME NEW e \in Conn, NEW k \in 0..Len(e.wire), e.peer # "reset",
         NEW d \in Nat, NEW s \in Seq(Payloads), NEW dm \in 0..Len(s),
         NEW pd \in Seq(Seq(Byte)), Stream(e, d, s, dm, pd)
  PROVE  LET f == [e EXCEPT !.peer = "reset", !.wire = SubSeq(@, 1, k)]
         IN  f \in Conn /\ Stream(f, d, s, dm, pd)
<1>1. PICK n : n = Until(s, dm)
  OBVIOUS
<1>2. n \in Nat
  BY <1>1, UntilNat
<1>3. PICK at, T :
        Placed(at, T, s, n) /\ (d <= n => Carries(at, T, e, d, n, dm, pd))
  BY <1>1, StreamIs
<1>4. PICK b \in Seq(Byte), w \in Seq(Byte) : b = e.buffer /\ w = e.wire
  BY BytesNat
<1>5. PICK v : v = SubSeq(w, 1, k)
  OBVIOUS
<1>6. k \in Nat /\ k <= Len(w) /\ Len(w) \in Nat
  BY <1>4
<1>7. v \in Seq(Byte) /\ Len(v) = k /\ \A x \in 1..k : v[x] = w[x]
  BY <1>5, <1>6
<1>8. PICK f : f = [e EXCEPT !.peer = "reset", !.wire = SubSeq(@, 1, k)]
  OBVIOUS
<1>9. f \in Conn /\ f.peer = "reset" /\ f.buffer = b /\ f.wire = v
  BY <1>4, <1>5, <1>7, <1>8 DEF Conn
<1>10. Bytes(f) <= Bytes(e) /\ Bytes(f) \in Nat /\ Bytes(e) \in Nat
  <2>0. Bytes(e) = Len(b) + Len(w) /\ Bytes(f) = Len(b) + k
    BY <1>4, <1>7, <1>9 DEF Bytes
  <2>1. Bytes(e) = Len(b) + Len(w) /\ Bytes(f) = Len(b) + k /\ Len(b) \in Nat
    BY <2>0
  <2> QED
    BY <1>6, <2>1
<1>11. ASSUME d <= n PROVE Carries(at, T, f, d, n, dm, pd)
  <2>a. d \in 0..n /\ n \in 0..n
    BY <1>2, <1>11
  <2>1. PICK o \in Nat, m \in Nat : o = at[d] /\ m = at[n]
    BY <1>3, <2>a DEF Placed
  <2>2. /\ Holds(e, T, o, m)
        /\ dm = 0 => o + Bytes(e) + Left(pd) = m
    BY <1>3, <1>11, <2>1 DEF Carries
  <2>3. Left(pd) \in Nat
    <3>1. CASE pd = <<>>
      BY <3>1 DEF Left
    <3>2. CASE pd # <<>>
      <4>1. pd[1] \in Seq(Byte)
        BY <3>2
      <4> QED
        BY <3>2, <4>1 DEF Left
    <3> QED
      BY <3>1, <3>2
  <2>4. dm = 0 => o + Bytes(f) <= m
    BY <1>10, <2>2, <2>3
  <2>5. Holds(f, T, o, m)
    <3>1. /\ \A x \in 1..Len(b) : o + x <= m => b[x] = T[o + x]
          /\ \A x \in 1..Len(w) : o + Len(b) + x <= m => w[x] = T[o + Len(b) + x]
      BY <1>4, <2>2 DEF Holds
    <3>2. \A x \in 1..k : x \in 1..Len(w)
      BY <1>6
    <3>3. \A x \in 1..k : o + Len(b) + x <= m => v[x] = T[o + Len(b) + x]
      BY <1>7, <3>1, <3>2
    <3> QED
      BY <1>7, <1>9, <3>1, <3>3 DEF Holds
  <2> QED
    BY <1>9, <2>1, <2>4, <2>5 DEF Carries
<1>12. Stream(f, d, s, dm, pd)
  BY <1>1, <1>3, <1>11 DEF Stream
<1> QED
  BY <1>8, <1>9, <1>12

LEMMA WriteGives ==
  ASSUME NEW e \in Conn, NEW w \in Seq(Byte)
  PROVE  LET f == [e EXCEPT !.wire = @ \o w]
         IN  /\ f \in Conn /\ f.state = e.state /\ f.peer = e.peer
             /\ f.buffer = e.buffer /\ Bytes(f) = Bytes(e) + Len(w) /\ Bytes(f) \in Nat
<1>1. PICK v \in Seq(Byte) : v = e.wire
  BY BytesNat
<1>2. PICK u : u = v \o w
  OBVIOUS
<1>3. u \in Seq(Byte) /\ Len(u) = Len(v) + Len(w)
  BY <1>2
<1>4. PICK f : f = [e EXCEPT !.wire = @ \o w]
  OBVIOUS
<1>5. /\ f \in Conn /\ f.state = e.state /\ f.peer = e.peer
      /\ f.buffer = e.buffer /\ f.wire = u
  BY <1>1, <1>2, <1>3, <1>4 DEF Conn
<1>6. PICK i \in Nat : i = Len(e.buffer)
  BY BytesNat
<1>a. PICK j \in Nat : j = Len(v)
  OBVIOUS
<1>b. PICK k \in Nat : k = Len(w)
  OBVIOUS
<1>7. Bytes(e) = i + j
  BY <1>1, <1>6, <1>a DEF Bytes
<1>c. Len(u) = j + k
  BY <1>3, <1>a, <1>b
<1>8. Bytes(f) = i + (j + k)
  BY <1>5, <1>6, <1>c DEF Bytes
<1>9. Bytes(f) = Bytes(e) + Len(w) /\ Bytes(f) \in Nat
  <2>1. i + (j + k) = (i + j) + k /\ i + (j + k) \in Nat
    OBVIOUS
  <2> QED
    BY <1>7, <1>8, <1>b, <2>1
<1> QED
  BY <1>4, <1>5, <1>9

\* Bytes behind all sound frames.
LEMMA StreamBehind ==
  ASSUME NEW e \in Conn, NEW w \in Seq(Byte), e.peer = "reset" => w = <<>>,
         NEW d \in Nat, NEW s \in Seq(Payloads), NEW t \in Seq(Payloads),
         NEW n \in Nat, NEW m \in Nat, NEW dm, NEW dn, NEW pd, NEW pe,
         n = Until(s, dm), m = Until(t, dn), m <= n, \A i \in 1..m : t[i] = s[i],
         Stream(e, d, s, dm, pd), dn # 0,
         e.peer # "reset" /\ dm = 0 =>
           \A at, T :
             Placed(at, T, s, n) /\ d <= m /\ Carries(at, T, e, d, n, dm, pd)
               => at[d] + Bytes(e) >= at[m]
  PROVE  Stream([e EXCEPT !.wire = @ \o w], d, t, dn, pe)
<1>1. PICK at, T :
        Placed(at, T, s, n) /\ (d <= n => Carries(at, T, e, d, n, dm, pd))
  BY StreamIs
<1>2. PICK f : f = [e EXCEPT !.wire = @ \o w]
  OBVIOUS
<1>3. /\ f \in Conn /\ f.peer = e.peer /\ Bytes(f) = Bytes(e) + Len(w) /\ Bytes(e) \in Nat
      /\ Len(w) \in Nat
  <2>1. f \in Conn /\ f.peer = e.peer /\ Bytes(f) = Bytes(e) + Len(w)
    BY <1>2, WriteGives
  <2>2. Bytes(e) \in Nat
    BY BytesNat
  <2>3. Len(w) \in Nat
    OBVIOUS
  <2> QED
    BY <2>1, <2>2, <2>3
<1>4. Placed(at, T, t, m)
  BY <1>1, PlacedLess
<1>5. ASSUME d <= m PROVE Carries(at, T, f, d, m, dn, pe)
  <2>1. d <= n /\ Carries(at, T, e, d, n, dm, pd)
    BY <1>1, <1>5
  <2>a. d \in 0..n /\ m \in 0..n /\ n \in 0..n
    BY <2>1
  <2>2. PICK o \in Nat, y \in Nat, z \in Nat : o = at[d] /\ y = at[m] /\ z = at[n]
    BY <1>1, <2>a DEF Placed
  <2>3. y <= z
    BY <1>1, <2>a, <2>2, PlacedOrder
  <2>4. Holds(e, T, o, z)
    BY <2>1, <2>2 DEF Carries
  <2>5. Holds(e, T, o, y)
    BY <2>3, <2>4, HoldsLess
  <2>6. e.peer # "reset" => o + Bytes(e) >= y
    <3>1. CASE dm = 0
      BY <1>1, <1>5, <2>1, <2>2, <3>1
    <3>2. CASE dm # 0
      <4>1. e.peer # "reset" => o + Bytes(e) >= z
        BY <2>1, <2>2, <3>2 DEF Carries
      <4> QED
        BY <1>3, <2>3, <4>1
    <3> QED
      BY <3>1, <3>2
  <2>7. ASSUME NEW x \in 1..Len(w), o + Bytes(e) + x <= y PROVE w[x] = T[o + Bytes(e) + x]
    <3>1. e.peer # "reset"
      BY <2>7
    <3>2. o + Bytes(e) >= y
      BY <2>6, <3>1
    <3> QED
      BY <1>3, <2>7, <3>2
  <2>8. Holds(f, T, o, y)
    BY <1>2, <2>5, <2>7, WriteHolds
  <2>9. f.peer # "reset" => o + Bytes(f) >= y
    BY <1>3, <2>6
  <2> QED
    BY <2>2, <2>8, <2>9 DEF Carries
<1>6. Stream(f, d, t, dn, pe)
  BY <1>4, <1>5 DEF Stream
<1> QED
  BY <1>2, <1>6
\* A new frame, of which the header or all is written.
LEMMA StreamSends ==
  ASSUME NEW e \in Conn, e.peer # "reset", NEW s \in Seq(Payloads), NEW d \in Nat,
         d <= Len(s), NEW p \in Payloads, NEW w, NEW pe,
         Stream(e, d, s, 0, <<>>),
         \/ w = Encode(Len(p)) /\ pe = <<p>>
         \/ w = Frame(p) /\ pe = <<>>
  PROVE  Stream([e EXCEPT !.wire = @ \o w], d, Append(s, p), 0, pe)
<1>0. HeaderSize \in Nat
  BY ConnectionAssumption
<1>1. PICK n \in Nat : n = Len(s)
  OBVIOUS
<1>2. Until(s, 0) = n /\ Until(Append(s, p), 0) = n + 1
  BY <1>1 DEF Until
<1>3. PICK at, T : Placed(at, T, s, n) /\ Carries(at, T, e, d, n, 0, <<>>)
  BY <1>1, <1>2, StreamIs
<1>4. PICK at2, U :
        /\ Placed(at2, U, Append(s, p), n + 1)
        /\ \A i \in 0..n : at2[i] = at[i]
        /\ at2[n + 1] = at[n] + Size(p)
        /\ \A x \in 1..at[n] : U[x] = T[x]
        /\ FrameAt(p, U, at[n])
  BY <1>1, <1>3, PlaceAppend
<1>5. d \in 0..n /\ n \in 0..n
  BY <1>1
<1>6. PICK o \in Nat, m \in Nat : o = at[d] /\ m = at[n]
  BY <1>3, <1>5 DEF Placed
<1>7. at2[d] = o /\ at2[n + 1] = m + Size(p)
  BY <1>4, <1>5, <1>6
<1>8. Holds(e, T, o, m) /\ o + Bytes(e) = m /\ Bytes(e) \in Nat
  <2>1. Left(<<>>) = 0 /\ Bytes(e) \in Nat
    BY BytesNat DEF Left
  <2>2. Holds(e, T, o, m) /\ o + Bytes(e) + Left(<<>>) = m
    BY <1>3, <1>6 DEF Carries
  <2> QED
    BY <2>1, <2>2
<1>9. PICK l \in Nat, z \in Nat : l = Len(p) /\ z = Size(p) /\ z = HeaderSize + l
  BY FrameIs DEF Size
<1>a. PICK k \in Nat : k = m + z
  OBVIOUS
<1>b. \A x \in 1..m : U[x] = T[x]
  BY <1>4, <1>6
<1>c. o + Bytes(e) <= m
  BY <1>8
<1>10. Holds(e, U, o, k)
  BY <1>8, <1>b, <1>c, HoldsLess
<1>11. /\ w \in Seq(Byte) /\ Len(w) + Left(pe) = z
       /\ \A y \in 1..Len(w) : w[y] = U[m + y]
  <2>1. /\ \A x \in 1..HeaderSize : U[m + x] = Encode(Len(p))[x]
        /\ \A x \in 1..l : U[m + HeaderSize + x] = p[x]
    BY <1>4, <1>6, <1>9 DEF FrameAt
  <2>2. CASE w = Encode(Len(p)) /\ pe = <<p>>
    <3>1. w \in Seq(Byte) /\ Len(w) = HeaderSize
      BY <2>2, FrameIs
    <3>2. Left(pe) = l
      BY <1>9, <2>2 DEF Left
    <3>3. \A y \in 1..Len(w) : w[y] = U[m + y]
      BY <2>1, <2>2, <3>1
    <3> QED
      BY <1>0, <1>9, <3>1, <3>2, <3>3
  <2>3. CASE w = Frame(p) /\ pe = <<>>
    <3>1. /\ w \in Seq(Byte) /\ Len(w) = z
          /\ \A x \in 1..HeaderSize : w[x] = Encode(Len(p))[x]
          /\ \A x \in 1..l : w[HeaderSize + x] = p[x]
      BY <1>9, <2>3, FrameIs
    <3>2. Left(pe) = 0
      BY <2>3 DEF Left
    <3>3. ASSUME NEW y \in 1..z PROVE w[y] = U[m + y]
      <4>1. CASE y <= HeaderSize
        <5>1. y \in 1..HeaderSize
          BY <4>1
        <5> QED
          BY <2>1, <3>1, <5>1
      <4>2. CASE y > HeaderSize
        <5>1. PICK x \in 1..l : x = y - HeaderSize
          BY <1>0, <1>9, <4>2
        <5>2. y = HeaderSize + x /\ m + HeaderSize + x = m + y
          BY <1>0, <5>1
        <5> QED
          BY <2>1, <3>1, <5>2
      <4> QED
        BY <1>0, <4>1, <4>2
    <3> QED
      BY <3>1, <3>2, <3>3
  <2> QED
    BY <2>2, <2>3
<1>12. PICK f : f = [e EXCEPT !.wire = @ \o w]
  OBVIOUS
<1>13. f.peer = e.peer /\ Bytes(f) = Bytes(e) + Len(w)
  BY <1>11, <1>12, WriteGives
<1>14. Holds(f, U, o, k)
  <2>1. \A y \in 1..Len(w) : o + Bytes(e) + y <= k => w[y] = U[o + Bytes(e) + y]
    BY <1>8, <1>11
  <2>2. w \in Seq(Byte)
    BY <1>11
  <2> QED
    BY <1>10, <1>12, <2>1, <2>2, WriteHolds
<1>15. o + Bytes(f) + Left(pe) = m + z
  <2>1. PICK j \in Nat : j = Len(w)
    BY <1>11
  <2>2. j + Left(pe) = z /\ o + Bytes(e) = m /\ Bytes(f) = Bytes(e) + j
    BY <1>8, <1>11, <1>13, <2>1
  <2>3. PICK t \in Nat : t = Left(pe)
    BY <1>9 DEF Left
  <2>4. PICK x \in Nat : x = Bytes(e)
    BY <1>8
  <2>5. j + t = z /\ o + x = m
    BY <2>2, <2>3, <2>4
  <2>6. o + (x + j) + t = (o + x) + (j + t)
    OBVIOUS
  <2> QED
    BY <2>2, <2>3, <2>4, <2>5, <2>6
<1>16. Carries(at2, U, f, d, n + 1, 0, pe)
  BY <1>7, <1>9, <1>13, <1>14, <1>15, <1>a DEF Carries
<1>17. Stream(f, d, Append(s, p), 0, pe)
  BY <1>2, <1>4, <1>16 DEF Stream
<1> QED
  BY <1>12, <1>17

\* The payload of the last frame.
LEMMA LastFrame ==
  ASSUME NEW s \in Seq(Payloads), s # <<>>, NEW at, NEW T, Placed(at, T, s, Len(s))
  PROVE  /\ s[Len(s)] \in Payloads /\ Len(s) - 1 \in 0..Len(s) /\ Len(s) \in 0..Len(s)
         /\ at[Len(s)] = at[Len(s) - 1] + Size(s[Len(s)])
         /\ at[Len(s) - 1] \in Nat
         /\ FrameAt(s[Len(s)], T, at[Len(s) - 1])
<1>1. Len(s) \in Nat /\ Len(s) > 0
  OBVIOUS
<1>2. Len(s) \in 1..Len(s) /\ Len(s) - 1 \in 0..Len(s) /\ Len(s) \in 0..Len(s)
  BY <1>1
<1> QED
  BY <1>2 DEF Placed

LEMMA StreamGoesOn ==
  ASSUME NEW e \in Conn, e.peer # "reset", NEW s \in Seq(Payloads), s # <<>>,
         NEW d \in Nat, d <= Len(s), NEW p \in Payloads, p = s[Len(s)],
         Stream(e, d, s, 0, <<p>>)
  PROVE  Stream([e EXCEPT !.wire = @ \o p], d, s, 0, <<>>)
<1>0. HeaderSize \in Nat
  BY ConnectionAssumption
<1>1. PICK n \in Nat : n = Len(s)
  OBVIOUS
<1>2. Until(s, 0) = n
  BY <1>1 DEF Until
<1>3. PICK at, T : Placed(at, T, s, n) /\ Carries(at, T, e, d, n, 0, <<p>>)
  BY <1>1, <1>2, StreamIs
<1>4. PICK l \in Nat : l = Len(p) /\ Size(p) = HeaderSize + l /\ p \in Seq(Byte)
  BY FrameIs DEF Size
<1>5. d \in 0..n
  BY <1>1
<1>6. PICK o \in Nat, b \in Nat : /\ o = at[d] /\ at[n] = b + (HeaderSize + l)
                                 /\ FrameAt(p, T, b)
  <2>1. at[d] \in Nat
    BY <1>3, <1>5 DEF Placed
  <2> QED
    BY <1>1, <1>3, <1>4, <2>1, LastFrame
<1>7. PICK m \in Nat : m = at[n] /\ m = b + HeaderSize + l
  BY <1>0, <1>6
<1>8. Holds(e, T, o, m) /\ o + Bytes(e) + l = m /\ Bytes(e) \in Nat
  <2>1. Left(<<p>>) = l /\ Bytes(e) \in Nat
    BY <1>4, BytesNat DEF Left
  <2>2. Holds(e, T, o, m) /\ o + Bytes(e) + Left(<<p>>) = m
    BY <1>3, <1>6, <1>7 DEF Carries
  <2> QED
    BY <2>1, <2>2
<1>9. o + Bytes(e) = b + HeaderSize
  BY <1>0, <1>7, <1>8
<1>10. \A y \in 1..Len(p) : p[y] = T[o + Bytes(e) + y]
  BY <1>6, <1>9 DEF FrameAt
<1>11. PICK f : f = [e EXCEPT !.wire = @ \o p]
  OBVIOUS
<1>12. f.peer = e.peer /\ Bytes(f) = Bytes(e) + l
  BY <1>4, <1>11, WriteGives
<1>13. Holds(f, T, o, m)
  BY <1>4, <1>8, <1>10, <1>11, WriteHolds
<1>14. o + Bytes(f) + Left(<<>>) = m
  BY <1>8, <1>12 DEF Left
<1>15. Carries(at, T, f, d, n, 0, <<>>)
  BY <1>6, <1>7, <1>12, <1>13, <1>14 DEF Carries
<1>16. Stream(f, d, s, 0, <<>>)
  BY <1>2, <1>3, <1>15 DEF Stream
<1> QED
  BY <1>11, <1>16

LEMMA LeftNat ==
  ASSUME NEW pd \in Seq(Seq(Byte)) PROVE Left(pd) \in Nat
<1>1. CASE pd = <<>>
  BY <1>1 DEF Left
<1>2. CASE pd # <<>>
  <2>1. PICK p \in Seq(Byte) : p = pd[1]
    BY <1>2
  <2>2. Left(pd) = Len(p)
    BY <1>2, <2>1 DEF Left
  <2> QED
    BY <2>2
<1> QED
  BY <1>1, <1>2

\* The reader looks for a packet where a sound frame is, that of q.
AtFrame(r, e, keeps, q, d, s, dm, pd) ==
  /\ Stream(r.c, IF r.ok THEN d + 1 ELSE d, s, dm, pd)
  /\ WaitsOrTakes(r, e, q, keeps)
  /\ ((dm = 0 /\ e.peer # "reset" /\ pd = <<>>) => Bytes(e) >= Size(q))

LEMMA StreamTakes ==
  ASSUME NEW e \in Conn, e.state = "Ready", NEW keeps \in BOOLEAN,
         NEW r \in readyNextPacket(e, keeps),
         NEW s \in Seq(Payloads), NEW dm \in 0..Len(s), NEW pd \in Seq(Seq(Byte)),
         NEW d \in Nat, d < Until(s, dm), NEW q \in Payloads, q = s[d + 1], Fits(q),
         Stream(e, d, s, dm, pd)
  PROVE  AtFrame(r, e, keeps, q, d, s, dm, pd)
<1>1. PICK n \in Nat : n = Until(s, dm)
  BY UntilNat
<1>2. PICK at, T : Placed(at, T, s, n) /\ Carries(at, T, e, d, n, dm, pd)
  BY <1>1, StreamIs
<1>3. d \in 0..n /\ d + 1 \in 0..n /\ d + 1 \in 1..n /\ n \in 0..n
  BY <1>1
<1>4. PICK o \in Nat, b \in Nat, m \in Nat : o = at[d] /\ b = at[d + 1] /\ m = at[n] /\ b <= m
  BY <1>2, <1>3, PlacedOrder
<1>5. PICK z \in Nat : z = Size(q) /\ b = o + z
  <2>1. at[d + 1] = at[(d + 1) - 1] + Size(s[d + 1]) /\ (d + 1) - 1 = d
    BY <1>2, <1>3 DEF Placed
  <2> QED
    BY <1>4, <2>1, FrameIs
<1>6. FrameAt(q, T, o)
  <2>1. FrameAt(s[d + 1], T, at[(d + 1) - 1]) /\ (d + 1) - 1 = d
    BY <1>2, <1>3 DEF Placed
  <2> QED
    BY <1>4, <2>1
<1>7. /\ Holds(e, T, o, m)
      /\ dm = 0 /\ e.peer # "reset" => o + Bytes(e) + Left(pd) = m
      /\ dm = 0 /\ e.peer = "reset" => o + Bytes(e) <= m
      /\ dm # 0 /\ e.peer # "reset" => o + Bytes(e) >= m
  BY <1>2, <1>4 DEF Carries
<1>8. Bytes(e) \in Nat /\ Left(pd) \in Nat
  BY BytesNat, LeftNat
<1>a. Holds(e, T, o, m) /\ o + Size(q) <= m /\ FrameAt(q, T, o)
  BY <1>4, <1>5, <1>6, <1>7
<1>b. WaitsOrTakes(r, e, q, keeps)
  BY <1>a, SoundPacket
<1>9. WaitsFor(r, e, z) \/ Takes(r, e, z)
  BY <1>5, <1>b DEF WaitsOrTakes
<1>10. r.c.peer = e.peer
  BY AnyPacket
<1>11. ASSUME WaitsFor(r, e, z)
       PROVE  Stream(r.c, IF r.ok THEN d + 1 ELSE d, s, dm, pd)
  <2>1. r.ok = FALSE /\ Bytes(r.c) = Bytes(e) /\ Holds(r.c, T, o, m)
    BY <1>7, <1>11 DEF WaitsFor
  <2>2. Carries(at, T, r.c, d, n, dm, pd)
    BY <1>4, <1>7, <1>10, <2>1 DEF Carries
  <2> QED
    BY <1>1, <1>2, <2>1, <2>2 DEF Stream
<1>12. ASSUME Takes(r, e, z)
       PROVE  Stream(r.c, IF r.ok THEN d + 1 ELSE d, s, dm, pd)
  <2>1. r.ok = TRUE /\ Bytes(r.c) = Bytes(e) - z /\ Holds(r.c, T, b, m)
    BY <1>5, <1>7, <1>12 DEF Takes
  <2>2. /\ dm = 0 /\ e.peer # "reset" => b + Bytes(r.c) + Left(pd) = m
        /\ dm = 0 /\ e.peer = "reset" => b + Bytes(r.c) <= m
        /\ dm # 0 /\ e.peer # "reset" => b + Bytes(r.c) >= m
    <3>1. b + Bytes(r.c) = o + Bytes(e)
      BY <1>5, <1>8, <2>1
    <3> QED
      BY <1>7, <3>1
  <2>3. Carries(at, T, r.c, d + 1, n, dm, pd)
    BY <1>4, <1>10, <2>1, <2>2 DEF Carries
  <2> QED
    BY <1>1, <1>2, <2>1, <2>3 DEF Stream
<1>13. dm = 0 /\ e.peer # "reset" /\ pd = <<>> => Bytes(e) >= z
  <2>1. pd = <<>> => Left(pd) = 0
    BY DEF Left
  <2> QED
    BY <1>4, <1>5, <1>7, <1>8, <2>1
<1>14. Stream(r.c, IF r.ok THEN d + 1 ELSE d, s, dm, pd)
  BY <1>9, <1>11, <1>12
<1> QED
  BY <1>5, <1>b, <1>13, <1>14 DEF AtFrame

\* The reader looks for a packet behind the sound frames.
LEMMA StreamOther ==
  ASSUME NEW e \in Conn, e.state = "Ready", NEW keeps \in BOOLEAN,
         NEW r \in readyNextPacket(e, keeps),
         NEW s \in Seq(Payloads), NEW dm \in 0..Len(s), NEW pd \in Seq(Seq(Byte)),
         NEW d \in Nat, d >= Until(s, dm),
         Stream(e, d, s, dm, pd)
  PROVE  /\ Stream(r.c, IF r.ok THEN d + 1 ELSE d, s, dm, pd)
         /\ dm = 0 /\ d = Len(s) => r.ok = FALSE /\ Bytes(r.c) = 0
<1>1. PICK n \in Nat : n = Until(s, dm)
  BY UntilNat
<1>2. PICK at, T : Placed(at, T, s, n) /\ (d <= n => Carries(at, T, e, d, n, dm, pd))
  BY <1>1, StreamIs
<1>3. /\ r.c \in Conn /\ r.c.peer = e.peer /\ r.ok \in BOOLEAN
      /\ Bytes(e) = 0 => r.ok = FALSE /\ Bytes(r.c) = 0
  BY AnyPacket
<1>4. Bytes(e) \in Nat /\ Left(pd) \in Nat /\ Bytes(r.c) \in Nat
  BY <1>3, BytesNat, LeftNat
<1>5. CASE d > n
  <2>1. ~ (d <= n) /\ ~ (d + 1 <= n)
    BY <1>5
  <2>2. Stream(r.c, d, s, dm, pd) /\ Stream(r.c, d + 1, s, dm, pd)
    BY <1>1, <1>2, <2>1 DEF Stream
  <2>3. dm = 0 => d # Len(s)
    BY <1>1, <1>5 DEF Until
  <2> QED
    BY <2>2, <2>3
<1>6. CASE d = n
  <2>1. PICK o \in Nat : o = at[n]
    <3>1. n \in 0..n
      OBVIOUS
    <3> QED
      BY <1>2, <3>1 DEF Placed
  <2>2. /\ dm = 0 /\ e.peer # "reset" => o + Bytes(e) + Left(pd) = o
        /\ dm = 0 /\ e.peer = "reset" => o + Bytes(e) <= o
    BY <1>2, <1>6, <2>1 DEF Carries
  <2>3. dm = 0 => Bytes(e) = 0 /\ (e.peer # "reset" => Left(pd) = 0)
    BY <1>4, <2>2
  <2>4. dm = 0 => r.ok = FALSE /\ Bytes(r.c) = 0
    BY <1>3, <2>3
  <2>5. Holds(r.c, T, o, o)
    <3>1. Len(r.c.buffer) \in Nat /\ Len(r.c.wire) \in Nat
      BY <1>3, BytesNat
    <3>2. \A x \in 1..Len(r.c.buffer) : ~ (o + x <= o)
      BY <3>1
    <3>3. \A x \in 1..Len(r.c.wire) : ~ (o + Len(r.c.buffer) + x <= o)
      BY <3>1
    <3> QED
      BY <3>2, <3>3 DEF Holds
  <2>6. /\ dm = 0 /\ e.peer # "reset" => o + Bytes(r.c) + Left(pd) = o
        /\ dm = 0 /\ e.peer = "reset" => o + Bytes(r.c) <= o
        /\ dm # 0 /\ e.peer # "reset" => o + Bytes(r.c) >= o
    BY <1>4, <2>3, <2>4
  <2>7. Carries(at, T, r.c, d, n, dm, pd)
    BY <1>3, <1>6, <2>1, <2>5, <2>6 DEF Carries
  <2>8. Stream(r.c, d, s, dm, pd)
    BY <1>1, <1>2, <2>7 DEF Stream
  <2>9. Stream(r.c, d + 1, s, dm, pd)
    <3>1. ~ (d + 1 <= n)
      BY <1>6
    <3> QED
      BY <1>1, <1>2, <3>1 DEF Stream
  <2> QED
    BY <2>4, <2>8, <2>9
<1>7. d > n \/ d = n
  BY <1>1
<1> QED
  BY <1>5, <1>6, <1>7
-----------------------------------------------------------------------------
(* The invariant *)

\* What the states of the two ends and the write in progress have to do with each other.
Ends ==
  /\ c.state \in {"Starting", "Failed"} => sent = <<>>
  /\ c.state = "Finished" => c.peer # "open"
  /\ pending # <<>> => sent # <<>> /\ pending = <<sent[Len(sent)]>> /\ c.peer # "closed"

\* The sound frames fit a buffer, and those that were delivered are what was sent.
InOrder ==
  /\ damaged = 0 => Len(delivered) <= Len(sent)
  /\ \A i \in 1..Until(sent, damaged) :
       /\ Fits(sent[i])
       /\ i <= Len(delivered) => delivered[i] = AsDelivered(sent[i])

\* What the buffer may hold: as much as the next frame, and nothing when there is none.
NextSize(s, d) == IF d < Len(s) THEN Size(s[d + 1]) ELSE 0

BufferInFrame == damaged = 0 => Len(c.buffer) <= NextSize(sent, Len(delivered))

IInv == /\ TypeOK /\ Ends /\ InOrder /\ FinishedAfterAll /\ BufferInFrame
        /\ Stream(c, Len(delivered), sent, damaged, pending)

LEMMA TypeFacts ==
  ASSUME TypeOK
  PROVE  /\ c \in Conn /\ keep \in BOOLEAN /\ pending \in Seq(Seq(Byte))
         /\ sent \in Seq(Payloads) /\ damaged \in 0..Len(sent)
         /\ Len(delivered) \in Nat /\ Len(sent) \in Nat
         /\ Until(sent, damaged) \in 0..Len(sent)
<1>1. /\ c \in Conn /\ keep \in BOOLEAN /\ pending \in Seq(Seq(Byte))
      /\ sent \in Seq(Payloads) /\ damaged \in 0..Len(sent)
      /\ delivered \in Seq(Seq(Byte))
  BY DEF TypeOK
<1>2. Until(sent, damaged) \in 0..Len(sent)
  BY <1>1, UntilNat
<1> QED
  BY <1>1, <1>2

LEMMA InitIInv == Init => IInv
<1> SUFFICES ASSUME Init PROVE IInv
  OBVIOUS
<1>1. /\ c = Dialing /\ keep \in BOOLEAN /\ pending = <<>> /\ sent = <<>>
      /\ damaged = 0 /\ delivered = <<>>
  BY DEF Init
<1>2. c \in Conn /\ c.buffer = <<>> /\ c.wire = <<>> /\ c.state = "Starting" /\ c.peer = "open"
  BY <1>1 DEF Dialing, Conn, ConnectionState
<1>3. MaxFrames \in Nat
  BY LinkAssumption
<1>4. TypeOK
  BY <1>1, <1>2, <1>3 DEF TypeOK
<1>5. Until(sent, damaged) = 0 /\ Len(delivered) = 0 /\ Len(sent) = 0 /\ Left(pending) = 0
  BY <1>1 DEF Until, Left
<1>6. Bytes(c) = 0 /\ Len(c.buffer) = 0 /\ Len(c.wire) = 0
  BY <1>2 DEF Bytes
<1>7. Ends /\ InOrder /\ FinishedAfterAll
  BY <1>1, <1>2, <1>5 DEF Ends, InOrder, FinishedAfterAll
<1>8. BufferInFrame
  BY <1>5, <1>6 DEF BufferInFrame, NextSize
<1>9. Stream(c, Len(delivered), sent, damaged, pending)
  <2> DEFINE at == [i \in 0..0 |-> 0]
  <2>1. at[0] = 0
    OBVIOUS
  <2> HIDE DEF at
  <2>2. Placed(at, at, sent, 0)
    BY <2>1 DEF Placed
  <2>3. Holds(c, at, 0, 0)
    BY <1>6 DEF Holds
  <2>4. Carries(at, at, c, 0, 0, damaged, pending)
    BY <1>1, <1>2, <1>5, <1>6, <2>1, <2>3 DEF Carries
  <2> QED
    BY <1>5, <2>2, <2>4 DEF Stream
<1> QED
  BY <1>4, <1>7, <1>8, <1>9 DEF IInv

LEMMA LinkFollows == IInv => LinkIsSound
<1> SUFFICES ASSUME IInv PROVE LinkIsSound
  OBVIOUS
<1>1. TypeOK /\ Ends /\ InOrder /\ FinishedAfterAll /\ BufferInFrame
  BY DEF IInv
<1>2. /\ c \in Conn /\ sent \in Seq(Payloads) /\ damaged \in 0..Len(sent)
      /\ Len(delivered) \in Nat /\ Len(sent) \in Nat
      /\ Until(sent, damaged) \in 0..Len(sent)
  BY <1>1, TypeFacts
<1>3. PICK n \in Nat, d \in Nat : n = Until(sent, damaged) /\ d = Len(delivered)
  BY <1>2
<1>4. DeliveredAsSent
  <2>1. Len(Sound) = n
    <3>1. CASE damaged = 0
      BY <1>2, <1>3, <3>1 DEF Sound, Until
    <3>2. CASE damaged # 0
      <4>1. n = damaged - 1 /\ damaged - 1 \in 0..Len(sent) /\ Sound = SubSeq(sent, 1, n)
        BY <1>2, <1>3, <3>2 DEF Sound, Until
      <4> QED
        BY <1>2, <4>1
    <3> QED
      BY <3>1, <3>2
  <2>2. Min({Len(Sound), Len(delivered)}) = IF n <= d THEN n ELSE d
    BY <1>3, <2>1, MinOf
  <2>3. \A i \in 1..(IF n <= d THEN n ELSE d) : delivered[i] = AsDelivered(sent[i])
    BY <1>1, <1>3 DEF InOrder
  <2>4. damaged = 0 => Len(delivered) <= Len(sent)
    BY <1>1 DEF InOrder
  <2> QED
    BY <2>2, <2>3, <2>4 DEF DeliveredAsSent
<1>5. InStep
  <2> SUFFICES ASSUME damaged = 0, Len(delivered) < Len(sent), c.state = "Ready"
               PROVE  IsPrefix(c.buffer, Frame(sent[Len(delivered) + 1]))
    BY DEF InStep
  <2>1. n = Len(sent) /\ d < n /\ d + 1 \in 1..n
    BY <1>3 DEF Until
  <2>2. PICK q \in Payloads : q = sent[d + 1]
    BY <1>2, <2>1
  <2>3. PICK b \in Seq(Byte) : b = c.buffer
    BY <1>2, BytesNat
  <2>4. PICK z \in Nat, l \in Nat : z = Size(q) /\ l = Len(q) /\ z = HeaderSize + l
    BY FrameIs DEF Size
  <2>5. Len(b) <= z
    BY <1>1, <1>3, <2>1, <2>2, <2>3, <2>4 DEF BufferInFrame, NextSize
  <2>6. PICK at, T : Placed(at, T, sent, n) /\ Carries(at, T, c, d, n, damaged, pending)
    <3>1. Stream(c, d, sent, damaged, pending)
      BY <1>3 DEF IInv
    <3> QED
      BY <1>3, <2>1, <3>1, StreamIs
  <2>7. d \in 0..n /\ n \in 0..n /\ d + 1 \in 0..n
    BY <2>1
  <2>8. PICK o \in Nat, y \in Nat, m \in Nat : o = at[d] /\ y = at[d + 1] /\ m = at[n] /\ y <= m
    BY <2>1, <2>6, <2>7, PlacedOrder
  <2>9. y = o + z /\ FrameAt(q, T, o)
    <3>1. /\ at[d + 1] = at[(d + 1) - 1] + Size(sent[d + 1]) /\ (d + 1) - 1 = d
          /\ FrameAt(sent[d + 1], T, at[(d + 1) - 1])
      BY <2>1, <2>6 DEF Placed
    <3> QED
      BY <2>2, <2>4, <2>8, <3>1
  <2>10. PICK f \in Seq(Byte) : /\ f = Frame(q) /\ Len(f) = z
                                /\ \A x \in 1..HeaderSize : f[x] = Encode(Len(q))[x]
                                /\ \A x \in 1..l : f[HeaderSize + x] = q[x]
    BY <2>4, FrameIs
  <2>11. ASSUME NEW x \in 1..Len(b) PROVE b[x] = f[x]
    <3>0. HeaderSize \in Nat
      BY ConnectionAssumption
    <3>a. PICK lb \in Nat : lb = Len(b) /\ x \in 1..lb /\ lb <= z
      BY <2>5
    <3>b. x \in Nat /\ x <= z
      BY <3>a
    <3>c. o + z <= m
      BY <2>8, <2>9
    <3>1. o + x <= m
      BY <3>b, <3>c
    <3>2. b[x] = T[o + x]
      <4>1. Holds(c, T, o, m)
        BY <2>6, <2>8 DEF Carries
      <4> QED
        BY <2>3, <3>1, <4>1 DEF Holds
    <3>3. CASE x <= HeaderSize
      <4>1. x \in 1..HeaderSize
        BY <3>3
      <4> QED
        BY <2>9, <2>10, <3>2, <4>1 DEF FrameAt
    <3>4. CASE x > HeaderSize
      <4>1. PICK v \in 1..l : v = x - HeaderSize
        BY <2>4, <2>5, <3>0, <3>4
      <4>2. x = HeaderSize + v /\ o + HeaderSize + v = o + x
        BY <3>0, <4>1
      <4>3. T[o + HeaderSize + v] = q[v]
        BY <2>4, <2>9, <4>1 DEF FrameAt
      <4> QED
        BY <2>10, <3>2, <4>1, <4>2, <4>3
    <3> QED
      BY <3>0, <3>3, <3>4
  <2>12. SubSeq(b, 1, Len(b)) = SubSeq(f, 1, Len(b))
    <3>1. PICK k \in Nat : k = Len(b)
      OBVIOUS
    <3>2. PICK u : u = SubSeq(b, 1, k)
      OBVIOUS
    <3>3. PICK v : v = SubSeq(f, 1, k)
      OBVIOUS
    <3>4. u \in Seq(Byte) /\ Len(u) = k /\ \A x \in 1..k : u[x] = b[x]
      BY <3>1, <3>2
    <3>5. v \in Seq(Byte) /\ Len(v) = k /\ \A x \in 1..k : v[x] = f[x]
      BY <2>5, <2>10, <3>1, <3>3
    <3>6. u = v
      BY <2>11, <3>1, <3>4, <3>5
    <3> QED
      BY <3>1, <3>2, <3>3, <3>6
  <2> QED
    BY <1>3, <2>2, <2>3, <2>5, <2>10, <2>12 DEF IsPrefix
<1>6. NeverOverflows
  BY <1>1 DEF Ends, NeverOverflows
<1> QED
  BY <1>1, <1>4, <1>5, <1>6 DEF LinkIsSound
-----------------------------------------------------------------------------
(* The steps *)

\* What a write takes.
LEMMA WriteTakes ==
  ASSUME NEW e \in Conn, NEW b \in Seq(Byte), b # <<>>, NEW room \in Int
  PROVE  \E w \in Seq(Byte) :
           /\ write(e, b, room).c = [e EXCEPT !.wire = @ \o w]
           /\ write(e, b, room).n \in Int
           /\ room <= 0 => w = <<>> /\ write(e, b, room).ok = FALSE
                           /\ write(e, b, room).n < Len(b)
           /\ ~ (write(e, b, room).n < Len(b)) => w = b
<1>1. PICK n : n = Min({Len(b), room})
  OBVIOUS
<1>2. Len(b) \in Nat /\ Len(b) > 0
  OBVIOUS
<1>3. n \in Int /\ n = IF Len(b) <= room THEN Len(b) ELSE room
  BY <1>1, <1>2, MinOf
<1>4. n <= Len(b)
  BY <1>2, <1>3
<1>5. PICK w : w = SubSeq(b, 1, n)
  OBVIOUS
<1>6. w \in Seq(Byte)
  BY <1>3, <1>4, <1>5
<1>7. write(e, b, room) = [ok |-> n > 0, n |-> n, c |-> [e EXCEPT !.wire = @ \o w]]
  BY <1>1, <1>5 DEF write
<1>a. PICK v : v = write(e, b, room)
  OBVIOUS
<1>b. v.c = [e EXCEPT !.wire = @ \o w] /\ v.n = n
  BY <1>7, <1>a
<1>c. ~ (n > 0) => v.ok = FALSE
  <2>1. v.ok = (n > 0)
    BY <1>7, <1>a
  <2>2. ASSUME ~ (n > 0) PROVE (n > 0) = FALSE
    BY <2>2
  <2> QED
    BY <2>1, <2>2, Zenon
<1>8. room <= 0 => w = <<>> /\ ~ (n > 0) /\ n < Len(b)
  BY <1>2, <1>3, <1>5
<1>9. ~ (n < Len(b)) => w = b
  <2>1. ~ (n < Len(b)) => n = Len(b)
    BY <1>2, <1>3, <1>4
  <2>2. SubSeq(b, 1, Len(b)) = b
    OBVIOUS
  <2> QED
    BY <1>5, <2>1, <2>2
<1> QED
  <2>1. room <= 0 => w = <<>> /\ v.ok = FALSE /\ v.n < Len(b)
    BY <1>8, <1>b, <1>c
  <2>2. ~ (v.n < Len(b)) => w = b
    BY <1>9, <1>b
  <2>3. v.n \in Int
    BY <1>3, <1>b
  <2> HIDE DEF write
  <2> QED
    BY <1>6, <1>a, <1>b, <2>1, <2>2, <2>3

LEMMA RoomIs == ASSUME TypeOK PROVE Room \in Int /\ (c.peer # "open" => Room <= 0)
<1>1. SockCap \in Nat
  BY LinkAssumption
<1>2. Len(c.wire) \in Nat
  BY TypeFacts, BytesNat
<1> QED
  BY <1>1, <1>2 DEF Room

LEMMA SendFrameKeeps ==
  ASSUME IInv, NEW p \in Payloads, SendFrame(p)
  PROVE  IInv'
<1>1. TypeOK /\ Ends /\ InOrder /\ FinishedAfterAll /\ BufferInFrame
      /\ Stream(c, Len(delivered), sent, damaged, pending)
  BY DEF IInv
<1>2. PICK e \in Conn, s \in Seq(Payloads), dm \in Nat, d \in Nat :
        /\ e = c /\ s = sent /\ dm = damaged /\ d = Len(delivered) /\ dm \in 0..Len(s)
  BY <1>1, TypeFacts
<1>3. /\ pending = <<>> /\ e.state = "Ready" /\ Len(s) < MaxFrames
      /\ sent' = Append(s, p) /\ keep' = keep /\ delivered' = delivered
  BY <1>2 DEF SendFrame
<1>4. PICK writes \in {<<Encode(Len(p)), p>>, <<Frame(p)>>} :
        LET w == write(e, Head(writes), Room)
        IN  /\ w.ok
            /\ c' = w.c
            /\ pending' = Tail(writes)
            /\ damaged' = IF dm = 0 /\ (w.n < Len(Head(writes)) \/ ~Fits(p))
                          THEN Len(s) + 1 ELSE dm
  BY <1>2 DEF SendFrame
<1>5. PICK b, pe :
        /\ b = Head(writes) /\ pe = Tail(writes)
        /\ (b = Encode(Len(p)) /\ pe = <<p>>) \/ (b = Frame(p) /\ pe = <<>>)
  <2>1. CASE writes = <<Encode(Len(p)), p>>
    <3>1. Head(writes) = Encode(Len(p)) /\ Tail(writes) = <<p>>
      BY <2>1
    <3> QED
      BY <3>1
  <2>2. CASE writes = <<Frame(p)>>
    <3>1. Head(writes) = Frame(p) /\ Tail(writes) = <<>>
      BY <2>2
    <3> QED
      BY <3>1
  <2> QED
    BY <2>1, <2>2
<1>6. b \in Seq(Byte) /\ b # <<>> /\ pe \in Seq(Seq(Byte)) /\ Len(pe) <= 2
  <2>1. HeaderSize \in Nat /\ HeaderSize > 0 /\ Size(p) = HeaderSize + Len(p) /\ Len(p) \in Nat
    BY ConnectionAssumption, FrameIs DEF Size
  <2>2. p \in Seq(Byte) /\ Len(<<p>>) = 1 /\ Len(<<>>) = 0
    BY FrameIs
  <2>3. b \in Seq(Byte) /\ Len(b) > 0
    BY <1>5, <2>1, FrameIs
  <2>4. pe \in Seq(Seq(Byte)) /\ Len(pe) <= 2
    <3>1. PICK q \in Seq(Byte) : q = p
      BY <2>2
    <3>2. <<q>> \in Seq(Seq(Byte)) /\ <<>> \in Seq(Seq(Byte))
      OBVIOUS
    <3>3. pe = <<q>> \/ pe = <<>>
      BY <1>5, <3>1
    <3>4. Len(<<q>>) <= 2 /\ Len(<<>>) <= 2
      OBVIOUS
    <3> QED
      BY <3>2, <3>3, <3>4
  <2> QED
    BY <2>3, <2>4
<1>7. PICK room \in Int : room = Room /\ (e.peer # "open" => room <= 0)
  BY <1>1, <1>2, RoomIs
<1>8. PICK v : v = write(e, b, room)
  OBVIOUS
<1>9. PICK w \in Seq(Byte) :
        /\ v.c = [e EXCEPT !.wire = @ \o w] /\ v.n \in Int
        /\ room <= 0 => v.ok = FALSE
        /\ ~ (v.n < Len(b)) => w = b
  BY <1>6, <1>8, WriteTakes
<1>10. /\ v.ok /\ c' = [e EXCEPT !.wire = @ \o w] /\ pending' = pe
       /\ damaged' = IF dm = 0 /\ (v.n < Len(b) \/ ~Fits(p)) THEN Len(s) + 1 ELSE dm
  BY <1>4, <1>5, <1>7, <1>8, <1>9
<1>11. e.peer = "open"
  BY <1>7, <1>9, <1>10
<1>12. PICK f : f = [e EXCEPT !.wire = @ \o w]
  OBVIOUS
<1>13. f \in Conn /\ f.state = "Ready" /\ f.peer = "open" /\ f.buffer = e.buffer
  BY <1>3, <1>11, <1>12, WriteGives
<1>a. PICK t : t = Append(s, p)
  OBVIOUS
<1>14. /\ t \in Seq(Payloads) /\ t = Append(s, p) /\ Len(t) = Len(s) + 1
       /\ t[Len(s) + 1] = p /\ \A i \in 1..Len(s) : t[i] = s[i]
  BY <1>a
<1>15. PICK dn : dn = IF dm = 0 /\ (v.n < Len(b) \/ ~Fits(p)) THEN Len(s) + 1 ELSE dm
  OBVIOUS
<1>16. dn \in 0..Len(t) /\ (dn = 0 => dm = 0 /\ w = b /\ Fits(p)) /\ (dm # 0 => dn = dm)
  <2>1. PICK k \in Nat : k = Len(s) /\ Len(t) = k + 1 /\ dm \in 0..k
    BY <1>2, <1>14
  <2>2. CASE dm = 0 /\ (v.n < Len(b) \/ ~Fits(p))
    <3>1. dn = k + 1
      BY <1>15, <2>1, <2>2
    <3> QED
      BY <2>1, <2>2, <3>1
  <2>3. CASE ~ (dm = 0 /\ (v.n < Len(b) \/ ~Fits(p)))
    <3>1. dn = dm
      BY <1>15, <2>3
    <3>2. dn = 0 => ~ (v.n < Len(b)) /\ Fits(p)
      BY <2>3, <3>1
    <3> QED
      BY <1>9, <2>1, <3>1, <3>2
  <2> QED
    BY <2>2, <2>3
<1>17. c' = f /\ sent' = t /\ damaged' = dn /\ pending' = pe
  BY <1>3, <1>10, <1>12, <1>14, <1>15
<1>18. PICK n \in Nat, m \in Nat : /\ n = Until(s, dm) /\ m = Until(t, dn) /\ n <= Len(s)
                                  /\ m = IF dn = 0 THEN n + 1 ELSE n
  <2>1. Until(s, dm) \in 0..Len(s) /\ Len(s) \in Nat
    BY <1>2, UntilNat
  <2>2. CASE dn = 0
    BY <1>14, <1>16, <2>1, <2>2 DEF Until
  <2>3. CASE dn # 0
    <3>1. CASE dm = 0
      BY <1>15, <2>1, <2>3, <3>1 DEF Until
    <3>2. CASE dm # 0
      BY <1>16, <2>1, <2>3, <3>2 DEF Until
    <3> QED
      BY <3>1, <3>2
  <2> QED
    BY <2>2, <2>3
<1>19. TypeOK'
  <2>1. /\ keep \in BOOLEAN /\ delivered \in Seq(Seq(Byte)) /\ MaxFrames \in Nat
    BY <1>1, LinkAssumption DEF TypeOK
  <2>2. Len(t) <= MaxFrames
    BY <1>3, <1>14, <2>1
  <2> QED
    BY <1>3, <1>6, <1>13, <1>14, <1>16, <1>17, <2>1, <2>2 DEF TypeOK
<1>20. Ends'
  <2>1. t # <<>>
    BY <1>14
  <2>2. pe # <<>> => pe = <<t[Len(t)]>>
    BY <1>5, <1>14
  <2> QED
    BY <1>13, <1>17, <2>1, <2>2 DEF Ends
<1>21. InOrder'
  <2>1. dn = 0 => d <= Len(t)
    <3>1. dm = 0 => d <= Len(s)
      BY <1>1, <1>2 DEF InOrder
    <3> QED
      BY <1>14, <1>16, <3>1
  <2>2. ASSUME NEW i \in 1..m
        PROVE  /\ Fits(t[i])
               /\ i <= Len(delivered) => delivered[i] = IF keep THEN Frame(t[i]) ELSE t[i]
    <3>1. CASE i \in 1..n
      <4>1. t[i] = s[i]
        BY <1>14, <1>18, <3>1
      <4>2. Fits(s[i]) /\ (i <= Len(delivered) => delivered[i] = AsDelivered(s[i]))
        BY <1>1, <1>2, <1>18, <3>1 DEF InOrder
      <4> QED
        BY <4>1, <4>2 DEF AsDelivered
    <3>2. CASE i \notin 1..n
      <4>1. dn = 0 /\ i = n + 1
        BY <1>18, <3>2
      <4>2. n = Len(s) /\ d <= n
        BY <1>1, <1>2, <1>16, <1>18, <4>1 DEF Until, InOrder
      <4> QED
        BY <1>2, <1>14, <1>16, <4>1, <4>2
    <3> QED
      BY <3>1, <3>2
  <2>3. Until(sent', damaged') = m
    BY <1>17, <1>18
  <2> QED
    BY <1>2, <1>3, <1>17, <2>1, <2>2, <2>3 DEF InOrder, AsDelivered
<1>22. FinishedAfterAll'
  BY <1>13, <1>17 DEF FinishedAfterAll
<1>23. BufferInFrame'
  <2>1. dn = 0 => Len(f.buffer) <= NextSize(t, d)
    <3> SUFFICES ASSUME dn = 0 PROVE Len(f.buffer) <= NextSize(t, d)
      OBVIOUS
    <3>1. d <= Len(s) /\ Len(e.buffer) <= NextSize(s, d) /\ Len(s) \in Nat
      BY <1>1, <1>2, <1>16 DEF InOrder, BufferInFrame
    <3>2. CASE d < Len(s)
      <4>1. d + 1 \in 1..Len(s) /\ d < Len(t)
        BY <1>14, <3>1, <3>2
      <4>2. NextSize(t, d) = NextSize(s, d)
        BY <1>14, <3>2, <4>1 DEF NextSize
      <4> QED
        BY <1>13, <3>1, <4>2
    <3>3. CASE d = Len(s)
      <4>1. NextSize(t, d) = Size(p) /\ Size(p) \in Nat /\ NextSize(s, d) = 0
        BY <1>14, <3>1, <3>3, FrameIs DEF NextSize
      <4>2. Len(e.buffer) \in Nat
        BY BytesNat
      <4> QED
        BY <1>13, <3>1, <4>1, <4>2
    <3> QED
      BY <3>1, <3>2, <3>3
  <2> QED
    BY <1>2, <1>3, <1>17, <2>1 DEF BufferInFrame
<1>24. Stream(f, d, t, dn, pe)
  <2>0. Stream(e, d, s, dm, <<>>)
    BY <1>1, <1>2, <1>3
  <2>1. CASE dn = 0
    <3>1. dm = 0 /\ w = b /\ d <= Len(s)
      BY <1>1, <1>2, <1>16, <2>1 DEF InOrder
    <3>2. Stream([e EXCEPT !.wire = @ \o w], d, Append(s, p), 0, pe)
      BY <1>5, <1>11, <2>0, <3>1, StreamSends
    <3> QED
      BY <1>12, <1>14, <2>1, <3>2
  <2>2. CASE dn # 0
    <3>1. m = n /\ \A i \in 1..m : t[i] = s[i]
      BY <1>14, <1>18, <2>2
    <3>2. dm = 0 => \A at, T : Placed(at, T, s, n) /\ d <= m /\ Carries(at, T, e, d, n, dm, <<>>)
                                => at[d] + Bytes(e) >= at[m]
      <4> SUFFICES ASSUME dm = 0, NEW at, NEW T, Placed(at, T, s, n), d <= m,
                          Carries(at, T, e, d, n, dm, <<>>)
                   PROVE  at[d] + Bytes(e) >= at[m]
        OBVIOUS
      <4>1. at[d] + Bytes(e) + Left(<<>>) = at[n] /\ Left(<<>>) = 0
        BY <1>11 DEF Carries, Left
      <4>2. d \in 0..n /\ n \in 0..n
        BY <3>1
      <4>3. at[d] \in Nat /\ at[n] \in Nat /\ Bytes(e) \in Nat
        BY <4>2, BytesNat DEF Placed
      <4> QED
        BY <3>1, <4>1, <4>3
    <3>3. /\ n = Until(s, dm) /\ m = Until(t, dn) /\ m <= n
          /\ e.peer # "reset" /\ t \in Seq(Payloads)
      BY <1>11, <1>14, <1>18, <3>1
    <3>4. Stream([e EXCEPT !.wire = @ \o w], d, t, dn, pe)
      BY <2>0, <2>2, <3>1, <3>2, <3>3, StreamBehind
    <3> QED
      BY <1>12, <3>4
  <2> QED
    BY <2>1, <2>2
<1>25. Stream(c', Len(delivered'), sent', damaged', pending')
  BY <1>2, <1>3, <1>17, <1>24
<1> QED
  BY <1>19, <1>20, <1>21, <1>22, <1>23, <1>25 DEF IInv
LEMMA SendPayloadKeeps ==
  ASSUME IInv, SendPayload
  PROVE  IInv'
<1>1. TypeOK /\ Ends /\ InOrder /\ FinishedAfterAll /\ BufferInFrame
      /\ Stream(c, Len(delivered), sent, damaged, pending)
  BY DEF IInv
<1>2. PICK e \in Conn, s \in Seq(Payloads), dm \in Nat, d \in Nat :
        /\ e = c /\ s = sent /\ dm = damaged /\ d = Len(delivered) /\ dm \in 0..Len(s)
  BY <1>1, TypeFacts
<1>3. /\ pending # <<>> /\ pending' = <<>>
      /\ sent' = s /\ keep' = keep /\ delivered' = delivered
  BY <1>2 DEF SendPayload
<1>4. PICK p \in Payloads : /\ p = s[Len(s)] /\ pending = <<p>> /\ s # <<>> /\ e.peer # "closed"
                            /\ Len(s) \in 1..Len(s)
  <2>1. s # <<>> /\ pending = <<s[Len(s)]>> /\ e.peer # "closed"
    BY <1>1, <1>2, <1>3 DEF Ends
  <2>2. Len(s) \in 1..Len(s)
    BY <2>1
  <2> QED
    BY <2>1, <2>2
<1>5. p \in Seq(Byte) /\ p # <<>> /\ Head(pending) = p
  BY <1>4, FrameIs
<1>6. PICK room \in Int : room = Room /\ (e.peer # "open" => room <= 0)
  BY <1>1, <1>2, RoomIs
<1>7. PICK v : v = write(e, p, room)
  OBVIOUS
<1>8. PICK w \in Seq(Byte) :
        /\ v.c = [e EXCEPT !.wire = @ \o w] /\ v.n \in Int
        /\ room <= 0 => w = <<>> /\ v.n < Len(p)
        /\ ~ (v.n < Len(p)) => w = p
  BY <1>5, <1>7, WriteTakes
<1>9. /\ c' = [e EXCEPT !.wire = @ \o w]
      /\ damaged' = IF dm = 0 /\ v.n < Len(p) THEN Len(s) ELSE dm
  BY <1>2, <1>5, <1>6, <1>7, <1>8 DEF SendPayload
<1>10. PICK f : f = [e EXCEPT !.wire = @ \o w]
  OBVIOUS
<1>11. f \in Conn /\ f.state = e.state /\ f.peer = e.peer /\ f.buffer = e.buffer
  BY <1>10, WriteGives
<1>12. PICK k \in Nat : k = Len(s) /\ k > 0 /\ dm \in 0..k
  BY <1>2, <1>4
<1>13. PICK dn \in 0..Len(s) : /\ damaged' = dn
                               /\ dn = IF dm = 0 /\ v.n < Len(p) THEN Len(s) ELSE dm
  BY <1>9, <1>12
<1>14. /\ dn = 0 => dm = 0 /\ w = p /\ e.peer = "open"
       /\ dm # 0 => dn = dm
       /\ dm = 0 /\ dn # 0 => dn = k
  <2>1. CASE dm = 0 /\ v.n < Len(p)
    BY <1>12, <1>13, <2>1
  <2>2. CASE ~ (dm = 0 /\ v.n < Len(p))
    <3>1. dn = dm
      BY <1>13, <2>2
    <3>2. dn = 0 => ~ (v.n < Len(p))
      BY <2>2, <3>1
    <3>3. dn = 0 => ~ (room <= 0)
      BY <1>8, <3>2
    <3> QED
      BY <1>6, <1>8, <3>1, <3>2, <3>3
  <2> QED
    BY <2>1, <2>2
<1>15. c' = f /\ sent' = s /\ damaged' = dn /\ pending' = <<>>
  BY <1>3, <1>9, <1>10, <1>13
<1>a. PICK n \in Nat : n = Until(s, dm) /\ n = IF dm = 0 THEN k ELSE dm - 1
  BY <1>12 DEF Until
<1>b. PICK m \in Nat : m = Until(s, dn) /\ m = IF dn = 0 THEN k ELSE dn - 1
  <2>1. dn \in 0..k
    BY <1>12, <1>13
  <2>2. (IF dn = 0 THEN k ELSE dn - 1) \in Nat
    BY <2>1
  <2>3. Until(s, dn) = IF dn = 0 THEN k ELSE dn - 1
    BY <1>12 DEF Until
  <2> QED
    BY <2>2, <2>3
<1>16. /\ n = Until(s, dm) /\ m = Until(s, dn) /\ m <= n /\ n <= k
       /\ (dm = 0 => n = k)
       /\ ((dm = 0 /\ dn # 0) => m = k - 1)
  <2>1. dn \in 0..k
    BY <1>12, <1>13
  <2>2. CASE dn = 0
    BY <1>12, <1>14, <1>a, <1>b, <2>2
  <2>3. CASE dn # 0
    BY <1>12, <1>14, <1>a, <1>b, <2>1, <2>3
  <2> QED
    BY <2>2, <2>3
<1>17. TypeOK'
  <2>1. /\ keep \in BOOLEAN /\ delivered \in Seq(Seq(Byte)) /\ Len(sent) <= MaxFrames
        /\ <<>> \in Seq(Seq(Byte)) /\ Len(<<>>) <= 2
    BY <1>1 DEF TypeOK
  <2> QED
    BY <1>2, <1>3, <1>11, <1>15, <2>1 DEF TypeOK
<1>18. Ends'
  BY <1>1, <1>2, <1>11, <1>15 DEF Ends
<1>19. InOrder'
  <2>1. dn = 0 => d <= k
    BY <1>1, <1>2, <1>12, <1>14 DEF InOrder
  <2>2. ASSUME NEW i \in 1..m
        PROVE  /\ Fits(s[i])
               /\ i <= Len(delivered) => delivered[i] = IF keep THEN Frame(s[i]) ELSE s[i]
    <3>1. i \in 1..n
      BY <1>16
    <3>2. Fits(s[i]) /\ (i <= Len(delivered) => delivered[i] = AsDelivered(s[i]))
      BY <1>1, <1>2, <1>16, <3>1 DEF InOrder
    <3> QED
      BY <3>2 DEF AsDelivered
  <2>3. Until(sent', damaged') = m
    BY <1>15, <1>16
  <2> QED
    BY <1>2, <1>3, <1>12, <1>15, <2>1, <2>2, <2>3 DEF InOrder, AsDelivered
<1>20. FinishedAfterAll'
  BY <1>4, <1>11, <1>15 DEF FinishedAfterAll
<1>21. BufferInFrame'
  <2>1. dn = 0 => Len(e.buffer) <= NextSize(s, d)
    BY <1>1, <1>2, <1>14 DEF BufferInFrame
  <2>2. dn = 0 => Len(f.buffer) <= NextSize(s, d)
    BY <1>11, <2>1
  <2> QED
    BY <1>2, <1>3, <1>15, <2>2 DEF BufferInFrame
<1>22. Stream(f, d, s, dn, <<>>)
  <2>0. Stream(e, d, s, dm, <<p>>)
    BY <1>1, <1>2, <1>4
  <2>1. CASE dn = 0
    <3>1. dm = 0 /\ w = p /\ e.peer # "reset" /\ d <= Len(s)
      BY <1>1, <1>2, <1>14, <2>1 DEF InOrder
    <3>2. Stream([e EXCEPT !.wire = @ \o p], d, s, 0, <<>>)
      BY <1>4, <2>0, <3>1, StreamGoesOn
    <3> QED
      BY <1>10, <2>1, <3>1, <3>2
  <2>2. CASE dn # 0
    <3>1. e.peer # "reset" /\ dm = 0 =>
            \A at, T : Placed(at, T, s, n) /\ d <= m /\ Carries(at, T, e, d, n, dm, <<p>>)
                         => at[d] + Bytes(e) >= at[m]
      <4> SUFFICES ASSUME e.peer # "reset", dm = 0, NEW at, NEW T, Placed(at, T, s, n), d <= m,
                          Carries(at, T, e, d, n, dm, <<p>>)
                   PROVE  at[d] + Bytes(e) >= at[m]
        OBVIOUS
      <4>1. PICK l \in Nat : l = Len(p) /\ Size(p) = HeaderSize + l
        BY FrameIs DEF Size
      <4>2. n = k /\ m = k - 1 /\ HeaderSize \in Nat
        BY <1>16, <2>2, ConnectionAssumption
      <4>3. at[k] = at[k - 1] + (HeaderSize + l) /\ at[k - 1] \in Nat
        BY <1>4, <1>12, <4>1, <4>2, LastFrame
      <4>4. Left(<<p>>) = l
        BY <4>1 DEF Left
      <4>5. at[d] + Bytes(e) + l = at[k]
        BY <4>2, <4>4 DEF Carries
      <4>6. d \in 0..n
        BY <1>16
      <4>7. at[d] \in Nat /\ Bytes(e) \in Nat
        BY <4>6, BytesNat DEF Placed
      <4>8. PICK x \in Nat, y \in Nat, u \in Nat, g \in Nat :
              x = at[d] /\ y = Bytes(e) /\ u = at[k - 1] /\ g = HeaderSize
        BY <4>2, <4>3, <4>7
      <4>9. x + y + l = u + (g + l)
        BY <4>3, <4>5, <4>8
      <4>10. x + y >= u
        BY <4>9
      <4> QED
        BY <4>2, <4>8, <4>10
    <3>2. e.peer = "reset" => w = <<>>
      BY <1>6, <1>8
    <3>3. n = Until(s, dm) /\ m = Until(s, dn) /\ m <= n /\ \A i \in 1..m : s[i] = s[i]
      BY <1>16
    <3>4. Stream([e EXCEPT !.wire = @ \o w], d, s, dn, <<>>)
      BY <2>0, <2>2, <3>1, <3>2, <3>3, StreamBehind
    <3> QED
      BY <1>10, <3>4
  <2> QED
    BY <2>1, <2>2
<1>23. Stream(c', Len(delivered'), sent', damaged', pending')
  BY <1>2, <1>3, <1>15, <1>22
<1> QED
  BY <1>17, <1>18, <1>19, <1>20, <1>21, <1>23 DEF IInv

\* Steps that leave the bytes alone.
LEMMA SameBytes ==
  ASSUME IInv, UNCHANGED <<keep, pending, sent, damaged, delivered>>,
         NEW f \in Conn, c' = f, f.buffer = c.buffer, f.wire = c.wire,
         f.peer = c.peer \/ (c.peer # "reset" /\ f.peer # "reset"),
         f.state = "Failed" => sent = <<>>, f.state # "Starting", f.state # "Finished",
         f.peer = "closed" => c.peer = "closed" \/ pending = <<>>
  PROVE  IInv'
<1>1. TypeOK /\ Ends /\ InOrder /\ FinishedAfterAll /\ BufferInFrame
      /\ Stream(c, Len(delivered), sent, damaged, pending)
  BY DEF IInv
<1>2. /\ keep' = keep /\ pending' = pending /\ sent' = sent /\ damaged' = damaged
      /\ delivered' = delivered
  OBVIOUS
<1>3. TypeOK'
  BY <1>1, <1>2 DEF TypeOK
<1>4. Ends'
  BY <1>1, <1>2 DEF Ends
<1>5. InOrder'
  BY <1>1, <1>2 DEF InOrder, AsDelivered
<1>6. FinishedAfterAll'
  BY <1>2 DEF FinishedAfterAll
<1>7. BufferInFrame'
  BY <1>1, <1>2 DEF BufferInFrame
<1>8. Stream(f, Len(delivered), sent, damaged, pending)
  <2>a. PICK e \in Conn : e = c
    BY <1>1, TypeFacts
  <2>1. PICK d, s, dm, pd : d = Len(delivered) /\ s = sent /\ dm = damaged /\ pd = pending
    OBVIOUS
  <2>2. Stream(f, d, s, dm, pd)
    BY <1>1, <2>a, <2>1, StreamSame
  <2> QED
    BY <2>a, <2>1, <2>2
<1>9. Stream(c', Len(delivered'), sent', damaged', pending')
  BY <1>2, <1>8
<1> QED
  BY <1>3, <1>4, <1>5, <1>6, <1>7, <1>9 DEF IInv
LEMMA PeerClosedKeeps ==
  ASSUME IInv, PeerClosed
  PROVE  IInv'
<1>1. TypeOK /\ Ends /\ InOrder /\ FinishedAfterAll /\ BufferInFrame
      /\ Stream(c, Len(delivered), sent, damaged, pending)
  BY DEF IInv
<1>2. /\ c.peer = "open" /\ pending = <<>> /\ c.state # "Starting"
      /\ UNCHANGED <<keep, pending, sent, damaged, delivered>>
  BY DEF PeerClosed
<1>a. PICK f : f = [c EXCEPT !.peer = "closed"]
  OBVIOUS
<1>3. /\ f \in Conn /\ c' = f /\ f.buffer = c.buffer /\ f.wire = c.wire
      /\ f.state = c.state /\ f.peer = "closed"
  <2>1. c \in Conn
    BY <1>1 DEF TypeOK
  <2> QED
    BY <1>a, <2>1 DEF PeerClosed, Conn
<1>4. c.state # "Finished" /\ (c.state = "Failed" => sent = <<>>)
  BY <1>1, <1>2 DEF Ends
<1> QED
  BY <1>2, <1>3, <1>4, SameBytes

LEMMA OpenKeeps ==
  ASSUME IInv, Open
  PROVE  IInv'
<1>1. TypeOK /\ Ends
  BY DEF IInv
<1>2. sent = <<>> /\ UNCHANGED <<keep, pending, sent, damaged, delivered>>
  BY <1>1 DEF Ends, Open
<1>3. PICK f \in Conn : /\ c' = f /\ f.buffer = c.buffer /\ f.wire = c.wire
                        /\ f.state \in {"Ready", "Failed"} /\ f.peer = c.peer
  BY <1>1 DEF Open, Opened, OpenFailed, TypeOK, Conn, ConnectionState
<1> QED
  BY <1>2, <1>3, SameBytes

LEMMA DropKeeps ==
  ASSUME IInv, Drop
  PROVE  IInv'
<1>1. TypeOK
  BY DEF IInv
<1>2. UNCHANGED <<keep, pending, sent, damaged, delivered>>
  BY DEF Drop
<1>a. PICK f : f = [c EXCEPT !.state = "Closed"]
  OBVIOUS
<1>3. /\ f \in Conn /\ c' = f /\ f.buffer = c.buffer /\ f.wire = c.wire
      /\ f.state = "Closed" /\ f.peer = c.peer
  <2>1. c \in Conn
    BY <1>1 DEF TypeOK
  <2> QED
    BY <1>a, <2>1 DEF Drop, Close, Conn, ConnectionState
<1> QED
  BY <1>2, <1>3, SameBytes

LEMMA PeerResetKeeps ==
  ASSUME IInv, PeerReset
  PROVE  IInv'
<1>1. TypeOK /\ Ends /\ InOrder /\ FinishedAfterAll /\ BufferInFrame
      /\ Stream(c, Len(delivered), sent, damaged, pending)
  BY DEF IInv
<1>2. /\ c.peer = "open" /\ c.state # "Starting"
      /\ keep' = keep /\ pending' = pending /\ sent' = sent /\ damaged' = damaged
      /\ delivered' = delivered
  BY DEF PeerReset
<1>3. PICK k \in 0..Len(c.wire) : c' = [c EXCEPT !.peer = "reset", !.wire = SubSeq(@, 1, k)]
  BY DEF PeerReset
<1>4. PICK e \in Conn, s \in Seq(Payloads), dm \in Nat, d \in Nat, pd \in Seq(Seq(Byte)) :
        /\ e = c /\ s = sent /\ dm = damaged /\ d = Len(delivered) /\ pd = pending
        /\ dm \in 0..Len(s)
  BY <1>1, TypeFacts
<1>5. PICK f : f = [e EXCEPT !.peer = "reset", !.wire = SubSeq(@, 1, k)]
  OBVIOUS
<1>6. f \in Conn /\ Stream(f, d, s, dm, pd)
  BY <1>1, <1>2, <1>3, <1>4, <1>5, StreamReset
<1>7. c' = f /\ f.state = c.state /\ f.buffer = c.buffer /\ f.peer = "reset"
  BY <1>3, <1>4, <1>5 DEF Conn
<1>8. TypeOK'
  BY <1>1, <1>2, <1>6, <1>7 DEF TypeOK
<1>9. Ends'
  BY <1>1, <1>2, <1>7 DEF Ends
<1>10. InOrder'
  BY <1>1, <1>2 DEF InOrder, AsDelivered
<1>11. FinishedAfterAll'
  BY <1>7 DEF FinishedAfterAll
<1>12. BufferInFrame'
  BY <1>1, <1>2, <1>7 DEF BufferInFrame
<1>13. Stream(c', Len(delivered'), sent', damaged', pending')
  BY <1>2, <1>4, <1>6, <1>7
<1> QED
  BY <1>8, <1>9, <1>10, <1>11, <1>12, <1>13 DEF IInv

\* What a call of readyNextPacket does to the stream and to what was delivered.
LEMMA ReceiveKeeps ==
  ASSUME IInv, Receive
  PROVE  IInv'
<1>1. TypeOK /\ Ends /\ InOrder /\ FinishedAfterAll /\ BufferInFrame
      /\ Stream(c, Len(delivered), sent, damaged, pending)
  BY DEF IInv
<1>2. /\ c.state = "Ready"
      /\ keep' = keep /\ pending' = pending /\ sent' = sent /\ damaged' = damaged
  BY DEF Receive
<1>3. PICK e \in Conn, s \in Seq(Payloads), dm \in Nat, d \in Nat, pd \in Seq(Seq(Byte)),
           keeps \in BOOLEAN :
        /\ e = c /\ s = sent /\ dm = damaged /\ d = Len(delivered) /\ pd = pending
        /\ keeps = keep /\ dm \in 0..Len(s) /\ Len(s) \in Nat
  BY <1>1, TypeFacts
<1>4. PICK r \in readyNextPacket(e, keeps) :
        /\ c' = r.c
        /\ delivered' = IF r.ok THEN Append(delivered, r.packet) ELSE delivered
  BY <1>3 DEF Receive
<1>5. e.state = "Ready"
  BY <1>2, <1>3
<1>6. /\ r.c \in Conn /\ r.c.peer = e.peer /\ r.ok \in BOOLEAN
      /\ r.ok => r.packet \in Seq(Byte)
      /\ r.c.state = "Ready" \/ (r.c.state = "Finished" /\ e.peer # "open")
  BY <1>5, AnyPacket
<1>a. PICK n \in Nat : n = Until(s, dm)
  BY <1>3, UntilNat
<1>7. n = Until(s, dm) /\ (dm = 0 => n = Len(s)) /\ n <= Len(s)
  BY <1>3, <1>a DEF Until
<1>8. PICK d2 \in Nat : d2 = IF r.ok THEN d + 1 ELSE d
  OBVIOUS
<1>9. /\ delivered' \in Seq(Seq(Byte)) /\ Len(delivered') = d2
      /\ \A i \in 1..d : delivered'[i] = delivered[i]
      /\ r.ok => delivered'[d + 1] = r.packet
  <2>1. delivered \in Seq(Seq(Byte)) /\ Len(delivered) = d
    BY <1>1, <1>3 DEF TypeOK
  <2>2. CASE r.ok
    <3>1. PICK y \in Seq(Byte) : y = r.packet
      BY <1>6, <2>2
    <3>2. delivered' = Append(delivered, y) /\ d2 = d + 1
      BY <1>4, <1>8, <2>2, <3>1
    <3> QED
      BY <2>1, <3>1, <3>2
  <2>3. CASE ~ r.ok
    BY <1>4, <1>8, <2>1, <2>3
  <2> QED
    BY <2>2, <2>3
<1>10. /\ TypeOK' /\ Ends'
  <2>1. TypeOK'
    BY <1>1, <1>2, <1>4, <1>6, <1>9 DEF TypeOK
  <2>2. Ends'
    BY <1>1, <1>2, <1>3, <1>4, <1>6 DEF Ends
  <2> QED
    BY <2>1, <2>2
<1> DEFINE Rest == /\ Stream(r.c, d2, s, dm, pd)
                   /\ (dm = 0 => d2 <= Len(s))
                   /\ ((r.ok /\ d + 1 <= n) => r.packet = AsDelivered(s[d + 1]))
                   /\ (dm = 0 => Len(r.c.buffer) <= NextSize(s, d2))
                   /\ ((r.c.state = "Finished" /\ r.c.peer = "closed" /\ dm = 0) => d2 = Len(s))
<1>11. ASSUME d < n
       PROVE  Rest
  <2>1. d + 1 \in 1..n /\ d + 1 \in 1..Len(s)
    BY <1>3, <1>7, <1>11
  <2>2. PICK q \in Payloads : q = s[d + 1] /\ Fits(q)
    BY <1>1, <1>3, <1>7, <2>1 DEF InOrder
  <2>3. /\ Stream(r.c, d2, s, dm, pd)
        /\ \/ WaitsFor(r, e, Size(q))
           \/ Takes(r, e, Size(q)) /\ r.packet = IF keeps THEN Frame(q) ELSE q
        /\ ((dm = 0 /\ e.peer # "reset" /\ pd = <<>>) => Bytes(e) >= Size(q))
    <3>1. /\ Stream(e, d, s, dm, pd) /\ d < Until(s, dm)
          /\ e.state = "Ready" /\ dm \in 0..Len(s) /\ q = s[d + 1] /\ Fits(q)
      BY <1>1, <1>3, <1>5, <1>7, <1>11, <2>2
    <3>2. AtFrame(r, e, keeps, q, d, s, dm, pd)
      BY <3>1, StreamTakes
    <3> QED
      BY <1>8, <3>2 DEF AtFrame, WaitsOrTakes
  <2>4. PICK z \in Nat : z = Size(q)
    BY FrameIs
  <2>5. dm = 0 => Len(e.buffer) <= z
    BY <1>1, <1>3, <1>7, <1>11, <2>2, <2>4 DEF BufferInFrame, NextSize
  <2>6. PICK lb \in Nat, la \in Nat, be \in Nat :
          lb = Len(e.buffer) /\ la = Len(r.c.buffer) /\ be = Bytes(e)
    BY <1>6, BytesNat
  <2>7. CASE WaitsFor(r, e, z)
    <3>1. r.ok = FALSE /\ d2 = d
      BY <1>8, <2>7 DEF WaitsFor
    <3>2. la <= lb \/ la <= z
      BY <2>6, <2>7 DEF WaitsFor
    <3>3. dm = 0 => la <= z
      BY <2>5, <2>6, <3>2
    <3>4. dm = 0 => NextSize(s, d2) = z
      BY <1>7, <1>11, <2>2, <2>4, <3>1 DEF NextSize
    <3>5. r.c.state = "Finished" => be < z
      BY <2>6, <2>7 DEF WaitsFor
    <3>6. r.c.peer = "closed" => pd = <<>> /\ e.peer # "reset"
      BY <1>1, <1>3, <1>6 DEF Ends
    <3>7. ~ (r.c.state = "Finished" /\ r.c.peer = "closed" /\ dm = 0)
      BY <2>3, <2>4, <2>6, <3>5, <3>6
    <3>8. dm = 0 => d2 <= Len(s)
      BY <1>7, <1>11, <3>1
    <3> QED
      BY <2>3, <2>6, <3>1, <3>3, <3>4, <3>7, <3>8
  <2>8. CASE Takes(r, e, z) /\ r.packet = IF keeps THEN Frame(q) ELSE q
    <3>1. r.ok = TRUE /\ d2 = d + 1 /\ r.c.state = "Ready"
      BY <1>8, <2>8 DEF Takes
    <3>2. r.packet = AsDelivered(s[d + 1])
      BY <1>3, <2>2, <2>8 DEF AsDelivered
    <3>3. dm = 0 => Len(r.c.buffer) = 0
      BY <2>5, <2>8 DEF Takes
    <3>4. NextSize(s, d2) >= 0
      <4>1. CASE d2 < Len(s)
        <5>1. d2 + 1 \in 1..Len(s)
          BY <1>3, <4>1
        <5>2. PICK q2 \in Payloads : q2 = s[d2 + 1]
          BY <5>1
        <5>3. Size(q2) \in Nat
          BY FrameIs
        <5>4. NextSize(s, d2) = Size(q2)
          BY <4>1, <5>2 DEF NextSize
        <5> QED
          BY <5>3, <5>4
      <4>2. CASE ~ (d2 < Len(s))
        BY <4>2 DEF NextSize
      <4> QED
        BY <4>1, <4>2
    <3>5. dm = 0 => d2 <= Len(s)
      BY <1>7, <1>11, <3>1
    <3> QED
      BY <2>3, <3>1, <3>2, <3>3, <3>4, <3>5
  <2> QED
    BY <2>3, <2>4, <2>7, <2>8
<1>12. ASSUME d >= n
       PROVE  Rest
  <2>1. /\ Stream(r.c, d2, s, dm, pd)
        /\ ((dm = 0 /\ d = Len(s)) => (r.ok = FALSE /\ Bytes(r.c) = 0))
    <3>1. Stream(e, d, s, dm, pd) /\ d >= Until(s, dm)
      BY <1>1, <1>3, <1>7, <1>12
    <3> QED
      BY <1>3, <1>5, <1>8, <3>1, StreamOther
  <2>2. dm = 0 => d = Len(s)
    BY <1>1, <1>3, <1>7, <1>12 DEF InOrder
  <2>3. dm = 0 => d2 = Len(s)
    BY <1>8, <2>1, <2>2
  <2>4. dm = 0 => Len(r.c.buffer) = 0
    <3>1. PICK b \in Nat, w \in Nat : b = Len(r.c.buffer) /\ w = Len(r.c.wire)
      BY <1>6, BytesNat
    <3>2. dm = 0 => b + w = 0
      BY <2>1, <2>2, <3>1 DEF Bytes
    <3>3. b + w = 0 => b = 0
      OBVIOUS
    <3> QED
      BY <3>1, <3>2, <3>3
  <2>5. dm = 0 => NextSize(s, d2) = 0
    BY <1>3, <2>3 DEF NextSize
  <2>6. ~ (d + 1 <= n)
    BY <1>12
  <2> QED
    BY <1>3, <2>1, <2>3, <2>4, <2>5, <2>6
<1>13. Rest
  BY <1>11, <1>12
<1>14. InOrder'
  <2>1. ASSUME NEW i \in 1..n
        PROVE  /\ Fits(s[i])
               /\ i <= d2 => delivered'[i] = AsDelivered(s[i])
    <3>1. Fits(s[i]) /\ (i <= d => delivered[i] = AsDelivered(s[i]))
      BY <1>1, <1>3, <1>7, <2>1 DEF InOrder
    <3>2. CASE i <= d
      <4>1. i \in 1..d
        BY <3>2
      <4> QED
        BY <1>9, <3>1, <3>2, <4>1
    <3>3. CASE ~ (i <= d)
      <4>1. i <= d2 => r.ok /\ i = d + 1
        BY <1>6, <1>8, <3>3
      <4>2. i <= d2 => delivered'[i] = r.packet /\ r.packet = AsDelivered(s[i])
        BY <1>9, <1>13, <4>1
      <4> QED
        BY <3>1, <4>2
    <3> QED
      BY <3>2, <3>3
  <2>2. Until(sent', damaged') = n
    BY <1>2, <1>3, <1>7
  <2> QED
    BY <1>2, <1>3, <1>9, <1>13, <2>1, <2>2 DEF InOrder, AsDelivered
<1>15. FinishedAfterAll'
  BY <1>2, <1>3, <1>4, <1>9, <1>13 DEF FinishedAfterAll
<1>16. BufferInFrame'
  BY <1>2, <1>3, <1>4, <1>9, <1>13 DEF BufferInFrame
<1>17. Stream(c', Len(delivered'), sent', damaged', pending')
  BY <1>2, <1>3, <1>4, <1>9, <1>13
<1> QED
  BY <1>10, <1>14, <1>15, <1>16, <1>17 DEF IInv

LEMMA NextKeeps == ASSUME IInv, [Next]_vars PROVE IInv'
<1>1. ASSUME NEW p \in Payloads, SendFrame(p) PROVE IInv'
  BY <1>1, SendFrameKeeps
<1>2. CASE SendPayload
  BY <1>2, SendPayloadKeeps
<1>3. CASE PeerClosed
  BY <1>3, PeerClosedKeeps
<1>4. CASE PeerReset
  BY <1>4, PeerResetKeeps
<1>5. CASE Open
  BY <1>5, OpenKeeps
<1>6. CASE Receive
  BY <1>6, ReceiveKeeps
<1>7. CASE Drop
  BY <1>7, DropKeeps
<1>8. CASE UNCHANGED vars
  BY <1>8 DEF IInv, vars, TypeOK, Ends, InOrder, FinishedAfterAll, BufferInFrame, AsDelivered
<1> QED
  BY <1>1, <1>2, <1>3, <1>4, <1>5, <1>6, <1>7, <1>8 DEF Next

\* Whatever the sizes of the header, of the buffer and of the sockets' buffers, however
\* the writes are cut short and the reads are split, and whenever the connection ends:
\* the packets that readyNextPacket returns are those that were sent, whole, in order
\* and once each, up to the first damaged frame; the buffer begins with the next frame;
\* and the end of the stream is noticed after the last whole frame.
THEOREM LinkStaysSound == Spec => []LinkIsSound
<1>1. Init => IInv
  BY InitIInv
<1>2. IInv /\ [Next]_vars => IInv'
  BY NextKeeps
<1>3. IInv => LinkIsSound
  BY LinkFollows
<1> QED
  BY <1>1, <1>2, <1>3, PTL DEF Spec
=============================================================================
