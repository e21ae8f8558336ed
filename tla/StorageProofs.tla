--------------------------- MODULE StorageProofs ----------------------------
(***************************************************************************)
(* Theorems about what is kept on the host.  FileHandles, for all sets of      *)
(* paths, handles, files and bytes, every width of an int and all bounds.      *)
(* DriveSectors, for any size of a sector and of an int, and any tiers and     *)
(* arguments: the buffer always has the capacity of its tier, a write lands   *)
(* where it was asked for, and a drive that is made again finds what it was    *)
(* last meant to leave.  Settings, for any configuration, eeprom, labels and   *)
(* lengths: what a start finds.  FileTree, for any names and strings that spell *)
(* them: a call answers what it did, and list what is there.                 *)
(***************************************************************************)
EXTENDS FileTree, FileHandles, DriveSectors, Settings, SubsequenceProofs, TLAPS

-----------------------------------------------------------------------------
(* Operators *)

\* An int stays one.
LEMMA WrapInt ==
  ASSUME NEW n \in Int
  PROVE  Wrap(n) \in Int32
<1>1. MaxInt \in Nat BY FileAssumption
<1> DEFINE W == 2 * MaxInt + 2
<1>2. W \in Nat /\ W > 0 BY <1>1
<1>3. (n + MaxInt + 1) % W \in 0..(W - 1) BY <1>1, <1>2
<1> QED BY <1>1, <1>3 DEF Wrap, Int32

\* An int is not changed, and a length only becomes less.
LEMMA WrapOfInt ==
  ASSUME NEW n \in Int
  PROVE  (n \in Int32 => Wrap(n) = n) /\ (n >= 0 => Wrap(n) <= n)
<1>1. MaxInt \in Nat BY FileAssumption
<1> DEFINE W == 2 * MaxInt + 2
           m == n + MaxInt + 1
<1>2. W \in Nat /\ W > 0 /\ m \in Int BY <1>1
<1>3. CASE n \in Int32
  <2>1. m \in 0..(W - 1) BY <1>1, <1>3 DEF Int32
  <2> HIDE DEF m, W
  <2>2. m % W = m BY <1>2, <2>1
  <2>3. m = n + MaxInt + 1 /\ W = 2 * MaxInt + 2 BY DEF m, W
  <2>4. Wrap(n) = (m % W) - MaxInt - 1 BY DEF Wrap, m, W
  <2> QED BY <1>1, <2>2, <2>3, <2>4
<1>4. CASE n \notin Int32 /\ n >= 0
  <2>1. Wrap(n) \in Int32 BY WrapInt
  <2> QED BY <1>1, <1>4, <2>1 DEF Int32
<1> QED BY <1>3, <1>4

\* Whatever the position, the length of the data as an int and the size asked for:
\* what a read takes lies inside of the data, and the zeros it adds are finitely many.
LEMMA ReadPlanInBounds ==
  ASSUME NEW position \in Int, NEW len \in Int, NEW extent \in Int
  PROVE  LET plan == ReadPlan(position, len, extent)
         IN  /\ plan.offset \in Int /\ plan.n \in Nat /\ plan.fill \in Nat
             /\ plan.n > 0 => plan.offset >= 0 /\ plan.offset + plan.n <= len
<1> DEFINE total  == Trunc(extent, 0, Wrap(len - position))
           offset == Trunc(position, 0, len)
           n      == Trunc(total, 0, len - offset)
<1>1. Wrap(len - position) \in Int BY WrapInt DEF Int32
<1>2. total \in Int BY <1>1 DEF Trunc
<1>3. offset \in Int /\ offset <= len /\ (len >= 0 => offset >= 0) /\ (len < 0 => offset = len)
  BY DEF Trunc
<1> HIDE DEF total, offset
<1>4. 0 <= len - offset /\ len - offset \in Int BY <1>3
<1>5. n \in 0..(len - offset) BY <1>2, <1>4 DEF Trunc
<1>8. total > 0 => n <= total BY <1>2, <1>4 DEF Trunc
<1> HIDE DEF n
<1>6. CASE total <= 0
  <2>1. ReadPlan(position, len, extent) = [offset |-> 0, n |-> 0, fill |-> 0]
    BY <1>6 DEF ReadPlan, total
  <2> QED BY <2>1
<1>7. CASE ~(total <= 0)
  <2>1. ReadPlan(position, len, extent) = [offset |-> offset, n |-> n, fill |-> total - n]
    BY <1>7 DEF ReadPlan, total, offset, n
  <2> QED BY <2>1, <1>2, <1>3, <1>5, <1>7, <1>8
<1> QED BY <1>6, <1>7

\* From a position inside of a file whose length is an int, a read takes what is
\* there, and adds nothing; from one behind it, it takes nothing at all.
LEMMA ReadPlanInside ==
  ASSUME NEW position \in 0..MaxInt, NEW len \in 0..MaxInt, NEW extent \in Int
  PROVE  LET plan == ReadPlan(position, len, extent)
         IN  /\ plan.n \in Nat /\ plan.fill = 0
             /\ plan.n > 0 => plan.offset = position /\ position + plan.n <= len
<1>1. MaxInt \in Nat BY FileAssumption
<1>2. Wrap(len - position) = len - position BY <1>1, WrapOfInt DEF Int32
<1> DEFINE total  == Trunc(extent, 0, len - position)
           offset == Trunc(position, 0, len)
           n      == Trunc(total, 0, len - offset)
<1>3. ReadPlan(position, len, extent) =
        IF total <= 0 THEN [offset |-> 0, n |-> 0, fill |-> 0]
        ELSE [offset |-> offset, n |-> n, fill |-> total - n]
  BY <1>2 DEF ReadPlan
<1>4. total \in Int /\ (total > 0 => position < len /\ total <= len - position)
  BY <1>1 DEF Trunc
<1>5. position < len => offset = position BY <1>1 DEF Trunc
<1> HIDE DEF total, offset
<1>6. CASE total <= 0 BY <1>3, <1>6
<1>7. CASE ~(total <= 0)
  <2>1. position < len /\ total <= len - position /\ total > 0 BY <1>4, <1>7
  <2>2. offset = position BY <1>5, <2>1
  <2>3. n = total BY <1>1, <1>4, <2>1, <2>2 DEF Trunc
  <2> HIDE DEF n
  <2> QED BY <1>1, <1>3, <1>4, <1>7, <2>1, <2>2, <2>3
<1> QED BY <1>6, <1>7

\* The bytes a read takes are in the data, whatever its length.
LEMMA ReadFits ==
  ASSUME NEW position \in Int, NEW data \in Seq(Byte), NEW extent \in Int
  PROVE  LET plan == ReadPlan(position, Wrap(Len(data)), extent)
         IN  /\ plan.offset \in Int /\ plan.n \in Nat /\ plan.fill \in Nat
             /\ plan.n > 0 => plan.offset >= 0 /\ plan.offset + plan.n <= Len(data)
<1>1. Len(data) \in Nat OBVIOUS
<1>2. Wrap(Len(data)) \in Int /\ Wrap(Len(data)) <= Len(data)
  BY <1>1, WrapInt, WrapOfInt DEF Int32
<1> DEFINE plan == ReadPlan(position, Wrap(Len(data)), extent)
<1>3. /\ plan.offset \in Int /\ plan.n \in Nat /\ plan.fill \in Nat
      /\ plan.n > 0 => plan.offset >= 0 /\ plan.offset + plan.n <= Wrap(Len(data))
  BY <1>2, ReadPlanInBounds
<1> HIDE DEF plan
<1>4. /\ plan.offset \in Int /\ plan.n \in Nat /\ plan.fill \in Nat
      /\ plan.n > 0 => plan.offset >= 0 /\ plan.offset + plan.n <= Len(data)
  BY <1>1, <1>2, <1>3
<1> QED BY <1>4 DEF plan

\* What a concatenation is, by what is where in it.
LEMMA ConcatIs ==
  ASSUME NEW S, NEW x \in Seq(S), NEW y \in Seq(S), NEW z \in Seq(S),
         Len(z) = Len(x) + Len(y),
         \A k \in 1..Len(x) : z[k] = x[k],
         \A k \in 1..Len(y) : z[Len(x) + k] = y[k]
  PROVE  x \o y = z
<1>1. PICK xy : xy = x \o y
  OBVIOUS
<1>2. xy \in Seq(S) /\ Len(xy) = Len(x) + Len(y)
  BY <1>1
<1>3. ASSUME NEW k \in 1..Len(z) PROVE xy[k] = z[k]
  <2>1. CASE k <= Len(x)
    <3>1. k \in 1..Len(x) BY <2>1
    <3>2. xy[k] = x[k] BY <1>1, <3>1
    <3> QED BY <3>1, <3>2
  <2>2. CASE k > Len(x)
    <3>1. PICK j \in 1..Len(y) : k = Len(x) + j
      <4>1. k - Len(x) \in 1..Len(y) /\ k = Len(x) + (k - Len(x)) BY <2>2
      <4> QED BY <4>1
    <3>2. xy[Len(x) + j] = y[j] BY <1>1
    <3> QED BY <3>1, <3>2
  <2> QED BY <2>1, <2>2
<1>4. xy = z BY <1>2, <1>3
<1> QED BY <1>1, <1>4

\* Bytes read one after the other are the bytes read at once.
LEMMA SubSeqJoin ==
  ASSUME NEW S, NEW d \in Seq(S), NEW a \in Nat, NEW p \in Nat, NEW n \in Nat,
         a <= p, p + n <= Len(d)
  PROVE  SubSeq(d, a + 1, p) \o SubSeq(d, p + 1, p + n) = SubSeq(d, a + 1, p + n)
<1> DEFINE x == SubSeq(d, a + 1, p)
           y == SubSeq(d, p + 1, p + n)
           z == SubSeq(d, a + 1, p + n)
<1>1. x \in Seq(S) /\ Len(x) = p - a /\ \A k \in 1..(p - a) : x[k] = d[a + k]
  BY SMTT(30)
<1>2. y \in Seq(S) /\ Len(y) = n /\ \A k \in 1..n : y[k] = d[p + k]
  BY SMTT(30)
<1>3. z \in Seq(S) /\ Len(z) = p + n - a /\ \A k \in 1..(p + n - a) : z[k] = d[a + k]
  BY SMTT(30)
<1> HIDE DEF x, y, z
<1>4. Len(z) = Len(x) + Len(y) BY <1>1, <1>2, <1>3
<1>5. ASSUME NEW k \in 1..Len(x) PROVE z[k] = x[k]
  <2>1. k \in 1..(p - a) /\ k \in 1..(p + n - a) BY <1>1
  <2>2. x[k] = d[a + k] BY <1>1, <2>1
  <2>3. z[k] = d[a + k] BY <1>3, <2>1
  <2> QED BY <2>2, <2>3
<1>6. ASSUME NEW k \in 1..Len(y) PROVE z[Len(x) + k] = y[k]
  <2>1. Len(x) + k \in 1..(p + n - a) /\ a + (Len(x) + k) = p + k BY <1>1, <1>2
  <2> QED BY <1>2, <1>3, <2>1
<1>7. x \o y = z BY <1>1, <1>2, <1>3, <1>4, <1>5, <1>6, ConcatIs
<1> QED BY <1>7 DEF x, y, z

\* Writing into a file gives a file.
LEMMA PutSeq ==
  ASSUME NEW s \in Seq(Byte), NEW at \in Nat, NEW d \in Seq(Byte)
  PROVE  Put(s, at, d) \in Seq(Byte)
<1> DEFINE len == IF Len(s) < at + Len(d) THEN at + Len(d) ELSE Len(s)
<1>1. len \in Nat OBVIOUS
<1>2. 0 \in Byte BY FileAssumption
<1>3. ASSUME NEW i \in 1..len
      PROVE  (IF i \in (at + 1)..(at + Len(d)) THEN d[i - at]
              ELSE IF i <= Len(s) THEN s[i] ELSE 0) \in Byte
  <2>1. CASE i \in (at + 1)..(at + Len(d))
    <3>1. i - at \in 1..Len(d) BY <2>1
    <3> QED BY <2>1, <3>1
  <2>2. CASE ~(i \in (at + 1)..(at + Len(d)))
    BY <1>2, <2>2
  <2> QED BY <2>1, <2>2
<1>4. Put(s, at, d) \in [1..len -> Byte] BY <1>3 DEF Put
<1> QED BY <1>1, <1>4

-----------------------------------------------------------------------------
(* Types *)

\* A byte handed to the host, or all of them, leave a file and a handle.
LEMMA FlushedSeq ==
  ASSUME TypeOK, NEW w \in WriterHandle
  PROVE  Flushed(w) \in Seq(Byte) /\ Drained(w) \in WriterHandle
<1>1. content[w.ino] \in Seq(Byte) /\ w.at \in Nat /\ w.out \in Seq(Byte)
  BY DEF TypeOK, WriterHandle
<1>2. Put(content[w.ino], w.at, w.out) \in Seq(Byte) BY <1>1, PutSeq
<1>3. content[w.ino] \o w.out \in Seq(Byte) BY <1>1
<1>4. Flushed(w) \in Seq(Byte) BY <1>1, <1>2, <1>3 DEF Flushed
<1>5. Len(Flushed(w)) \in Nat /\ Len(w.out) \in Nat BY <1>1, <1>4
<1>6. <<>> \in Seq(Byte) OBVIOUS
<1>7. Drained(w) = [w EXCEPT !.out = <<>>,
                             !.at = CASE w.out = <<>> -> w.at
                                      [] w.out # <<>> /\ w.append -> Len(Flushed(w))
                                      [] OTHER -> w.at + Len(w.out)]
  BY DEF Drained
<1>8. (CASE w.out = <<>> -> w.at
         [] w.out # <<>> /\ w.append -> Len(Flushed(w))
         [] OTHER -> w.at + Len(w.out)) \in Nat
  BY <1>1, <1>5
<1>9. Drained(w) \in WriterHandle BY <1>6, <1>7, <1>8 DEF WriterHandle
<1> QED BY <1>4, <1>9

\* The kind of a handle says which record it is.
LEMMA KindOfHandle ==
  ASSUME TypeOK, NEW h \in Handles
  PROVE  /\ Kind(h) = "none" => handle[h] = NoHandle
         /\ Kind(h) = "reader" => handle[h] \in ReaderHandle
         /\ Kind(h) = "writer" => handle[h] \in WriterHandle
         /\ Kind(h) \in {"none", "reader", "writer"}
<1>1. handle[h] \in {NoHandle} \cup ReaderHandle \cup WriterHandle BY DEF TypeOK
<1>2. CASE handle[h] = NoHandle BY <1>2 DEF Kind, NoHandle
<1>3. CASE handle[h] \in ReaderHandle BY <1>3 DEF Kind, ReaderHandle
<1>4. CASE handle[h] \in WriterHandle BY <1>4 DEF Kind, WriterHandle
<1> QED BY <1>1, <1>2, <1>3, <1>4

\* Every step keeps the types.
LEMMA TypeStep == TypeOK /\ [Next]_vars => TypeOK'
<1> SUFFICES ASSUME TypeOK, [Next]_vars PROVE TypeOK'
  OBVIOUS
<1> USE DEF counts, history
<1>1. <<>> \in Seq(Byte) /\ 0 \in Byte /\ 0 \in Int32 /\ NoHandle \in {NoHandle}
  BY FileAssumption DEF Int32
<1>2. ASSUME NEW h \in Handles, NEW p \in Paths, NEW mode \in Modes, OpenReader(h, p, mode)
      PROVE  TypeOK'
  <2>1. ASSUME NEW data \in Seq(Byte), NEW file \in BOOLEAN
        PROVE  Reader(data, file) \in ReaderHandle
    BY <1>1 DEF Reader, ReaderHandle
  <2>2. dir[p] # None => content[dir[p]] \in Seq(Byte) BY DEF TypeOK
  <2>3. handle' \in [Handles -> {NoHandle} \cup ReaderHandle \cup WriterHandle]
    <3>1. CASE dir[p] # None
      <4>1. Reader(content[dir[p]], TRUE) \in ReaderHandle BY <2>1, <2>2, <3>1
      <4> QED BY <1>2, <3>1, <4>1 DEF OpenReader, TypeOK
    <3>2. CASE dir[p] = None
      <4>1. Reader(<<>>, FALSE) \in ReaderHandle BY <1>1, <2>1
      <4> QED BY <1>2, <3>2, <4>1 DEF OpenReader, TypeOK
    <3> QED BY <3>1, <3>2
  <2>4. start' \in [Handles -> Int32] /\ got' \in [Handles -> Seq(Byte)]
    BY <1>1, <1>2 DEF OpenReader, TypeOK
  <2>5. opens' \in 0..MaxOpens BY <1>2, FileAssumption DEF OpenReader, NextOpen, TypeOK
  <2> QED BY <1>2, <2>3, <2>4, <2>5 DEF OpenReader, NextOpen, TypeOK
<1>3. ASSUME NEW h \in Handles, NEW p \in Paths, NEW mode \in Modes, OpenWriter(h, p, mode)
      PROVE  TypeOK'
  <2>1. PICK i \in Inodes :
          /\ dir' = [dir EXCEPT ![p] = i]
          /\ handle' = [handle EXCEPT ![h] = Writer(i, "app" \in mode)]
          /\ content' = [content EXCEPT ![i] =
                           IF "app" \notin mode \/ dir[p] = None THEN <<>> ELSE content[i]]
          /\ meant' = [meant EXCEPT ![i] =
                           IF "app" \notin mode \/ dir[p] = None THEN <<>> ELSE meant[i]]
          /\ shared' \in {shared, shared \ {i}, shared \cup {i}}
    BY <1>3 DEF OpenWriter
  <2>2. Writer(i, "app" \in mode) \in WriterHandle BY <1>1 DEF Writer, WriterHandle
  <2>3. handle' \in [Handles -> {NoHandle} \cup ReaderHandle \cup WriterHandle]
    BY <2>1, <2>2 DEF TypeOK
  <2>4. content' \in [Inodes -> Seq(Byte)] /\ meant' \in [Inodes -> Seq(Byte)]
    BY <1>1, <2>1 DEF TypeOK
  <2>5. opens' \in 0..MaxOpens BY <1>3, FileAssumption DEF OpenWriter, NextOpen, TypeOK
  <2>6. dir' \in [Paths -> Inodes \cup {None}] /\ shared' \subseteq Inodes BY <2>1 DEF TypeOK
  <2> QED BY <1>3, <2>3, <2>4, <2>5, <2>6 DEF OpenWriter, NextOpen, TypeOK
<1>4. ASSUME NEW h \in Handles, NEW extent \in Sizes, Read(h, extent)
      PROVE  TypeOK'
  <2> DEFINE r == handle[h]
             plan == ReadPlan(r.position, Wrap(Len(r.data)), extent)
             piece == SubSeq(r.data, plan.offset + 1, plan.offset + plan.n)
             zeros == [i \in 1..plan.fill |-> 0]
  <2>1. r \in ReaderHandle BY <1>4, KindOfHandle DEF Read
  <2>2. r.position \in Int /\ r.data \in Seq(Byte) /\ Len(r.data) \in Nat
    BY <2>1, FileAssumption DEF ReaderHandle, Int32
  <2>3. extent \in Int BY FileAssumption
  <2>4. /\ plan.offset \in Int /\ plan.n \in Nat /\ plan.fill \in Nat
        /\ plan.n > 0 => plan.offset >= 0 /\ plan.offset + plan.n <= Len(r.data)
    BY <2>2, <2>3, ReadFits
  <2>5. handle' = [handle EXCEPT ![h] = [r EXCEPT !.position = Wrap(r.position + plan.n + plan.fill)]]
    BY <1>4 DEF Read
  <2>6. got' = [got EXCEPT ![h] = got[h] \o piece \o zeros] BY <1>4 DEF Read
  <2> HIDE DEF plan
  <2>7. Wrap(r.position + plan.n + plan.fill) \in Int32 BY <2>2, <2>4, WrapInt
  <2>8. handle' \in [Handles -> {NoHandle} \cup ReaderHandle \cup WriterHandle]
    <3>1. [r EXCEPT !.position = Wrap(r.position + plan.n + plan.fill)] \in ReaderHandle
      BY <2>1, <2>7 DEF ReaderHandle
    <3> QED BY <2>5, <3>1 DEF TypeOK
  <2>9. got' \in [Handles -> Seq(Byte)]
    <3>1. piece \in Seq(Byte)
      <4>1. CASE plan.n > 0 BY <2>2, <2>4, <4>1
      <4>2. CASE plan.n = 0 BY <2>2, <2>4, <4>2
      <4> QED BY <2>4, <4>1, <4>2
    <3>2. zeros \in Seq(Byte) BY <1>1, <2>4
    <3>3. got[h] \in Seq(Byte) BY DEF TypeOK
    <3> HIDE DEF piece, zeros
    <3>4. got[h] \o piece \o zeros \in Seq(Byte) BY <3>1, <3>2, <3>3
    <3> QED BY <2>6, <3>4 DEF TypeOK
  <2> QED BY <1>4, <2>8, <2>9 DEF Read, TypeOK
<1>5. ASSUME NEW h \in Handles, NEW b \in Byte, Write(h, b)
      PROVE  TypeOK'
  <2> DEFINE w == handle[h]
             given == [w EXCEPT !.out = Append(w.out, b)]
  <2>1. w \in WriterHandle BY <1>5, KindOfHandle DEF Write
  <2>2. w.ino \in Inodes /\ w.at \in Nat /\ w.out \in Seq(Byte) BY <2>1 DEF WriterHandle
  <2>3. Append(w.out, b) \in Seq(Byte) BY <2>2
  <2>4. given \in WriterHandle BY <2>1, <2>3 DEF WriterHandle
  <2>5. Flushed(given) \in Seq(Byte) /\ Drained(given) \in WriterHandle BY <2>4, FlushedSeq
  <2>6. given.ino = w.ino BY <2>1 DEF WriterHandle
  <2>7. meant' \in [Inodes -> Seq(Byte)]
    <3>1. meant[w.ino] \in Seq(Byte) BY <2>2 DEF TypeOK
    <3>2. <<b>> \in Seq(Byte) OBVIOUS
    <3>3. w.at + Len(w.out) \in Nat BY <2>2
    <3>4. Put(meant[w.ino], w.at + Len(w.out), <<b>>) \in Seq(Byte) BY <3>1, <3>2, <3>3, PutSeq
    <3>5. Append(meant[w.ino], b) \in Seq(Byte) BY <3>1
    <3>6. meant' = [meant EXCEPT ![w.ino] = IF w.append THEN Append(meant[w.ino], b)
                                            ELSE Put(meant[w.ino], w.at + Len(w.out), <<b>>)]
      BY <1>5 DEF Write
    <3>7. (IF w.append THEN Append(meant[w.ino], b)
           ELSE Put(meant[w.ino], w.at + Len(w.out), <<b>>)) \in Seq(Byte)
      BY <3>4, <3>5
    <3> QED BY <3>6, <3>7 DEF TypeOK
  <2>8. /\ handle' \in [Handles -> {NoHandle} \cup ReaderHandle \cup WriterHandle]
        /\ content' \in [Inodes -> Seq(Byte)]
    <3>1. CASE handle' = [handle EXCEPT ![h] = given] /\ UNCHANGED content
      BY <2>4, <3>1 DEF TypeOK
    <3>2. CASE /\ handle' = [handle EXCEPT ![h] = Drained(given)]
               /\ content' = [content EXCEPT ![w.ino] = Flushed(given)]
      BY <2>5, <3>2 DEF TypeOK
    <3> QED BY <1>5, <3>1, <3>2 DEF Write
  <2>9. writes' \in 0..MaxWrites BY <1>5, FileAssumption DEF Write, TypeOK
  <2> QED BY <1>5, <2>7, <2>8, <2>9 DEF Write, TypeOK
<1>6. ASSUME NEW h \in Handles, NEW way \in {"cur", "set", "end"}, NEW to \in Distances,
             SeekReader(h, way, to)
      PROVE  TypeOK'
  <2> DEFINE r == handle[h]
             base == CASE way = "cur" -> r.position
                       [] way = "set" -> 0
                       [] way = "end" -> Len(r.data)
  <2>1. r \in ReaderHandle BY <1>6, KindOfHandle DEF SeekReader
  <2>2. r.position \in Int /\ Len(r.data) \in Int BY <2>1, FileAssumption DEF ReaderHandle, Int32
  <2>3. base \in Int BY <2>2
  <2>4. to \in Int BY FileAssumption
  <2>5. /\ handle' = [handle EXCEPT ![h] = [r EXCEPT !.position = Wrap(to + base)]]
        /\ start' = [start EXCEPT ![h] = Wrap(to + base)]
        /\ got' = [got EXCEPT ![h] = <<>>]
    BY <1>6 DEF SeekReader
  <2> HIDE DEF base
  <2>6. Wrap(to + base) \in Int32 BY <2>3, <2>4, WrapInt
  <2>7. [r EXCEPT !.position = Wrap(to + base)] \in ReaderHandle BY <2>1, <2>6 DEF ReaderHandle
  <2>8. handle' \in [Handles -> {NoHandle} \cup ReaderHandle \cup WriterHandle]
    BY <2>5, <2>7 DEF TypeOK
  <2>9. start' \in [Handles -> Int32] /\ got' \in [Handles -> Seq(Byte)]
    BY <1>1, <2>5, <2>6 DEF TypeOK
  <2>10. seeks' \in 0..MaxSeeks BY <1>6, FileAssumption DEF SeekReader, TypeOK
  <2> QED BY <1>6, <2>8, <2>9, <2>10 DEF SeekReader, TypeOK
<1>7. ASSUME NEW h \in Handles, NEW way \in {"cur", "set", "end"}, NEW to \in Distances,
             SeekWriter(h, way, to)
      PROVE  TypeOK'
  <2> DEFINE w == Drained(handle[h])
             base == CASE way = "cur" -> w.at
                       [] way = "set" -> 0
                       [] way = "end" -> Len(Flushed(handle[h]))
             at == to + base
  <2>1. handle[h] \in WriterHandle BY <1>7, KindOfHandle DEF SeekWriter
  <2>2. Flushed(handle[h]) \in Seq(Byte) /\ w \in WriterHandle BY <2>1, FlushedSeq
  <2>3. w.at \in Nat /\ w.ino \in Inodes BY <2>2 DEF WriterHandle
  <2>4. base \in Int BY <2>2, <2>3
  <2>5. to \in Int BY FileAssumption
  <2>6. /\ handle' = [handle EXCEPT ![h] = [w EXCEPT !.at = IF at < 0 THEN w.at ELSE at]]
        /\ content' = [content EXCEPT ![w.ino] = Flushed(handle[h])]
    BY <1>7 DEF SeekWriter
  <2> HIDE DEF base, w
  <2>7. (IF at < 0 THEN w.at ELSE at) \in Nat BY <2>3, <2>4, <2>5
  <2> HIDE DEF at
  <2>8. [w EXCEPT !.at = IF at < 0 THEN w.at ELSE at] \in WriterHandle
    BY <2>2, <2>7 DEF WriterHandle
  <2>9. handle' \in [Handles -> {NoHandle} \cup ReaderHandle \cup WriterHandle]
    BY <2>6, <2>8 DEF TypeOK
  <2>10. content' \in [Inodes -> Seq(Byte)] BY <2>2, <2>3, <2>6 DEF TypeOK
  <2>11. seeks' \in 0..MaxSeeks BY <1>7, FileAssumption DEF SeekWriter, TypeOK
  <2> QED BY <1>7, <2>9, <2>10, <2>11 DEF SeekWriter, TypeOK
<1>8. ASSUME NEW h \in Handles, Close(h)
      PROVE  TypeOK'
  <2>1. start' \in [Handles -> Int32] /\ got' \in [Handles -> Seq(Byte)]
    BY <1>1, <1>8 DEF Close, TypeOK
  <2>2. CASE Kind(h) = "reader"
    <3>1. handle[h] \in ReaderHandle BY <2>2, KindOfHandle
    <3>2. Closed(h) = [handle[h] EXCEPT !.open = FALSE, !.data = <<>>, !.position = 0]
      BY <2>2 DEF Closed
    <3>3. Closed(h) \in ReaderHandle BY <1>1, <3>1, <3>2 DEF ReaderHandle
    <3>4. content' = content /\ handle' = [handle EXCEPT ![h] = Closed(h)]
      BY <1>8, <2>2 DEF Close
    <3> QED BY <1>8, <2>1, <3>3, <3>4 DEF Close, TypeOK
  <2>3. CASE Kind(h) = "writer"
    <3>1. handle[h] \in WriterHandle BY <2>3, KindOfHandle
    <3>2. Flushed(handle[h]) \in Seq(Byte) /\ Drained(handle[h]) \in WriterHandle
      BY <3>1, FlushedSeq
    <3>3. Closed(h) = [Drained(handle[h]) EXCEPT !.open = FALSE] BY <2>3 DEF Closed
    <3>4. Closed(h) \in WriterHandle BY <3>2, <3>3 DEF WriterHandle
    <3>5. /\ content' = [content EXCEPT ![handle[h].ino] = Flushed(handle[h])]
          /\ handle' = [handle EXCEPT ![h] = Closed(h)]
      BY <1>8, <2>3 DEF Close
    <3>6. content' \in [Inodes -> Seq(Byte)] BY <3>2, <3>5 DEF TypeOK
    <3>7. handle' \in [Handles -> {NoHandle} \cup ReaderHandle \cup WriterHandle]
      BY <3>4, <3>5 DEF TypeOK
    <3> QED BY <1>8, <2>1, <3>6, <3>7 DEF Close, TypeOK
  <2> QED BY <1>8, <2>2, <2>3, KindOfHandle DEF Close, isOpen
<1>9. ASSUME NEW h \in Handles, Dispose(h)
      PROVE  TypeOK'
  <2>1. start' \in [Handles -> Int32] /\ got' \in [Handles -> Seq(Byte)]
    BY <1>1, <1>9 DEF Dispose, TypeOK
  <2>2. handle' \in [Handles -> {NoHandle} \cup ReaderHandle \cup WriterHandle]
    BY <1>9 DEF Dispose, TypeOK
  <2>3. content' \in [Inodes -> Seq(Byte)]
    <3>1. CASE Kind(h) = "writer" /\ isOpen(h)
      <4>1. handle[h] \in WriterHandle BY <3>1, KindOfHandle
      <4>2. Flushed(handle[h]) \in Seq(Byte) BY <4>1, FlushedSeq
      <4> QED BY <1>9, <3>1, <4>2 DEF Dispose, TypeOK
    <3>2. CASE ~(Kind(h) = "writer" /\ isOpen(h))
      BY <1>9, <3>2 DEF Dispose, TypeOK
    <3> QED BY <3>1, <3>2
  <2> QED BY <1>9, <2>1, <2>2, <2>3 DEF Dispose, TypeOK
<1>10. ASSUME NEW p \in Paths, RemoveFile(p)
       PROVE  TypeOK'
  BY <1>10 DEF RemoveFile, TypeOK
<1>11. ASSUME NEW p \in Paths, NEW q \in Paths, RenameFile(p, q)
       PROVE  TypeOK'
  BY <1>11 DEF RenameFile, TypeOK
<1>12. CASE Killed
  <2>1. ASSUME NEW h \in Handles, Kind(h) = "writer" PROVE handle[h].ino \in Inodes
    BY <2>1, KindOfHandle DEF WriterHandle
  <2>2. shared' \subseteq Inodes BY <1>12, <2>1 DEF Killed, TypeOK
  <2>3. start' \in [Handles -> Int32] /\ got' \in [Handles -> Seq(Byte)]
    BY <1>1, <1>12 DEF Killed
  <2>4. handle' \in [Handles -> {NoHandle} \cup ReaderHandle \cup WriterHandle]
    BY <1>12 DEF Killed
  <2> QED BY <1>12, <2>2, <2>3, <2>4 DEF Killed, TypeOK
<1>13. CASE UNCHANGED vars
  BY <1>13 DEF vars, TypeOK
<1> QED
  BY <1>2, <1>3, <1>4, <1>5, <1>6, <1>7, <1>8, <1>9, <1>10, <1>11, <1>12, <1>13 DEF Next, Call

-----------------------------------------------------------------------------
(* Theorems *)

\* The state of the handles and the files keeps its types through every mix of
\* opens, reads, writes, seeks, closes, removals and kills.
THEOREM TypeCorrect == Spec => []TypeOK
<1>1. Init => TypeOK
  <2> SUFFICES ASSUME Init PROVE TypeOK
    OBVIOUS
  <2>1. <<>> \in Seq(Byte) /\ <<1, 0>> \in Seq(Byte) /\ 0 \in Int32
    BY FileAssumption DEF Int32
  <2>2. dir \in [Paths -> Inodes \cup {None}] /\ content \in [Inodes -> Seq(Byte)]
    BY <2>1 DEF Init
  <2>3. start \in [Handles -> Int32] /\ got \in [Handles -> Seq(Byte)]
    BY <2>1 DEF Init
  <2> QED BY <2>2, <2>3, FileAssumption DEF Init, TypeOK
<1> QED BY <1>1, TypeStep, PTL DEF Spec

\* FileHandleReader::read (filesystem.cpp:135): no read reaches outside of the
\* data of its handle, for every size Lua may ask for and wherever seeks that
\* overflow have put the position.
THEOREM ReadsInBounds == Spec => []ReadInBounds
<1>1. TypeOK => ReadInBounds
  <2> SUFFICES ASSUME TypeOK, NEW h \in Handles, Kind(h) = "reader", NEW extent \in Int32
               PROVE  LET plan == ReadPlan(handle[h].position, Wrap(Len(handle[h].data)), extent)
                      IN  /\ plan.n >= 0 /\ plan.fill >= 0
                          /\ plan.n > 0 => /\ plan.offset >= 0
                                           /\ plan.offset + plan.n <= Len(handle[h].data)
    BY DEF ReadInBounds
  <2>1. handle[h] \in ReaderHandle BY KindOfHandle
  <2>2. handle[h].position \in Int /\ handle[h].data \in Seq(Byte) /\ extent \in Int
    BY <2>1, FileAssumption DEF ReaderHandle, Int32
  <2> DEFINE plan == ReadPlan(handle[h].position, Wrap(Len(handle[h].data)), extent)
  <2>3. /\ plan.n \in Nat /\ plan.fill \in Nat
        /\ plan.n > 0 => plan.offset >= 0 /\ plan.offset + plan.n <= Len(handle[h].data)
    BY <2>2, ReadFits
  <2> HIDE DEF plan
  <2>4. /\ plan.n >= 0 /\ plan.fill >= 0
        /\ plan.n > 0 => plan.offset >= 0 /\ plan.offset + plan.n <= Len(handle[h].data)
    BY <2>3
  <2> QED BY <2>4 DEF plan
<1> QED BY <1>1, TypeCorrect, PTL

\* Nobody writes to a loot disk: no writer is ever opened on one, so that no
\* later write, seek, close or disposal can change a file.
NoWriterOnLoot == readOnly => \A h \in Handles : Kind(h) # "writer"

LEMMA LootStep == TypeOK /\ NoWriterOnLoot /\ [Next]_vars =>
                    /\ NoWriterOnLoot'
                    /\ readOnly => UNCHANGED <<dir, content>>
<1> SUFFICES ASSUME TypeOK, NoWriterOnLoot, [Next]_vars
             PROVE  NoWriterOnLoot' /\ (readOnly => UNCHANGED <<dir, content>>)
  OBVIOUS
<1> USE DEF counts, history
<1>1. readOnly' = readOnly
  <2>1. ASSUME NEW h \in Handles, Call(h) PROVE readOnly' = readOnly
    <3>1. ASSUME NEW p \in Paths, NEW mode \in Modes,
                 OpenReader(h, p, mode) \/ OpenWriter(h, p, mode)
          PROVE  readOnly' = readOnly
      BY <3>1 DEF OpenReader, OpenWriter, NextOpen
    <3>2. ASSUME NEW way \in {"cur", "set", "end"}, NEW to \in Distances,
                 SeekReader(h, way, to) \/ SeekWriter(h, way, to)
          PROVE  readOnly' = readOnly
      BY <3>2 DEF SeekReader, SeekWriter
    <3>3. ASSUME NEW extent \in Sizes, Read(h, extent) PROVE readOnly' = readOnly
      BY <3>3 DEF Read
    <3>4. ASSUME NEW b \in Byte, Write(h, b) PROVE readOnly' = readOnly
      BY <3>4 DEF Write
    <3>5. Close(h) \/ Dispose(h) => readOnly' = readOnly BY DEF Close, Dispose
    <3> QED BY <2>1, <3>1, <3>2, <3>3, <3>4, <3>5 DEF Call
  <2>2. ASSUME NEW p \in Paths, NEW q \in Paths, RemoveFile(p) \/ RenameFile(p, q)
        PROVE  readOnly' = readOnly
    BY <2>2 DEF RemoveFile, RenameFile
  <2>3. Killed \/ UNCHANGED vars => readOnly' = readOnly BY DEF Killed, vars
  <2> QED BY <2>1, <2>2, <2>3 DEF Next
<1> SUFFICES ASSUME readOnly
             PROVE  (\A g \in Handles : handle'[g].kind # "writer") /\ UNCHANGED <<dir, content>>
  BY <1>1 DEF NoWriterOnLoot, Kind
<1>2. handle \in [Handles -> {NoHandle} \cup ReaderHandle \cup WriterHandle]
  BY DEF TypeOK
<1>3. \A g \in Handles : handle[g].kind # "writer" BY DEF NoWriterOnLoot, Kind
<1>4. ASSUME NEW h \in Handles, NEW p \in Paths, NEW mode \in Modes, OpenReader(h, p, mode)
      PROVE  (\A g \in Handles : handle'[g].kind # "writer") /\ UNCHANGED <<dir, content>>
  <2>1. \/ handle' = handle
        \/ \E data, file : handle' = [handle EXCEPT ![h] = Reader(data, file)]
    BY <1>4 DEF OpenReader
  <2> QED BY <1>2, <1>3, <1>4, <2>1 DEF OpenReader, Reader
<1>5. ASSUME NEW h \in Handles, NEW p \in Paths, NEW mode \in Modes, OpenWriter(h, p, mode)
      PROVE  FALSE
  BY <1>5 DEF OpenWriter, NextOpen, Opens
<1>6. ASSUME NEW h \in Handles, NEW extent \in Sizes, Read(h, extent)
      PROVE  (\A g \in Handles : handle'[g].kind # "writer") /\ UNCHANGED <<dir, content>>
  <2>1. \E position : handle' = [handle EXCEPT ![h] = [handle[h] EXCEPT !.position = position]]
    BY <1>6 DEF Read
  <2>2. handle[h] \in ReaderHandle BY <1>6, KindOfHandle DEF Read
  <2> QED BY <1>2, <1>3, <1>6, <2>1, <2>2 DEF Read, ReaderHandle
<1>7. ASSUME NEW h \in Handles, NEW b \in Byte, Write(h, b) PROVE FALSE
  BY <1>3, <1>7 DEF Write, Kind
<1>8. ASSUME NEW h \in Handles, NEW way \in {"cur", "set", "end"}, NEW to \in Distances,
             SeekReader(h, way, to)
      PROVE  (\A g \in Handles : handle'[g].kind # "writer") /\ UNCHANGED <<dir, content>>
  <2>1. \E position : handle' = [handle EXCEPT ![h] = [handle[h] EXCEPT !.position = position]]
    BY <1>8 DEF SeekReader
  <2>2. handle[h] \in ReaderHandle BY <1>8, KindOfHandle DEF SeekReader
  <2> QED BY <1>2, <1>3, <1>8, <2>1, <2>2 DEF SeekReader, ReaderHandle
<1>9. ASSUME NEW h \in Handles, NEW way \in {"cur", "set", "end"}, NEW to \in Distances,
             SeekWriter(h, way, to)
      PROVE  FALSE
  BY <1>3, <1>9 DEF SeekWriter, Kind
<1>10. ASSUME NEW h \in Handles, Close(h)
       PROVE  (\A g \in Handles : handle'[g].kind # "writer") /\ UNCHANGED <<dir, content>>
  <2>1. Kind(h) = "reader" BY <1>3, <1>10, KindOfHandle DEF Close, isOpen, Kind
  <2>2. handle[h] \in ReaderHandle BY <2>1, KindOfHandle
  <2>3. Closed(h) = [handle[h] EXCEPT !.open = FALSE, !.data = <<>>, !.position = 0]
    BY <2>1 DEF Closed
  <2>4. Closed(h).kind = "reader" BY <2>2, <2>3 DEF ReaderHandle
  <2> QED BY <1>2, <1>3, <1>10, <2>1, <2>4 DEF Close
<1>11. ASSUME NEW h \in Handles, Dispose(h)
       PROVE  (\A g \in Handles : handle'[g].kind # "writer") /\ UNCHANGED <<dir, content>>
  BY <1>2, <1>3, <1>11 DEF Dispose, Kind, NoHandle
<1>12. ASSUME NEW p \in Paths, RemoveFile(p) PROVE FALSE
  BY <1>12 DEF RemoveFile
<1>13. ASSUME NEW p \in Paths, NEW q \in Paths, RenameFile(p, q) PROVE FALSE
  BY <1>13 DEF RenameFile
<1>14. CASE Killed
  BY <1>14 DEF Killed, NoHandle
<1>15. CASE UNCHANGED vars
  BY <1>3, <1>15 DEF vars
<1> QED
  BY <1>4, <1>5, <1>6, <1>7, <1>8, <1>9, <1>10, <1>11, <1>12, <1>13, <1>14, <1>15
     DEF Next, Call

\* Filesystem::open, remove and rename (filesystem.cpp:410, 632, 683) keep a loot
\* disk as it is: nothing changes on it.
THEOREM LootDiskKept == Spec => LootDiskUntouched
<1>1. Init => NoWriterOnLoot BY DEF Init, NoWriterOnLoot, Kind, NoHandle
<1>2. TypeOK /\ NoWriterOnLoot /\ [Next]_vars => NoWriterOnLoot' BY LootStep
<1>3. TypeOK /\ NoWriterOnLoot /\ [Next]_vars => [readOnly => UNCHANGED <<dir, content>>]_vars
  BY LootStep
<1> QED BY <1>1, <1>2, <1>3, TypeCorrect, PTL DEF Spec, LootDiskUntouched
-----------------------------------------------------------------------------
(* Readers *)

\* What a reader r gave, g, is its data from a to its position; it is behind the
\* end of them only when nothing was read.
GaveInOrder(r, a, g) ==
  r.kind = "reader" /\ a >= 0 /\ Len(r.data) <= MaxInt =>
    /\ r.position = a + Len(g)
    /\ g # <<>> => r.position <= Len(r.data)
    /\ g = SubSeq(r.data, a + 1, r.position)
ReadersInv == \A h \in Handles : GaveInOrder(handle[h], start[h], got[h])

\* One read puts what follows behind what was read.
LEMMA ReadKeepsOrder ==
  ASSUME NEW r \in ReaderHandle, NEW a \in Int32, NEW g \in Seq(Byte), NEW extent \in Int,
         GaveInOrder(r, a, g)
  PROVE  LET plan == ReadPlan(r.position, Wrap(Len(r.data)), extent)
         IN  GaveInOrder([r EXCEPT !.position = Wrap(r.position + plan.n + plan.fill)], a,
                         g \o SubSeq(r.data, plan.offset + 1, plan.offset + plan.n)
                           \o [i \in 1..plan.fill |-> 0])
<1> DEFINE plan == ReadPlan(r.position, Wrap(Len(r.data)), extent)
           zeros == [i \in 1..plan.fill |-> 0]
<1>1. PICK d : d = r.data OBVIOUS
<1>2. PICK p : p = r.position OBVIOUS
<1>3. PICK n, offset : n = plan.n /\ offset = plan.offset OBVIOUS
<1>4. PICK t : t = Wrap(p + plan.n + plan.fill) OBVIOUS
<1>5. PICK more : more = g \o SubSeq(d, offset + 1, offset + n) \o zeros OBVIOUS
<1>6. SUFFICES GaveInOrder([r EXCEPT !.position = t], a, more)
  BY <1>1, <1>2, <1>3, <1>4, <1>5, Zenon
<1>7. /\ r.kind = "reader" /\ d \in Seq(Byte) /\ p \in Int32
      /\ [r EXCEPT !.position = t].kind = "reader"
      /\ [r EXCEPT !.position = t].position = t
      /\ [r EXCEPT !.position = t].data = d
  BY <1>1, <1>2 DEF ReaderHandle
<1>8. SUFFICES ASSUME a >= 0, Len(d) <= MaxInt
               PROVE  /\ t = a + Len(more)
                      /\ more # <<>> => t <= Len(d)
                      /\ more = SubSeq(d, a + 1, t)
  BY <1>7 DEF GaveInOrder
<1>9. p = a + Len(g) /\ (g # <<>> => p <= Len(d)) /\ g = SubSeq(d, a + 1, p)
  BY <1>1, <1>2, <1>7, <1>8 DEF GaveInOrder
<1>10. MaxInt \in Nat BY FileAssumption
<1>11. p \in 0..MaxInt /\ Len(d) \in 0..MaxInt /\ a \in 0..MaxInt
  <2>1. Len(g) \in Nat /\ Len(d) \in Nat BY <1>7
  <2>2. p \in Int /\ p <= MaxInt /\ a \in Int /\ a <= MaxInt BY <1>7, <1>10 DEF Int32
  <2>3. p >= a BY <1>9, <2>1, <2>2
  <2> QED BY <1>8, <1>10, <2>1, <2>2, <2>3
<1>12. Wrap(Len(d)) = Len(d) BY <1>10, <1>11, WrapOfInt DEF Int32
<1>13. plan = ReadPlan(p, Len(d), extent) BY <1>1, <1>2, <1>12
<1> HIDE DEF plan
<1>14. n \in Nat /\ plan.fill = 0 /\ (n > 0 => offset = p /\ p + n <= Len(d))
  BY <1>3, <1>11, <1>13, ReadPlanInside
<1>15. zeros = <<>> BY <1>14
<1> HIDE DEF zeros
<1>16. t = p + n
  <2>1. p + n \in 0..MaxInt
    <3>1. CASE n = 0 BY <1>10, <1>11, <3>1
    <3>2. CASE n > 0 BY <1>10, <1>11, <1>14, <3>2
    <3> QED BY <1>14, <3>1, <3>2
  <2>2. Wrap(p + n) = p + n BY <1>10, <2>1, WrapOfInt DEF Int32
  <2>3. p + plan.n + plan.fill = p + n BY <1>3, <1>11, <1>14
  <2> QED BY <1>4, <2>2, <2>3
<1>17. CASE n = 0
  <2>1. offset \in Int
    <3>1. r.position \in Int /\ r.data \in Seq(Byte) BY <1>1, <1>2, <1>7, <1>11
    <3> QED BY <1>3, <3>1, ReadFits DEF plan
  <2>2. SubSeq(d, offset + 1, offset + n) = <<>> BY <1>7, <1>17, <2>1
  <2>3. more = g \o <<>> \o <<>> BY <1>5, <1>15, <2>2
  <2>4. g \o <<>> = g OBVIOUS
  <2>5. more = g BY <2>3, <2>4
  <2> QED BY <1>9, <1>11, <1>16, <1>17, <2>5
<1>18. CASE n > 0
  <2>1. SubSeq(d, offset + 1, offset + n) = SubSeq(d, p + 1, p + n) BY <1>14, <1>18
  <2>2. SubSeq(d, a + 1, p) \o SubSeq(d, p + 1, p + n) = SubSeq(d, a + 1, p + n)
    <3>1. a \in Nat /\ p \in Nat /\ n \in Nat /\ p + n <= Len(d) BY <1>11, <1>14, <1>18
    <3>2. Len(g) \in Nat OBVIOUS
    <3>3. a <= p BY <1>9, <3>1, <3>2
    <3>4. d \in Seq(Byte) BY <1>7
    <3> QED BY ONLY <3>1, <3>3, <3>4, SubSeqJoin
  <2>3. PICK whole : whole = SubSeq(d, a + 1, p + n) OBVIOUS
  <2>4. whole \in Seq(Byte) /\ Len(whole) = p + n - a
    <3>1. a \in Nat /\ p \in Nat /\ n \in Nat /\ p + n <= Len(d) BY <1>11, <1>14, <1>18
    <3>2. Len(g) \in Nat OBVIOUS
    <3>3. a <= p BY <1>9, <3>1, <3>2
    <3>4. d \in Seq(Byte) BY <1>7
    <3> QED BY ONLY <2>3, <3>1, <3>3, <3>4
  <2>5. more = whole
    <3>1. more = whole \o <<>> BY <1>5, <1>9, <1>15, <2>1, <2>2, <2>3
    <3> QED BY <2>4, <3>1
  <2> QED BY <1>11, <1>14, <1>16, <1>18, <2>3, <2>4, <2>5
<1> QED BY <1>14, <1>17, <1>18

\* A step that touches one reader, and leaves it in order, keeps all in order.
LEMMA OneReader ==
  ASSUME TypeOK, ReadersInv, NEW h \in Handles, NEW r, NEW a, NEW g,
         handle' = [handle EXCEPT ![h] = r],
         start' = [start EXCEPT ![h] = a],
         got' = [got EXCEPT ![h] = g],
         GaveInOrder(r, a, g)
  PROVE  ReadersInv'
<1>1. handle'[h] = r /\ start'[h] = a /\ got'[h] = g
  BY DEF TypeOK
<1>2. \A k \in Handles \ {h} : handle'[k] = handle[k] /\ start'[k] = start[k] /\ got'[k] = got[k]
  BY DEF TypeOK
<1>3. SUFFICES ASSUME NEW k \in Handles PROVE GaveInOrder(handle'[k], start'[k], got'[k])
  BY DEF ReadersInv
<1>4. CASE k = h BY <1>1, <1>4
<1>5. CASE k # h BY <1>2, <1>5 DEF ReadersInv
<1> QED BY <1>4, <1>5

\* So does one that gives a handle no reader, or none any more.
LEMMA NoReader ==
  ASSUME TypeOK, ReadersInv, NEW h \in Handles, NEW w, w.kind # "reader",
         handle' = [handle EXCEPT ![h] = w],
         \A k \in Handles \ {h} : start'[k] = start[k] /\ got'[k] = got[k]
  PROVE  ReadersInv'
<1>1. handle'[h] = w /\ \A k \in Handles \ {h} : handle'[k] = handle[k]
  BY DEF TypeOK
<1>2. SUFFICES ASSUME NEW k \in Handles PROVE GaveInOrder(handle'[k], start'[k], got'[k])
  BY DEF ReadersInv
<1>3. CASE k = h BY <1>1, <1>3 DEF GaveInOrder
<1>4. CASE k # h BY <1>1, <1>4 DEF ReadersInv
<1> QED BY <1>3, <1>4

\* A reader that has given nothing yet.
LEMMA GaveNothing ==
  ASSUME NEW r \in ReaderHandle
  PROVE  GaveInOrder(r, r.position, <<>>)
<1>1. r.position \in Int /\ r.data \in Seq(Byte) BY FileAssumption DEF ReaderHandle, Int32
<1>2. SubSeq(r.data, r.position + 1, r.position) = <<>> BY <1>1
<1> QED BY <1>1, <1>2 DEF GaveInOrder

LEMMA ReadersStep == TypeOK /\ ReadersInv /\ [Next]_vars => ReadersInv'
<1> SUFFICES ASSUME TypeOK, ReadersInv, [Next]_vars PROVE ReadersInv'
  OBVIOUS
<1> USE DEF counts, history
<1>1. ASSUME UNCHANGED <<handle, start, got>> PROVE ReadersInv'
  BY <1>1 DEF ReadersInv, GaveInOrder
<1>2. ASSUME NEW h \in Handles, NEW p \in Paths, NEW mode \in Modes, OpenReader(h, p, mode)
      PROVE  ReadersInv'
  <2>1. start' = [start EXCEPT ![h] = 0] /\ got' = [got EXCEPT ![h] = <<>>]
    BY <1>2 DEF OpenReader
  <2>2. CASE handle' = handle
    <3>1. handle[h].kind = "none" BY <1>2 DEF OpenReader, NextOpen, Kind
    <3>2. handle' = [handle EXCEPT ![h] = handle[h]] BY <2>2 DEF TypeOK
    <3>3. GaveInOrder(handle[h], 0, <<>>) BY <3>1 DEF GaveInOrder
    <3> QED BY <2>1, <3>2, <3>3, OneReader
  <2>3. ASSUME NEW data \in Seq(Byte), NEW file \in BOOLEAN,
               handle' = [handle EXCEPT ![h] = Reader(data, file)]
        PROVE  ReadersInv'
    <3>1. Reader(data, file) \in ReaderHandle /\ Reader(data, file).position = 0
      BY FileAssumption DEF Reader, ReaderHandle, Int32
    <3>2. GaveInOrder(Reader(data, file), 0, <<>>) BY <3>1, GaveNothing
    <3> QED BY <2>1, <2>3, <3>2, OneReader
  <2>4. <<>> \in Seq(Byte) /\ (dir[p] # None => content[dir[p]] \in Seq(Byte))
    BY DEF TypeOK
  <2> QED BY <1>2, <2>2, <2>3, <2>4 DEF OpenReader
<1>3. ASSUME NEW h \in Handles, NEW p \in Paths, NEW mode \in Modes, OpenWriter(h, p, mode)
      PROVE  ReadersInv'
  <2>1. PICK i \in Inodes : handle' = [handle EXCEPT ![h] = Writer(i, "app" \in mode)]
    BY <1>3 DEF OpenWriter
  <2>2. Writer(i, "app" \in mode).kind # "reader" BY DEF Writer
  <2>3. start' = start /\ got' = got BY <1>3 DEF OpenWriter
  <2> QED BY <2>1, <2>2, <2>3, NoReader
<1>4. ASSUME NEW h \in Handles, NEW extent \in Sizes, Read(h, extent)
      PROVE  ReadersInv'
  <2> DEFINE plan == ReadPlan(handle[h].position, Wrap(Len(handle[h].data)), extent)
             r == [handle[h] EXCEPT !.position = Wrap(handle[h].position + plan.n + plan.fill)]
             g == got[h] \o SubSeq(handle[h].data, plan.offset + 1, plan.offset + plan.n)
                         \o [i \in 1..plan.fill |-> 0]
  <2>1. handle[h] \in ReaderHandle BY <1>4, KindOfHandle DEF Read
  <2>2. start[h] \in Int32 /\ got[h] \in Seq(Byte) /\ extent \in Int
    BY FileAssumption DEF TypeOK
  <2>3. GaveInOrder(handle[h], start[h], got[h]) BY DEF ReadersInv
  <2>4. GaveInOrder(r, start[h], g) BY <2>1, <2>2, <2>3, ReadKeepsOrder
  <2>5. handle' = [handle EXCEPT ![h] = r] /\ got' = [got EXCEPT ![h] = g] /\ start' = start
    BY <1>4 DEF Read
  <2> HIDE DEF r, g
  <2>6. start' = [start EXCEPT ![h] = start[h]] BY <2>5 DEF TypeOK
  <2> QED BY <2>4, <2>5, <2>6, OneReader
<1>5. ASSUME NEW h \in Handles, NEW b \in Byte, Write(h, b)
      PROVE  ReadersInv'
  <2>1. handle[h] \in WriterHandle BY <1>5, KindOfHandle DEF Write
  <2>2. PICK w : handle' = [handle EXCEPT ![h] = w] /\ w.kind # "reader"
    <3> DEFINE given == [handle[h] EXCEPT !.out = Append(handle[h].out, b)]
    <3>1. given.kind = "writer" BY <2>1 DEF WriterHandle
    <3> HIDE DEF given
    <3>2. Drained(given).kind = given.kind BY DEF Drained
    <3>3. \/ handle' = [handle EXCEPT ![h] = given]
          \/ handle' = [handle EXCEPT ![h] = Drained(given)]
      BY <1>5 DEF Write, given
    <3> QED BY <3>1, <3>2, <3>3
  <2>3. start' = start /\ got' = got BY <1>5 DEF Write
  <2> QED BY <2>2, <2>3, NoReader
<1>6. ASSUME NEW h \in Handles, NEW way \in {"cur", "set", "end"}, NEW to \in Distances,
             SeekReader(h, way, to)
      PROVE  ReadersInv'
  <2>1. PICK position :
          /\ handle' = [handle EXCEPT ![h] = [handle[h] EXCEPT !.position = position]]
          /\ start' = [start EXCEPT ![h] = position]
          /\ got' = [got EXCEPT ![h] = <<>>]
          /\ position \in Int32
    <3> DEFINE base == CASE way = "cur" -> handle[h].position
                         [] way = "set" -> 0
                         [] way = "end" -> Len(handle[h].data)
    <3>1. handle[h] \in ReaderHandle BY <1>6, KindOfHandle DEF SeekReader
    <3>2. handle[h].position \in Int /\ Len(handle[h].data) \in Int
      BY <3>1, FileAssumption DEF ReaderHandle, Int32
    <3>3. base \in Int /\ to \in Int BY <3>2, FileAssumption
    <3>4. /\ handle' = [handle EXCEPT ![h] = [handle[h] EXCEPT !.position = Wrap(to + base)]]
          /\ start' = [start EXCEPT ![h] = Wrap(to + base)]
          /\ got' = [got EXCEPT ![h] = <<>>]
      BY <1>6 DEF SeekReader
    <3> HIDE DEF base
    <3>5. Wrap(to + base) \in Int32 BY <3>3, WrapInt
    <3> QED BY <3>4, <3>5
  <2>2. handle[h] \in ReaderHandle BY <1>6, KindOfHandle DEF SeekReader
  <2> DEFINE r == [handle[h] EXCEPT !.position = position]
  <2>3. r \in ReaderHandle /\ r.position = position BY <2>1, <2>2 DEF ReaderHandle
  <2> HIDE DEF r
  <2>4. GaveInOrder(r, position, <<>>) BY <2>3, GaveNothing
  <2> QED BY <2>1, <2>4, OneReader DEF r
<1>7. ASSUME NEW h \in Handles, NEW way \in {"cur", "set", "end"}, NEW to \in Distances,
             SeekWriter(h, way, to)
      PROVE  ReadersInv'
  <2>1. handle[h] \in WriterHandle BY <1>7, KindOfHandle DEF SeekWriter
  <2>2. Drained(handle[h]).kind = "writer" BY <2>1 DEF Drained, WriterHandle
  <2>3. PICK at : handle' = [handle EXCEPT ![h] = [Drained(handle[h]) EXCEPT !.at = at]]
    BY <1>7 DEF SeekWriter
  <2>4. [Drained(handle[h]) EXCEPT !.at = at].kind # "reader"
    <3>1. PICK w : w = Drained(handle[h]) OBVIOUS
    <3>2. [w EXCEPT !.at = at].kind = w.kind OBVIOUS
    <3> QED BY <2>2, <3>1, <3>2
  <2>5. start' = start /\ got' = got BY <1>7 DEF SeekWriter
  <2> QED BY <2>3, <2>4, <2>5, NoReader
<1>8. ASSUME NEW h \in Handles, Close(h)
      PROVE  ReadersInv'
  <2>1. /\ handle' = [handle EXCEPT ![h] = Closed(h)]
        /\ start' = [start EXCEPT ![h] = 0] /\ got' = [got EXCEPT ![h] = <<>>]
    BY <1>8 DEF Close
  <2>2. CASE Kind(h) = "reader"
    <3>1. handle[h] \in ReaderHandle BY <2>2, KindOfHandle
    <3>2. Closed(h) = [handle[h] EXCEPT !.open = FALSE, !.data = <<>>, !.position = 0]
      BY <2>2 DEF Closed
    <3>3. 0 \in Int32 /\ <<>> \in Seq(Byte) BY FileAssumption DEF Int32
    <3>5. Closed(h) \in ReaderHandle /\ Closed(h).position = 0
      BY <3>1, <3>2, <3>3 DEF ReaderHandle
    <3>4. GaveInOrder(Closed(h), 0, <<>>) BY <3>5, GaveNothing
    <3> QED BY <2>1, <3>4, OneReader
  <2>3. CASE Kind(h) = "writer"
    <3>1. handle[h] \in WriterHandle BY <2>3, KindOfHandle
    <3>2. Drained(handle[h]).kind = "writer" BY <3>1 DEF Drained, WriterHandle
    <3>3. PICK w : w = Drained(handle[h]) OBVIOUS
    <3>4. Closed(h) = [w EXCEPT !.open = FALSE] BY <2>3, <3>3 DEF Closed
    <3>5. Closed(h).kind # "reader" BY <3>2, <3>3, <3>4
    <3>6. \A k \in Handles \ {h} : start'[k] = start[k] /\ got'[k] = got[k]
      BY <2>1 DEF TypeOK
    <3> QED BY <2>1, <3>5, <3>6, NoReader
  <2> QED BY <1>8, <2>2, <2>3, KindOfHandle DEF Close, isOpen
<1>9. ASSUME NEW h \in Handles, Dispose(h)
      PROVE  ReadersInv'
  <2>1. /\ handle' = [handle EXCEPT ![h] = NoHandle]
        /\ start' = [start EXCEPT ![h] = 0] /\ got' = [got EXCEPT ![h] = <<>>]
    BY <1>9 DEF Dispose
  <2>2. \A k \in Handles \ {h} : start'[k] = start[k] /\ got'[k] = got[k]
    BY <2>1 DEF TypeOK
  <2>3. NoHandle.kind # "reader" BY DEF NoHandle
  <2> QED BY <2>1, <2>2, <2>3, NoReader
<1>10. ASSUME NEW p \in Paths, NEW q \in Paths, RemoveFile(p) \/ RenameFile(p, q)
       PROVE  ReadersInv'
  BY <1>1, <1>10 DEF RemoveFile, RenameFile
<1>11. CASE Killed
  BY <1>11 DEF Killed, ReadersInv, GaveInOrder, NoHandle
<1>12. CASE UNCHANGED vars
  BY <1>1, <1>12 DEF vars
<1> QED
  BY <1>2, <1>3, <1>4, <1>5, <1>6, <1>7, <1>8, <1>9, <1>10, <1>11, <1>12 DEF Next, Call

\* FileHandleReader::read and seek (filesystem.cpp:112, 135): the bytes a program
\* reads after a seek are the file it opened, from there on and without gaps, for
\* every mix of sizes, seeks and ends of the int, and whatever other handles, removals
\* and kills do to the file in the meantime.
THEOREM ReadersGiveTheFile == Spec => []ReadsAreContiguous
<1>1. Init => ReadersInv
  BY DEF Init, ReadersInv, GaveInOrder, NoHandle
<1>2. TypeOK /\ ReadersInv => ReadsAreContiguous
  <2> SUFFICES ASSUME TypeOK, ReadersInv, NEW h \in Handles, Kind(h) = "reader", start[h] >= 0,
                      Len(handle[h].data) <= MaxInt
               PROVE  got[h] = SubSeq(handle[h].data, start[h] + 1, start[h] + Len(got[h]))
    BY DEF ReadsAreContiguous
  <2> QED BY DEF ReadersInv, GaveInOrder, Kind
<1>3. TypeOK /\ ReadersInv /\ [Next]_vars => ReadersInv' BY ReadersStep
<1> QED BY <1>1, <1>2, <1>3, TypeCorrect, PTL DEF Spec
-----------------------------------------------------------------------------
(* Writers *)

\* A file after a write: its length, and what is at each place.
PutLength(s, at, d) == IF Len(s) < at + Len(d) THEN at + Len(d) ELSE Len(s)
PutAt(s, at, d, k) == IF k \in (at + 1)..(at + Len(d)) THEN d[k - at]
                      ELSE IF k <= Len(s) THEN s[k] ELSE 0

IsPut(f, s, at, d) == /\ Len(f) = PutLength(s, at, d) /\ Len(f) \in Nat
                      /\ \A k \in 1..Len(f) : f[k] = PutAt(s, at, d, k)

LEMMA PutIs ==
  ASSUME NEW s \in Seq(Byte), NEW at \in Nat, NEW d \in Seq(Byte)
  PROVE  IsPut(Put(s, at, d), s, at, d)
<1>1. PutLength(s, at, d) \in Nat BY DEF PutLength
<1>2. PICK f : f = Put(s, at, d) OBVIOUS
<1>3. f = [k \in 1..PutLength(s, at, d) |-> PutAt(s, at, d, k)]
  BY <1>2 DEF Put, PutLength, PutAt
<1>4. Len(f) = PutLength(s, at, d) BY <1>1, <1>3
<1>5. \A k \in 1..PutLength(s, at, d) : f[k] = PutAt(s, at, d, k) BY <1>3
<1>6. IsPut(f, s, at, d) BY <1>1, <1>4, <1>5 DEF IsPut
<1> QED BY <1>2, <1>6

\* A byte written behind those the stream holds, and all of them handed to the host
\* at once, leave the same file.
LEMMA PutAppend ==
  ASSUME NEW s \in Seq(Byte), NEW at \in Nat, NEW out \in Seq(Byte), NEW b \in Byte,
         out # <<>>
  PROVE  Put(Put(s, at, out), at + Len(out), <<b>>) = Put(s, at, Append(out, b))
<1>1. PICK f : f = Put(s, at, out) OBVIOUS
<1>2. f \in Seq(Byte) BY <1>1, PutSeq
<1>3. /\ Len(f) = PutLength(s, at, out) /\ Len(f) \in Nat
      /\ \A k \in 1..Len(f) : f[k] = PutAt(s, at, out, k)
  <2>1. IsPut(f, s, at, out) BY <1>1, PutIs
  <2> QED BY <2>1 DEF IsPut
<1>4. PICK n \in Nat \ {0} : n = Len(out) BY EmptySeq
<1>5. PICK one : one = <<b>> OBVIOUS
<1>6. one \in Seq(Byte) /\ Len(one) = 1 /\ one[1] = b BY <1>5
<1>7. PICK all : all = Append(out, b) OBVIOUS
<1>8. /\ all \in Seq(Byte) /\ Len(all) = n + 1 /\ all[n + 1] = b
      /\ \A k \in 1..n : all[k] = out[k]
  BY <1>4, <1>7, AppendProperties
<1>9. PICK x : x = Put(f, at + n, one) OBVIOUS
<1>10. PICK y : y = Put(s, at, all) OBVIOUS
<1>11. x \in Seq(Byte) /\ y \in Seq(Byte)
  <2>1. at + n \in Nat OBVIOUS
  <2> QED BY <1>2, <1>6, <1>8, <1>9, <1>10, <2>1, PutSeq
<1>12. /\ Len(x) = PutLength(f, at + n, one) /\ Len(x) \in Nat
       /\ \A k \in 1..Len(x) : x[k] = PutAt(f, at + n, one, k)
  <2>1. at + n \in Nat OBVIOUS
  <2>2. IsPut(x, f, at + n, one) BY <1>2, <1>6, <1>9, <2>1, PutIs
  <2> QED BY <2>2 DEF IsPut
<1>13. /\ Len(y) = PutLength(s, at, all) /\ Len(y) \in Nat
       /\ \A k \in 1..Len(y) : y[k] = PutAt(s, at, all, k)
  <2>1. IsPut(y, s, at, all) BY <1>8, <1>10, PutIs
  <2> QED BY <2>1 DEF IsPut
<1>14. Len(s) \in Nat OBVIOUS
<1>15. Len(f) = IF Len(s) < at + n THEN at + n ELSE Len(s) BY <1>3, <1>4 DEF PutLength
<1>16. Len(x) = Len(y) BY <1>6, <1>8, <1>12, <1>13, <1>14, <1>15 DEF PutLength
<1>17. ASSUME NEW k \in 1..Len(x) PROVE x[k] = y[k]
  <2>1. x[k] = PutAt(f, at + n, one, k) /\ y[k] = PutAt(s, at, all, k)
    BY <1>12, <1>13, <1>16
  <2>2. CASE k = at + n + 1
    <3>1. x[k] = b
      <4>1. k \in (at + n + 1)..(at + n + Len(one)) /\ k - (at + n) = 1 BY <1>6, <2>2
      <4> QED BY <1>6, <2>1, <4>1 DEF PutAt
    <3>2. y[k] = b
      <4>1. k \in (at + 1)..(at + Len(all)) /\ k - at = n + 1 BY <1>8, <2>2
      <4> QED BY <1>8, <2>1, <4>1 DEF PutAt
    <3> QED BY <3>1, <3>2
  <2>3. CASE k \in (at + 1)..(at + n)
    <3>1. k - at \in 1..n /\ k \in (at + 1)..(at + Len(all)) BY <1>8, <2>3
    <3>2. y[k] = out[k - at] BY <1>8, <2>1, <3>1 DEF PutAt
    <3>3. k \notin (at + n + 1)..(at + n + Len(one)) /\ k \in 1..Len(f)
      BY <1>6, <1>14, <1>15, <2>3
    <3>4. x[k] = f[k] BY <2>1, <3>3 DEF PutAt
    <3>5. f[k] = out[k - at] BY <1>3, <1>4, <2>3, <3>3 DEF PutAt
    <3> QED BY <3>2, <3>4, <3>5
  <2>4. CASE k \notin (at + 1)..(at + n) /\ k # at + n + 1
    <3>1. /\ k \notin (at + n + 1)..(at + n + Len(one))
          /\ k \notin (at + 1)..(at + Len(all))
      BY <1>6, <1>8, <1>12, <2>4
    <3>2. x[k] = IF k <= Len(f) THEN f[k] ELSE 0 BY <2>1, <3>1 DEF PutAt
    <3>3. y[k] = IF k <= Len(s) THEN s[k] ELSE 0 BY <2>1, <3>1 DEF PutAt
    <3>4. k <= Len(f) => f[k] = IF k <= Len(s) THEN s[k] ELSE 0
      <4>1. SUFFICES ASSUME k <= Len(f) PROVE f[k] = IF k <= Len(s) THEN s[k] ELSE 0
        OBVIOUS
      <4>2. k \in 1..Len(f) BY <1>3, <1>12, <4>1
      <4>3. f[k] = PutAt(s, at, out, k) BY <1>3, <4>2
      <4> QED BY <1>4, <2>4, <4>3 DEF PutAt
    <3>5. k <= Len(s) => k <= Len(f) BY <1>14, <1>15, <1>12
    <3> QED BY <3>2, <3>3, <3>4, <3>5
  <2> QED BY <1>12, <2>2, <2>3, <2>4
<1>18. x = y
  <2>1. \A k \in 1..Len(x) : x[k] = y[k] BY <1>17
  <2> QED BY <1>11, <1>16, <2>1
<1> QED BY <1>1, <1>4, <1>5, <1>7, <1>9, <1>10, <1>18

\* A file c once the stream of writer r has handed over what it holds.
Handed(c, r) == IF r.out = <<>> THEN c ELSE IF r.append THEN c \o r.out ELSE Put(c, r.at, r.out)

LEMMA FlushedIsHanded ==
  ASSUME NEW w PROVE Flushed(w) = Handed(content[w.ino], w)
BY DEF Flushed, Handed

\* One more byte is the same whether the stream has handed over the others or not.
LEMMA HandedAppend ==
  ASSUME NEW c \in Seq(Byte), NEW w \in WriterHandle, NEW b \in Byte
  PROVE  Handed(c, [w EXCEPT !.out = Append(w.out, b)]) =
           IF w.append THEN Append(Handed(c, w), b) ELSE Put(Handed(c, w), w.at + Len(w.out), <<b>>)
<1>1. w.at \in Nat /\ w.out \in Seq(Byte) BY DEF WriterHandle
<1>2. PICK out \in Seq(Byte) : out = w.out BY <1>1
<1>3. PICK more : more = Append(out, b) OBVIOUS
<1>4. PICK g : g = [w EXCEPT !.out = more] OBVIOUS
<1>5. g.out = more /\ g.append = w.append /\ g.at = w.at BY <1>4 DEF WriterHandle
<1>6. more \in Seq(Byte) /\ more # <<>> BY <1>3, AppendProperties
<1>7. CASE w.append
  <2>1. Handed(c, g) = c \o more BY <1>5, <1>6, <1>7 DEF Handed
  <2>2. CASE out = <<>>
    <3>1. Handed(c, w) = c BY <1>2, <2>2 DEF Handed
    <3>2. more = <<b>> BY <1>3, <2>2
    <3>3. c \o <<b>> = Append(c, b) BY AppendIsConcat
    <3> QED BY <1>2, <1>3, <1>4, <1>7, <2>1, <3>1, <3>2, <3>3
  <2>3. CASE out # <<>>
    <3>1. Handed(c, w) = c \o out BY <1>2, <1>7, <2>3 DEF Handed
    <3>2. c \o Append(out, b) = Append(c \o out, b) BY ConcatAppend
    <3> QED BY <1>2, <1>3, <1>4, <1>7, <2>1, <3>1, <3>2
  <2> QED BY <2>2, <2>3
<1>8. CASE ~w.append
  <2>1. Handed(c, g) = Put(c, w.at, more) BY <1>5, <1>6, <1>8 DEF Handed
  <2>2. CASE out = <<>>
    <3>1. Handed(c, w) = c BY <1>2, <2>2 DEF Handed
    <3>2. more = <<b>> /\ w.at + Len(out) = w.at BY <1>1, <1>3, <2>2
    <3> QED BY <1>2, <1>3, <1>4, <1>8, <2>1, <3>1, <3>2
  <2>3. CASE out # <<>>
    <3>1. Handed(c, w) = Put(c, w.at, out) BY <1>2, <1>8, <2>3 DEF Handed
    <3>2. Put(Put(c, w.at, out), w.at + Len(out), <<b>>) = Put(c, w.at, Append(out, b))
      BY <1>1, <2>3, PutAppend
    <3> QED BY <1>2, <1>3, <1>4, <1>8, <2>1, <3>1, <3>2
  <2> QED BY <2>2, <2>3
<1> QED BY <1>7, <1>8

\* Handle r writes to inode i.
WritesTo(r, i) == r.kind = "writer" /\ r.open /\ r.ino = i

\* Of a file c that should be m, with the handles H: one handle at most writes to it;
\* c is m once that one has handed over what it holds; and c is m if there is none.
KeptFile(i, H, c, m) ==
  /\ \A g, h \in Handles : WritesTo(H[g], i) /\ WritesTo(H[h], i) => g = h
  /\ \A h \in Handles : WritesTo(H[h], i) => m = Handed(c, H[h])
  /\ (\A h \in Handles : ~WritesTo(H[h], i)) => c = m
WritersInv == \A i \in Inodes \ shared : KeptFile(i, handle, content[i], meant[i])

\* What becomes of a file when one handle becomes r: nothing if it writes to other
\* files; it is well if r has yet to hand over what the file lacks, or the handle did
\* so before it left; or if there was no writer and r holds nothing.
LEMMA OtherFile ==
  ASSUME NEW X, NEW H \in [Handles -> X], NEW h \in Handles, NEW r, NEW i, NEW c, NEW m,
         KeptFile(i, H, c, m), ~WritesTo(H[h], i), ~WritesTo(r, i)
  PROVE  KeptFile(i, [H EXCEPT ![h] = r], c, m)
<1>1. PICK H2 : H2 = [H EXCEPT ![h] = r] OBVIOUS
<1>2. H2[h] = r /\ \A k \in Handles \ {h} : H2[k] = H[k] BY <1>1
<1>3. \A k \in Handles : WritesTo(H2[k], i) => k # h /\ H2[k] = H[k] BY <1>2
<1>4. \A k \in Handles : WritesTo(H[k], i) => WritesTo(H2[k], i) BY <1>2
<1>5. KeptFile(i, H2, c, m) BY <1>3, <1>4 DEF KeptFile
<1> QED BY <1>1, <1>5

LEMMA WriterGoesOn ==
  ASSUME NEW X, NEW H \in [Handles -> X], NEW h \in Handles, NEW r, NEW i, NEW c, NEW m,
         NEW c2, NEW m2, KeptFile(i, H, c, m), WritesTo(H[h], i), WritesTo(r, i),
         m2 = Handed(c2, r)
  PROVE  KeptFile(i, [H EXCEPT ![h] = r], c2, m2)
<1>1. PICK H2 : H2 = [H EXCEPT ![h] = r] OBVIOUS
<1>2. H2[h] = r /\ \A k \in Handles \ {h} : H2[k] = H[k] BY <1>1
<1>3. \A k \in Handles : WritesTo(H2[k], i) => k = h BY <1>2 DEF KeptFile
<1>4. KeptFile(i, H2, c2, m2) BY <1>2, <1>3 DEF KeptFile
<1> QED BY <1>1, <1>4

LEMMA WriterLeaves ==
  ASSUME NEW X, NEW H \in [Handles -> X], NEW h \in Handles, NEW r, NEW i, NEW c, NEW m,
         KeptFile(i, H, c, m), WritesTo(H[h], i), ~WritesTo(r, i)
  PROVE  KeptFile(i, [H EXCEPT ![h] = r], Handed(c, H[h]), m)
<1>1. PICK H2 : H2 = [H EXCEPT ![h] = r] OBVIOUS
<1>2. H2[h] = r /\ \A k \in Handles \ {h} : H2[k] = H[k] BY <1>1
<1>3. \A k \in Handles : ~WritesTo(H2[k], i) BY <1>2 DEF KeptFile
<1>4. m = Handed(c, H[h]) BY DEF KeptFile
<1>5. KeptFile(i, H2, Handed(c, H[h]), m) BY <1>3, <1>4 DEF KeptFile
<1> QED BY <1>1, <1>5

LEMMA WriterComes ==
  ASSUME NEW X, NEW H \in [Handles -> X], NEW h \in Handles, NEW r, NEW i, NEW c,
         \A k \in Handles : ~WritesTo(H[k], i), r.out = <<>>
  PROVE  KeptFile(i, [H EXCEPT ![h] = r], c, c)
<1>1. PICK H2 : H2 = [H EXCEPT ![h] = r] OBVIOUS
<1>2. H2[h] = r /\ \A k \in Handles \ {h} : H2[k] = H[k] BY <1>1
<1>3. \A k \in Handles : WritesTo(H2[k], i) => k = h BY <1>2
<1>4. Handed(c, r) = c BY DEF Handed
<1>5. KeptFile(i, H2, c, c) BY <1>2, <1>3, <1>4 DEF KeptFile
<1> QED BY <1>1, <1>5

\* A step of one handle that writes nowhere before or after it disturbs no file.
LEMMA NoWriter ==
  ASSUME TypeOK, WritersInv, NEW h \in Handles, NEW r,
         ~(handle[h].kind = "writer" /\ handle[h].open), ~(r.kind = "writer" /\ r.open),
         handle' = [handle EXCEPT ![h] = r], UNCHANGED <<content, meant, shared>>
  PROVE  WritersInv'
<1>1. SUFFICES ASSUME NEW i \in Inodes \ shared
               PROVE  KeptFile(i, [handle EXCEPT ![h] = r], content[i], meant[i])
  BY DEF WritersInv
<1>2. KeptFile(i, handle, content[i], meant[i]) BY DEF WritersInv
<1>3. ~WritesTo(handle[h], i) /\ ~WritesTo(r, i) BY DEF WritesTo
<1>4. handle \in [Handles -> {NoHandle} \cup ReaderHandle \cup WriterHandle] BY DEF TypeOK
<1> QED BY <1>2, <1>3, <1>4, OtherFile

\* A writer that has handed over all it held.
LEMMA DrainedWriter ==
  ASSUME NEW w \in WriterHandle
  PROVE  Drained(w) = [w EXCEPT !.out = <<>>, !.at = Drained(w).at]
BY DEF Drained, WriterHandle

\* A step of a writer: its file is well afterwards, or two wrote to it; the other
\* files are as they were.
LEMMA OneWriter ==
  ASSUME TypeOK, WritersInv, NEW h \in Handles, NEW i, NEW r, NEW c, NEW m,
         handle[h] \in WriterHandle, i = handle[h].ino, r.kind = "writer" => r.ino = i,
         handle' = [handle EXCEPT ![h] = r],
         content' = [content EXCEPT ![i] = c], meant' = [meant EXCEPT ![i] = m],
         shared' = shared,
         i \notin shared => KeptFile(i, [handle EXCEPT ![h] = r], c, m)
  PROVE  WritersInv'
<1>1. i \in Inodes BY DEF WriterHandle
<1>2. /\ content'[i] = c /\ meant'[i] = m
      /\ \A j \in Inodes \ {i} : content'[j] = content[j] /\ meant'[j] = meant[j]
  BY <1>1 DEF TypeOK
<1>3. SUFFICES ASSUME NEW j \in Inodes \ shared
               PROVE  KeptFile(j, [handle EXCEPT ![h] = r], content'[j], meant'[j])
  BY DEF WritersInv
<1>4. CASE j = i BY <1>2, <1>4
<1>5. CASE j # i
  <2>1. ~WritesTo(handle[h], j) /\ ~WritesTo(r, j) BY <1>5 DEF WritesTo
  <2>2. KeptFile(j, handle, content[j], meant[j]) BY DEF WritersInv
  <2>3. handle \in [Handles -> {NoHandle} \cup ReaderHandle \cup WriterHandle] BY DEF TypeOK
  <2>4. KeptFile(j, [handle EXCEPT ![h] = r], content[j], meant[j])
    BY <2>1, <2>2, <2>3, OtherFile
  <2> QED BY <1>2, <1>5, <2>4
<1> QED BY <1>4, <1>5

\* A handle that writes nowhere any more has handed over what it held.
LEMMA WriterGone ==
  ASSUME TypeOK, WritersInv, NEW h \in Handles, NEW r,
         r.kind = "writer" => ~r.open,
         handle[h].kind = "writer" /\ r.kind = "writer" => r.ino = handle[h].ino,
         handle' = [handle EXCEPT ![h] = r],
         content' = IF handle[h].kind = "writer" /\ handle[h].open
                    THEN [content EXCEPT ![handle[h].ino] = Flushed(handle[h])] ELSE content,
         UNCHANGED <<meant, shared>>
  PROVE  WritersInv'
<1>1. CASE ~(handle[h].kind = "writer" /\ handle[h].open) BY <1>1, NoWriter
<1>2. CASE handle[h].kind = "writer" /\ handle[h].open
  <2>1. PICK w : w = handle[h] OBVIOUS
  <2>2. PICK i : i = w.ino OBVIOUS
  <2>3. w \in WriterHandle BY <1>2, <2>1, KindOfHandle DEF Kind
  <2>4. i \in Inodes BY <2>2, <2>3 DEF WriterHandle
  <2>5. content' = [content EXCEPT ![i] = Flushed(w)] BY <1>2, <2>1, <2>2
  <2>6. meant' = [meant EXCEPT ![i] = meant[i]] BY DEF TypeOK
  <2>7. i \notin shared => KeptFile(i, [handle EXCEPT ![h] = r], Flushed(w), meant[i])
    <3>1. SUFFICES ASSUME i \notin shared
                   PROVE  KeptFile(i, [handle EXCEPT ![h] = r], Flushed(w), meant[i])
      OBVIOUS
    <3>2. KeptFile(i, handle, content[i], meant[i]) BY <2>4, <3>1 DEF WritersInv
    <3>3. WritesTo(handle[h], i) /\ ~WritesTo(r, i) BY <1>2, <2>1, <2>2 DEF WritesTo
    <3>4. handle \in [Handles -> {NoHandle} \cup ReaderHandle \cup WriterHandle] BY DEF TypeOK
    <3>5. Flushed(w) = Handed(content[i], handle[h]) BY <2>1, <2>2, FlushedIsHanded
    <3> QED BY <3>2, <3>3, <3>4, <3>5, WriterLeaves
  <2>8. handle[h] \in WriterHandle /\ i = handle[h].ino BY <2>1, <2>2, <2>3
  <2>9. r.kind = "writer" => r.ino = i BY <1>2, <2>8
  <2>10. PICK c, m : c = Flushed(w) /\ m = meant[i] OBVIOUS
  <2>11. /\ handle' = [handle EXCEPT ![h] = r] /\ content' = [content EXCEPT ![i] = c]
         /\ meant' = [meant EXCEPT ![i] = m] /\ shared' = shared
         /\ i \notin shared => KeptFile(i, [handle EXCEPT ![h] = r], c, m)
    BY <2>5, <2>6, <2>7, <2>10
  <2>12. TypeOK /\ WritersInv /\ h \in Handles OBVIOUS
  <2> QED BY ONLY <2>8, <2>9, <2>11, <2>12, OneWriter, Zenon
<1> QED BY <1>1, <1>2

LEMMA WritersStep == TypeOK /\ WritersInv /\ [Next]_vars => WritersInv'
<1> SUFFICES ASSUME TypeOK, WritersInv, [Next]_vars PROVE WritersInv'
  OBVIOUS
<1> USE DEF counts, history
<1>1. ASSUME UNCHANGED <<handle, content, meant, shared>> PROVE WritersInv'
  BY <1>1 DEF WritersInv, KeptFile, WritesTo
<1>2. ASSUME NEW h \in Handles, NEW p \in Paths, NEW mode \in Modes, OpenReader(h, p, mode)
      PROVE  WritersInv'
  <2>1. handle[h].kind = "none" BY <1>2 DEF OpenReader, NextOpen, Kind
  <2>2. UNCHANGED <<content, meant, shared>> BY <1>2 DEF OpenReader
  <2>3. CASE handle' = handle BY <1>1, <2>2, <2>3
  <2>4. ASSUME NEW data, NEW file, handle' = [handle EXCEPT ![h] = Reader(data, file)]
        PROVE  WritersInv'
    <3>1. Reader(data, file).kind # "writer" BY DEF Reader
    <3> QED BY <2>1, <2>2, <2>4, <3>1, NoWriter
  <2> QED BY <1>2, <2>3, <2>4 DEF OpenReader
<1>3. ASSUME NEW h \in Handles, NEW p \in Paths, NEW mode \in Modes, OpenWriter(h, p, mode)
      PROVE  WritersInv'
  <2> DEFINE emptied == "app" \notin mode \/ dir[p] = None
  <2>1. PICK i \in Inodes :
          /\ dir[p] = None => Writers(i) = {}
          /\ handle' = [handle EXCEPT ![h] = Writer(i, "app" \in mode)]
          /\ content' = [content EXCEPT ![i] = IF emptied THEN <<>> ELSE content[i]]
          /\ meant' = [meant EXCEPT ![i] = IF emptied THEN <<>> ELSE meant[i]]
          /\ shared' = CASE dir[p] = None -> shared \ {i}
                         [] dir[p] # None /\ Writers(i) # {} -> shared \cup {i}
                         [] OTHER -> shared
    BY <1>3 DEF OpenWriter
  <2>2. PICK r : r = Writer(i, "app" \in mode) OBVIOUS
  <2>3. r.ino = i /\ r.out = <<>> BY <2>2 DEF Writer
  <2>4. handle[h].kind = "none" BY <1>3 DEF OpenWriter, NextOpen, Kind
  <2>5. handle \in [Handles -> {NoHandle} \cup ReaderHandle \cup WriterHandle] BY DEF TypeOK
  <2>6. SUFFICES ASSUME NEW j \in Inodes, j \notin shared'
                 PROVE  KeptFile(j, [handle EXCEPT ![h] = r], content'[j], meant'[j])
    BY <2>1, <2>2 DEF WritersInv
  <2>7. CASE j # i
    <3>1. j \notin shared BY <2>1, <2>6, <2>7
    <3>2. KeptFile(j, handle, content[j], meant[j]) BY <3>1 DEF WritersInv
    <3>3. ~WritesTo(handle[h], j) /\ ~WritesTo(r, j) BY <2>3, <2>4, <2>7 DEF WritesTo
    <3>4. content'[j] = content[j] /\ meant'[j] = meant[j] BY <2>1, <2>7 DEF TypeOK
    <3> QED BY <2>5, <3>2, <3>3, <3>4, OtherFile
  <2>8. CASE j = i
    <3>1. Writers(i) = {} BY <2>1, <2>6, <2>8
    <3>2. \A k \in Handles : ~WritesTo(handle[k], i)
      BY <3>1 DEF Writers, WritesTo, isOpen, Kind
    <3>3. emptied \/ content[i] = meant[i]
      <4>1. CASE dir[p] = None BY <4>1
      <4>2. CASE dir[p] # None
        <5>1. i \notin shared BY <2>1, <2>6, <2>8, <3>1, <4>2
        <5>2. KeptFile(i, handle, content[i], meant[i]) BY <5>1 DEF WritersInv
        <5> QED BY <3>2, <5>2 DEF KeptFile
      <4> QED BY <4>1, <4>2
    <3>4. /\ content'[i] = IF emptied THEN <<>> ELSE content[i]
          /\ meant'[i] = IF emptied THEN <<>> ELSE meant[i]
      BY <2>1 DEF TypeOK
    <3> HIDE DEF emptied
    <3>5. content'[i] = meant'[i] BY <3>3, <3>4
    <3>6. KeptFile(i, [handle EXCEPT ![h] = r], content'[i], content'[i])
      BY <2>3, <2>5, <3>2, WriterComes
    <3> QED BY <2>8, <3>5, <3>6
  <2> QED BY <2>7, <2>8
<1>4. ASSUME NEW h \in Handles, NEW extent \in Sizes, Read(h, extent)
      PROVE  WritersInv'
  <2>1. handle[h].kind = "reader" BY <1>4 DEF Read, Kind
  <2>2. PICK position : handle' = [handle EXCEPT ![h] = [handle[h] EXCEPT !.position = position]]
    BY <1>4 DEF Read
  <2>3. [handle[h] EXCEPT !.position = position].kind # "writer" BY <2>1
  <2>4. UNCHANGED <<content, meant, shared>> BY <1>4 DEF Read
  <2> QED BY <2>1, <2>2, <2>3, <2>4, NoWriter
<1>5. ASSUME NEW h \in Handles, NEW b \in Byte, Write(h, b)
      PROVE  WritersInv'
  <2>1. PICK w : w = handle[h] OBVIOUS
  <2>2. PICK i : i = w.ino OBVIOUS
  <2>3. w \in WriterHandle /\ w.kind = "writer" /\ w.open
    BY <1>5, <2>1, KindOfHandle DEF Write, isOpen, Kind
  <2>4. PICK given : given = [w EXCEPT !.out = Append(w.out, b)] OBVIOUS
  <2>5. given \in WriterHandle
    <3>1. Append(w.out, b) \in Seq(Byte) BY <2>3 DEF WriterHandle
    <3> QED BY <2>3, <2>4, <3>1 DEF WriterHandle
  <2>6. /\ given.kind = "writer" /\ given.open = w.open /\ given.ino = i
        /\ Drained(given).kind = "writer" /\ Drained(given).open = w.open
        /\ Drained(given).ino = i /\ Drained(given).out = <<>>
    BY <2>2, <2>3, <2>4, <2>5, DrainedWriter DEF WriterHandle
  <2>7. i \in Inodes /\ content[i] \in Seq(Byte) BY <2>2, <2>3 DEF WriterHandle, TypeOK
  <2>8. PICK m : m = IF w.append THEN Append(meant[i], b)
                     ELSE Put(meant[i], w.at + Len(w.out), <<b>>)
    OBVIOUS
  <2>9. meant' = [meant EXCEPT ![i] = m] /\ shared' = shared
    BY <1>5, <2>1, <2>2, <2>8 DEF Write
  <2>10. Flushed(given) = Handed(content[i], given) BY <2>6, FlushedIsHanded
  <2>11. handle \in [Handles -> {NoHandle} \cup ReaderHandle \cup WriterHandle] BY DEF TypeOK
  <2>12. WritesTo(w, i) /\ WritesTo(given, i) /\ WritesTo(Drained(given), i)
    BY <2>2, <2>3, <2>6 DEF WritesTo
  <2>13. ASSUME i \notin shared
         PROVE  /\ KeptFile(i, handle, content[i], meant[i])
                /\ m = Handed(content[i], given)
    <3>1. KeptFile(i, handle, content[i], meant[i]) BY <2>7, <2>13 DEF WritersInv
    <3>2. meant[i] = Handed(content[i], w) BY <2>1, <2>12, <3>1 DEF KeptFile
    <3>3. Handed(content[i], given) = IF w.append THEN Append(meant[i], b)
                                      ELSE Put(meant[i], w.at + Len(w.out), <<b>>)
      BY <2>3, <2>4, <2>7, <3>2, HandedAppend
    <3> QED BY <2>8, <3>1, <3>3
  <2>14. CASE handle' = [handle EXCEPT ![h] = given] /\ UNCHANGED content
    <3>1. content' = [content EXCEPT ![i] = content[i]] BY <2>14 DEF TypeOK
    <3>2. i \notin shared => KeptFile(i, [handle EXCEPT ![h] = given], content[i], m)
      BY <2>1, <2>11, <2>12, <2>13, WriterGoesOn
    <3> QED BY <2>1, <2>2, <2>3, <2>6, <2>9, <2>14, <3>1, <3>2, OneWriter
  <2>15. CASE /\ handle' = [handle EXCEPT ![h] = Drained(given)]
              /\ content' = [content EXCEPT ![i] = Flushed(given)]
    <3>1. Handed(Flushed(given), Drained(given)) = Flushed(given) BY <2>6 DEF Handed
    <3>2. i \notin shared => KeptFile(i, [handle EXCEPT ![h] = Drained(given)], Flushed(given), m)
      BY <2>1, <2>10, <2>11, <2>12, <2>13, <3>1, WriterGoesOn
    <3> QED BY <2>1, <2>2, <2>3, <2>6, <2>9, <2>15, <3>2, OneWriter
  <2>16. \/ handle' = [handle EXCEPT ![h] = given] /\ UNCHANGED content
         \/ /\ handle' = [handle EXCEPT ![h] = Drained(given)]
            /\ content' = [content EXCEPT ![i] = Flushed(given)]
    BY <1>5, <2>1, <2>2, <2>4 DEF Write
  <2> QED BY <2>14, <2>15, <2>16
<1>6. ASSUME NEW h \in Handles, NEW way \in {"cur", "set", "end"}, NEW to \in Distances,
             SeekReader(h, way, to)
      PROVE  WritersInv'
  <2>1. handle[h].kind = "reader" BY <1>6 DEF SeekReader, Kind
  <2>2. PICK position : handle' = [handle EXCEPT ![h] = [handle[h] EXCEPT !.position = position]]
    BY <1>6 DEF SeekReader
  <2>3. [handle[h] EXCEPT !.position = position].kind # "writer" BY <2>1
  <2>4. UNCHANGED <<content, meant, shared>> BY <1>6 DEF SeekReader
  <2> QED BY <2>1, <2>2, <2>3, <2>4, NoWriter
<1>7. ASSUME NEW h \in Handles, NEW way \in {"cur", "set", "end"}, NEW to \in Distances,
             SeekWriter(h, way, to)
      PROVE  WritersInv'
  <2>1. PICK w : w = handle[h] OBVIOUS
  <2>2. PICK i : i = w.ino OBVIOUS
  <2>3. w \in WriterHandle /\ w.kind = "writer" /\ w.open
    BY <1>7, <2>1, KindOfHandle DEF SeekWriter, isOpen, Kind
  <2>4. PICK at : handle' = [handle EXCEPT ![h] = [Drained(w) EXCEPT !.at = at]]
    BY <1>7, <2>1 DEF SeekWriter
  <2>5. PICK r : r = [Drained(w) EXCEPT !.at = at] OBVIOUS
  <2>6. /\ Drained(w).kind = "writer" /\ Drained(w).open = w.open
        /\ Drained(w).ino = i /\ Drained(w).out = <<>>
    BY <2>2, <2>3, DrainedWriter DEF WriterHandle
  <2>7. r.kind = "writer" /\ r.open = w.open /\ r.ino = i /\ r.out = <<>>
    <3>1. PICK d : d = Drained(w) OBVIOUS
    <3>2. r = [d EXCEPT !.at = at] BY <2>5, <3>1
    <3>3. Drained(w) \in WriterHandle BY <2>3, FlushedSeq
    <3>4. r.kind = d.kind /\ r.open = d.open /\ r.ino = d.ino /\ r.out = d.out
      BY <3>1, <3>2, <3>3 DEF WriterHandle
    <3> QED BY <2>6, <3>1, <3>4
  <2>8. i \in Inodes BY <2>2, <2>3 DEF WriterHandle
  <2>9. content' = [content EXCEPT ![i] = Flushed(w)] /\ meant' = meant /\ shared' = shared
    BY <1>7, <2>1, <2>2 DEF SeekWriter, Drained
  <2>10. meant' = [meant EXCEPT ![i] = meant[i]] BY <2>9 DEF TypeOK
  <2>11. i \notin shared => KeptFile(i, [handle EXCEPT ![h] = r], Flushed(w), meant[i])
    <3>1. SUFFICES ASSUME i \notin shared
                   PROVE  KeptFile(i, [handle EXCEPT ![h] = r], Flushed(w), meant[i])
      OBVIOUS
    <3>2. KeptFile(i, handle, content[i], meant[i]) BY <2>8, <3>1 DEF WritersInv
    <3>3. WritesTo(w, i) /\ WritesTo(r, i) BY <2>2, <2>3, <2>7 DEF WritesTo
    <3>4. meant[i] = Flushed(w)
      <4>1. meant[i] = Handed(content[i], w) BY <2>1, <3>2, <3>3 DEF KeptFile
      <4> QED BY <2>2, <4>1, FlushedIsHanded
    <3>5. Handed(Flushed(w), r) = Flushed(w) BY <2>7 DEF Handed
    <3>6. handle \in [Handles -> {NoHandle} \cup ReaderHandle \cup WriterHandle] BY DEF TypeOK
    <3> QED BY <2>1, <3>2, <3>3, <3>4, <3>5, <3>6, WriterGoesOn
  <2>12. PICK c, m : c = Flushed(w) /\ m = meant[i] OBVIOUS
  <2>13. /\ handle[h] \in WriterHandle /\ i = handle[h].ino /\ r.ino = i
         /\ handle' = [handle EXCEPT ![h] = r] /\ content' = [content EXCEPT ![i] = c]
         /\ meant' = [meant EXCEPT ![i] = m] /\ shared' = shared
         /\ i \notin shared => KeptFile(i, [handle EXCEPT ![h] = r], c, m)
    BY <2>1, <2>2, <2>3, <2>4, <2>5, <2>7, <2>9, <2>10, <2>11, <2>12
  <2> QED BY <2>13, OneWriter
<1>8. ASSUME NEW h \in Handles, Close(h)
      PROVE  WritersInv'
  <2>1. PICK w : w = handle[h] OBVIOUS
  <2>2. PICK r : r = Closed(h) OBVIOUS
  <2>3. isOpen(h) /\ w.open BY <1>8, <2>1 DEF Close, isOpen
  <2>4. /\ r.kind = "writer" => ~r.open
        /\ w.kind = "writer" /\ r.kind = "writer" => r.ino = w.ino
    <3>1. CASE w.kind = "reader"
      <4>1. r = [w EXCEPT !.open = FALSE, !.data = <<>>, !.position = 0]
        BY <2>1, <2>2, <3>1 DEF Closed, Kind
      <4>2. w \in ReaderHandle BY <2>1, <3>1, KindOfHandle DEF Kind
      <4> QED BY <3>1, <4>1, <4>2 DEF ReaderHandle
    <3>2. CASE w.kind = "writer"
      <4>1. w \in WriterHandle BY <2>1, <3>2, KindOfHandle DEF Kind
      <4>2. PICK d : d = Drained(w) OBVIOUS
      <4>3. d \in WriterHandle /\ d.ino = w.ino
        BY <4>1, <4>2, FlushedSeq, DrainedWriter DEF WriterHandle
      <4>4. r = [d EXCEPT !.open = FALSE] BY <2>1, <2>2, <3>2, <4>2 DEF Closed, Kind
      <4> QED BY <4>3, <4>4 DEF WriterHandle
    <3> QED BY <2>1, <2>3, <3>1, <3>2, KindOfHandle DEF isOpen, Kind
  <2>5. handle' = [handle EXCEPT ![h] = r] /\ UNCHANGED <<meant, shared>>
    BY <1>8, <2>2 DEF Close
  <2>6. content' = IF w.kind = "writer" /\ w.open
                   THEN [content EXCEPT ![w.ino] = Flushed(w)] ELSE content
    BY <1>8, <2>1, <2>3 DEF Close, Kind
  <2> QED BY <2>1, <2>4, <2>5, <2>6, WriterGone
<1>9. ASSUME NEW h \in Handles, Dispose(h)
       PROVE  WritersInv'
  <2>1. NoHandle.kind # "writer" BY DEF NoHandle
  <2>2. /\ handle' = [handle EXCEPT ![h] = NoHandle] /\ UNCHANGED <<meant, shared>>
        /\ content' = IF handle[h].kind = "writer" /\ handle[h].open
                      THEN [content EXCEPT ![handle[h].ino] = Flushed(handle[h])] ELSE content
    BY <1>9 DEF Dispose, isOpen, Kind
  <2> QED BY <2>1, <2>2, WriterGone
<1>10. ASSUME NEW p \in Paths, NEW q \in Paths, RemoveFile(p) \/ RenameFile(p, q)
       PROVE  WritersInv'
  BY <1>1, <1>10 DEF RemoveFile, RenameFile
<1>11. CASE Killed
  <2>1. SUFFICES ASSUME NEW i \in Inodes, i \notin shared'
                 PROVE  KeptFile(i, handle', content[i], meant[i])
    BY <1>11 DEF Killed, WritersInv
  <2>2. i \notin shared BY <1>11, <2>1 DEF Killed
  <2>3. KeptFile(i, handle, content[i], meant[i]) BY <2>2 DEF WritersInv
  <2>4. \A k \in Handles : handle'[k].kind = "none" BY <1>11 DEF Killed, NoHandle
  <2>5. content[i] = meant[i]
    <3>1. CASE \A k \in Handles : ~WritesTo(handle[k], i) BY <2>3, <3>1 DEF KeptFile
    <3>2. ASSUME NEW k \in Handles, WritesTo(handle[k], i) PROVE content[i] = meant[i]
      <4>1. handle[k].out = <<>> BY <1>11, <2>1, <3>2 DEF Killed, WritesTo, Kind
      <4>2. meant[i] = Handed(content[i], handle[k]) BY <2>3, <3>2 DEF KeptFile
      <4> QED BY <4>1, <4>2 DEF Handed
    <3> QED BY <3>1, <3>2
  <2> QED BY <2>4, <2>5 DEF KeptFile, WritesTo
<1>12. CASE UNCHANGED vars
  BY <1>1, <1>12 DEF vars
<1> QED
  BY <1>2, <1>3, <1>4, <1>5, <1>6, <1>7, <1>8, <1>9, <1>10, <1>11, <1>12 DEF Next, Call

\* FileHandleWriter (filesystem.cpp:179): a file that no open handle writes to is on
\* the host as it was written, for every interleaving of writes, seeks, closes,
\* disposals, removals and kills, and however the stream was emptied; the files two
\* handles wrote to at a time, or a kill took bytes of, excepted.
THEOREM WritersKeepTheFile == Spec => []FilesAsWritten
<1>1. Init => WritersInv
  <2>1. SUFFICES ASSUME Init, NEW i \in Inodes PROVE KeptFile(i, handle, content[i], meant[i])
    BY DEF WritersInv
  <2>2. \A h \in Handles : ~WritesTo(handle[h], i) BY <2>1 DEF Init, WritesTo, NoHandle
  <2>3. content[i] = meant[i] BY <2>1 DEF Init
  <2> QED BY <2>2, <2>3 DEF KeptFile
<1>2. WritersInv => FilesAsWritten
  <2>1. SUFFICES ASSUME WritersInv, NEW i \in Inodes \ shared, Writers(i) = {}
                 PROVE  content[i] = meant[i]
    BY DEF FilesAsWritten
  <2>2. \A h \in Handles : ~WritesTo(handle[h], i)
    BY <2>1 DEF Writers, WritesTo, isOpen, Kind
  <2> QED BY <2>1, <2>2 DEF WritersInv, KeptFile
<1>3. TypeOK /\ WritersInv /\ [Next]_vars => WritersInv' BY WritersStep
<1> QED BY <1>1, <1>2, <1>3, TypeCorrect, PTL DEF Spec

-----------------------------------------------------------------------------
(* The drive *)

\* The host file holds what was last meant to be in it, except while the destructor
\* has emptied it (drive.cpp:28).
HostFile == phase # "closing" => disk = saved

DriveInv == DriveTypeOK /\ HostFile

Data(n) == [0..(n - 1) -> DriveByte]

\* A tier's capacity is an int (getCapacity).
LEMMA CapacityFits == \A t \in Tiers : Capacity(t) \in 0..DriveMaxInt
  <1> SUFFICES ASSUME NEW t \in Tiers PROVE Capacity(t) \in 0..DriveMaxInt
    OBVIOUS
  <1>1. Sectors(t) \in Nat /\ SectorSize \in Nat /\ DriveMaxInt \in Nat
        /\ Sectors(t) * SectorSize <= DriveMaxInt
    BY DriveAssumption
  <1>2. Sectors(t) * SectorSize \in Nat
    BY <1>1
  <1> QED
    BY <1>1, <1>2 DEF Capacity

\* Wrapping gives an integer.
LEMMA WrapIsInt == \A n \in Int : DriveWrap(n) \in Int
  BY DriveAssumption DEF DriveWrap

\* Cutting, filling and storing keep cells cells (vector::resize, vector's copy).
LEMMA CellsStayCells ==
  ASSUME NEW cells \in DriveCells
  PROVE  /\ \A n \in Int : DriveResized(cells, n) \in DriveCells
         /\ \A len \in Int, offset \in Int, n \in Nat : \A data \in Data(n) :
              Stored(cells, len, offset, n, data) \in DriveCells
  <1>1. \A n \in Int : DriveResized(cells, n) \in DriveCells
    BY DriveAssumption DEF DriveResized, DriveCells
  <1>2. ASSUME NEW len \in Int, NEW offset \in Int, NEW n \in Nat, NEW data \in Data(n)
        PROVE  Stored(cells, len, offset, n, data) \in DriveCells
    <2>1. ASSUME NEW o \in 0..DriveMaxInt, o \in offset..(offset + n - 1)
          PROVE  data[o - offset] \in DriveByte
      <3>1. o - offset \in 0..(n - 1)
        BY <2>1, DriveAssumption
      <3> QED
        BY <3>1 DEF Data
    <2> QED
      BY <2>1 DEF Stored, DriveCells
  <1> QED
    BY <1>1, <1>2

\* A sector's string is of its size.
LEMMA SectorDataIsData == SectorData \subseteq Data(SectorSize)
  BY DriveAssumption DEF SectorData, Data

\* A write keeps the buffer, and only an assertion ends the process (write).
LEMMA DriveWriteKeeps ==
  ASSUME DriveInv, phase = "on", NEW offset \in Int, NEW n \in Nat, NEW data \in Data(n),
         DriveWrite(offset, n, data)
  PROVE  /\ _buffer' \in DriveCells /\ phase' \in {"on", "aborted"}
         /\ UNCHANGED <<tier, size, disk, boots, saved>>
  <1>1. size \in Int /\ _buffer \in DriveCells
    BY DriveAssumption DEF DriveInv, DriveTypeOK
  <1>2. Stored(_buffer, size, offset, n, data) \in DriveCells
    BY <1>1, CellsStayCells
  <1> QED
    BY <1>1, <1>2 DEF DriveWrite, Asserted

\* Lua's calls keep the invariant.
LEMMA LuaKeeps == DriveInv /\ Lua => DriveInv'
  <1> SUFFICES ASSUME DriveInv, NEW a \in Arguments,
                      \/ \E b \in DriveByte : WriteByte(a, b)
                      \/ \E d \in SectorData : WriteSector(a, d)
                      \/ ReadByte(a) \/ ReadSector(a)
               PROVE  DriveInv'
    BY DEF Lua
  <1>1. a \in Int /\ SectorSize \in Nat /\ DriveMaxInt \in Nat
    BY DriveAssumption
  <1>2. ASSUME NEW b \in DriveByte, WriteByte(a, b) PROVE DriveInv'
    <2>1. [o \in {0} |-> b] \in Data(1)
      BY DEF Data
    <2>2. /\ _buffer' \in DriveCells /\ phase' \in {"on", "aborted"}
          /\ UNCHANGED <<tier, size, disk, boots, saved>>
      BY <1>1, <1>2, <2>1, DriveWriteKeeps DEF WriteByte
    <2>3. memory' \in DriveCells /\ wrapped' \in BOOLEAN
      BY <1>2, <2>2 DEF WriteByte, DriveInv, DriveTypeOK, DriveCells
    <2> QED
      BY <1>2, <2>2, <2>3 DEF DriveInv, DriveTypeOK, HostFile, WriteByte, Capacity
  <1>3. ASSUME NEW d \in SectorData, WriteSector(a, d) PROVE DriveInv'
    <2> DEFINE sector == DriveWrap(a - 1)
    <2>1. sector \in Int
      BY <1>1, WrapIsInt
    <2>2. sector * SectorSize \in Int
      BY <1>1, <2>1
    <2> HIDE DEF sector
    <2>3. d \in Data(SectorSize)
      BY SectorDataIsData
    <2>4. /\ _buffer' \in DriveCells /\ phase' \in {"on", "aborted"}
          /\ UNCHANGED <<tier, size, disk, boots, saved>>
      BY <1>1, <1>3, <2>2, <2>3, WrapIsInt, DriveWriteKeeps DEF WriteSector, sector
    <2>5. Capacity(tier) \in Int /\ memory \in DriveCells
      BY CapacityFits DEF DriveInv, DriveTypeOK
    <2>6. Stored(memory, Capacity(tier), sector * SectorSize, SectorSize, d) \in DriveCells
      BY <1>1, <2>2, <2>3, <2>5, CellsStayCells
    <2>7. memory' \in DriveCells
      BY <1>3, <2>4, <2>6 DEF WriteSector, sector
    <2>8. wrapped' \in BOOLEAN
      BY <1>3 DEF WriteSector, DriveInv, DriveTypeOK
    <2>9. phase = "on"
      BY <1>3 DEF WriteSector
    <2> QED
      BY <2>4, <2>7, <2>8, <2>9 DEF DriveInv, DriveTypeOK, HostFile, Capacity
  <1>4. CASE ReadByte(a) \/ ReadSector(a)
    <2>1. phase = "on" /\ phase' = "aborted"
          /\ UNCHANGED <<tier, size, _buffer, disk, boots, memory, wrapped, saved>>
      BY <1>4 DEF ReadByte, ReadSector, DriveRead
    <2> QED
      BY <2>1 DEF DriveInv, DriveTypeOK, HostFile
  <1> QED
    BY <1>2, <1>3, <1>4

\* Making and destroying the component keep it, a kill in between included.
LEMMA DriveInvStep == DriveInv /\ [DriveNext]_driveVars => DriveInv'
  <1> SUFFICES ASSUME DriveInv, [DriveNext]_driveVars PROVE DriveInv'
    OBVIOUS
  <1>0. Zeros \in DriveCells /\ 0 \in 0..DriveMaxInt
    BY DriveAssumption DEF Zeros, DriveCells
  <1>1. ASSUME NEW t \in Tiers, Load(t) PROVE DriveInv'
    <2>1. Capacity(t) \in 0..DriveMaxInt
      BY CapacityFits
    <2>2. DriveResized(disk.cells, Capacity(t)) \in DriveCells
      BY <2>1, CellsStayCells, DriveAssumption DEF DriveInv, DriveTypeOK
    <2>3. boots' \in 0..MaxBoots
      BY <1>1, DriveAssumption DEF Load, DriveInv, DriveTypeOK
    <2> QED
      BY <1>1, <2>1, <2>2, <2>3 DEF Load, DriveInv, DriveTypeOK, HostFile, Capacity
  <1>2. CASE LoadFailed
    <2>1. boots' \in 0..MaxBoots
      BY <1>2, DriveAssumption DEF LoadFailed, DriveInv, DriveTypeOK
    <2> QED
      BY <1>0, <1>2, <2>1 DEF LoadFailed, DriveInv, DriveTypeOK, HostFile, File
  <1>3. CASE EmptyFile
    BY <1>0, <1>3 DEF EmptyFile, DriveInv, DriveTypeOK, HostFile, File
  <1>4. CASE WriteFile
    BY <1>4 DEF WriteFile, DriveInv, DriveTypeOK, HostFile, File
  <1>5. CASE DriveKilled
    BY <1>5 DEF DriveKilled, DriveInv, DriveTypeOK, HostFile
  <1>6. CASE Lua
    BY <1>6, LuaKeeps
  <1>7. CASE UNCHANGED driveVars
    BY <1>7 DEF driveVars, DriveInv, DriveTypeOK, HostFile, Capacity
  <1> QED
    BY <1>1, <1>2, <1>3, <1>4, <1>5, <1>6, <1>7 DEF DriveNext

\* A drive that was never made satisfies it.
LEMMA DriveInvInit == DriveInit => DriveInv
  <1>1. Zeros \in DriveCells /\ 0 \in 0..DriveMaxInt /\ 0 \in 0..MaxBoots
    BY DriveAssumption DEF Zeros, DriveCells
  <1>2. File(0, Zeros) \in [len : 0..DriveMaxInt, cells : DriveCells]
    BY <1>1 DEF File
  <1> QED
    BY <1>1, <1>2 DEF DriveInit, DriveInv, DriveTypeOK, HostFile

\* Types, and the buffer's length: it has the capacity of the drive's tier whatever
\* the host file holds, through every mix of calls, assertions and kills
\* (drive.cpp:130, 134).
THEOREM DriveTypeCorrect == DriveSpec => []DriveTypeOK
  <1>1. DriveInv => DriveTypeOK
    BY DEF DriveInv
  <1> QED
    BY <1>1, DriveInvInit, DriveInvStep, PTL DEF DriveSpec

\* Making the drive finds what it was last meant to leave.
LEMMA LoadFinds ==
  DriveInv /\ [DriveNext]_driveVars =>
    [phase = "off" /\ phase' = "on" /\ saved.len <= Capacity(tier')
       => \A o \in 0..(saved.len - 1) : _buffer'[o] = saved.cells[o]]_driveVars
  <1> SUFFICES ASSUME DriveInv, DriveNext, phase = "off", phase' = "on",
                      saved.len <= Capacity(tier'), NEW o \in 0..(saved.len - 1)
               PROVE  _buffer'[o] = saved.cells[o]
    BY DEF driveVars
  <1>1. PICK t \in Tiers : Load(t)
    <2>1. ~LoadFailed /\ ~EmptyFile /\ ~WriteFile /\ ~DriveKilled
      BY DEF LoadFailed, EmptyFile, WriteFile, DriveKilled
    <2>2. ~Lua
      BY DEF Lua, WriteByte, WriteSector, ReadByte, ReadSector, DriveRead
    <2> QED
      BY <2>1, <2>2 DEF DriveNext
  <1>2. saved.len \in 0..DriveMaxInt /\ Capacity(t) \in 0..DriveMaxInt /\ DriveMaxInt \in Nat
    BY CapacityFits, DriveAssumption DEF DriveInv, DriveTypeOK
  <1>3. o \in 0..DriveMaxInt /\ o < Capacity(t)
    <2>1. tier' = t
      BY <1>1 DEF Load
    <2> QED
      BY <1>2, <2>1
  <1>4. _buffer'[o] = disk.cells[o]
    BY <1>1, <1>3 DEF Load, DriveResized
  <1>5. disk = saved
    BY DEF DriveInv, HostFile
  <1> QED
    BY <1>4, <1>5

\* What was in the drive when it was destroyed in good order is there when it is made
\* again for a tier that is no lower (drive.cpp:26, 116), however often the process
\* was killed or failed an assertion meanwhile.
THEOREM DriveFoundAsLeft == DriveSpec => FoundAsLeft
  BY DriveInvInit, DriveInvStep, LoadFinds, PTL DEF DriveSpec, FoundAsLeft

-----------------------------------------------------------------------------
(* What Lua writes *)

\* An offset that is an int does not wrap.
LEMMA WrapInRange == \A n \in 0..DriveMaxInt : DriveWrap(n) = n
  <1> SUFFICES ASSUME NEW n \in 0..DriveMaxInt PROVE DriveWrap(n) = n
    OBVIOUS
  <1>1. DriveMaxInt \in Nat /\ n \in Nat /\ n <= DriveMaxInt
    BY DriveAssumption
  <1>2. PICK w \in Nat, m \in Nat \ {0} :
          w = n + DriveMaxInt + 1 /\ m = 2 * DriveMaxInt + 2 /\ w < m
    BY <1>1
  <1>3. w % m = w
    BY <1>2
  <1> QED
    BY <1>1, <1>2, <1>3 DEF DriveWrap

\* A product is not smaller when a factor is not.
LEMMA ProductGrows ==
  ASSUME NEW a \in Nat, NEW b \in Nat, NEW n \in Nat, a <= b
  PROVE  a * n <= b * n
  <1>1. PICK d \in Nat : b = a + d
    <2>1. b - a \in Nat /\ b = a + (b - a)
      OBVIOUS
    <2> QED
      BY <2>1
  <1>2. b * n = a * n + d * n /\ a * n \in Nat /\ d * n \in Nat
    BY <1>1
  <1> QED
    BY <1>2

\* A byte whose sector is accepted is in the buffer: the sector's end is, too.
LEMMA ByteInside ==
  ASSUME NEW t \in Tiers, NEW offset \in 0..DriveMaxInt,
         DriveWrap(SectorOf(offset) * SectorSize) < Capacity(t)
  PROVE  offset < Capacity(t)
  <1>1. /\ SectorSize \in Nat \ {0} /\ DriveMaxInt \in Nat /\ Sectors(t) \in Nat
        /\ offset \in Nat /\ offset <= DriveMaxInt
    BY DriveAssumption
  <1>2. PICK q \in Nat : /\ q = offset \div SectorSize
                        /\ q * SectorSize <= offset /\ offset < q * SectorSize + SectorSize
    BY <1>1
  <1>3. SectorOf(offset) = q
    BY <1>1, <1>2 DEF SectorOf
  <1>4. PICK p \in Nat : p = q * SectorSize
    BY <1>1
  <1>5. DriveWrap(p) = p
    <2>1. p \in 0..DriveMaxInt
      BY <1>1, <1>2, <1>4
    <2> QED
      BY <2>1, WrapInRange
  <1>6. p < Sectors(t) * SectorSize
    BY <1>3, <1>4, <1>5 DEF Capacity
  <1>7. q < Sectors(t)
    <2>1. Sectors(t) <= q => Sectors(t) * SectorSize <= q * SectorSize
      BY <1>1, ProductGrows
    <2>2. Sectors(t) * SectorSize \in Nat
      BY <1>1
    <2> QED
      BY <1>1, <1>4, <1>6, <2>1, <2>2
  <1>8. (q + 1) * SectorSize <= Sectors(t) * SectorSize
    <2>1. q + 1 \in Nat /\ q + 1 <= Sectors(t)
      BY <1>1, <1>7
    <2> QED
      BY <1>1, <2>1, ProductGrows
  <1>9. (q + 1) * SectorSize = p + SectorSize
    BY <1>1, <1>4
  <1> QED
    BY <1>1, <1>2, <1>4, <1>8, <1>9 DEF Capacity

LEMMA ByteWritten ==
  ASSUME DriveInv, WritesWhereAsked, NEW a \in Arguments, NEW b \in DriveByte, WriteByte(a, b)
  PROVE  WritesWhereAsked'
  <1> SUFFICES ASSUME phase' = "on", ~wrapped' PROVE _buffer' = memory'
    BY DEF WritesWhereAsked
  <1>1. /\ phase = "on" /\ ~wrapped /\ a >= 0 /\ a \in 0..DriveMaxInt /\ _buffer = memory
    <2>1. phase = "on" /\ ~wrapped /\ _buffer = memory
      BY DEF WriteByte, WritesWhereAsked
    <2>2. a >= 0
      BY DEF WriteByte, DriveWrite, Asserted
    <2>3. a \in (-DriveMaxInt - 1)..DriveMaxInt /\ DriveMaxInt \in Nat
      BY DriveAssumption
    <2> QED
      BY <2>1, <2>2, <2>3
  <1>2. size = Capacity(tier) /\ tier \in Tiers /\ _buffer \in DriveCells
    BY <1>1 DEF DriveInv, DriveTypeOK
  <1>3. a < size
    <2>1. DriveWrap(SectorOf(a) * SectorSize) < Capacity(tier)
      BY DEF WriteByte, Valid
    <2> QED
      BY <1>1, <1>2, <2>1, ByteInside
  <1>4. ~(a < 0)
    BY <1>1
  <1>5. /\ _buffer' = Stored(_buffer, size, a, 1, [o \in {0} |-> b])
        /\ memory' = [memory EXCEPT ![a] = b]
    BY <1>1, <1>4 DEF WriteByte, DriveWrite
  <1>6. ASSUME NEW o \in 0..DriveMaxInt
        PROVE  Stored(_buffer, size, a, 1, [x \in {0} |-> b])[o] = [_buffer EXCEPT ![a] = b][o]
    <2>1. CASE o = a
      <3>1. o \in a..(a + 1 - 1) /\ o < size /\ o - a = 0
        BY <1>1, <1>3, <2>1
      <3>2. Stored(_buffer, size, a, 1, [x \in {0} |-> b])[o] = b
        BY <3>1 DEF Stored
      <3>3. [_buffer EXCEPT ![a] = b][o] = b
        BY <1>1, <1>2, <2>1 DEF DriveCells
      <3> QED
        BY <3>2, <3>3
    <2>2. CASE o # a
      <3>1. o \notin a..(a + 1 - 1)
        BY <1>1, <2>2
      <3>2. Stored(_buffer, size, a, 1, [x \in {0} |-> b])[o] = _buffer[o]
        BY <3>1 DEF Stored
      <3>3. [_buffer EXCEPT ![a] = b][o] = _buffer[o]
        BY <1>2, <2>2 DEF DriveCells
      <3> QED
        BY <3>2, <3>3
    <2> QED
      BY <2>1, <2>2
  <1>7. Stored(_buffer, size, a, 1, [o \in {0} |-> b]) = [_buffer EXCEPT ![a] = b]
    <2>1. PICK f : f = Stored(_buffer, size, a, 1, [o \in {0} |-> b])
      OBVIOUS
    <2>2. PICK g : g = [_buffer EXCEPT ![a] = b]
      OBVIOUS
    <2>3. f \in [0..DriveMaxInt -> DriveByte]
      <3>1. [o \in {0} |-> b] \in Data(1) /\ size \in Int /\ a \in Int
        BY <1>1, DriveAssumption DEF Data, DriveInv, DriveTypeOK
      <3> QED
        BY <1>2, <2>1, <3>1, CellsStayCells DEF DriveCells
    <2>4. g \in [0..DriveMaxInt -> DriveByte]
      BY <1>2, <2>2 DEF DriveCells
    <2>5. \A o \in 0..DriveMaxInt : f[o] = g[o]
      BY <1>6, <2>1, <2>2
    <2> QED
      BY <2>1, <2>2, <2>3, <2>4, <2>5
  <1> QED
    BY <1>1, <1>5, <1>7

LEMMA SectorWritten ==
  ASSUME DriveInv, WritesWhereAsked, NEW a \in Arguments, NEW d \in SectorData,
         WriteSector(a, d)
  PROVE  WritesWhereAsked'
  <1> SUFFICES ASSUME phase' = "on", ~wrapped' PROVE _buffer' = memory'
    BY DEF WritesWhereAsked
  <1>1. a \in Int /\ DriveMaxInt \in Nat /\ SectorSize \in Nat
    BY DriveAssumption
  <1>2. PICK sector \in Int : sector = DriveWrap(a - 1)
    BY <1>1, WrapIsInt
  <1>3. PICK offset \in Int : offset = sector * SectorSize
    BY <1>1, <1>2
  <1>4. /\ phase = "on" /\ sector >= 0
        /\ DriveWrite(DriveWrap(offset), SectorSize, d)
        /\ wrapped' = (wrapped \/ offset > DriveMaxInt)
        /\ memory' = IF wrapped' THEN _buffer'
                     ELSE Stored(memory, Capacity(tier), offset, SectorSize, d)
    BY <1>2, <1>3 DEF WriteSector, Valid
  <1>5. offset \in 0..DriveMaxInt
    <2>1. PICK m \in Nat : m = sector
      BY <1>2, <1>4
    <2>2. m * SectorSize \in Nat
      BY <1>1
    <2>3. offset \in Nat /\ ~(offset > DriveMaxInt)
      BY <1>3, <1>4, <2>1, <2>2
    <2> QED
      BY <1>1, <2>3
  <1>6. DriveWrap(offset) = offset
    BY <1>5, WrapInRange
  <1>7. size = Capacity(tier) /\ _buffer = memory
    BY <1>4 DEF DriveInv, DriveTypeOK, WritesWhereAsked
  <1>8. _buffer' = Stored(_buffer, size, offset, SectorSize, d)
    BY <1>4, <1>5, <1>6 DEF DriveWrite
  <1> QED
    BY <1>4, <1>7, <1>8

LEMMA WritesStep ==
  DriveInv /\ WritesWhereAsked /\ [DriveNext]_driveVars => WritesWhereAsked'
  <1> SUFFICES ASSUME DriveInv, WritesWhereAsked, [DriveNext]_driveVars PROVE WritesWhereAsked'
    OBVIOUS
  <1>1. ASSUME NEW t \in Tiers, Load(t) PROVE WritesWhereAsked'
    BY <1>1 DEF Load, WritesWhereAsked
  <1>2. CASE LoadFailed \/ EmptyFile \/ WriteFile \/ DriveKilled
    BY <1>2 DEF LoadFailed, EmptyFile, WriteFile, DriveKilled, WritesWhereAsked
  <1>3. ASSUME NEW a \in Arguments, ReadByte(a) \/ ReadSector(a) PROVE WritesWhereAsked'
    BY <1>3 DEF ReadByte, ReadSector, DriveRead, WritesWhereAsked
  <1>4. CASE UNCHANGED driveVars
    BY <1>4 DEF driveVars, WritesWhereAsked
  <1> QED
    BY <1>1, <1>2, <1>3, <1>4, ByteWritten, SectorWritten DEF DriveNext, Lua

\* Whatever Lua writes is at the offset it named and nowhere else, for any size of a
\* sector and any capacity, as long as no sector number was so large that its offset
\* wrapped (drive.cpp:41, 94-95).
THEOREM WritesLand == DriveSpec => []WritesWhereAsked
  <1>1. DriveInit => WritesWhereAsked
    BY DEF DriveInit, WritesWhereAsked
  <1> QED
    BY <1>1, DriveInvInit, DriveInvStep, WritesStep, PTL DEF DriveSpec

-----------------------------------------------------------------------------
(* The settings: labels as texts *)

Texts     == Seq(LabelChars)
ReadState == [text : Texts, escaped : BOOLEAN, broken : BOOLEAN]
Unread    == [text |-> <<>>, escaped |-> FALSE, broken |-> FALSE]

LEMMA NextCharType ==
  ASSUME SettingsAssumption, NEW read \in ReadState, NEW c \in LabelChars
  PROVE  NextChar(read, c) \in ReadState
<1>1. read.text \in Texts /\ read.escaped \in BOOLEAN /\ read.broken \in BOOLEAN
  BY DEF ReadState
<1>2. PICK d \in LabelChars : d = IF c \in DOMAIN Escapes THEN Escapes[c] ELSE c
  BY DEF SettingsAssumption
<1>3. Append(read.text, d) \in Texts /\ Append(read.text, c) \in Texts
  BY <1>1, AppendProperties DEF Texts
<1>4. CASE read.escaped
  <2>1. NextChar(read, c) = [text |-> Append(read.text, d), escaped |-> FALSE,
                             broken |-> read.broken \/ c \notin DOMAIN Escapes]
    BY <1>2, <1>4 DEF NextChar
  <2> QED
    BY <1>3, <2>1 DEF ReadState
<1>5. CASE ~read.escaped /\ c = Backslash
  <2>1. NextChar(read, c) = [read EXCEPT !.escaped = TRUE]
    BY <1>5 DEF NextChar
  <2> QED
    BY <2>1 DEF ReadState
<1>6. CASE ~read.escaped /\ c # Backslash
  <2>1. NextChar(read, c) = [text |-> Append(read.text, c), escaped |-> FALSE,
                             broken |-> read.broken \/ c = LineEnd]
    BY <1>6 DEF NextChar
  <2> QED
    BY <1>3, <2>1 DEF ReadState
<1> QED
  BY <1>4, <1>5, <1>6

\* The recursion, place by place.
LEMMA UnquotedStep ==
  ASSUME SettingsAssumption, NEW b \in Texts
  PROVE  /\ Unquoted(b)[0] = Unread
         /\ \A i \in 1..Len(b) : Unquoted(b)[i] = NextChar(Unquoted(b)[i - 1], b[i])
         /\ \A i \in 0..Len(b) : Unquoted(b)[i] \in ReadState
<1> DEFINE F == [x \in Nat \X ReadState |-> IF x[1] \in 1..Len(b) THEN NextChar(x[2], b[x[1]]) ELSE x[2]]
           Is(f) == f = [i \in 0..Len(b) |-> IF i = 0 THEN Unread ELSE NextChar(f[i - 1], b[i])]
<1>0. Len(b) \in Nat /\ Unread \in ReadState /\ \A i \in 1..Len(b) : b[i] \in LabelChars
  BY DEF Unread, ReadState, Texts
<1>1. F \in [Nat \X ReadState -> ReadState]
  <2>1. \A n \in Nat, u \in ReadState :
           (IF n \in 1..Len(b) THEN NextChar(u, b[n]) ELSE u) \in ReadState
    BY <1>0, NextCharType
  <2> QED
    BY <2>1
<1>2. \A i \in 1..Len(b), u \in ReadState : F[<<i, u>>] = NextChar(u, b[i])
  BY <1>0
<1> HIDE DEF F
<1>c. PICK g \in [0..Len(b) -> ReadState] : Follows(g, Unread, Len(b), F)
  BY <1>0, <1>1, StepsExist
<1>3. g[0] = Unread /\ \A i \in 1..Len(b) : g[i] = F[<<i, g[i - 1]>>]
  BY <1>c DEF Follows
<1>4. ASSUME NEW i \in 0..Len(b), i # 0 PROVE g[i] = NextChar(g[i - 1], b[i])
  <2>1. i \in 1..Len(b) /\ i - 1 \in 0..Len(b)
    BY <1>0, <1>4
  <2>2. g[i - 1] \in ReadState
    BY <2>1
  <2> QED
    BY <1>2, <1>3, <2>1, <2>2
<1>5. Is(g)
  BY <1>3, <1>4
<1>6. PICK f : f = Unquoted(b)
  OBVIOUS
<1>7. f = CHOOSE h : Is(h)
  BY <1>6 DEF Unquoted, Unread
<1>8. Is(f)
  BY <1>5, <1>7
<1>9. f[0] = Unread /\ \A i \in 1..Len(b) : f[i] = NextChar(f[i - 1], b[i])
  <2>1. \A i \in 0..Len(b) : f[i] = IF i = 0 THEN Unread ELSE NextChar(f[i - 1], b[i])
    BY <1>8
  <2>2. 0 \in 0..Len(b) /\ \A i \in 1..Len(b) : i \in 0..Len(b) /\ i # 0
    BY <1>0
  <2> QED
    BY <2>1, <2>2
<1>10. \A i \in 0..Len(b) : f[i] \in ReadState
  <2> DEFINE Good == {i \in Nat : i <= Len(b) => f[i] \in ReadState}
  <2>1. 0 \in Good
    BY <1>0, <1>9
  <2>2. ASSUME NEW i \in Nat, i \in Good PROVE i + 1 \in Good
    <3> SUFFICES ASSUME i + 1 <= Len(b) PROVE f[i + 1] \in ReadState
      OBVIOUS
    <3>1. f[i] \in ReadState /\ i + 1 \in 1..Len(b) /\ (i + 1) - 1 = i
      BY <1>0, <2>2
    <3>2. b[i + 1] \in LabelChars
      BY <1>0, <3>1
    <3>3. f[i + 1] = NextChar(f[i], b[i + 1])
      BY <1>9, <3>1
    <3> QED
      BY <3>1, <3>2, <3>3, NextCharType
  <2> HIDE DEF Good
  <2>3. Nat \subseteq Good
    BY <2>1, <2>2, SetInduction
  <2> QED
    BY <1>0, <2>3 DEF Good
<1> QED
  BY <1>6, <1>9, <1>10

\* What is read is a label again.
LEMMA ReadBackType ==
  ASSUME SettingsAssumption, NEW label \in Texts \cup {NoLabel}
  PROVE  ReadBack(label) \in Texts \cup {NoLabel}
<1>1. CASE label = NoLabel
  BY <1>1 DEF ReadBack
<1>2. CASE label # NoLabel /\ ~IsBracketed(label)
  <2>1. label \in Texts /\ Len(label) \in 0..Len(label)
    BY <1>2 DEF Texts
  <2>2. Unquoted(label)[Len(label)] \in ReadState
    BY <2>1, UnquotedStep
  <2>3. ReadBack(label) = Unquoted(label)[Len(label)].text
    BY <1>2 DEF ReadBack
  <2> QED
    BY <2>2, <2>3 DEF ReadState
<1>3. CASE label # NoLabel /\ IsBracketed(label)
  <2>1. label \in Texts /\ label # <<>>
    BY <1>3 DEF IsBracketed
  <2>2. Tail(label) \in Texts
    BY <2>1, HeadTailProperties DEF Texts
  <2>3. ReadBack(label) \in {label, Tail(label)}
    BY <1>3 DEF ReadBack
  <2> QED
    BY <2>1, <2>2, <2>3
<1> QED
  BY <1>1, <1>2, <1>3

\* A plain label is read as it is written.
LEMMA PlainIsRead ==
  ASSUME SettingsAssumption, NEW label \in Texts \cup {NoLabel}, Plain(label)
  PROVE  Legible(label) /\ ReadBack(label) = label
<1>1. CASE label = NoLabel
  BY <1>1 DEF Legible, ReadBack
<1>2. CASE label # NoLabel /\ IsBracketed(label)
  BY <1>2 DEF Plain, Legible, ReadBack
<1>3. CASE label # NoLabel /\ ~IsBracketed(label)
  <2>0. label \in Texts /\ Len(label) \in Nat /\ \A i \in 1..Len(label) : label[i] \in LabelChars
    BY <1>3 DEF Texts
  <2>1. \A i \in 1..Len(label) : label[i] # Backslash /\ label[i] # LineEnd
    BY <1>3, <2>0 DEF Plain
  <2> DEFINE f == Unquoted(label)
             At(i) == /\ f[i].text \in Texts /\ Len(f[i].text) = i
                      /\ \A j \in 1..i : f[i].text[j] = label[j]
                      /\ ~f[i].escaped /\ ~f[i].broken
             Good == {i \in Nat : i <= Len(label) => At(i)}
  <2>2. /\ f[0] = Unread /\ \A i \in 1..Len(label) : f[i] = NextChar(f[i - 1], label[i])
        /\ \A i \in 0..Len(label) : f[i] \in ReadState
    BY <2>0, UnquotedStep
  <2> HIDE DEF f
  <2>3. 0 \in Good
    <3>1. f[0].text = <<>> /\ ~f[0].escaped /\ ~f[0].broken
      BY <2>2 DEF Unread
    <3>2. <<>> \in Seq(LabelChars) /\ Len(<<>>) = 0
      BY EmptySeq
    <3>3. \A j \in 1..0 : f[0].text[j] = label[j]
      OBVIOUS
    <3> QED
      BY <3>1, <3>2, <3>3 DEF Texts
  <2>4. ASSUME NEW i \in Nat, i \in Good PROVE i + 1 \in Good
    <3> SUFFICES ASSUME i + 1 <= Len(label) PROVE At(i + 1)
      OBVIOUS
    <3>1. At(i) /\ i + 1 \in 1..Len(label) /\ (i + 1) - 1 = i
      BY <2>0, <2>4
    <3>2. PICK c \in LabelChars : c = label[i + 1] /\ c # Backslash /\ c # LineEnd
      BY <2>0, <2>1, <3>1
    <3>3. f[i + 1] = NextChar(f[i], c)
      BY <2>2, <3>1, <3>2
    <3>4. f[i + 1] = [text |-> Append(f[i].text, c), escaped |-> FALSE,
                      broken |-> f[i].broken \/ c = LineEnd]
      BY <3>1, <3>2, <3>3 DEF NextChar
    <3>5. PICK t, w : t = f[i].text /\ w = Append(t, c)
      OBVIOUS
    <3>6. t \in Seq(LabelChars) /\ Len(t) = i /\ \A j \in 1..i : t[j] = label[j]
      BY <3>1, <3>5 DEF Texts
    <3>7. /\ w \in Seq(LabelChars) /\ Len(w) = i + 1 /\ w[i + 1] = c
          /\ \A j \in 1..i : w[j] = t[j]
      BY <3>5, <3>6, AppendProperties
    <3>8. \A j \in 1..(i + 1) : w[j] = label[j]
      BY <3>2, <3>6, <3>7
    <3>9. f[i + 1].text = w /\ ~f[i + 1].escaped /\ ~f[i + 1].broken
      <4>1. (f[i].broken \/ c = LineEnd) = FALSE
        BY <3>1, <3>2
      <4>2. f[i + 1] = [text |-> w, escaped |-> FALSE, broken |-> FALSE]
        BY <3>4, <3>5, <4>1
      <4> QED
        BY <4>2
    <3> QED
      BY <3>7, <3>8, <3>9 DEF Texts
  <2> HIDE DEF Good
  <2>5. Nat \subseteq Good
    BY <2>3, <2>4, SetInduction
  <2>6. At(Len(label))
    BY <2>0, <2>5 DEF Good
  <2>7. f[Len(label)].text = label
    <3>1. f[Len(label)].text \in Seq(LabelChars) /\ label \in Seq(LabelChars)
      BY <2>0, <2>6 DEF Texts
    <3> QED
      BY <2>6, <3>1, SeqEqual
  <2> QED
    BY <1>3, <2>6, <2>7 DEF Legible, ReadBack, f
<1> QED
  BY <1>1, <1>2, <1>3

\* Reading changes no more of a configuration than its labels.
LEMMA ParsedKeeps ==
  ASSUME SettingsAssumption, NEW table \in Seq(Setting)
  PROVE  /\ Parsed(table) \in Seq(Setting) /\ DOMAIN Parsed(table) = DOMAIN table
         /\ Len(Parsed(table)) = Len(table)
         /\ \A i \in DOMAIN table : /\ Parsed(table)[i].address = table[i].address
                                    /\ Parsed(table)[i].label = ReadBack(table[i].label)
<1> DEFINE one(i) == [table[i] EXCEPT !.label = ReadBack(table[i].label)]
<1>1. PICK n \in Nat : n = Len(table) /\ DOMAIN table = 1..n
  OBVIOUS
<1>2. ASSUME NEW i \in 1..n
      PROVE  /\ one(i) \in Setting /\ one(i).address = table[i].address
             /\ one(i).label = ReadBack(table[i].label)
  <2>1. PICK x \in Setting : x = table[i]
    BY <1>1
  <2>2. x.label \in Texts \cup {NoLabel}
    BY DEF Setting, Texts
  <2>3. PICK l \in Texts \cup {NoLabel} : l = ReadBack(x.label)
    BY <2>2, ReadBackType
  <2>4. PICK y : y = [x EXCEPT !.label = l]
    OBVIOUS
  <2>5. y \in Setting /\ y.address = x.address /\ y.label = l
    BY <2>4 DEF Setting, Texts
  <2> QED
    BY <2>1, <2>3, <2>4, <2>5
<1>3. PICK f : f = [i \in 1..n |-> one(i)]
  OBVIOUS
<1>4. Parsed(table) = f
  BY <1>1, <1>3 DEF Parsed
<1> HIDE DEF one
<1>5. f \in Seq(Setting) /\ DOMAIN f = 1..n /\ Len(f) = n /\ \A i \in 1..n : f[i] = one(i)
  BY <1>2, <1>3
<1> QED
  BY <1>1, <1>2, <1>4, <1>5

-----------------------------------------------------------------------------
(* The settings *)

\* Every component has an address.
Complete(table) == /\ table \in Seq(Setting) /\ table # <<>>
                   /\ \A i \in DOMAIN table : table[i].address # 0

\* The settings that a start would load.
Effective == IF clientCfg = NoFile THEN ShippedConfig ELSE Parsed(clientCfg)

\* The length that a file of the eeprom will have once it is written.
WillBe(file, now) == IF writing # NoFile /\ writing.file = file THEN writing.content ELSE now

\* What is being written, and when.
WriteInv ==
  \/ writing = NoFile /\ envPhase \in {"off", "on"}
  \/ /\ writing \in [file : {"bios", "data"}, content : Nat] /\ envPhase = "on"
     /\ writing.file = "bios" => biosFile = 0
     /\ writing.file = "data" => dataFile = 0
  \/ /\ writing = [file |-> "client", content |-> configData]
     /\ envPhase = "closing" /\ savedConfig = configData

\* What is known and what was last flashed is on the host, or is being written there.  The
\* last orderly end has found there what it had, or has written it.
KeptInv ==
  /\ clientCfg = NoFile \/ clientCfg \in Seq(Setting)
  /\ drawn \in Nat
  /\ envPhase # "off" => Complete(configData)
  /\ envPhase = "on" => Loads /\ configCache = Effective
  /\ savedConfig # NoFile => Complete(savedConfig)
  /\ savedConfig # NoFile /\ envPhase # "closing" =>
       (Loads /\ Effective = savedConfig) \/ clientCfg = savedConfig
  /\ flashed \in [bios : Nat \cup {NoFile}, data : Nat \cup {NoFile}]
  /\ flashed.bios # NoFile => WillBe("bios", biosFile) = flashed.bios
  /\ flashed.data = WillBe("data", dataFile)

SettingsInv == WriteInv /\ KeptInv

\* The files as they are found.
LEMMA SettingsInvInit == SettingsInit => SettingsInv
BY SettingsAssumption DEF SettingsInit, SettingsInv, WriteInv, KeptInv, Complete, Effective, WillBe

\* A component that has an address keeps it.
LEMMA AddressedKeeps ==
  ASSUME NEW table, Complete(table)
  PROVE  Addressed(table) = table
<1>1. table \in Seq(Setting) /\ \A i \in DOMAIN table : table[i].address # 0
  BY DEF Complete
<1>2. Addressed(table) = [i \in DOMAIN table |-> table[i]]
  BY <1>1 DEF Addressed
<1> QED
  BY <1>1, <1>2

\* Every component has an address when it was initialized.
LEMMA AddressedCompletes ==
  ASSUME drawn \in Nat, NEW table \in Seq(Setting), table # <<>>
  PROVE  Complete(Addressed(table))
<1> DEFINE one(i) == IF table[i].address = 0 THEN [table[i] EXCEPT !.address = drawn + i]
                     ELSE table[i]
<1>1. PICK n \in Nat : n = Len(table) /\ DOMAIN table = 1..n
  OBVIOUS
<1>2. ASSUME NEW i \in 1..n PROVE one(i) \in Setting /\ one(i).address # 0
  <2>1. PICK x \in Setting : x = table[i]
    BY <1>1
  <2>2. CASE x.address = 0
    <3>1. PICK a \in Nat : a = drawn + i /\ a # 0
      OBVIOUS
    <3>y. PICK y : y = [x EXCEPT !.address = a]
      OBVIOUS
    <3>2. y \in Setting /\ y.address = a
      BY <3>y DEF Setting
    <3>3. one(i) = y
      BY <2>1, <2>2, <3>1, <3>y
    <3> QED
      BY <3>1, <3>2, <3>3
  <2>3. CASE x.address # 0
    BY <2>1, <2>3
  <2> QED
    BY <2>2, <2>3
<1>3. PICK f : f = [i \in 1..n |-> one(i)]
  OBVIOUS
<1>4. Addressed(table) = f
  BY <1>1, <1>3 DEF Addressed
<1> HIDE DEF one
<1>5. f \in Seq(Setting) /\ DOMAIN f = 1..n /\ \A i \in 1..n : f[i].address # 0
  BY <1>2, <1>3
<1>6. f # <<>>
  BY <1>1, <1>5
<1> QED
  BY <1>4, <1>5, <1>6 DEF Complete

\* A start reads what the last writers left.
LEMMA StartClientKeeps ==
  ASSUME SettingsInv, StartClient
  PROVE  SettingsInv'
<1>0. /\ envPhase = "off" /\ writing = NoFile
      /\ UNCHANGED <<clientCfg, dataFile, savedConfig, flashed>>
  BY DEF StartClient, SettingsInv, WriteInv
<1>a. CASE ~Loads
  <2>1. UNCHANGED <<configData, configCache, drawn, envPhase, biosFile, writing>>
    BY <1>a DEF StartClient
  <2> QED
    BY <1>0, <2>1 DEF SettingsInv, WriteInv, KeptInv, Effective, WillBe, Loads
<1>b. CASE Loads
  <2>1. PICK table : table = Effective
    OBVIOUS
  <2>2. table \in Seq(Setting) /\ table # <<>>
    <3>1. CASE clientCfg = NoFile
      BY <2>1, <3>1, SettingsAssumption DEF Effective
    <3>2. CASE clientCfg # NoFile
      <4>1. clientCfg \in Seq(Setting) /\ clientCfg # <<>>
        BY <1>b, <3>2 DEF SettingsInv, KeptInv, Loads
      <4>2. Parsed(clientCfg) \in Seq(Setting) /\ Len(Parsed(clientCfg)) = Len(clientCfg)
        BY <4>1, SettingsAssumption, ParsedKeeps
      <4>3. Len(clientCfg) # 0
        BY <4>1
      <4> QED
        BY <2>1, <3>2, <4>2, <4>3 DEF Effective
    <3> QED
      BY <3>1, <3>2
  <2>3. /\ configData' = Addressed(table) /\ configCache' = table /\ drawn' = drawn + Len(table)
        /\ envPhase' = "on"
    BY <1>b, <2>1 DEF StartClient, Loaded, Effective
  <2>4. Complete(configData')
    BY <2>2, <2>3, AddressedCompletes DEF SettingsInv, KeptInv
  <2>5. drawn' \in Nat
    BY <2>2, <2>3 DEF SettingsInv, KeptInv
  <2>6. \/ /\ biosFile = NoFile /\ biosFile' = 0
           /\ writing' = [file |-> "bios", content |-> ShippedBios]
        \/ biosFile # NoFile /\ biosFile' = biosFile /\ writing' = writing
    BY <1>b DEF StartClient
  <2>7. WriteInv'
    BY <1>0, <2>3, <2>6, SettingsAssumption DEF WriteInv
  <2>8. KeptInv'
    <3>1. /\ flashed.bios # NoFile => biosFile = flashed.bios
          /\ flashed.data = dataFile
      BY <1>0 DEF SettingsInv, KeptInv, WillBe
    <3>2. /\ flashed.bios # NoFile => biosFile' = flashed.bios /\ writing' = NoFile
          /\ writing' # NoFile => writing'.file = "bios"
      BY <1>0, <2>6, <3>1
    <3>3. /\ (flashed.bios # NoFile => WillBe("bios", biosFile) = flashed.bios)'
          /\ (flashed.data = WillBe("data", dataFile))'
      BY <1>0, <3>1, <3>2 DEF WillBe
    <3>4. Loads' /\ Effective' = table
      BY <1>0, <1>b, <2>1 DEF Loads, Effective
    <3>5. savedConfig' # NoFile => (Loads' /\ Effective' = savedConfig') \/ clientCfg' = savedConfig'
      BY <1>0, <2>1, <3>4 DEF SettingsInv, KeptInv
    <3> QED
      BY <1>0, <2>3, <2>4, <2>5, <3>3, <3>4, <3>5 DEF SettingsInv, KeptInv
  <2> QED
    BY <2>7, <2>8 DEF SettingsInv
<1> QED
  BY <1>a, <1>b

\* An end begins to save what the client holds.
LEMMA CloseClientKeeps ==
  ASSUME SettingsInv, CloseClient
  PROVE  SettingsInv'
<1>1. /\ envPhase = "on" /\ writing = NoFile /\ savedConfig' = configData
      /\ UNCHANGED <<biosFile, dataFile, configData, configCache, drawn, flashed>>
  BY DEF CloseClient
<1>2. Complete(configData) /\ Loads /\ configCache = Effective /\ configData # NoFile
  BY <1>1, SettingsAssumption DEF SettingsInv, KeptInv, Complete
<1>3. CASE configData = configCache /\ ~noted
  <2>1. envPhase' = "off" /\ clientCfg' = clientCfg /\ writing' = NoFile
    BY <1>1, <1>3 DEF CloseClient
  <2>2. Loads' /\ Effective' = savedConfig'
    BY <1>1, <1>2, <1>3, <2>1 DEF Loads, Effective
  <2> QED
    BY <1>1, <1>2, <1>3, <2>1, <2>2 DEF SettingsInv, WriteInv, KeptInv, WillBe
<1>4. CASE ~ (configData = configCache /\ ~noted)
  <2>1. /\ envPhase' = "closing" /\ clientCfg' = <<>>
        /\ writing' = [file |-> "client", content |-> configData]
    BY <1>1, <1>4 DEF CloseClient
  <2>2. WriteInv'
    BY <1>1, <2>1 DEF WriteInv
  <2>3. KeptInv'
    BY <1>1, <1>2, <2>1 DEF SettingsInv, KeptInv, WillBe
  <2> QED
    BY <2>2, <2>3 DEF SettingsInv
<1> QED
  BY <1>3, <1>4

\* A save that is finished is what the next start reads.
LEMMA FinishWriteKeeps ==
  ASSUME SettingsInv, FinishWrite
  PROVE  SettingsInv'
<1>1. /\ writing # NoFile /\ writing' = NoFile
      /\ UNCHANGED <<configData, configCache, drawn, savedConfig, flashed>>
  BY DEF FinishWrite
<1>2. CASE writing \in [file : {"bios", "data"}, content : Nat] /\ envPhase = "on"
  <2>1. clientCfg' = clientCfg /\ envPhase' = "on"
    BY <1>2 DEF FinishWrite
  <2>2. biosFile' = WillBe("bios", biosFile) /\ dataFile' = WillBe("data", dataFile)
    BY <1>1 DEF FinishWrite, WillBe
  <2>3. /\ (flashed.bios # NoFile => WillBe("bios", biosFile) = flashed.bios)'
        /\ (flashed.data = WillBe("data", dataFile))'
    BY <1>1, <2>2 DEF SettingsInv, KeptInv, WillBe
  <2> QED
    BY <1>1, <1>2, <2>1, <2>3 DEF SettingsInv, WriteInv, KeptInv, Effective, Loads
<1>3. CASE /\ writing = [file |-> "client", content |-> configData]
           /\ envPhase = "closing" /\ savedConfig = configData
  <2>1. clientCfg' = configData /\ envPhase' = "off"
    BY <1>3 DEF FinishWrite
  <2>2. biosFile' = WillBe("bios", biosFile) /\ dataFile' = WillBe("data", dataFile)
    BY <1>1 DEF FinishWrite, WillBe
  <2>3. /\ (flashed.bios # NoFile => WillBe("bios", biosFile) = flashed.bios)'
        /\ (flashed.data = WillBe("data", dataFile))'
    BY <1>1, <2>2 DEF SettingsInv, KeptInv, WillBe
  <2>4. Complete(configData) /\ configData # NoFile /\ configData \in Seq(Setting)
    BY <1>3, SettingsAssumption DEF SettingsInv, KeptInv, Complete
  <2> QED
    BY <1>1, <1>3, <2>1, <2>3, <2>4 DEF SettingsInv, WriteInv, KeptInv, Effective, Loads
<1> QED
  BY <1>1, <1>2, <1>3 DEF SettingsInv, WriteInv

\* A kill loses the file that was being written and no other.
LEMMA ClientKilledKeeps ==
  ASSUME SettingsInv, ClientKilled
  PROVE  SettingsInv'
<1>1. /\ envPhase' = "off" /\ writing' = NoFile
      /\ UNCHANGED <<clientCfg, biosFile, dataFile, configData, configCache, drawn>>
      /\ savedConfig' = IF envPhase = "closing" THEN NoFile ELSE savedConfig
  BY DEF ClientKilled
<1>2. DOMAIN flashed = {"bios", "data"}
  BY DEF SettingsInv, KeptInv
<1>3. WriteInv'
  BY <1>1 DEF WriteInv
<1>4. CASE writing \in [file : {"bios", "data"}, content : Nat] /\ envPhase = "on"
  <2>1. /\ writing # NoFile => flashed' = [flashed EXCEPT ![writing.file] = 0]
        /\ writing = NoFile => flashed' = flashed
    BY <1>2, <1>4 DEF ClientKilled
  <2>2. CASE writing # NoFile /\ writing.file = "bios"
    <3>1. flashed' = [flashed EXCEPT !.bios = 0] /\ biosFile = 0
      BY <1>4, <2>1, <2>2 DEF SettingsInv, WriteInv
    <3> QED
      BY <1>1, <1>3, <1>4, <2>2, <3>1 DEF SettingsInv, KeptInv, Effective, Loads, WillBe
  <2>3. CASE writing # NoFile /\ writing.file = "data"
    <3>1. flashed' = [flashed EXCEPT !.data = 0] /\ dataFile = 0
      BY <1>4, <2>1, <2>3 DEF SettingsInv, WriteInv
    <3> QED
      BY <1>1, <1>3, <1>4, <2>3, <3>1 DEF SettingsInv, KeptInv, Effective, Loads, WillBe
  <2>4. CASE writing = NoFile
    BY <1>1, <1>3, <1>4, <2>1, <2>4 DEF SettingsInv, KeptInv, Effective, Loads, WillBe
  <2> QED
    BY <1>4, <2>2, <2>3, <2>4
<1>5. CASE /\ writing = [file |-> "client", content |-> configData]
           /\ envPhase = "closing" /\ savedConfig = configData
  <2>1. flashed' = flashed /\ savedConfig' = NoFile
    BY <1>1, <1>2, <1>5 DEF ClientKilled
  <2> QED
    BY <1>1, <1>3, <1>5, <2>1 DEF SettingsInv, KeptInv, Effective, Loads, WillBe
<1>6. CASE writing = NoFile /\ envPhase \in {"off", "on"}
  <2>1. flashed' = flashed
    BY <1>6 DEF ClientKilled
  <2> QED
    BY <1>1, <1>3, <1>6, <2>1 DEF SettingsInv, KeptInv, Effective, Loads, WillBe
<1> QED
  BY <1>4, <1>5, <1>6 DEF SettingsInv, WriteInv

\* A label that is set is in the configuration, and in the file after the next end.
LEMMA setLabelKeeps ==
  ASSUME SettingsInv, NEW l \in Labels, NEW i \in DOMAIN configData, setLabel(i, l)
  PROVE  SettingsInv'
<1>1. /\ envPhase = "on" /\ writing = NoFile
      /\ configData' = [configData EXCEPT ![i].label = l]
      /\ UNCHANGED <<clientCfg, biosFile, dataFile, writing, envPhase, configCache, drawn,
                      savedConfig, flashed>>
  BY DEF setLabel, fileState
<1>2. PICK table \in Seq(Setting) :
        /\ table = configData /\ table # <<>>
        /\ \A j \in DOMAIN table : table[j].address # 0
  BY <1>1 DEF SettingsInv, KeptInv, Complete
<1>3. PICK x \in Setting : x = [table[i] EXCEPT !.label = l] /\ x.address # 0
  <2>1. PICK y \in Setting : y = table[i] /\ y.address # 0
    BY <1>1, <1>2
  <2>2. PICK z : z = [y EXCEPT !.label = l]
    OBVIOUS
  <2>3. l \in Seq(LabelChars) /\ y = [address |-> y.address, label |-> y.label] /\ y.address \in Nat
    BY <2>1, SettingsAssumption DEF Setting
  <2>4. z = [address |-> y.address, label |-> l]
    BY <2>2, <2>3
  <2>5. z \in Setting /\ z.address = y.address
    BY <2>3, <2>4 DEF Setting
  <2> QED
    BY <2>1, <2>2, <2>5
<1>4. PICK t : t = [table EXCEPT ![i] = x]
  OBVIOUS
<1>5. configData' = t
  BY <1>1, <1>2, <1>3, <1>4
<1>6. /\ t \in Seq(Setting) /\ Len(t) = Len(table)
      /\ \A j \in DOMAIN t : t[j].address # 0
  BY <1>2, <1>3, <1>4
<1>7. Complete(configData')
  <2>1. t # <<>>
    BY <1>2, <1>6, EmptySeq
  <2> QED
    BY <1>5, <1>6, <2>1 DEF Complete
<1> QED
  BY <1>1, <1>7 DEF SettingsInv, WriteInv, KeptInv, Effective, Loads, WillBe

\* A bios or data that is flashed is written at once, if it is not too long.
LEMMA FlashKeeps ==
  ASSUME SettingsInv, NEW n \in Lengths, setBios(n) \/ setData(n)
  PROVE  SettingsInv'
<1>0. n \in Nat
  BY SettingsAssumption
<1>1. /\ envPhase = "on" /\ writing = NoFile
      /\ UNCHANGED <<clientCfg, envPhase, configData, configCache, drawn, savedConfig>>
  BY DEF setBios, setData, Flash
<1>2. /\ flashed \in [bios : Nat \cup {NoFile}, data : Nat \cup {NoFile}]
      /\ flashed.bios # NoFile => biosFile = flashed.bios
      /\ flashed.data = dataFile
  BY <1>1 DEF SettingsInv, KeptInv, WillBe
<1>3. CASE setBios(n)
  <2>1. /\ writing' = [file |-> "bios", content |-> n] /\ flashed' = [flashed EXCEPT !.bios = n]
        /\ biosFile' = 0 /\ dataFile' = dataFile
    BY <1>3 DEF setBios, Flash
  <2>2. WriteInv'
    BY <1>0, <1>1, <2>1 DEF WriteInv
  <2>3. /\ (flashed \in [bios : Nat \cup {NoFile}, data : Nat \cup {NoFile}])'
        /\ (flashed.bios # NoFile => WillBe("bios", biosFile) = flashed.bios)'
        /\ (flashed.data = WillBe("data", dataFile))'
    <3>1. writing' # NoFile
      BY <1>0, <2>1, SettingsAssumption
    <3> QED
      BY <1>0, <1>2, <2>1, <3>1 DEF WillBe
  <2> QED
    BY <1>1, <2>2, <2>3 DEF SettingsInv, KeptInv, Effective, Loads
<1>4. CASE setData(n)
  <2>1. /\ writing' = [file |-> "data", content |-> n] /\ flashed' = [flashed EXCEPT !.data = n]
        /\ dataFile' = 0 /\ biosFile' = biosFile
    BY <1>4 DEF setData, Flash
  <2>2. WriteInv'
    BY <1>0, <1>1, <2>1 DEF WriteInv
  <2>3. /\ (flashed \in [bios : Nat \cup {NoFile}, data : Nat \cup {NoFile}])'
        /\ (flashed.bios # NoFile => WillBe("bios", biosFile) = flashed.bios)'
        /\ (flashed.data = WillBe("data", dataFile))'
    <3>1. writing' # NoFile
      BY <1>0, <2>1, SettingsAssumption
    <3> QED
      BY <1>0, <1>2, <2>1, <3>1 DEF WillBe
  <2> QED
    BY <1>1, <2>2, <2>3 DEF SettingsInv, KeptInv, Effective, Loads
<1> QED
  BY <1>3, <1>4

\* The invariant is inductive.
LEMMA SettingsInvStep == ASSUME SettingsInv, [SettingsNext]_settingsVars PROVE SettingsInv'
<1>1. CASE StartClient
  BY <1>1, StartClientKeeps
<1>2. CASE CloseClient
  BY <1>2, CloseClientKeeps
<1>3. CASE FinishWrite
  BY <1>3, FinishWriteKeeps
<1>4. CASE ClientKilled
  BY <1>4, ClientKilledKeeps
<1>5. ASSUME NEW n \in Lengths, setBios(n) \/ setData(n) PROVE SettingsInv'
  BY <1>5, FlashKeeps
<1>6. ASSUME NEW i \in DOMAIN configData, NEW l \in Labels, setLabel(i, l) PROVE SettingsInv'
  BY <1>6, setLabelKeeps
<1>7. CASE UNCHANGED settingsVars
  BY <1>7 DEF settingsVars, fileState, SettingsInv, WriteInv, KeptInv, Effective, Loads, WillBe
<1> QED
  BY <1>1, <1>2, <1>3, <1>4, <1>5, <1>6, <1>7 DEF SettingsNext

\* What the last orderly end left would be loaded, but for the labels that are not plain.
LEMMA LoadsWhatWasSaved ==
  ASSUME SettingsInv, savedConfig # NoFile, envPhase # "closing"
  PROVE  /\ (\A i \in DOMAIN savedConfig : Plain(savedConfig[i].label)) => Loads
         /\ Loads => /\ Effective \in Seq(Setting) /\ DOMAIN Effective = DOMAIN savedConfig
                     /\ \A i \in DOMAIN savedConfig :
                          /\ Effective[i].address = savedConfig[i].address
                          /\ Plain(savedConfig[i].label) => Effective[i].label = savedConfig[i].label
<1>1. Complete(savedConfig) /\ savedConfig \in Seq(Setting) /\ savedConfig # <<>>
  BY DEF SettingsInv, KeptInv, Complete
<1>2. CASE Loads /\ Effective = savedConfig
  BY <1>1, <1>2
<1>3. CASE clientCfg = savedConfig
  <2>1. \A i \in DOMAIN savedConfig : savedConfig[i].label \in Texts \cup {NoLabel}
    <3>1. ASSUME NEW i \in DOMAIN savedConfig PROVE savedConfig[i].label \in Texts \cup {NoLabel}
      <4>1. savedConfig[i] \in Setting
        BY <1>1
      <4> QED
        BY <4>1 DEF Setting, Texts
    <3> QED
      BY <3>1
  <2>2. ASSUME NEW i \in DOMAIN savedConfig, Plain(savedConfig[i].label)
        PROVE  Legible(savedConfig[i].label) /\ ReadBack(savedConfig[i].label) = savedConfig[i].label
    BY <2>1, <2>2, SettingsAssumption, PlainIsRead
  <2>3. Effective = Parsed(savedConfig)
    BY <1>3 DEF Effective
  <2>4. /\ Parsed(savedConfig) \in Seq(Setting) /\ DOMAIN Parsed(savedConfig) = DOMAIN savedConfig
        /\ \A i \in DOMAIN savedConfig :
             /\ Parsed(savedConfig)[i].address = savedConfig[i].address
             /\ Parsed(savedConfig)[i].label = ReadBack(savedConfig[i].label)
    BY <1>1, SettingsAssumption, ParsedKeeps
  <2>5. (\A i \in DOMAIN savedConfig : Plain(savedConfig[i].label)) => Loads
    BY <1>1, <1>3, <2>2 DEF Loads, Parses
  <2> QED
    BY <2>2, <2>3, <2>4, <2>5
<1> QED
  BY <1>2, <1>3 DEF SettingsInv, KeptInv

\* A start finds what the last orderly end left, and the eeprom as it was last flashed
\* (config.cpp:28, client.cpp:46, eeprom.cpp:83).
FindsIt ==
  /\ savedConfig # NoFile /\ (\A i \in DOMAIN savedConfig : Plain(savedConfig[i].label)) =>
       envPhase' = "on"
  /\ envPhase' = "on" =>
       /\ savedConfig # NoFile =>
            /\ DOMAIN configData' = DOMAIN savedConfig
            /\ \A i \in DOMAIN savedConfig :
                 /\ configData'[i].address = savedConfig[i].address
                 /\ Plain(savedConfig[i].label) => configData'[i].label = savedConfig[i].label
       /\ flashed.bios # NoFile => biosFile' = flashed.bios
       /\ dataFile' = flashed.data

LEMMA StartsFromWhatWasKept ==
  ASSUME SettingsInv, [SettingsNext]_settingsVars, envStarts' # envStarts
  PROVE  FindsIt
<1>1. StartClient
  BY DEF SettingsNext, settingsVars, CloseClient, FinishWrite, ClientKilled, setBios, setData,
     Flash, setLabel
<1>2. writing = NoFile /\ envPhase = "off"
  BY <1>1 DEF SettingsInv, WriteInv, StartClient
<1>3. envPhase' = "on" <=> Loads
  BY <1>1, <1>2 DEF StartClient
<1>4. savedConfig # NoFile /\ (\A i \in DOMAIN savedConfig : Plain(savedConfig[i].label)) =>
        envPhase' = "on"
  BY <1>2, <1>3, LoadsWhatWasSaved
<1>5. ASSUME envPhase' = "on", savedConfig # NoFile
      PROVE  /\ DOMAIN configData' = DOMAIN savedConfig
             /\ \A i \in DOMAIN savedConfig :
                  /\ configData'[i].address = savedConfig[i].address
                  /\ Plain(savedConfig[i].label) => configData'[i].label = savedConfig[i].label
  <2>1. configData' = Addressed(Effective)
    BY <1>1, <1>3, <1>5 DEF StartClient, Loaded, Effective
  <2>2. /\ Effective \in Seq(Setting) /\ DOMAIN Effective = DOMAIN savedConfig
        /\ \A i \in DOMAIN savedConfig :
             /\ Effective[i].address = savedConfig[i].address
             /\ Plain(savedConfig[i].label) => Effective[i].label = savedConfig[i].label
    BY <1>2, <1>3, <1>5, LoadsWhatWasSaved
  <2>3. savedConfig \in Seq(Setting) /\ savedConfig # <<>>
        /\ \A i \in DOMAIN savedConfig : savedConfig[i].address # 0
    BY <1>5 DEF SettingsInv, KeptInv, Complete
  <2>4. Effective # <<>>
    BY <2>2, <2>3
  <2>5. Complete(Effective)
    BY <2>2, <2>3, <2>4 DEF Complete
  <2> QED
    BY <2>1, <2>2, <2>5, AddressedKeeps
<1>6. /\ flashed.bios # NoFile => biosFile = flashed.bios
      /\ flashed.data = dataFile
  BY <1>2 DEF SettingsInv, KeptInv, WillBe
<1>7. dataFile' = dataFile /\ (biosFile # NoFile => biosFile' = biosFile)
  BY <1>1 DEF StartClient
<1> QED
  BY <1>4, <1>5, <1>6, <1>7, SettingsAssumption DEF FindsIt, SettingsInv, KeptInv

\* Whatever the program's directory holds, whatever Lua sets and flashes and whenever the
\* client is killed, a start finds every component under the address and, if Lua reads it
\* as it is written, with the label that it had at the last orderly end, and does not fail
\* while all labels are read so; and the eeprom's files as they were last flashed
\* (config.cpp:28,124, value.cpp:394, client.cpp:46, eeprom.cpp:83).
THEOREM StartsAsItWasLeft == SettingsSpec => SettingsKept
<1>1. SettingsInit => SettingsInv
  BY SettingsInvInit
<1>2. SettingsInv /\ [SettingsNext]_settingsVars => SettingsInv'
  BY SettingsInvStep
<1>3. SettingsInv /\ [SettingsNext]_settingsVars =>
        [envStarts' # envStarts =>
           /\ savedConfig # NoFile /\ (\A i \in DOMAIN savedConfig : Plain(savedConfig[i].label)) =>
                envPhase' = "on"
           /\ envPhase' = "on" =>
                /\ savedConfig # NoFile =>
                     /\ DOMAIN configData' = DOMAIN savedConfig
                     /\ \A i \in DOMAIN savedConfig :
                          /\ configData'[i].address = savedConfig[i].address
                          /\ Plain(savedConfig[i].label) => configData'[i].label = savedConfig[i].label
                /\ flashed.bios # NoFile => biosFile' = flashed.bios
                /\ dataFile' = flashed.data]_settingsVars
  BY StartsFromWhatWasKept DEF FindsIt
<1> QED
  BY <1>1, <1>2, <1>3, PTL DEF SettingsSpec, SettingsKept

-----------------------------------------------------------------------------
(* FileTree: prefixes *)

\* What is left of a sequence behind its beginning.
LEMMA RestOfConcat ==
  ASSUME NEW S, NEW s \in Seq(S), NEW w \in Seq(S)
  PROVE  SubSeq(s \o w, Len(s) + 1, Len(s \o w)) = w
<1> DEFINE x == s \o w
           v == SubSeq(x, Len(s) + 1, Len(x))
<1>1. /\ x \in Seq(S) /\ Len(x) = Len(s) + Len(w) /\ Len(s) \in Nat /\ Len(w) \in Nat
      /\ \A i \in 1..(Len(s) + Len(w)) : x[i] = IF i <= Len(s) THEN s[i] ELSE w[i - Len(s)]
  BY ConcatProperties, LenProperties
<1> HIDE DEF x
<1>2. \A i \in (Len(s) + 1)..Len(x) : x[i] \in S
  BY <1>1, ElementOfSeq
<1>3. /\ v \in Seq(S)
      /\ Len(v) = IF Len(s) + 1 <= Len(x) THEN Len(x) - (Len(s) + 1) + 1 ELSE 0
      /\ \A i \in 1..(Len(x) - (Len(s) + 1) + 1) : v[i] = x[Len(s) + 1 + i - 1]
  BY <1>1, <1>2, SubSeqProperties
<1> HIDE DEF v
<1>4. Len(v) = Len(w)
  BY <1>1, <1>3
<1>5. \A i \in 1..Len(v) : v[i] = w[i]
  <2> SUFFICES ASSUME NEW i \in 1..Len(v) PROVE v[i] = w[i]
    OBVIOUS
  <2>0. i \in Nat /\ i >= 1 /\ i <= Len(w) /\ i \in 1..(Len(x) - (Len(s) + 1) + 1)
    BY <1>1, <1>4
  <2>1. /\ Len(s) + i \in 1..(Len(s) + Len(w)) /\ ~(Len(s) + i <= Len(s))
        /\ (Len(s) + i) - Len(s) = i /\ Len(s) + 1 + i - 1 = Len(s) + i
    BY <1>1, <2>0
  <2>3. v[i] = x[Len(s) + i]
    BY <1>3, <2>0, <2>1
  <2>2. x[Len(s) + i] = w[(Len(s) + i) - Len(s)]
    BY <1>1, <2>1
  <2> QED BY <2>1, <2>2, <2>3
<1>6. v = w
  BY <1>3, <1>4, <1>5, SeqEqual
<1> QED BY <1>6 DEF v, x

\* A sequence is its beginning and what is left.
LEMMA PrefixSplits ==
  ASSUME NEW S, NEW s \in Seq(S), NEW t \in Seq(S), IsPrefix(s, t)
  PROVE  \E w \in Seq(S) : t = s \o w
<1> DEFINE w == SubSeq(t, Len(s) + 1, Len(t))
           x == s \o w
<1>0. Len(s) \in Nat /\ Len(t) \in Nat /\ Len(s) <= Len(t) /\ \A i \in 1..Len(s) : s[i] = t[i]
  BY PrefixByPlace, LenProperties
<1>1. \A i \in (Len(s) + 1)..Len(t) : t[i] \in S
  BY <1>0, ElementOfSeq
<1>2. /\ w \in Seq(S)
      /\ Len(w) = IF Len(s) + 1 <= Len(t) THEN Len(t) - (Len(s) + 1) + 1 ELSE 0
      /\ \A i \in 1..(Len(t) - (Len(s) + 1) + 1) : w[i] = t[Len(s) + 1 + i - 1]
  BY <1>0, <1>1, SubSeqProperties
<1> HIDE DEF w
<1>3. /\ x \in Seq(S) /\ Len(x) = Len(s) + Len(w)
      /\ \A i \in 1..(Len(s) + Len(w)) : x[i] = IF i <= Len(s) THEN s[i] ELSE w[i - Len(s)]
  BY <1>2, ConcatProperties
<1> HIDE DEF x
<1>4. Len(x) = Len(t)
  BY <1>0, <1>2, <1>3
<1>5. \A i \in 1..Len(x) : x[i] = t[i]
  <2> SUFFICES ASSUME NEW i \in 1..Len(x) PROVE x[i] = t[i]
    OBVIOUS
  <2>1. CASE i <= Len(s)
    BY <1>0, <1>3, <2>1
  <2>2. CASE ~(i <= Len(s))
    <3>1. x[i] = w[i - Len(s)] /\ i - Len(s) \in 1..(Len(t) - (Len(s) + 1) + 1)
          /\ Len(s) + 1 + (i - Len(s)) - 1 = i
      BY <1>0, <1>3, <1>4, <2>2
    <3> QED BY <1>2, <3>1
  <2> QED BY <2>1, <2>2
<1>6. x = t
  BY <1>3, <1>4, <1>5, SeqEqual
<1> QED BY <1>2, <1>6 DEF x

\* The empty sequence begins every sequence, and only itself begins it.
LEMMA PrefixOfEmpty ==
  ASSUME NEW S
  PROVE  /\ \A t \in Seq(S) : IsPrefix(<<>>, t)
         /\ \A p \in Seq(S) : IsPrefix(p, <<>>) => p = <<>>
<1> DEFINE e == <<>>
<1>1. e \in Seq(S) /\ Len(e) = 0 /\ \A t \in Seq(S) : Len(t) \in Nat
  BY LenProperties
<1> HIDE DEF e
<1>2. ASSUME NEW t \in Seq(S) PROVE IsPrefix(e, t)
  <2>1. Len(e) <= Len(t) /\ \A i \in 1..Len(e) : e[i] = t[i]
    BY <1>1
  <2> QED BY <1>1, <2>1, PrefixByPlace
<1>3. ASSUME NEW p \in Seq(S), IsPrefix(p, e) PROVE p = e
  <2>1. Len(p) <= Len(e)
    BY <1>1, <1>3, PrefixByPlace
  <2>2. Len(p) = Len(e) /\ \A i \in 1..Len(p) : p[i] = e[i]
    BY <1>1, <2>1
  <2> QED BY <1>1, <2>2, SeqEqual
<1> QED BY <1>2, <1>3 DEF e

\* A sequence begins itself.
LEMMA PrefixOfItself ==
  ASSUME NEW S, NEW s \in Seq(S)
  PROVE  IsPrefix(s, s)
<1>1. Len(s) <= Len(s)
  BY LenProperties
<1> QED BY <1>1, PrefixByPlace

LEMMA PrefixOfPrefix ==
  ASSUME NEW S, NEW r \in Seq(S), NEW s \in Seq(S), NEW t \in Seq(S),
         IsPrefix(r, s), IsPrefix(s, t)
  PROVE  IsPrefix(r, t)
<1>1. /\ Len(r) \in Nat /\ Len(s) \in Nat /\ Len(t) \in Nat
      /\ Len(r) <= Len(s) /\ \A i \in 1..Len(r) : r[i] = s[i]
      /\ Len(s) <= Len(t) /\ \A i \in 1..Len(s) : s[i] = t[i]
  BY PrefixByPlace, LenProperties
<1>2. Len(r) <= Len(t) /\ \A i \in 1..Len(r) : r[i] = t[i]
  BY <1>1
<1> QED BY <1>2, PrefixByPlace

\* Of two beginnings, the shorter is the beginning of the other.
LEMMA PrefixesInOrder ==
  ASSUME NEW S, NEW r \in Seq(S), NEW s \in Seq(S), NEW t \in Seq(S),
         IsPrefix(r, t), IsPrefix(s, t)
  PROVE  /\ Len(r) <= Len(s) => IsPrefix(r, s)
         /\ Len(r) = Len(s) => r = s
<1>1. /\ Len(r) \in Nat /\ Len(s) \in Nat /\ Len(t) \in Nat
      /\ \A i \in 1..Len(r) : r[i] = t[i]
      /\ \A i \in 1..Len(s) : s[i] = t[i]
  BY PrefixByPlace, LenProperties
<1>2. ASSUME Len(r) <= Len(s) PROVE IsPrefix(r, s)
  <2>1. \A i \in 1..Len(r) : r[i] = s[i]
    BY <1>1, <1>2
  <2> QED BY <1>2, <2>1, PrefixByPlace
<1>3. ASSUME Len(r) = Len(s) PROVE r = s
  <2>1. \A i \in 1..Len(r) : r[i] = s[i]
    BY <1>1, <1>3
  <2> QED BY <1>3, <2>1, SeqEqual
<1> QED BY <1>2, <1>3

\* A sequence that is not empty is what comes before its last element, and that.
LEMMA FrontAndLast ==
  ASSUME NEW S, NEW t \in Seq(S), t # <<>>
  PROVE  /\ Front(t) \in Seq(S) /\ Last(t) \in S /\ t = Append(Front(t), Last(t))
         /\ Len(Front(t)) = Len(t) - 1 /\ IsPrefix(Front(t), t)
<1>1. PICK u \in Seq(S), e \in S : t = Append(u, e)
  BY SequenceEmptyOrAppend
<1>2. /\ Len(t) = Len(u) + 1 /\ Len(u) \in Nat /\ t[Len(u) + 1] = e
      /\ \A i \in 1..Len(u) : t[i] = u[i]
  BY <1>1, AppendProperties, LenProperties
<1> DEFINE v == SubSeq(t, 1, Len(t) - 1)
<1>3. \A i \in 1..(Len(t) - 1) : t[i] \in S
  BY <1>2, ElementOfSeq
<1>4. /\ v \in Seq(S) /\ Len(v) = IF 1 <= Len(t) - 1 THEN Len(t) - 1 - 1 + 1 ELSE 0
      /\ \A i \in 1..(Len(t) - 1 - 1 + 1) : v[i] = t[1 + i - 1]
  BY <1>2, <1>3, SubSeqProperties
<1> HIDE DEF v
<1>5. Len(v) = Len(u)
  BY <1>2, <1>4
<1>6. \A i \in 1..Len(v) : v[i] = u[i]
  BY <1>2, <1>4, <1>5
<1>7. v = u
  BY <1>4, <1>5, <1>6, SeqEqual
<1>8. Front(t) = u /\ Last(t) = e
  BY <1>2, <1>7 DEF Front, Last, v
<1>9. Len(u) <= Len(t) /\ \A i \in 1..Len(u) : u[i] = t[i]
  BY <1>2
<1>10. IsPrefix(u, t)
  BY <1>9, PrefixByPlace
<1> QED BY <1>1, <1>2, <1>8, <1>10

LEMMA FrontOfAppend ==
  ASSUME NEW S, NEW u \in Seq(S), NEW e \in S
  PROVE  Append(u, e) \in Seq(S) /\ Front(Append(u, e)) = u /\ Last(Append(u, e)) = e
<1> DEFINE t == Append(u, e)
<1>1. t \in Seq(S) /\ t # <<>>
  BY AppendProperties
<1> HIDE DEF t
<1>2. Front(t) \in Seq(S) /\ Last(t) \in S /\ t = Append(Front(t), Last(t))
  BY <1>1, FrontAndLast
<1>3. Front(t) = u /\ Last(t) = e
  BY <1>2, AppendInjective DEF t
<1> QED BY <1>1, <1>3 DEF t

\* What begins a sequence is all of it, or begins what comes before its last element.
LEMMA PrefixOfFront ==
  ASSUME NEW S, NEW p \in Seq(S), NEW t \in Seq(S), t # <<>>, IsPrefix(p, t), p # t
  PROVE  IsPrefix(p, Front(t))
<1>1. Front(t) \in Seq(S) /\ Len(Front(t)) = Len(t) - 1 /\ IsPrefix(Front(t), t)
  BY FrontAndLast
<1>2. Len(p) <= Len(t) /\ Len(p) \in Nat /\ Len(t) \in Nat
  BY PrefixByPlace, LenProperties
<1>3. Len(p) # Len(t)
  BY PrefixOfItself, PrefixesInOrder
<1>4. Len(p) <= Len(Front(t))
  BY <1>1, <1>2, <1>3
<1> QED BY <1>1, <1>4, PrefixesInOrder

\* Every part of a sequence from its first element on is a beginning of it, and all
\* beginnings are such parts.
LEMMA PrefixIsPart ==
  ASSUME NEW S, NEW t \in Seq(S)
  PROVE  /\ \A n \in 0..Len(t) : SubSeq(t, 1, n) \in Seq(S) /\ IsPrefix(SubSeq(t, 1, n), t)
         /\ \A p \in Seq(S) : IsPrefix(p, t) => Len(p) \in 0..Len(t) /\ p = SubSeq(t, 1, Len(p))
<1>0. Len(t) \in Nat
  BY LenProperties
<1>1. ASSUME NEW n \in 0..Len(t)
      PROVE  SubSeq(t, 1, n) \in Seq(S) /\ IsPrefix(SubSeq(t, 1, n), t)
  <2> DEFINE v == SubSeq(t, 1, n)
  <2>1. \A i \in 1..n : t[i] \in S
    BY <1>0, ElementOfSeq
  <2>2. /\ v \in Seq(S) /\ Len(v) = IF 1 <= n THEN n - 1 + 1 ELSE 0
        /\ \A i \in 1..(n - 1 + 1) : v[i] = t[1 + i - 1]
    BY <1>0, <2>1, SubSeqProperties
  <2> HIDE DEF v
  <2>3. Len(v) <= Len(t) /\ \A i \in 1..Len(v) : v[i] = t[i]
    BY <1>0, <2>2
  <2>4. IsPrefix(v, t)
    BY <2>2, <2>3, PrefixByPlace
  <2> QED BY <2>2, <2>4 DEF v
<1>2. ASSUME NEW p \in Seq(S), IsPrefix(p, t)
      PROVE  Len(p) \in 0..Len(t) /\ p = SubSeq(t, 1, Len(p))
  <2>1. Len(p) \in Nat /\ Len(p) <= Len(t)
    BY <1>2, PrefixByPlace, LenProperties
  <2>2. SubSeq(p, 1, Len(p)) = p
    BY SubSeqFull
  <2>3. SubSeq(p, 1, Len(p)) = SubSeq(t, 1, Len(p))
    BY <1>2 DEF IsPrefix
  <2> QED BY <1>0, <2>1, <2>2, <2>3
<1> QED BY <1>1, <1>2

\* What begins s and w together begins s, or is s and what begins w.
LEMMA PrefixOfConcatSplits ==
  ASSUME NEW S, NEW p \in Seq(S), NEW s \in Seq(S), NEW w \in Seq(S), IsPrefix(p, s \o w)
  PROVE  \/ IsPrefix(p, s)
         \/ \E v \in Seq(S) : p = s \o v /\ IsPrefix(v, w)
<1> DEFINE x == s \o w
<1>1. /\ x \in Seq(S) /\ Len(x) = Len(s) + Len(w) /\ Len(s) \in Nat /\ Len(w) \in Nat /\ Len(p) \in Nat
      /\ \A i \in 1..(Len(s) + Len(w)) : x[i] = IF i <= Len(s) THEN s[i] ELSE w[i - Len(s)]
  BY ConcatProperties, LenProperties
<1>2. IsPrefix(s, x)
  BY PrefixOfConcat
<1> HIDE DEF x
<1>3. IsPrefix(p, x)
  BY DEF x
<1>4. CASE Len(p) <= Len(s)
  BY <1>1, <1>2, <1>3, <1>4, PrefixesInOrder
<1>5. CASE ~(Len(p) <= Len(s))
  <2>1. IsPrefix(s, p)
    BY <1>1, <1>2, <1>3, <1>5, PrefixesInOrder
  <2>2. PICK v \in Seq(S) : p = s \o v
    BY <2>1, PrefixSplits
  <2>3. /\ Len(p) = Len(s) + Len(v) /\ Len(v) \in Nat
        /\ \A i \in 1..(Len(s) + Len(v)) : p[i] = IF i <= Len(s) THEN s[i] ELSE v[i - Len(s)]
    BY <2>2, ConcatProperties, LenProperties
  <2>4. Len(p) <= Len(x) /\ \A i \in 1..Len(p) : p[i] = x[i]
    BY <1>1, <1>3, PrefixByPlace
  <2>5. \A i \in 1..Len(v) : v[i] = w[i]
    <3> SUFFICES ASSUME NEW i \in 1..Len(v) PROVE v[i] = w[i]
      OBVIOUS
    <3>1. /\ Len(s) + i \in 1..(Len(s) + Len(v)) /\ Len(s) + i \in 1..(Len(s) + Len(w))
          /\ ~(Len(s) + i <= Len(s)) /\ (Len(s) + i) - Len(s) = i /\ Len(s) + i \in 1..Len(p)
      BY <1>1, <2>3, <2>4
    <3>2. p[Len(s) + i] = v[i] /\ x[Len(s) + i] = w[i]
      BY <1>1, <2>3, <3>1
    <3> QED BY <2>4, <3>1, <3>2
  <2>6. Len(v) <= Len(w)
    BY <1>1, <2>3, <2>4
  <2> QED BY <2>2, <2>5, <2>6, PrefixByPlace
<1> QED BY <1>4, <1>5

\* The same in front of two sequences, one of which begins the other.
LEMMA PrefixBehind ==
  ASSUME NEW S, NEW s \in Seq(S), NEW v \in Seq(S), NEW w \in Seq(S), IsPrefix(v, w)
  PROVE  IsPrefix(s \o v, s \o w)
<1>1. PICK u \in Seq(S) : w = v \o u
  BY PrefixSplits
<1>2. s \o v \in Seq(S)
  BY ConcatProperties
<1>3. (s \o v) \o u = s \o (v \o u)
  BY ConcatAssociative
<1>4. IsPrefix(s \o v, (s \o v) \o u)
  BY <1>2, PrefixOfConcat
<1> QED BY <1>1, <1>3, <1>4

-----------------------------------------------------------------------------
(* FileTree: strings *)

Char == PathNames \cup {Slash}

LEMMA PathFacts ==
  /\ Slash \notin PathNames /\ Slash \in Char /\ PathNames \subseteq Char
  /\ PathArguments \subseteq Seq(Char) /\ Char \cap PathNames = PathNames
  BY FileTreeAssumption DEF Char

\* A name or a slash by itself.
LEMMA OneIsText ==
  ASSUME NEW S, NEW e \in S
  PROVE  <<e>> \in Seq(S) /\ Len(<<e>>) = 1 /\ <<e>>[1] = e /\ <<e>> = Append(<<>>, e)
  OBVIOUS

LEMMA UnslashedIsNode ==
  ASSUME NEW s \in Seq(Char)
  PROVE  Unslashed(s) \in Seq(PathNames)
<1>1. Select(s, PathNames) \in Seq(Char \cap PathNames)
  BY SelectIsSeq
<1> QED BY <1>1, PathFacts DEF Unslashed

LEMMA UnslashedConcat ==
  ASSUME NEW s \in Seq(Char), NEW t \in Seq(Char)
  PROVE  s \o t \in Seq(Char) /\ Unslashed(s \o t) = Unslashed(s) \o Unslashed(t)
<1>1. s \o t \in Seq(Char)
  BY ConcatProperties
<1> QED BY <1>1, SelectConcat DEF Unslashed

LEMMA UnslashedOne ==
  /\ Unslashed(<<>>) = <<>> /\ Unslashed(<<Slash>>) = <<>>
  /\ \A x \in PathNames : Unslashed(<<x>>) = <<x>>
<1>1. Select(<<>>, PathNames) = <<>> /\ <<>> \in Seq(Char)
  BY SelectEmpty, EmptySeq
<1>2. \A e \in Char : Select(Append(<<>>, e), PathNames)
                        = IF e \in PathNames THEN Append(<<>>, e) ELSE <<>>
  <2> SUFFICES ASSUME NEW e \in Char
               PROVE  Select(Append(<<>>, e), PathNames)
                        = IF e \in PathNames THEN Append(<<>>, e) ELSE <<>>
    OBVIOUS
  <2>1. Select(Append(<<>>, e), PathNames)
          = IF e \in PathNames THEN Append(Select(<<>>, PathNames), e) ELSE Select(<<>>, PathNames)
    BY <1>1, SelectAppend
  <2> QED BY <1>1, <2>1
<1>3. Select(<<Slash>>, PathNames) = <<>>
  <2>1. <<Slash>> = Append(<<>>, Slash)
    BY OneIsText, PathFacts
  <2> QED BY <1>2, <2>1, PathFacts
<1>4. ASSUME NEW x \in PathNames PROVE Select(<<x>>, PathNames) = <<x>>
  <2>1. <<x>> = Append(<<>>, x)
    BY OneIsText
  <2> QED BY <1>2, <2>1, PathFacts
<1> QED BY <1>1, <1>3, <1>4 DEF Unslashed

\* A name or a slash at the end.
LEMMA UnslashedAppend ==
  ASSUME NEW s \in Seq(Char)
  PROVE  /\ Unslashed(s \o <<Slash>>) = Unslashed(s) /\ Unslashed(<<Slash>> \o s) = Unslashed(s)
         /\ \A x \in PathNames : Unslashed(s \o <<x>>) = Append(Unslashed(s), x)
<1>0. Unslashed(s) \in Seq(PathNames)
  BY UnslashedIsNode
<1>1. <<Slash>> \in Seq(Char)
  BY OneIsText, PathFacts
<1>2. Unslashed(s \o <<Slash>>) = Unslashed(s) \o <<>> /\ Unslashed(<<Slash>> \o s) = <<>> \o Unslashed(s)
  BY <1>1, UnslashedConcat, UnslashedOne
<1>3. Unslashed(s) \o <<>> = Unslashed(s) /\ <<>> \o Unslashed(s) = Unslashed(s)
  BY <1>0, ConcatEmptySeq
<1>4. ASSUME NEW x \in PathNames PROVE Unslashed(s \o <<x>>) = Append(Unslashed(s), x)
  <2>1. <<x>> \in Seq(Char)
    BY OneIsText, PathFacts
  <2>2. Unslashed(s \o <<x>>) = Unslashed(s) \o <<x>>
    BY <2>1, UnslashedConcat, UnslashedOne
  <2> QED BY <1>0, <2>2, AppendIsConcat
<1> QED BY <1>2, <1>3, <1>4

\* n slashes, and no more, are in front of s.
Slashes(s, n) == /\ n \in 0..Len(s) /\ \A i \in 1..n : s[i] = Slash
                 /\ n < Len(s) => s[n + 1] # Slash

LEMMA LeadingOnce ==
  ASSUME NEW s \in Seq(Char), NEW m, NEW n, Slashes(s, m), Slashes(s, n)
  PROVE  m = n
<1>1. Len(s) \in Nat
  BY LenProperties
<1>2. m \in Nat /\ n \in Nat /\ m <= Len(s) /\ n <= Len(s)
  BY <1>1 DEF Slashes
<1>3. ~(m < n)
  <2>1. m < n => m + 1 \in 1..n /\ m < Len(s)
    BY <1>1, <1>2
  <2> QED BY <2>1 DEF Slashes
<1>4. ~(n < m)
  <2>1. n < m => n + 1 \in 1..m /\ n < Len(s)
    BY <1>1, <1>2
  <2> QED BY <2>1 DEF Slashes
<1> QED BY <1>2, <1>3, <1>4

LEMMA LeadingExists ==
  ASSUME NEW s \in Seq(Char)
  PROVE  Slashes(s, Leading(s))
<1> DEFINE T == {n \in Nat : n = Len(s) \/ (n < Len(s) /\ s[n + 1] # Slash)}
<1>0. Len(s) \in Nat
  BY LenProperties
<1>1. T \in SUBSET Nat /\ T # {}
  BY <1>0
<1>2. Min(T) \in T /\ \A y \in T : Min(T) <= y
  <2> HIDE DEF T
  <2> QED BY <1>1, LeastExists
<1>3. PICK n \in T : \A y \in T : n <= y
  BY <1>2
<1>4. n \in 0..Len(s) /\ (n < Len(s) => s[n + 1] # Slash)
  BY <1>0, <1>3
<1>5. ASSUME NEW i \in 1..n PROVE s[i] = Slash
  <2>1. i - 1 \in Nat /\ i - 1 < n /\ i - 1 < Len(s) /\ (i - 1) + 1 = i
    BY <1>0, <1>4
  <2>2. i - 1 \notin T
    BY <1>3, <2>1
  <2> QED BY <2>1, <2>2
<1>6. Slashes(s, n)
  BY <1>4, <1>5 DEF Slashes
<1>7. Leading(s) = CHOOSE k \in 0..Len(s) : Slashes(s, k)
  BY DEF Leading, Slashes
<1> QED BY <1>4, <1>6, <1>7

LEMMA LeadingIs ==
  ASSUME NEW s \in Seq(Char), NEW n, Slashes(s, n)
  PROVE  Leading(s) = n
  BY LeadingExists, LeadingOnce

\* What clean leaves of a string: a number of slashes are in front of it.
LEMMA RestExists ==
  ASSUME NEW s \in Seq(Char)
  PROVE  \E p \in Seq({Slash}), r \in Seq(Char) :
            /\ s = p \o r /\ r = SubSeq(s, Leading(s) + 1, Len(s))
            /\ Len(p) = Leading(s) /\ (r # <<>> => r[1] # Slash)
<1> DEFINE n == Leading(s)
           p == SubSeq(s, 1, n)
           r == SubSeq(s, n + 1, Len(s))
<1>0. Len(s) \in Nat
  BY LenProperties
<1>1. n \in 0..Len(s) /\ (\A i \in 1..n : s[i] = Slash) /\ (n < Len(s) => s[n + 1] # Slash)
  BY LeadingExists DEF Slashes
<1> HIDE DEF n
<1>2. /\ p \in Seq({Slash}) /\ Len(p) = IF 1 <= n THEN n - 1 + 1 ELSE 0
      /\ \A i \in 1..(n - 1 + 1) : p[i] = s[1 + i - 1]
  <2>1. n \in Int /\ \A i \in 1..n : s[i] \in {Slash}
    BY <1>0, <1>1
  <2> QED BY <2>1, SubSeqProperties
<1>3. /\ r \in Seq(Char) /\ Len(r) = IF n + 1 <= Len(s) THEN Len(s) - (n + 1) + 1 ELSE 0
      /\ \A i \in 1..(Len(s) - (n + 1) + 1) : r[i] = s[n + 1 + i - 1]
  <2>1. n + 1 \in Int /\ Len(s) \in Int /\ \A i \in (n + 1)..Len(s) : s[i] \in Char
    BY <1>0, <1>1, ElementOfSeq
  <2> QED BY <2>1, SubSeqProperties
<1>4. p \o r = s
  <2>1. SubSeq(s, 1, n) \o SubSeq(s, n + 1, Len(s)) = SubSeq(s, 1, Len(s))
    <3>1. 1 \in 1..(Len(s) + 1) /\ n \in (1 - 1)..Len(s) /\ Len(s) \in n..Len(s)
      BY <1>0, <1>1
    <3> QED BY <3>1, ConcatAdjacentSubSeq
  <2> QED BY <2>1, SubSeqFull
<1>5. r # <<>> => r[1] # Slash
  <2> SUFFICES ASSUME r # <<>> PROVE r[1] # Slash
    OBVIOUS
  <2>1. Len(r) # 0
    <3> HIDE DEF r
    <3> QED BY <1>3, EmptySeq
  <2>2. n < Len(s) /\ 1 \in 1..(Len(s) - (n + 1) + 1) /\ n + 1 + 1 - 1 = n + 1
    BY <1>0, <1>1, <1>3, <2>1
  <2> HIDE DEF r
  <2> QED BY <1>1, <1>3, <2>2
<1>6. Len(p) = n
  BY <1>1, <1>2
<1> HIDE DEF p, r
<1>7. r = SubSeq(s, n + 1, Len(s))
  BY DEF r
<1> QED BY <1>2, <1>3, <1>4, <1>5, <1>6, <1>7 DEF n

LEMMA SlashesHaveNoNames ==
  ASSUME NEW p \in Seq({Slash})
  PROVE  p \in Seq(Char) /\ Unslashed(p) = <<>>
<1>1. p \in Seq(Char)
  BY PathFacts, SeqMonotonic
<1>2. {Slash} \cap PathNames = {}
  BY PathFacts
<1> QED BY <1>1, <1>2, SelectNone DEF Unslashed

\* clean: one slash and what is left, which loses a slash at its end if that is to go.
LEMMA CleanIs ==
  ASSUME NEW s \in Seq(Char), NEW removeEnd \in BOOLEAN
  PROVE  \E p \in Seq({Slash}), r \in Seq(Char), c \in Seq(Char) :
            /\ s = p \o r /\ clean(s, removeEnd) = <<Slash>> \o c
            /\ r # <<>> => r[1] # Slash
            /\ c = IF r # <<>> /\ Last(r) = Slash /\ removeEnd THEN Front(r) ELSE r
            /\ Unslashed(c) = Unslashed(s)
            /\ Len(p) = Leading(s)
<1>1. PICK p \in Seq({Slash}), r \in Seq(Char) :
            /\ s = p \o r /\ r = SubSeq(s, Leading(s) + 1, Len(s))
            /\ Len(p) = Leading(s) /\ (r # <<>> => r[1] # Slash)
  BY RestExists
<1> DEFINE c == IF r # <<>> /\ Last(r) = Slash /\ removeEnd THEN Front(r) ELSE r
<1>2. clean(s, removeEnd) = <<Slash>> \o c
  BY <1>1 DEF clean
<1>3. c \in Seq(Char)
  BY FrontAndLast
<1>4. Unslashed(s) = Unslashed(r)
  <2>0. p \in Seq(Char) /\ Unslashed(p) = <<>>
    BY SlashesHaveNoNames
  <2>1. Unslashed(s) = <<>> \o Unslashed(r)
    <3>1. Unslashed(p \o r) = Unslashed(p) \o Unslashed(r)
      BY <2>0, UnslashedConcat
    <3> QED BY <1>1, <2>0, <3>1
  <2>2. Unslashed(r) \in Seq(PathNames)
    BY UnslashedIsNode
  <2> QED BY <2>1, <2>2, ConcatEmptySeq
<1>5. Unslashed(c) = Unslashed(r)
  <2>1. CASE r # <<>> /\ Last(r) = Slash /\ removeEnd
    <3>1. Front(r) \in Seq(Char) /\ r = Append(Front(r), Slash)
      BY <2>1, FrontAndLast
    <3>2. r = Front(r) \o <<Slash>>
      BY <3>1, PathFacts, AppendIsConcat
    <3>3. Unslashed(r) = Unslashed(Front(r))
      BY <3>1, <3>2, UnslashedAppend
    <3> QED BY <2>1, <3>3
  <2>2. CASE ~(r # <<>> /\ Last(r) = Slash /\ removeEnd)
    BY <2>2
  <2> QED BY <2>1, <2>2
<1> HIDE DEF c
<1>6. c = IF r # <<>> /\ Last(r) = Slash /\ removeEnd THEN Front(r) ELSE r
  BY DEF c
<1> QED BY <1>1, <1>2, <1>3, <1>4, <1>5, <1>6

LEMMA CleanKeepsNames ==
  ASSUME NEW s \in Seq(Char), NEW removeEnd \in BOOLEAN
  PROVE  /\ clean(s, removeEnd) \in Seq(Char) /\ clean(s, removeEnd) # <<>>
         /\ Unslashed(clean(s, removeEnd)) = Unslashed(s)
<1>1. PICK c \in Seq(Char) : clean(s, removeEnd) = <<Slash>> \o c /\ Unslashed(c) = Unslashed(s)
  BY CleanIs
<1>2. <<Slash>> \in Seq(Char) /\ Len(<<Slash>>) = 1
  BY OneIsText, PathFacts
<1>3. <<Slash>> \o c \in Seq(Char) /\ <<Slash>> \o c # <<>>
  <2>1. <<Slash>> # <<>>
    OBVIOUS
  <2> QED BY <1>2, <2>1, ConcatProperties, ConcatEqualIffEmpty
<1> QED BY <1>1, <1>3, UnslashedAppend

LEMMA LastOfConcat ==
  ASSUME NEW S, NEW u \in Seq(S), NEW v \in Seq(S), v # <<>>
  PROVE  Last(u \o v) = Last(v) /\ Front(u \o v) = u \o Front(v)
<1>1. Front(v) \in Seq(S) /\ Last(v) \in S /\ v = Append(Front(v), Last(v))
  BY FrontAndLast
<1>2. PICK f, e : f = Front(v) /\ e = Last(v)
  OBVIOUS
<1>3. f \in Seq(S) /\ e \in S /\ v = Append(f, e)
  BY <1>1, <1>2
<1>4. u \o f \in Seq(S) /\ u \o v = Append(u \o f, e)
  BY <1>3, ConcatAppend
<1>5. Front(Append(u \o f, e)) = u \o f /\ Last(Append(u \o f, e)) = e
  BY <1>3, <1>4, FrontOfAppend
<1> QED BY <1>2, <1>4, <1>5

\* A cleaned string that had a name at its end has it there, and loses the slash behind it.
LEMMA CleanEndsInName ==
  ASSUME NEW w \in Seq(Char), NEW x \in PathNames, NEW s \in Seq(Char),
         s = Append(w, x) \/ s = Append(Append(w, x), Slash)
  PROVE  Last(clean(s, TRUE)) = x
<1>0. x \in Char /\ Slash \in Char /\ x # Slash
  BY PathFacts
<1>1. Append(w, x) \in Seq(Char) /\ Front(Append(w, x)) = w /\ Last(Append(w, x)) = x
  BY <1>0, FrontOfAppend
<1>2. PICK p \in Seq({Slash}), r \in Seq(Char), c \in Seq(Char) :
            /\ s = p \o r /\ clean(s, TRUE) = <<Slash>> \o c
            /\ c = (IF r # <<>> /\ Last(r) = Slash THEN Front(r) ELSE r)
            /\ Unslashed(c) = Unslashed(s)
  <2>1. \E p \in Seq({Slash}), r \in Seq(Char), c \in Seq(Char) :
            /\ s = p \o r /\ clean(s, TRUE) = <<Slash>> \o c
            /\ r # <<>> => r[1] # Slash
            /\ c = IF r # <<>> /\ Last(r) = Slash /\ TRUE THEN Front(r) ELSE r
            /\ Unslashed(c) = Unslashed(s)
            /\ Len(p) = Leading(s)
    BY CleanIs, Zenon
  <2> QED BY <2>1
<1>3. p \in Seq(Char)
  BY SlashesHaveNoNames
<1>4. Unslashed(s) # <<>>
  <2>1. Unslashed(w) \in Seq(PathNames)
    BY UnslashedIsNode
  <2>2. Append(w, x) = w \o <<x>>
    BY <1>0, AppendIsConcat
  <2>3. Unslashed(Append(w, x)) = Append(Unslashed(w), x)
    BY <2>2, UnslashedAppend
  <2>4. Unslashed(Append(w, x)) # <<>>
    <3>1. Append(Unslashed(w), x) # <<>>
      BY <2>1, AppendProperties
    <3> QED BY <2>3, <3>1
  <2>5. Append(Append(w, x), Slash) = Append(w, x) \o <<Slash>>
    <3>1. \A u \in Seq(Char) : Append(u, Slash) = u \o <<Slash>>
      BY <1>0, AppendIsConcat
    <3> QED BY <1>1, <3>1
  <2>6. Unslashed(Append(Append(w, x), Slash)) = Unslashed(Append(w, x))
    BY <1>1, <2>5, UnslashedAppend
  <2> QED BY <2>4, <2>6
<1>5. c # <<>>
  BY <1>2, <1>4, UnslashedOne
<1>6. r # <<>>
  <2>1. r = <<>> => c = <<>>
    BY <1>2
  <2> QED BY <1>5, <2>1
<1>7. Last(s) = Last(r) /\ Front(s) = p \o Front(r)
  BY <1>2, <1>3, <1>6, LastOfConcat
<1>8. Last(c) = x
  <2>1. CASE s = Append(w, x)
    BY <1>0, <1>1, <1>2, <1>7, <2>1
  <2>2. CASE s = Append(Append(w, x), Slash)
    <3>1. Last(s) = Slash /\ Front(s) = Append(w, x)
      BY <1>0, <1>1, <2>2, FrontOfAppend
    <3>2. c = Front(r)
      BY <1>2, <1>6, <1>7, <3>1
    <3>3. Last(p \o c) = Last(c)
      BY <1>3, <1>5, LastOfConcat
    <3> QED BY <1>1, <1>7, <3>1, <3>2, <3>3
  <2> QED BY <2>1, <2>2
<1>9. <<Slash>> \in Seq(Char)
  BY <1>0, OneIsText
<1>10. Last(<<Slash>> \o c) = Last(c)
  BY <1>5, <1>9, LastOfConcat
<1> QED BY <1>2, <1>8, <1>10

\* A name with at most one slash in front, cleaned, is the name behind one.
LEMMA CleanOfOneName ==
  ASSUME NEW x \in PathNames, NEW e \in {<<>>, <<Slash>>}
  PROVE  Tail(clean(e \o <<x>>, TRUE)) = <<x>>
<1>0. x \in Char /\ Slash \in Char /\ x # Slash
  BY PathFacts
<1>1. /\ <<x>> \in Seq(Char) /\ Len(<<x>>) = 1 /\ <<x>>[1] = x /\ <<x>> # <<>>
      /\ <<Slash>> \in Seq(Char) /\ Len(<<Slash>>) = 1 /\ <<Slash>>[1] = Slash /\ <<Slash>> # <<>>
      /\ <<>> \in Seq(Char) /\ Len(<<>>) = 0
  BY <1>0
<1>2. e \in Seq(Char) /\ Len(e) \in {0, 1} /\ \A i \in 1..Len(e) : e[i] = Slash
  <2>1. CASE e = <<>>
    BY <1>1, <2>1
  <2>2. CASE e = <<Slash>>
    BY <1>1, <2>2
  <2> QED BY <2>1, <2>2
<1> DEFINE o == <<x>>
           s == e \o o
<1>3. o \in Seq(Char) /\ Len(o) = 1 /\ o[1] = x /\ o # <<>>
  BY <1>1
<1> HIDE DEF o
<1>4. /\ s \in Seq(Char) /\ Len(s) = Len(e) + 1
      /\ \A i \in 1..(Len(e) + 1) : s[i] = IF i <= Len(e) THEN e[i] ELSE o[i - Len(e)]
  BY <1>2, <1>3, ConcatProperties
<1>5. SubSeq(s, Len(e) + 1, Len(s)) = o
  BY <1>2, <1>3, RestOfConcat
<1> HIDE DEF s
<1>6. Slashes(s, Len(e))
  <2>1. Len(e) \in 0..Len(s)
    BY <1>2, <1>4
  <2>2. \A i \in 1..Len(e) : s[i] = Slash
    BY <1>2, <1>4
  <2>3. s[Len(e) + 1] = x
    <3>1. Len(e) + 1 \in 1..(Len(e) + 1) /\ ~(Len(e) + 1 <= Len(e)) /\ (Len(e) + 1) - Len(e) = 1
      BY <1>2
    <3> QED BY <1>3, <1>4, <3>1
  <2> QED BY <1>0, <2>1, <2>2, <2>3 DEF Slashes
<1>7. Leading(s) = Len(e)
  BY <1>4, <1>6, LeadingIs
<1>8. Last(o) = x
  BY <1>3 DEF Last
<1>9. clean(s, TRUE) = <<Slash>> \o o
  BY <1>0, <1>5, <1>7, <1>8 DEF clean
<1>10. Tail(<<Slash>> \o o) = o
  <2> DEFINE q == <<Slash>>
  <2>1. q \in Seq(Char) /\ Len(q) = 1 /\ q # <<>>
    BY <1>1
  <2> HIDE DEF q
  <2>2. q \o o \in Seq(Char) /\ q \o o # <<>>
    BY <1>3, <2>1, ConcatProperties, ConcatEqualIffEmpty
  <2>3. Tail(q \o o) = SubSeq(q \o o, 2, Len(q \o o))
    BY <2>2, TailIsSubSeq
  <2>4. SubSeq(q \o o, Len(q) + 1, Len(q \o o)) = o
    BY <1>3, <2>1, RestOfConcat
  <2>5. Len(q) + 1 = 2
    BY <2>1
  <2>6. Tail(q \o o) = o
    BY <2>3, <2>4, <2>5
  <2> QED BY <2>6 DEF q
<1> QED BY <1>9, <1>10 DEF s, o

-----------------------------------------------------------------------------
(* FileTree: what list answers *)

\* What list says of a directory: the name of what is in it, and a slash behind a directory.
LEMMA ListItem ==
  ASSUME DOMAIN tree \subseteq Seq(PathNames), NEW a \in PathArguments, NEW item \in list(a)
  PROVE  \E x \in PathNames :
           /\ Append(Unslashed(a), x) \in DOMAIN tree
           /\ item = IF tree[Append(Unslashed(a), x)] = "dir" THEN <<x>> \o <<Slash>> ELSE <<x>>
<1> DEFINE request == clean(a, FALSE)
<1>1. a \in Seq(Char)
  BY PathFacts
<1>2. request \in Seq(Char) /\ request # <<>> /\ Unslashed(request) = Unslashed(a)
  BY <1>1, CleanKeepsNames
<1>3. \E full \in HostList(request) :
        item = Tail(clean(relative(request, full), TRUE)) \o (IF isDirectory(full) THEN <<Slash>> ELSE <<>>)
  BY DEF list
<1> HIDE DEF request
<1>4. PICK full \in HostList(request) :
        item = Tail(clean(relative(request, full), TRUE)) \o (IF isDirectory(full) THEN <<Slash>> ELSE <<>>)
  BY <1>3
<1>5. PICK n \in DOMAIN tree :
        /\ n # <<>> /\ Parent(n) = Unslashed(request)
        /\ full = request \o (IF EndsOpen(request) THEN <<>> ELSE <<Slash>>) \o <<Last(n)>>
  BY DEF HostList
<1>6. PICK x, e : x = Last(n) /\ e = IF EndsOpen(request) THEN <<>> ELSE <<Slash>>
  OBVIOUS
<1>7. x \in PathNames /\ n = Append(Unslashed(a), x)
  <2>1. n \in Seq(PathNames)
    BY <1>5
  <2>2. Last(n) \in PathNames /\ n = Append(Front(n), Last(n))
    BY <1>5, <2>1, FrontAndLast
  <2> QED BY <1>2, <1>5, <1>6, <2>2 DEF Parent
<1>8. x \in Char /\ Slash \in Char /\ x # Slash
  BY <1>7, PathFacts
<1>9. e \in {<<>>, <<Slash>>} /\ e \in Seq(Char) /\ <<x>> \in Seq(Char) /\ <<Slash>> \in Seq(Char)
  <2>1. <<x>> \in Seq(Char) /\ <<Slash>> \in Seq(Char) /\ <<>> \in Seq(Char)
    BY <1>8, OneIsText, EmptySeq
  <2>2. e = <<>> \/ e = <<Slash>>
    BY <1>6
  <2> QED BY <2>1, <2>2
<1>10. full = (request \o e) \o <<x>> /\ request \o e \in Seq(Char) /\ e \o <<x>> \in Seq(Char)
  <2>1. full = (request \o e) \o <<x>>
    BY <1>5, <1>6
  <2>2. request \o e \in Seq(Char)
    BY <1>2, <1>9, ConcatProperties
  <2>3. e \o <<x>> \in Seq(Char)
    BY <1>9, ConcatProperties
  <2> QED BY <2>1, <2>2, <2>3
<1>11. full = request \o (e \o <<x>>)
  <2>1. (request \o e) \o <<x>> = request \o (e \o <<x>>)
    BY <1>2, <1>9, ConcatAssociative
  <2> QED BY <1>10, <2>1
<1>12. relative(request, full) = e \o <<x>>
  BY <1>2, <1>10, <1>11, RestOfConcat DEF relative
<1>13. Tail(clean(relative(request, full), TRUE)) = <<x>>
  BY <1>7, <1>9, <1>12, CleanOfOneName
<1>14. Unslashed(full) = n
  <2>1. Unslashed(request \o e) = Unslashed(request)
    <3>1. CASE e = <<>>
      BY <1>2, <3>1, ConcatEmptySeq
    <3>2. CASE e = <<Slash>>
      BY <1>2, <3>2, UnslashedAppend
    <3> QED BY <1>9, <3>1, <3>2
  <2>2. Unslashed((request \o e) \o <<x>>) = Append(Unslashed(request \o e), x)
    BY <1>7, <1>10, UnslashedAppend
  <2> QED BY <1>2, <1>7, <1>10, <2>1, <2>2
<1>15. ~EndsOpen(full)
  <2>1. full = Append(request \o e, x)
    BY <1>8, <1>10, AppendIsConcat
  <2>2. Last(full) = x
    BY <1>8, <1>10, <2>1, FrontOfAppend
  <2> QED BY <1>8, <2>2 DEF EndsOpen
<1>16. isDirectory(full) <=> tree[n] = "dir"
  BY <1>5, <1>14, <1>15 DEF isDirectory, FileExists
<1>17. item = <<x>> \o (IF tree[n] = "dir" THEN <<Slash>> ELSE <<>>)
  BY <1>4, <1>13, <1>16
<1>18. <<x>> \o <<>> = <<x>>
  BY <1>9, ConcatEmptySeq
<1>19. item = IF tree[n] = "dir" THEN <<x>> \o <<Slash>> ELSE <<x>>
  BY <1>17, <1>18
<1> QED BY <1>5, <1>7, <1>19

\* What list answers is true of every tree of nodes.
LEMMA ListIsTrue ==
  ASSUME DOMAIN tree \subseteq Seq(PathNames)
  PROVE  ListedIsThere
<1> SUFFICES ASSUME NEW a \in PathArguments, NEW item \in list(a), NEW named,
                    named = clean(a \o <<Slash>> \o item, TRUE)
             PROVE  FileExists(named) /\ (isDirectory(named) <=> Last(item) = Slash)
  BY DEF ListedIsThere
<1>1. PICK x \in PathNames :
         /\ Append(Unslashed(a), x) \in DOMAIN tree
         /\ item = IF tree[Append(Unslashed(a), x)] = "dir" THEN <<x>> \o <<Slash>> ELSE <<x>>
  BY ListItem
<1>2. PICK n : n = Append(Unslashed(a), x)
  OBVIOUS
<1>3. n \in DOMAIN tree /\ item = IF tree[n] = "dir" THEN <<x>> \o <<Slash>> ELSE <<x>>
  BY <1>1, <1>2
<1>4. x \in Char /\ Slash \in Char /\ x # Slash /\ a \in Seq(Char)
  BY PathFacts
<1>5. <<x>> \in Seq(Char) /\ <<Slash>> \in Seq(Char)
  BY <1>4, OneIsText
<1> DEFINE w == a \o <<Slash>>
<1>6. w \in Seq(Char) /\ Unslashed(w) = Unslashed(a)
  BY <1>4, <1>5, ConcatProperties, UnslashedAppend
<1> HIDE DEF w
<1>7. /\ w \o <<x>> \in Seq(Char) /\ Unslashed(w \o <<x>>) = n
      /\ w \o <<x>> = Append(w, x)
  BY <1>2, <1>4, <1>5, <1>6, ConcatProperties, UnslashedAppend, AppendIsConcat
<1>8. /\ (w \o <<x>>) \o <<Slash>> = w \o (<<x>> \o <<Slash>>)
      /\ (w \o <<x>>) \o <<Slash>> = Append(Append(w, x), Slash)
      /\ (w \o <<x>>) \o <<Slash>> \in Seq(Char)
      /\ Unslashed((w \o <<x>>) \o <<Slash>>) = n
  <2>1. (w \o <<x>>) \o <<Slash>> = w \o (<<x>> \o <<Slash>>)
    BY <1>5, <1>6, ConcatAssociative
  <2>2. (w \o <<x>>) \o <<Slash>> = Append(w \o <<x>>, Slash)
    BY <1>4, <1>7, AppendIsConcat
  <2>3. (w \o <<x>>) \o <<Slash>> \in Seq(Char)
    BY <1>5, <1>7, ConcatProperties
  <2>4. Unslashed((w \o <<x>>) \o <<Slash>>) = Unslashed(w \o <<x>>)
    BY <1>7, UnslashedAppend
  <2> QED BY <1>7, <2>1, <2>2, <2>3, <2>4
<1>9. PICK s : s = w \o item
  OBVIOUS
<1>10. s \in Seq(Char) /\ Unslashed(s) = n /\ (s = Append(w, x) \/ s = Append(Append(w, x), Slash))
  <2>1. CASE tree[n] = "dir"
    BY <1>3, <1>8, <1>9, <2>1
  <2>2. CASE tree[n] # "dir"
    BY <1>3, <1>7, <1>9, <2>2
  <2> QED BY <2>1, <2>2
<1>11. named = clean(s, TRUE)
  BY <1>9 DEF w
<1>12. Unslashed(named) = n
  BY <1>10, <1>11, CleanKeepsNames
<1>13. Last(named) = x
  BY <1>6, <1>10, <1>11, CleanEndsInName
<1>14. ~EndsOpen(named)
  BY <1>4, <1>13 DEF EndsOpen
<1>15. FileExists(named) /\ (isDirectory(named) <=> tree[n] = "dir")
  BY <1>3, <1>12, <1>14 DEF FileExists, isDirectory
<1>16. Last(item) = Slash <=> tree[n] = "dir"
  <2>1. Last(<<x>>) = x
    BY <1>5 DEF Last
  <2>2. <<Slash>> # <<>> /\ Last(<<Slash>>) = Slash
    BY DEF Last
  <2>3. Last(<<x>> \o <<Slash>>) = Slash
    BY <1>5, <2>2, LastOfConcat
  <2> QED BY <1>3, <1>4, <2>1, <2>3
<1> QED BY <1>15, <1>16

-----------------------------------------------------------------------------
(* FileTree: what there is always makes a tree *)

\* Nodes, of which only directories have others below them.
IsTree(t) ==
  /\ DOMAIN t \subseteq Seq(PathNames)
  /\ \A n \in DOMAIN t : t[n] \in {"dir", "file"}
  /\ \A n \in DOMAIN t, p \in Seq(PathNames) :
       IsPrefix(p, n) => p \in DOMAIN t /\ (p # n => t[p] = "dir")

TreeInv == IsTree(tree)

LEMMA WithFileIsTree ==
  ASSUME TreeInv, NEW node \in Seq(PathNames), HasParent(node),
         node \in DOMAIN tree => tree[node] # "dir"
  PROVE  IsTree(WithFile(node))
<1> DEFINE t == WithFile(node)
<1>1. /\ DOMAIN t = DOMAIN tree \cup {node} /\ t[node] = "file"
      /\ \A n \in DOMAIN tree : n # node => t[n] = tree[n]
  BY DEF WithFile
<1> HIDE DEF t
<1>2. DOMAIN t \subseteq Seq(PathNames) /\ \A n \in DOMAIN t : t[n] \in {"dir", "file"}
  BY <1>1 DEF TreeInv, IsTree
<1>3. ASSUME NEW n \in DOMAIN t, NEW p \in Seq(PathNames), IsPrefix(p, n)
      PROVE  p \in DOMAIN t /\ (p # n => t[p] = "dir")
  <2>1. CASE p = n
    BY <1>3, <2>1
  <2>2. CASE p # n /\ n \in DOMAIN tree
    <3>1. p \in DOMAIN tree /\ tree[p] = "dir"
      BY <1>3, <2>2 DEF TreeInv, IsTree
    <3>2. p # node
      BY <3>1
    <3> QED BY <1>1, <3>1, <3>2
  <2>3. CASE p # n /\ n \notin DOMAIN tree
    <3>1. n = node
      BY <1>1, <2>3
    <3>2. n # <<>>
      <4>1. n = <<>> => p = <<>>
        BY <1>3, PrefixOfEmpty
      <4> QED BY <2>3, <4>1
    <3>3. Front(n) \in DOMAIN tree /\ tree[Front(n)] = "dir"
      BY <3>1, <3>2 DEF HasParent, Parent
    <3>4. IsPrefix(p, Front(n))
      BY <1>3, <2>3, <3>1, <3>2, PrefixOfFront
    <3>5. p \in DOMAIN tree /\ tree[p] = "dir"
      BY <3>3, <3>4 DEF TreeInv, IsTree
    <3>6. p # node
      BY <2>3, <3>1
    <3> QED BY <1>1, <3>5, <3>6
  <2> QED BY <2>1, <2>2, <2>3
<1> QED BY <1>2, <1>3 DEF IsTree, t

\* What is taken away takes all below it with it.
LEMMA WithoutIsTree ==
  ASSUME TreeInv, NEW gone, \A n \in gone : Under(n) \subseteq gone
  PROVE  IsTree(Without(gone)) /\ DOMAIN Without(gone) = DOMAIN tree \ gone
         /\ \A n \in DOMAIN Without(gone) : Without(gone)[n] = tree[n]
<1> DEFINE t == Without(gone)
<1>1. DOMAIN t = DOMAIN tree \ gone /\ \A n \in DOMAIN t : t[n] = tree[n]
  BY DEF Without
<1> HIDE DEF t
<1>2. DOMAIN t \subseteq Seq(PathNames) /\ \A n \in DOMAIN t : t[n] \in {"dir", "file"}
  BY <1>1 DEF TreeInv, IsTree
<1>3. ASSUME NEW n \in DOMAIN t, NEW p \in Seq(PathNames), IsPrefix(p, n)
      PROVE  p \in DOMAIN t /\ (p # n => t[p] = "dir")
  <2>1. n \in DOMAIN tree /\ n \notin gone
    BY <1>1
  <2>2. p \in DOMAIN tree /\ (p # n => tree[p] = "dir")
    BY <1>3, <2>1 DEF TreeInv, IsTree
  <2>3. n \in Under(p)
    BY <1>3, <2>1 DEF Under
  <2>4. p \notin gone
    BY <2>1, <2>3
  <2> QED BY <1>1, <2>2, <2>4
<1>4. IsTree(t)
  BY <1>2, <1>3 DEF IsTree
<1> QED BY <1>1, <1>4 DEF t

\* A removal leaves a tree, has taken only what is below the node, and says so, unless the
\* host has refused it a part.
LEMMA RemovalIsTrue ==
  ASSUME TreeInv, NEW f \in DOMAIN tree, Removes(f)
  PROVE  TreeInv' /\ RemovedBelow(f) /\ (answer' = "no" => tree' = tree \/ refused')
<1>0. f \in Seq(PathNames)
  BY DEF TreeInv, IsTree
<1>1. PICK r \in Removals(f) : tree' = Without(r.gone) /\ FileCall(r.ok, r.gone # Under(f))
  BY DEF Removes
<1>2. PICK gone, ok : gone = r.gone /\ ok = r.ok
  OBVIOUS
<1>3. /\ gone \in SUBSET Under(f) /\ ok \in BOOLEAN
      /\ IF ok THEN gone = Under(f) \/ (gone = {} /\ tree[f] = "dir") ELSE BreaksOff(f, gone)
  BY <1>2 DEF Removals
<1>4. /\ tree' = Without(gone) /\ refused' = (gone # Under(f))
      /\ answer' = (IF ok THEN "yes" ELSE "no")
  BY <1>1, <1>2 DEF FileCall
<1>5. \A n \in Under(f) : Under(n) \subseteq Under(f)
  <2> SUFFICES ASSUME NEW n \in Under(f), NEW m \in Under(n) PROVE m \in Under(f)
    OBVIOUS
  <2>1. n \in DOMAIN tree /\ m \in DOMAIN tree /\ IsPrefix(f, n) /\ IsPrefix(n, m)
    BY DEF Under
  <2>2. n \in Seq(PathNames) /\ m \in Seq(PathNames)
    BY <2>1 DEF TreeInv, IsTree
  <2>3. IsPrefix(f, m)
    BY <1>0, <2>1, <2>2, PrefixOfPrefix
  <2> QED BY <2>1, <2>3 DEF Under
<1>6. f \in Under(f)
  BY <1>0, PrefixOfItself DEF Under
<1>7. (\A n \in gone : Under(n) \subseteq gone) /\ (gone # Under(f) => f \notin gone)
  <2>1. CASE gone = Under(f)
    BY <1>5, <2>1
  <2>2. CASE gone = {}
    BY <2>2
  <2>3. CASE BreaksOff(f, gone)
    BY <2>3 DEF BreaksOff
  <2> QED BY <1>3, <2>1, <2>2, <2>3
<1>8. /\ IsTree(Without(gone)) /\ DOMAIN Without(gone) = DOMAIN tree \ gone
      /\ \A n \in DOMAIN Without(gone) : Without(gone)[n] = tree[n]
  BY <1>7, WithoutIsTree
<1>9. DOMAIN tree' = DOMAIN tree \ gone /\ \A n \in DOMAIN tree' : tree'[n] = tree[n]
  BY <1>4, <1>8
<1>10. TreeInv'
  BY <1>4, <1>8 DEF TreeInv, IsTree
<1>11. \A n \in DOMAIN tree \ DOMAIN tree' : IsPrefix(f, n)
  BY <1>3, <1>9 DEF Under
<1>12. ASSUME refused' PROVE f \in DOMAIN tree' /\ (answer' = "yes" => DOMAIN tree' = DOMAIN tree)
  <2>1. f \in DOMAIN tree'
    BY <1>4, <1>7, <1>9, <1>12
  <2>2. ASSUME answer' = "yes" PROVE gone = {}
    BY <1>3, <1>4, <1>12, <2>2
  <2> QED BY <1>9, <2>1, <2>2
<1>13. ASSUME ~refused' PROVE \A n \in DOMAIN tree' : ~IsPrefix(f, n)
  BY <1>4, <1>9, <1>13 DEF Under
<1>14. RemovedBelow(f)
  BY <1>9, <1>11, <1>12, <1>13 DEF RemovedBelow
<1>15. ASSUME answer' = "no" PROVE refused'
  BY <1>3, <1>4, <1>6, <1>7, <1>15 DEF BreaksOff
<1> QED BY <1>10, <1>14, <1>15

LEMMA MkdirIsTree ==
  ASSUME TreeInv, NEW f \in Seq(PathNames), NEW d \in 0..Len(f)
  PROVE  /\ IsTree(mkdir(f, d))
         /\ \A n \in DOMAIN tree : n \in DOMAIN mkdir(f, d) /\ mkdir(f, d)[n] = tree[n]
         /\ \A n \in DOMAIN mkdir(f, d) \ DOMAIN tree : IsPrefix(n, f) /\ mkdir(f, d)[n] = "dir"
         /\ (\A n \in DOMAIN tree : IsPrefix(n, f) => tree[n] = "dir") /\ d = Len(f) =>
              f \in DOMAIN mkdir(f, d) /\ mkdir(f, d)[f] = "dir"
<1> DEFINE Above(k) == {SubSeq(f, 1, n) : n \in 0..k}
           above == Above(Len(f))
           made == Above(d)
           t == [n \in DOMAIN tree \cup made |-> IF n \in DOMAIN tree THEN tree[n] ELSE "dir"]
<1>0. Len(f) \in Nat
  BY LenProperties
<1>1. \A p : p \in above <=> p \in Seq(PathNames) /\ IsPrefix(p, f)
  <2>1. \A p \in above : p \in Seq(PathNames) /\ IsPrefix(p, f)
    BY PrefixIsPart
  <2>2. \A p \in Seq(PathNames) : IsPrefix(p, f) => p \in above
    BY PrefixIsPart
  <2> QED BY <2>1, <2>2
<1>2. mkdir(f, d) = IF \E n \in above \cap DOMAIN tree : tree[n] = "file" THEN tree ELSE t
  BY DEF mkdir
<1>3. \A p \in made : p \in above
  BY <1>0
<1>4. d = Len(f) => made = above
  OBVIOUS
<1>5. ASSUME NEW n \in made, NEW p \in Seq(PathNames), IsPrefix(p, n) PROVE p \in made
  <2>1. PICK k \in 0..d : n = SubSeq(f, 1, k)
    OBVIOUS
  <2>2. k \in 0..Len(f) /\ n \in Seq(PathNames) /\ IsPrefix(n, f)
    <3>1. k \in 0..Len(f)
      BY <1>0
    <3> HIDE DEF above, made
    <3> QED BY <2>1, <3>1, PrefixIsPart
  <2>3. Len(n) = k
    <3>1. \A i \in 1..k : f[i] \in PathNames
      BY <1>0, <2>2, ElementOfSeq
    <3>2. Len(SubSeq(f, 1, k)) = IF 1 <= k THEN k - 1 + 1 ELSE 0
      BY <2>2, <3>1, SubSeqProperties
    <3> QED BY <2>1, <2>2, <3>2
  <2>4. Len(p) \in 0..Len(n)
    BY <1>5, <2>2, PrefixIsPart
  <2>5. IsPrefix(p, f)
    BY <1>5, <2>2, PrefixOfPrefix
  <2>6. p = SubSeq(f, 1, Len(p))
    BY <2>5, PrefixIsPart
  <2>7. Len(p) \in 0..d
    BY <1>0, <2>2, <2>3, <2>4
  <2> QED BY <2>6, <2>7
<1> HIDE DEF above, made
<1>6. /\ DOMAIN t = DOMAIN tree \cup made
      /\ \A n \in DOMAIN tree : t[n] = tree[n]
      /\ \A n \in made : n \notin DOMAIN tree => t[n] = "dir"
  OBVIOUS
<1> HIDE DEF t
<1>7. CASE \E n \in above \cap DOMAIN tree : tree[n] = "file"
  <2>1. mkdir(f, d) = tree
    BY <1>2, <1>7
  <2>2. ~ \A n \in DOMAIN tree : IsPrefix(n, f) => tree[n] = "dir"
    BY <1>1, <1>7
  <2> QED BY <2>1, <2>2 DEF TreeInv
<1>8. CASE ~ \E n \in above \cap DOMAIN tree : tree[n] = "file"
  <2>1. mkdir(f, d) = t
    BY <1>2, <1>8
  <2>2. DOMAIN t \subseteq Seq(PathNames) /\ \A n \in DOMAIN t : t[n] \in {"dir", "file"}
    BY <1>1, <1>3, <1>6 DEF TreeInv, IsTree
  <2>3. \A n \in made : t[n] = "dir"
    <3> SUFFICES ASSUME NEW n \in made PROVE t[n] = "dir"
      OBVIOUS
    <3>1. CASE n \in DOMAIN tree
      BY <1>3, <1>6, <1>8, <3>1 DEF TreeInv, IsTree
    <3> QED BY <1>6, <3>1
  <2>4. ASSUME NEW n \in DOMAIN t, NEW p \in Seq(PathNames), IsPrefix(p, n)
        PROVE  p \in DOMAIN t /\ (p # n => t[p] = "dir")
    <3>1. CASE n \in DOMAIN tree
      <4>1. p \in DOMAIN tree /\ (p # n => tree[p] = "dir")
        BY <2>4, <3>1 DEF TreeInv, IsTree
      <4> QED BY <1>6, <4>1
    <3>2. CASE n \in made
      <4>1. p \in made
        BY <1>5, <2>4, <3>2
      <4> QED BY <1>6, <2>3, <4>1
    <3> QED BY <1>6, <3>1, <3>2
  <2>5. IsTree(t)
    BY <2>2, <2>4 DEF IsTree
  <2>6. \A n \in DOMAIN t \ DOMAIN tree : IsPrefix(n, f) /\ t[n] = "dir"
    BY <1>1, <1>3, <1>6
  <2>7. d = Len(f) => f \in DOMAIN t /\ t[f] = "dir"
    <3>1. f \in above
      BY <1>1, PrefixOfItself
    <3> QED BY <1>4, <1>6, <2>3, <3>1
  <2> QED BY <1>6, <2>1, <2>5, <2>6, <2>7
<1> QED BY <1>7, <1>8

LEMMA RenamedIs ==
  ASSUME NEW f \in Seq(PathNames), NEW t \in Seq(PathNames), NEW w \in Seq(PathNames)
  PROVE  Renamed(f, t, f \o w) = t \o w /\ t \o w \in Seq(PathNames) /\ IsPrefix(t, t \o w)
  BY RestOfConcat, ConcatProperties, PrefixOfConcat DEF Renamed

\* What is moved goes where nothing is, and comes from where it was.
Moves(f, t, u) ==
  \E w \in Seq(PathNames) :
     /\ u = f \o w /\ Renamed(f, t, u) = t \o w /\ Renamed(t, f, t \o w) = u
     /\ t \o w \in Seq(PathNames) /\ IsPrefix(t, t \o w) /\ t \o w \notin DOMAIN tree

LEMMA RenamedApart ==
  ASSUME TreeInv, NEW f \in Seq(PathNames), NEW t \in Seq(PathNames), t \notin DOMAIN tree,
         NEW u \in Under(f)
  PROVE  Moves(f, t, u)
<1>1. u \in Seq(PathNames) /\ IsPrefix(f, u) /\ u \in DOMAIN tree
  BY DEF Under, TreeInv, IsTree
<1>2. PICK w \in Seq(PathNames) : u = f \o w
  BY <1>1, PrefixSplits
<1>3. Renamed(f, t, u) = t \o w /\ t \o w \in Seq(PathNames) /\ IsPrefix(t, t \o w)
  BY <1>2, RenamedIs
<1>4. Renamed(t, f, t \o w) = u
  BY <1>2, RenamedIs
<1>5. t \o w \notin DOMAIN tree
  BY <1>3 DEF TreeInv, IsTree
<1> QED BY <1>2, <1>3, <1>4, <1>5 DEF Moves

\* What there is after a move: what was not below f, and all below f, now below t.
LEMMA MovedTreeIs ==
  ASSUME TreeInv, NEW f \in Seq(PathNames), NEW t \in Seq(PathNames), t \notin DOMAIN tree
  PROVE  LET m == MovedTree(f, t)
         IN  /\ DOMAIN m = (DOMAIN tree \ Under(f)) \cup {Renamed(f, t, u) : u \in Under(f)}
             /\ \A n \in DOMAIN tree \ Under(f) : m[n] = tree[n] /\ ~IsPrefix(t, n)
             /\ \A u \in Under(f) : m[Renamed(f, t, u)] = tree[u]
<1> DEFINE m == MovedTree(f, t)
           moved == {Renamed(f, t, u) : u \in Under(f)}
<1>1. /\ DOMAIN m = (DOMAIN tree \ Under(f)) \cup moved
      /\ \A n \in DOMAIN tree \ Under(f) : m[n] = tree[n]
      /\ \A n \in moved : n \notin DOMAIN tree => m[n] = tree[Renamed(t, f, n)]
  BY DEF MovedTree
<1> HIDE DEF m
<1>2. ASSUME NEW n \in DOMAIN tree PROVE ~IsPrefix(t, n)
  BY DEF TreeInv, IsTree
<1>3. ASSUME NEW u \in Under(f) PROVE m[Renamed(f, t, u)] = tree[u]
  <2>0. Moves(f, t, u)
    BY RenamedApart
  <2>1. PICK w \in Seq(PathNames) :
            /\ u = f \o w /\ Renamed(f, t, u) = t \o w /\ Renamed(t, f, t \o w) = u
            /\ t \o w \in Seq(PathNames) /\ IsPrefix(t, t \o w) /\ t \o w \notin DOMAIN tree
    BY <2>0 DEF Moves
  <2>2. t \o w \in moved
    BY <2>1
  <2> HIDE DEF moved
  <2> QED BY <1>1, <2>1, <2>2
<1> QED BY <1>1, <1>2, <1>3 DEF m

LEMMA MovedIsTree ==
  ASSUME TreeInv, NEW f \in Seq(PathNames), NEW t \in Seq(PathNames),
         f \in DOMAIN tree, t \notin DOMAIN tree, ~IsPrefix(f, t), HasParent(t)
  PROVE  IsTree(MovedTree(f, t))
<1> DEFINE m == MovedTree(f, t)
<1>1. /\ DOMAIN m = (DOMAIN tree \ Under(f)) \cup {Renamed(f, t, u) : u \in Under(f)}
      /\ \A n \in DOMAIN tree \ Under(f) : m[n] = tree[n] /\ ~IsPrefix(t, n)
      /\ \A u \in Under(f) : m[Renamed(f, t, u)] = tree[u]
  BY MovedTreeIs
<1> HIDE DEF m
<1>2. ASSUME NEW n \in DOMAIN m
      PROVE  \/ n \in DOMAIN tree /\ ~IsPrefix(f, n)
             \/ \E w \in Seq(PathNames) : /\ n = t \o w /\ n \in Seq(PathNames)
                                          /\ f \o w \in Under(f) /\ m[n] = tree[f \o w]
  <2>1. CASE n \in DOMAIN tree \ Under(f)
    BY <2>1 DEF Under
  <2>2. ASSUME NEW u \in Under(f), n = Renamed(f, t, u)
        PROVE  \E w \in Seq(PathNames) : /\ n = t \o w /\ n \in Seq(PathNames)
                                         /\ f \o w \in Under(f) /\ m[n] = tree[f \o w]
    <3>0. Moves(f, t, u)
      BY RenamedApart
    <3>1. PICK w \in Seq(PathNames) :
            /\ u = f \o w /\ Renamed(f, t, u) = t \o w /\ Renamed(t, f, t \o w) = u
            /\ t \o w \in Seq(PathNames) /\ IsPrefix(t, t \o w) /\ t \o w \notin DOMAIN tree
      BY <3>0 DEF Moves
    <3>2. n = t \o w /\ n \in Seq(PathNames) /\ f \o w \in Under(f) /\ m[n] = tree[f \o w]
      BY <1>1, <2>2, <3>1
    <3> QED BY <3>2
  <2> QED BY <1>1, <2>1, <2>2
<1>3. DOMAIN m \subseteq Seq(PathNames) /\ \A n \in DOMAIN m : m[n] \in {"dir", "file"}
  <2> SUFFICES ASSUME NEW n \in DOMAIN m PROVE n \in Seq(PathNames) /\ m[n] \in {"dir", "file"}
    OBVIOUS
  <2>1. CASE n \in DOMAIN tree /\ ~IsPrefix(f, n)
    BY <1>1, <2>1 DEF TreeInv, IsTree, Under
  <2>2. CASE \E w \in Seq(PathNames) : /\ n = t \o w /\ n \in Seq(PathNames)
                                       /\ f \o w \in Under(f) /\ m[n] = tree[f \o w]
    BY <2>2 DEF TreeInv, IsTree, Under
  <2> QED BY <1>2, <2>1, <2>2
\* What was below f and w is below t and w.
<1>4. ASSUME NEW w \in Seq(PathNames), f \o w \in Under(f)
      PROVE  t \o w \in DOMAIN m /\ m[t \o w] = tree[f \o w]
  <2>1. Renamed(f, t, f \o w) = t \o w
    BY RenamedIs
  <2> QED BY <1>1, <1>4, <2>1
\* What is above t is where it was.
<1>5. ASSUME NEW p \in Seq(PathNames), IsPrefix(p, t), p # t
      PROVE  p \in DOMAIN m /\ m[p] = "dir"
  <2>1. t # <<>>
    <3>1. t = <<>> => p = <<>>
      BY <1>5, PrefixOfEmpty
    <3> QED BY <1>5, <3>1
  <2>2. Front(t) \in DOMAIN tree /\ tree[Front(t)] = "dir"
    BY <2>1 DEF HasParent, Parent
  <2>3. IsPrefix(p, Front(t))
    BY <1>5, <2>1, PrefixOfFront
  <2>4. p \in DOMAIN tree /\ tree[p] = "dir"
    BY <2>2, <2>3 DEF TreeInv, IsTree
  <2>5. ~IsPrefix(f, p)
    BY <1>5, PrefixOfPrefix
  <2> QED BY <1>1, <2>4, <2>5 DEF Under
<1>6. ASSUME NEW n \in DOMAIN m, NEW p \in Seq(PathNames), IsPrefix(p, n)
      PROVE  p \in DOMAIN m /\ (p # n => m[p] = "dir")
  <2>1. CASE n \in DOMAIN tree /\ ~IsPrefix(f, n)
    <3>1. n \in Seq(PathNames)
      BY <1>3
    <3>2. p \in DOMAIN tree /\ (p # n => tree[p] = "dir")
      BY <1>6, <2>1 DEF TreeInv, IsTree
    <3>3. ~IsPrefix(f, p)
      BY <1>6, <2>1, <3>1, PrefixOfPrefix
    <3> QED BY <1>1, <3>2, <3>3 DEF Under
  <2>2. ASSUME NEW w \in Seq(PathNames), n = t \o w, f \o w \in Under(f)
        PROVE  p \in DOMAIN m /\ (p # n => m[p] = "dir")
    <3>0. t = t \o <<>> /\ f = f \o <<>> /\ <<>> \in Seq(PathNames)
      BY ConcatEmptySeq, EmptySeq
    <3>1. CASE IsPrefix(p, t) /\ p # t
      BY <1>5, <3>1
    <3>2. ASSUME NEW v \in Seq(PathNames), p = t \o v, IsPrefix(v, w)
          PROVE  p \in DOMAIN m /\ (p # n => m[p] = "dir")
      <4>1. IsPrefix(f \o v, f \o w) /\ f \o v \in Seq(PathNames) /\ IsPrefix(f, f \o v)
        BY <3>2, PrefixBehind, RenamedIs
      <4>2. f \o w \in DOMAIN tree
        BY <2>2 DEF Under
      <4>3. f \o v \in DOMAIN tree /\ (f \o v # f \o w => tree[f \o v] = "dir")
        BY <4>1, <4>2 DEF TreeInv, IsTree
      <4>4. f \o v \in Under(f)
        BY <4>1, <4>3 DEF Under
      <4>5. p \in DOMAIN m /\ m[p] = tree[f \o v]
        BY <1>4, <3>2, <4>4
      <4>6. p # n => f \o v # f \o w
        <5>1. f \o v = f \o w => v = w
          BY ConcatSimplifications
        <5> QED BY <2>2, <3>2, <5>1
      <4> QED BY <4>3, <4>5, <4>6
    <3>3. CASE p = t
      <4>1. IsPrefix(<<>>, w)
        BY PrefixOfEmpty
      <4> QED BY <3>0, <3>2, <3>3, <4>1
    <3>4. IsPrefix(p, t) \/ \E v \in Seq(PathNames) : p = t \o v /\ IsPrefix(v, w)
      BY <1>6, <2>2, PrefixOfConcatSplits
    <3> QED BY <3>1, <3>2, <3>3, <3>4
  <2> QED BY <1>2, <2>1, <2>2
<1>7. IsTree(m)
  BY <1>3, <1>6 DEF IsTree
<1> QED BY <1>7 DEF m

LEMMA TreeInvInit == FileTreeInit => TreeInv
<1> SUFFICES ASSUME FileTreeInit PROVE IsTree(tree)
  BY DEF TreeInv
<1>1. PICK d \in PathNames, f \in PathNames :
       tree = [n \in IF _isReadOnly THEN {<<>>, <<d>>, <<d, f>>} ELSE {<<>>} |->
                 IF n = <<d, f>> THEN "file" ELSE "dir"]
  BY DEF FileTreeInit
<1>2. DOMAIN tree \subseteq {<<>>, <<d>>, <<d, f>>} /\ <<>> \in DOMAIN tree
  BY <1>1
<1>3. \A n \in DOMAIN tree : tree[n] = IF n = <<d, f>> THEN "file" ELSE "dir"
  BY <1>1
<1>4. <<d, f>> \in DOMAIN tree => <<d>> \in DOMAIN tree
  <2>1. <<d, f>> # <<>>
    OBVIOUS
  <2> QED BY <1>1, <2>1
<1>5. /\ <<>> \in Seq(PathNames) /\ <<d>> \in Seq(PathNames) /\ <<d, f>> \in Seq(PathNames)
      /\ <<d>> # <<d, f>> /\ <<>> # <<d, f>> /\ <<d>> # <<>>
  OBVIOUS
<1>6. Front(<<d>>) = <<>>
  <2>1. <<d>> = Append(<<>>, d)
    OBVIOUS
  <2> QED BY <1>5, <2>1, FrontOfAppend
<1>7. Front(<<d, f>>) = <<d>>
  <2>1. <<d, f>> = Append(<<d>>, f)
    OBVIOUS
  <2> QED BY <1>5, <2>1, FrontOfAppend
<1>8. ASSUME NEW p \in Seq(PathNames)
      PROVE  /\ IsPrefix(p, <<>>) => p = <<>>
             /\ IsPrefix(p, <<d>>) => p \in {<<>>, <<d>>}
             /\ IsPrefix(p, <<d, f>>) => p \in {<<>>, <<d>>, <<d, f>>}
  <2>1. IsPrefix(p, <<>>) => p = <<>>
    BY PrefixOfEmpty
  <2>2. IsPrefix(p, <<d>>) /\ p # <<d>> => IsPrefix(p, <<>>)
    BY <1>5, <1>6, PrefixOfFront
  <2>3. IsPrefix(p, <<d, f>>) /\ p # <<d, f>> => IsPrefix(p, <<d>>)
    BY <1>5, <1>7, PrefixOfFront
  <2> QED BY <2>1, <2>2, <2>3
<1>9. ASSUME NEW n \in DOMAIN tree, NEW p \in Seq(PathNames), IsPrefix(p, n)
      PROVE  p \in DOMAIN tree /\ (p # n => tree[p] = "dir")
  <2>1. CASE n = <<>>
    BY <1>8, <1>9, <2>1
  <2>2. CASE n = <<d>>
    <3>1. p \in {<<>>, <<d>>}
      BY <1>8, <1>9, <2>2
    <3> QED BY <1>2, <1>3, <1>5, <2>2, <3>1
  <2>3. CASE n = <<d, f>>
    <3>1. p \in {<<>>, <<d>>, <<d, f>>}
      BY <1>8, <1>9, <2>3
    <3> QED BY <1>2, <1>3, <1>4, <1>5, <2>3, <3>1
  <2> QED BY <1>2, <2>1, <2>2, <2>3
<1>10. DOMAIN tree \subseteq Seq(PathNames) /\ \A n \in DOMAIN tree : tree[n] \in {"dir", "file"}
  BY <1>2, <1>3, <1>5
<1> QED BY <1>9, <1>10 DEF IsTree

-----------------------------------------------------------------------------
(* FileTree: what the calls do *)

LEMMA ArgumentsAreClean ==
  ASSUME NEW a \in PathArguments, NEW removeEnd \in BOOLEAN
  PROVE  /\ clean(a, removeEnd) \in Seq(Char) /\ clean(a, removeEnd) # <<>>
         /\ Unslashed(clean(a, removeEnd)) = Unslashed(a) /\ Unslashed(a) \in Seq(PathNames)
<1>1. a \in Seq(Char)
  BY PathFacts
<1> QED BY <1>1, CleanKeepsNames, UnslashedIsNode

LEMMA CreateKeepsTree ==
  ASSUME TreeInv, NEW a \in PathArguments, CreateFile(a)
  PROVE  TreeInv' /\ (answer' = "no" => tree' = tree)
<1> DEFINE path == clean(a, FALSE)
           node == Unslashed(path)
           ok == ~_isReadOnly /\ ~isDirectory(path) /\ ~EndsOpen(path) /\ HasParent(node)
<1>1. node \in Seq(PathNames)
  BY ArgumentsAreClean
<1>2. \/ ok /\ FileCall(TRUE, FALSE) /\ tree' = WithFile(node)
      \/ Denies(ok)
  BY DEF CreateFile
<1>3. CASE ok /\ FileCall(TRUE, FALSE) /\ tree' = WithFile(node)
  <2>1. node \in DOMAIN tree => tree[node] # "dir"
    BY <1>3 DEF isDirectory, FileExists
  <2>2. HasParent(node)
    BY <1>3
  <2>3. tree' = WithFile(node) /\ answer' = "yes"
    BY <1>3 DEF FileCall
  <2> HIDE DEF node, path
  <2>4. IsTree(WithFile(node))
    BY <1>1, <2>1, <2>2, WithFileIsTree
  <2> QED BY <2>3, <2>4 DEF TreeInv, IsTree
<1>4. CASE Denies(ok)
  <2>1. tree' = tree
    BY <1>4 DEF Denies
  <2> QED BY <2>1 DEF TreeInv, IsTree
<1> QED BY <1>2, <1>3, <1>4

\* What a call denies leaves all as it was.
LEMMA Denied ==
  ASSUME TreeInv, NEW refusal, Denies(refusal)
  PROVE  TreeInv' /\ tree' = tree /\ answer' = "no"
<1>1. tree' = tree /\ answer' = "no"
  BY DEF Denies, FileCall
<1> QED BY <1>1 DEF TreeInv, IsTree

\* A removal that is denied because there is nothing to remove is true as well.
LEMMA DeniedIsTrue ==
  ASSUME NEW f, Denies(FALSE)
  PROVE  RemovedBelow(f)
<1>1. tree' = tree /\ answer' = "no" /\ refused' = FALSE
  BY DEF Denies, FileCall
<1> QED BY <1>1 DEF RemovedBelow

LEMMA RemoveIsTrue ==
  ASSUME TreeInv, NEW a \in PathArguments, remove(a)
  PROVE  /\ TreeInv' /\ (answer' = "no" => tree' = tree \/ refused')
         /\ RemovedBelow(Unslashed(a))
<1>1. PICK path : path = clean(a, FALSE)
  OBVIOUS
<1>2. PICK f : f = Unslashed(a) /\ f = Unslashed(path) /\ f \in Seq(PathNames)
  BY <1>1, ArgumentsAreClean
<1>3. Denies(FALSE) \/ (FileExists(path) /\ Removes(f))
  BY <1>1, <1>2 DEF remove
<1>4. CASE Denies(FALSE)
  BY <1>2, <1>4, Denied, DeniedIsTrue
<1>5. CASE FileExists(path) /\ Removes(f)
  <2>1. f \in DOMAIN tree
    BY <1>2, <1>5 DEF FileExists
  <2> QED BY <1>2, <1>5, <2>1, RemovalIsTrue
<1> QED BY <1>3, <1>4, <1>5

LEMMA MakeIsTrue ==
  ASSUME TreeInv, NEW a \in PathArguments, makeDirectory(a)
  PROVE  /\ TreeInv' /\ (answer' = "no" => tree' = tree)
         /\ answer' = "yes" => MadeAbove(Unslashed(a))
<1>1. PICK f : f = Unslashed(a) /\ f = Unslashed(clean(a, FALSE)) /\ f \in Seq(PathNames)
  BY ArgumentsAreClean
<1>2. Denies(FALSE) \/ \E d \in 0..Len(f) : tree' = mkdir(f, d) /\ FileCall(TRUE, d < Len(f))
  BY <1>1 DEF makeDirectory
<1>3. CASE Denies(FALSE)
  <2>1. TreeInv' /\ tree' = tree /\ answer' = "no"
    BY <1>3, Denied
  <2> QED BY <2>1
<1>4. ASSUME NEW d \in 0..Len(f), tree' = mkdir(f, d), FileCall(TRUE, d < Len(f))
      PROVE  TreeInv' /\ answer' = "yes" /\ MadeAbove(f)
  <2>1. answer' = "yes" /\ (~refused' => ~ (d < Len(f)))
    BY <1>4 DEF FileCall
  <2>2. ~refused' => d = Len(f)
    <3>1. Len(f) \in Nat
      BY <1>1, LenProperties
    <3>2. d \in Int /\ d <= Len(f)
      BY <3>1
    <3> QED BY <2>1, <3>1, <3>2
  <2>3. /\ IsTree(mkdir(f, d))
        /\ \A n \in DOMAIN tree : n \in DOMAIN mkdir(f, d) /\ mkdir(f, d)[n] = tree[n]
        /\ \A n \in DOMAIN mkdir(f, d) \ DOMAIN tree : IsPrefix(n, f) /\ mkdir(f, d)[n] = "dir"
        /\ (\A n \in DOMAIN tree : IsPrefix(n, f) => tree[n] = "dir") /\ d = Len(f) =>
              f \in DOMAIN mkdir(f, d) /\ mkdir(f, d)[f] = "dir"
    BY <1>1, MkdirIsTree
  <2>4. TreeInv'
    BY <1>4, <2>3 DEF TreeInv, IsTree
  <2>5. MadeAbove(f)
    BY <1>4, <2>2, <2>3 DEF MadeAbove
  <2> QED BY <2>1, <2>4, <2>5
<1> QED BY <1>1, <1>2, <1>3, <1>4

\* One name behind from is a node directly below.
LEMMA HackIsDirectlyBelow ==
  ASSUME NEW from \in Seq(Char), NEW to \in Seq(Char), hack_broken_rename(from, to)
  PROVE  /\ IsPrefix(Unslashed(from), Unslashed(to))
         /\ Len(Unslashed(to)) = Len(Unslashed(from)) + 1
<1> DEFINE w == Append(from, Slash)
           x == Last(to)
           f == Unslashed(from)
<1>0. Slash \in Char /\ f \in Seq(PathNames)
  BY PathFacts, UnslashedIsNode
<1>1. w \in Seq(Char) /\ Len(w) = Len(from) + 1 /\ w = from \o <<Slash>>
  BY <1>0, AppendProperties, AppendIsConcat
<1>2. Len(to) = Len(from) + 2 /\ IsPrefix(w, to) /\ x # Slash
  BY DEF hack_broken_rename
<1> HIDE DEF w
<1>3. Len(from) \in Nat /\ Len(to) \in Nat
  BY LenProperties
<1>4. to # <<>>
  BY <1>2, <1>3, EmptySeq
<1>5. /\ Front(to) \in Seq(Char) /\ x \in Char /\ to = Append(Front(to), x)
      /\ Len(Front(to)) = Len(to) - 1 /\ IsPrefix(Front(to), to)
  BY <1>4, FrontAndLast
<1> HIDE DEF x
<1>6. Len(w) = Len(Front(to))
  BY <1>1, <1>2, <1>3, <1>5
<1>7. w = Front(to)
  BY <1>1, <1>2, <1>5, <1>6, PrefixesInOrder
<1>8. x \in PathNames /\ to = w \o <<x>>
  BY <1>1, <1>2, <1>5, <1>7, AppendIsConcat DEF Char
<1>9. Unslashed(w) = f
  BY <1>1, UnslashedAppend
<1>10. Unslashed(to) = Append(f, x)
  BY <1>1, <1>8, <1>9, UnslashedAppend
<1> HIDE DEF f
<1>11. Append(f, x) \in Seq(PathNames) /\ Len(Append(f, x)) = Len(f) + 1 /\ Append(f, x) = f \o <<x>>
  BY <1>0, <1>8, AppendProperties, AppendIsConcat
<1>12. <<x>> \in Seq(PathNames)
  BY <1>8, OneIsText
<1>13. IsPrefix(f, f \o <<x>>)
  BY <1>0, <1>12, PrefixOfConcat
<1> QED BY <1>10, <1>11, <1>13 DEF f

LEMMA MoveIsTrue ==
  ASSUME TreeInv, NEW f \in Seq(PathNames), NEW t \in Seq(PathNames),
         t \notin DOMAIN tree, ~IsPrefix(f, t), tree' = MovedTree(f, t)
  PROVE  MovedBelow(f, t)
<1> DEFINE Was(n) == IF IsPrefix(t, n) THEN Renamed(t, f, n) ELSE n
           moved  == {n \in DOMAIN tree' : IsPrefix(t, n)}
<1>1. /\ DOMAIN tree' = (DOMAIN tree \ Under(f)) \cup {Renamed(f, t, u) : u \in Under(f)}
      /\ \A n \in DOMAIN tree \ Under(f) : tree'[n] = tree[n] /\ ~IsPrefix(t, n)
      /\ \A u \in Under(f) : tree'[Renamed(f, t, u)] = tree[u]
  BY MovedTreeIs
<1>2. ASSUME NEW u \in Under(f)
      PROVE  /\ IsPrefix(t, Renamed(f, t, u)) /\ Renamed(t, f, Renamed(f, t, u)) = u
             /\ Renamed(f, t, u) \in moved /\ Was(Renamed(f, t, u)) = u
  <2>1. Moves(f, t, u)
    BY RenamedApart
  <2>2. IsPrefix(t, Renamed(f, t, u)) /\ Renamed(t, f, Renamed(f, t, u)) = u
    BY <2>1 DEF Moves
  <2> QED BY <1>1, <2>2
<1>3. ASSUME NEW n \in moved
      PROVE  \E u \in Under(f) : n = Renamed(f, t, u)
  BY <1>1
<1>4. DOMAIN tree' = {n \in DOMAIN tree : ~IsPrefix(f, n)} \cup moved
  <2>1. DOMAIN tree \ Under(f) = {n \in DOMAIN tree : ~IsPrefix(f, n)}
    BY DEF Under
  <2>2. {Renamed(f, t, u) : u \in Under(f)} = moved
    BY <1>2, <1>3
  <2> QED BY <1>1, <2>1, <2>2
<1>5. ASSUME NEW n \in DOMAIN tree' PROVE tree'[n] = tree[Was(n)]
  <2>1. CASE n \in DOMAIN tree \ Under(f)
    BY <1>1, <2>1
  <2>2. ASSUME NEW u \in Under(f), n = Renamed(f, t, u) PROVE tree'[n] = tree[Was(n)]
    BY <1>1, <1>2, <2>2
  <2> QED BY <1>1, <2>1, <2>2
<1>6. {Was(n) : n \in moved} = Under(f)
  <2>1. ASSUME NEW n \in moved PROVE Was(n) \in Under(f)
    <3>1. PICK u \in Under(f) : n = Renamed(f, t, u)
      BY <1>3
    <3>2. Was(n) = u
      BY <1>2, <3>1
    <3> QED BY <3>2
  <2>2. ASSUME NEW u \in Under(f) PROVE \E n \in moved : Was(n) = u
    BY <1>2
  <2> HIDE DEF Was, moved
  <2> QED BY <2>1, <2>2
<1> QED BY <1>4, <1>5, <1>6 DEF MovedBelow

LEMMA RenameIsTrue ==
  ASSUME TreeInv, NEW a \in PathArguments, NEW b \in PathArguments, rename(a, b)
  PROVE  /\ TreeInv' /\ (answer' = "no" => tree' = tree \/ refused')
         /\ answer' = "yes" \/ tree' # tree => MovedOrRemoved(Unslashed(a), Unslashed(b))
<1>1. PICK from, to : from = clean(a, TRUE) /\ to = clean(b, TRUE)
  OBVIOUS
<1>2. PICK f, t : f = Unslashed(from) /\ t = Unslashed(to)
  OBVIOUS
<1>3. /\ from \in Seq(Char) /\ to \in Seq(Char) /\ f = Unslashed(a) /\ t = Unslashed(b)
      /\ f \in Seq(PathNames) /\ t \in Seq(PathNames)
  BY <1>1, <1>2, ArgumentsAreClean
<1>4. \/ \E refusal \in BOOLEAN : Denies(refusal)
      \/ FileExists(from) /\ hack_broken_rename(from, to) /\ Removes(f)
      \/ FileExists(from) /\ HostRenames(from, to) /\ tree' = MovedTree(f, t) /\ answer' = "yes"
  BY <1>1, <1>2 DEF rename, FileCall, HostRenames
<1>5. ASSUME NEW refusal \in BOOLEAN, Denies(refusal)
      PROVE  TreeInv' /\ tree' = tree /\ answer' = "no"
  BY <1>5, Denied
<1>6. CASE FileExists(from) /\ hack_broken_rename(from, to) /\ Removes(f)
  <2>1. IsPrefix(f, t) /\ Len(t) = Len(f) + 1
    BY <1>2, <1>3, <1>6, HackIsDirectlyBelow
  <2>2. f \in DOMAIN tree
    BY <1>2, <1>6 DEF FileExists
  <2>3. TreeInv' /\ RemovedBelow(f) /\ (answer' = "no" => tree' = tree \/ refused')
    BY <1>6, <2>2, RemovalIsTrue
  <2> QED BY <1>3, <2>1, <2>3 DEF MovedOrRemoved
<1>7. CASE FileExists(from) /\ HostRenames(from, to) /\ tree' = MovedTree(f, t) /\ answer' = "yes"
  <2>1. f \in DOMAIN tree /\ t \notin DOMAIN tree /\ HasParent(t) /\ ~IsPrefix(f, t)
    BY <1>2, <1>7 DEF FileExists, HostRenames
  <2>2. MovedBelow(f, t)
    BY <1>3, <1>7, <2>1, MoveIsTrue
  <2>3. IsTree(MovedTree(f, t))
    BY <1>3, <2>1, MovedIsTree
  <2> QED BY <1>3, <1>7, <2>1, <2>2, <2>3 DEF TreeInv, IsTree, MovedOrRemoved
<1> QED BY <1>4, <1>5, <1>6, <1>7

\* Every step leaves a tree, and what a call denies it has not done, if the host let it.
LEMMA TreeInvStep ==
  TreeInv /\ [FileTreeNext]_fileTreeVars =>
    TreeInv' /\ (FileTreeNext => (answer' = "no" => tree' = tree \/ refused'))
<1> SUFFICES ASSUME TreeInv, [FileTreeNext]_fileTreeVars
             PROVE  TreeInv' /\ (FileTreeNext => (answer' = "no" => tree' = tree \/ refused'))
  OBVIOUS
<1>0. CASE UNCHANGED fileTreeVars
  BY <1>0 DEF TreeInv, IsTree, fileTreeVars
<1> SUFFICES ASSUME FileTreeNext PROVE TreeInv' /\ (answer' = "no" => tree' = tree \/ refused')
  BY <1>0
<1>1. PICK a \in PathArguments :
        CreateFile(a) \/ remove(a) \/ makeDirectory(a) \/ \E b \in PathArguments : rename(a, b)
  BY DEF FileTreeNext
<1>2. CASE CreateFile(a)
  BY <1>2, CreateKeepsTree
<1>3. CASE remove(a)
  BY <1>3, RemoveIsTrue
<1>4. CASE makeDirectory(a)
  BY <1>4, MakeIsTrue
<1>5. ASSUME NEW b \in PathArguments, rename(a, b)
      PROVE  TreeInv' /\ (answer' = "no" => tree' = tree \/ refused')
  BY <1>5, RenameIsTrue
<1> QED BY <1>1, <1>2, <1>3, <1>4, <1>5

LEMMA CallsDoWhatTheySay ==
  ASSUME TreeInv, TreeInv', ListedIsThere', FileTreeNext
  PROVE  AnswersTruly
<1>1. answer' = "no" => tree' = tree \/ refused'
  BY TreeInvStep
<1>2. answer' = "no" \/ answer' = "yes"
  <2>1. \A ok, refusal : FileCall(ok, refusal) => answer' = "no" \/ answer' = "yes"
    BY DEF FileCall
  <2> QED
    BY <2>1, Zenon DEF FileTreeNext, CreateFile, remove, Removes, makeDirectory, rename, Denies
<1>3. ASSUME NEW a \in PathArguments, answer' = "yes" \/ tree' # tree
      PROVE  /\ CreateFile(a) => answer' = "yes"
             /\ remove(a) => RemovedBelow(Unslashed(a))
             /\ makeDirectory(a) => answer' = "yes" /\ MadeAbove(Unslashed(a))
             /\ \A b \in PathArguments : rename(a, b) => MovedOrRemoved(Unslashed(a), Unslashed(b))
  <2>1. ASSUME CreateFile(a) PROVE answer' = "yes"
    BY <1>2, <1>3, <2>1, CreateKeepsTree
  <2>2. ASSUME remove(a) PROVE RemovedBelow(Unslashed(a))
    BY <2>2, RemoveIsTrue
  <2>3. ASSUME makeDirectory(a) PROVE answer' = "yes" /\ MadeAbove(Unslashed(a))
    BY <1>2, <1>3, <2>3, MakeIsTrue
  <2>4. ASSUME NEW b \in PathArguments, rename(a, b) PROVE MovedOrRemoved(Unslashed(a), Unslashed(b))
    BY <1>3, <2>4, RenameIsTrue
  <2> QED BY <2>1, <2>2, <2>3, <2>4
<1> QED BY <1>1, <1>3 DEF AnswersTruly

\* There is always a tree: whatever calls there were, nodes are below directories only
\* (filesystem.cpp:44, fs_utils.cpp).
THEOREM AlwaysATree == FileTreeSpec => []TreeInv
<1>1. FileTreeInit => TreeInv
  BY TreeInvInit
<1>2. TreeInv /\ [FileTreeNext]_fileTreeVars => TreeInv'
  BY TreeInvStep
<1> QED BY <1>1, <1>2, PTL DEF FileTreeSpec

\* Whatever the names and the strings that spell them, a call answers what it did, and
\* list tells what is there (filesystem.cpp: clean, list, makeDirectory, remove, rename).
THEOREM CallsAreTrue == FileTreeSpec => CallsAnswerTruly
<1>1. TreeInv => ListedIsThere
  BY ListIsTrue DEF TreeInv, IsTree
<1>2. TreeInv /\ TreeInv' /\ ListedIsThere' /\ [FileTreeNext]_fileTreeVars => [AnswersTruly]_fileTreeVars
  <2>1. TreeInv /\ TreeInv' /\ ListedIsThere' /\ FileTreeNext => AnswersTruly
    BY CallsDoWhatTheySay
  <2> QED BY <2>1
<1> QED BY <1>1, <1>2, AlwaysATree, PTL DEF FileTreeSpec, CallsAnswerTruly
=============================================================================
