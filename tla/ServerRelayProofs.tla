-------------------------- MODULE ServerRelayProofs --------------------------
(***************************************************************************)
(* Safety of ServerRelay for any set of clients and connections, any room on   *)
(* a connection, and any number of packets and of servers: what is sent and    *)
(* relayed is complete, and the pool implements BroadcastBus.                 *)
(*                                                                           *)
(* A packet is on its way to the server, or in the log, and never twice in     *)
(* the log, because the packets of a connection are in the log in the order    *)
(* they were numbered.  What a client has heard, followed by what it is about  *)
(* to hear, is in the order of the log; a reader's step does not change that   *)
(* stream, and a relayed packet is put at the end of both.                    *)
(***************************************************************************)
EXTENDS ServerRelay, SubsequenceProofs

\* Two clients never have the same connection.
OneUser == \A c, d \in Clients : cur[c] = cur[d] /\ cur[c] # NoConn => c = d

\* A connection that nobody made is empty; one still to be read is Ready.
Fresh ==
  /\ \A c \in Clients : cur[c] # NoConn => srv[cur[c]] # "unused"
  /\ \A k \in Conns : srv[k] = "unused" => posted[k] = 0 /\ up[k] = <<>> /\ down[k] = <<>>
  /\ \A k \in todo : srv[k] = "Ready"
  /\ \A k \in Conns : posted[k] <= posts /\ joined[k] <= Len(log)

\* A connection that has been hung up is nobody's any more; without a server that
\* stops, no other is taken for over.
Gone ==
  /\ \A c \in Clients : cur[c] # NoConn => cur[c] \notin hungUp
  /\ \A k \in hungUp : srv[k] # "unused"
  /\ \A k \in Conns : srv[k] = "Finished" \/ (srv[k] = "removed" /\ stops = 0) => k \in hungUp

\* The log holds no packet twice: a packet's number is at most the number of
\* its connection's packets in the log.
Distinct ==
  /\ \A i, j \in 1..Len(log) : log[i] = log[j] => i = j
  /\ \A i \in 1..Len(log) : log[i][2] <= Len(PacketsOf(log[i][1], log))

\* What a client heard and has still to read.
Stream(c) == IF cur[c] = NoConn THEN got[c] ELSE got[c] \o down[cur[c]]

\* The elements of s are in l, in the same order.
InOrder(s, l) ==
  /\ \A m \in 1..Len(s) : \E i \in 1..Len(l) : l[i] = s[m]
  /\ \A m, n \in 1..Len(s) : m < n =>
       \E i, j \in 1..Len(l) : i < j /\ l[i] = s[m] /\ l[j] = s[n]

HeardInOrder == \A c \in Clients : InOrder(Stream(c), log)

\* UpstreamComplete, for one connection.
Arrives(k) == IF srv[k] = "removed" /\ stops > 0
              THEN IsPrefix(PacketsOf(k, log), Posts(k))
              ELSE PacketsOf(k, log) \o up[k] = Posts(k)

\* DownstreamComplete, for one client.
Hears(c) == cur[c] # NoConn /\ srv[cur[c]] = "Ready" /\ cur[c] \notin lossy =>
              IsSuffix(SubSeq(log, joined[cur[c]] + 1, Len(log)), Stream(c))

IInv == /\ RelayTypeOK /\ OneUser /\ Fresh /\ Gone /\ Distinct /\ HeardInOrder
        /\ UpstreamComplete /\ DownstreamComplete

-----------------------------------------------------------------------------
(* The packets of one connection in the log *)

LEMMA FromIsSeq ==
  ASSUME NEW s \in Seq(Packets), NEW k
  PROVE  PacketsOf(k, s) \in Seq(Packets)
BY SelectionInside DEF PacketsOf

\* One more packet counts for its own connection.
LEMMA FromAppend ==
  ASSUME NEW s \in Seq(Packets), NEW p \in Packets, NEW k \in Conns
  PROVE  PacketsOf(k, Append(s, p)) = IF p[1] = k THEN Append(PacketsOf(k, s), p) ELSE PacketsOf(k, s)
<1> DEFINE T == {k} \X (1..MaxPosts)
<1>1. p \in T <=> p[1] = k
  BY DEF Packets
<1> HIDE DEF T
<1>2. Select(Append(s, p), T) = IF p \in T THEN Append(Select(s, T), p) ELSE Select(s, T)
  BY SelectAppend
<1>3. PacketsOf(k, Append(s, p)) = Select(Append(s, p), T) /\ PacketsOf(k, s) = Select(s, T)
  BY DEF PacketsOf, T
<1> QED
  BY <1>1, <1>2, <1>3, Zenon

-----------------------------------------------------------------------------
(* The order of the log *)

\* A sequence that continues one in order is one whose beginning is in order.
LEMMA OrderOfBeginning ==
  ASSUME NEW S, NEW s \in Seq(S), NEW u \in Seq(S), NEW l \in Seq(S), InOrder(s, l),
         Len(u) <= Len(s), \A i \in 1..Len(u) : u[i] = s[i]
  PROVE  InOrder(u, l)
<1>1. \A m \in 1..Len(u) : m \in 1..Len(s)
  OBVIOUS
<1> QED
  BY <1>1 DEF InOrder

\* A longer log keeps the order, and a packet put at the end of both, too.
LEMMA OrderGrows ==
  ASSUME NEW S, NEW s \in Seq(S), NEW l \in Seq(S), NEW e \in S, InOrder(s, l)
  PROVE  InOrder(s, Append(l, e)) /\ InOrder(Append(s, e), Append(l, e))
<1> DEFINE t == Append(s, e)
           g == Append(l, e)
<1>1. /\ t \in Seq(S) /\ Len(t) = Len(s) + 1 /\ t[Len(s) + 1] = e
      /\ \A i \in 1..Len(s) : t[i] = s[i]
  BY AppendProperties
<1>2. /\ g \in Seq(S) /\ Len(g) = Len(l) + 1 /\ g[Len(l) + 1] = e
      /\ \A i \in 1..Len(l) : g[i] = l[i]
  BY AppendProperties
<1> HIDE DEF t, g
<1>3. Len(s) \in Nat /\ Len(l) \in Nat
  OBVIOUS
<1>4. InOrder(s, g)
  <2>1. ASSUME NEW m \in 1..Len(s) PROVE \E i \in 1..Len(g) : g[i] = s[m]
    <3>1. PICK i \in 1..Len(l) : l[i] = s[m]
      BY DEF InOrder
    <3>2. i \in 1..Len(g) /\ g[i] = s[m]
      BY <1>2, <1>3, <3>1
    <3> QED
      BY <3>2
  <2>2. ASSUME NEW m \in 1..Len(s), NEW n \in 1..Len(s), m < n
        PROVE  \E i, j \in 1..Len(g) : i < j /\ g[i] = s[m] /\ g[j] = s[n]
    <3>1. PICK i \in 1..Len(l), j \in 1..Len(l) : i < j /\ l[i] = s[m] /\ l[j] = s[n]
      BY <2>2 DEF InOrder
    <3>2. i \in 1..Len(g) /\ j \in 1..Len(g) /\ g[i] = s[m] /\ g[j] = s[n]
      BY <1>2, <1>3, <3>1
    <3> QED
      BY <3>1, <3>2
  <2> QED
    BY <2>1, <2>2 DEF InOrder
<1>5. InOrder(t, g)
  <2>1. ASSUME NEW m \in 1..Len(t) PROVE \E i \in 1..Len(g) : g[i] = t[m]
    <3>1. CASE m = Len(s) + 1
      <4>1. Len(l) + 1 \in 1..Len(g) /\ g[Len(l) + 1] = t[m]
        BY <1>1, <1>2, <1>3, <3>1
      <4> QED
        BY <4>1
    <3>2. CASE m \in 1..Len(s)
      <4>1. PICK i \in 1..Len(g) : g[i] = s[m]
        BY <1>4, <3>2 DEF InOrder
      <4>2. g[i] = t[m]
        BY <1>1, <3>2, <4>1
      <4> QED
        BY <4>2
    <3> QED
      BY <1>1, <1>3, <3>1, <3>2
  <2>2. ASSUME NEW m \in 1..Len(t), NEW n \in 1..Len(t), m < n
        PROVE  \E i, j \in 1..Len(g) : i < j /\ g[i] = t[m] /\ g[j] = t[n]
    <3>1. m \in 1..Len(s)
      BY <1>1, <1>3, <2>2
    <3>2. CASE n = Len(s) + 1
      <4>1. PICK i \in 1..Len(l) : l[i] = s[m]
        BY <3>1 DEF InOrder
      <4>2. i \in 1..Len(g) /\ Len(l) + 1 \in 1..Len(g) /\ i < Len(l) + 1
            /\ g[i] = t[m] /\ g[Len(l) + 1] = t[n]
        BY <1>1, <1>2, <1>3, <3>1, <3>2, <4>1
      <4> QED
        BY <4>2
    <3>3. CASE n \in 1..Len(s)
      <4>1. PICK i \in 1..Len(g), j \in 1..Len(g) : i < j /\ g[i] = s[m] /\ g[j] = s[n]
        BY <1>4, <2>2, <3>1, <3>3 DEF InOrder
      <4>2. t[m] = s[m] /\ t[n] = s[n]
        BY <1>1, <3>1, <3>3
      <4> QED
        BY <4>1, <4>2
    <3>4. n = Len(s) + 1 \/ n \in 1..Len(s)
      BY <1>1, <1>3
    <3> QED
      BY <3>2, <3>3, <3>4
  <2> QED
    BY <2>1, <2>2 DEF InOrder
<1> QED
  BY <1>4, <1>5 DEF t, g
-----------------------------------------------------------------------------
(* The invariant *)

\* What the runs check follows.
THEOREM IInvSafe == IInv => PacketsComplete
  BY DEF IInv, PacketsComplete

LEMMA InitIInv == RelayInit => IInv
<1> SUFFICES ASSUME RelayInit PROVE IInv
  OBVIOUS
<1> USE RelayAssumption DEF RelayInit
<1>1. RelayTypeOK
  <2>1. <<>> \in Seq(Packets) /\ Len(<<>>) = 0
    OBVIOUS
  <2>2. /\ cur \in [Clients -> Conns \cup {NoConn}] /\ got \in [Clients -> Seq(Packets)]
        /\ srv \in [Conns -> {"unused", "backlog", "Ready", "Finished", "removed"}]
        /\ up \in [Conns -> Seq(Packets)] /\ down \in [Conns -> Seq(Packets)]
        /\ log \in Seq(Packets)
    BY <2>1
  <2>3. \A k \in Conns : Len(up[k]) <= RoomUp /\ Len(down[k]) <= RoomDown
    BY <2>1
  <2>4. posts \in 0..MaxPosts /\ posted \in [Conns -> 0..MaxPosts] /\ joined \in [Conns -> Nat]
        /\ stops \in 0..MaxStops
    OBVIOUS
  <2> QED
    BY <2>2, <2>3, <2>4 DEF RelayTypeOK
<1>2. OneUser /\ Fresh /\ Gone
  BY DEF OneUser, Fresh, Gone
<1>3. Distinct /\ HeardInOrder
  BY DEF Distinct, HeardInOrder, Stream, InOrder
<1>4. UpstreamComplete
  <2>1. ASSUME NEW k \in Conns PROVE PacketsOf(k, log) = Posts(k)
    <3>1. PacketsOf(k, log) = <<>>
      BY SelectEmpty DEF PacketsOf
    <3>2. Posts(k) = <<>>
      BY DEF Posts
    <3> QED
      BY <3>1, <3>2
  <2>2. \A k \in Conns : up[k] = <<>> /\ Posts(k) \o <<>> = Posts(k) /\ srv[k] # "removed"
    BY DEF Posts
  <2> QED
    BY <2>1, <2>2 DEF UpstreamComplete
<1>5. DownstreamComplete
  BY DEF DownstreamComplete
<1> QED
  BY <1>1, <1>2, <1>3, <1>4, <1>5 DEF IInv

\* UpstreamComplete, one connection at a time.
LEMMA UpstreamByConn ==
  /\ UpstreamComplete <=> \A k \in Conns : Arrives(k)
  /\ UpstreamComplete' <=> \A k \in Conns : Arrives(k)'
BY DEF UpstreamComplete, Arrives

\* Nothing happened to the connection.
LEMMA ArrivesUnchanged ==
  ASSUME NEW k \in Conns, Arrives(k), srv'[k] = srv[k], up'[k] = up[k], posted'[k] = posted[k],
         UNCHANGED <<log, stops>>
  PROVE  Arrives(k)'
BY DEF Arrives, PacketsOf, Posts

\* DownstreamComplete, one client at a time.
LEMMA DownstreamByClient ==
  /\ DownstreamComplete <=> \A c \in Clients : Hears(c)
  /\ DownstreamComplete' <=> \A c \in Clients : Hears(c)'
BY DEF DownstreamComplete, Hears, Stream

LEMMA StreamIsSeq == ASSUME RelayTypeOK, NEW c \in Clients PROVE Stream(c) \in Seq(Packets)
<1>1. got[c] \in Seq(Packets)
  BY DEF RelayTypeOK
<1>2. ASSUME cur[c] # NoConn PROVE got[c] \o down[cur[c]] \in Seq(Packets)
  <2>1. PICK g \in Seq(Packets), d \in Seq(Packets) : g = got[c] /\ d = down[cur[c]]
    BY <1>1, <1>2 DEF RelayTypeOK
  <2>2. g \o d \in Seq(Packets)
    BY ConcatProperties
  <2> QED
    BY <2>1, <2>2
<1> QED
  BY <1>1, <1>2 DEF Stream

\* Steps on which the server does nothing that the clients could notice.
LEMMA StreamsUnchanged ==
  ASSUME HeardInOrder, DownstreamComplete, \A c \in Clients : Stream(c)' = Stream(c),
         \A c \in Clients : cur'[c] # NoConn =>
           /\ cur'[c] = cur[c] /\ joined'[cur[c]] = joined[cur[c]]
           /\ srv'[cur[c]] = "Ready" => srv[cur[c]] = "Ready",
         lossy \subseteq lossy', UNCHANGED log
  PROVE  HeardInOrder' /\ DownstreamComplete'
<1>1. HeardInOrder'
  BY DEF HeardInOrder
<1>2. ASSUME NEW c \in Clients PROVE Hears(c)'
  BY DownstreamByClient DEF Hears
<1> QED
  BY <1>1, <1>2, DownstreamByClient

\* Steps that leave the log alone keep its packets apart.
LEMMA LogUnchanged ==
  ASSUME Distinct, UNCHANGED log
  PROVE  Distinct'
BY DEF Distinct, PacketsOf

LEMMA ConnectSteps == ASSUME IInv, NEW c \in Clients, Connect(c) PROVE IInv'
<1> USE RelayAssumption DEF Connect, serverVars
<1>0. RelayTypeOK /\ OneUser /\ Fresh /\ Gone /\ Distinct /\ HeardInOrder /\ UpstreamComplete
      /\ DownstreamComplete
  BY DEF IInv
<1>1. PICK k \in Conns : /\ srv[k] = "unused"
                        /\ cur' = [cur EXCEPT ![c] = k]
                        /\ srv' = [srv EXCEPT ![k] = "backlog"]
  OBVIOUS
<1>2. RelayTypeOK'
  BY <1>0, <1>1 DEF RelayTypeOK
<1>3. OneUser'
  BY <1>0, <1>1 DEF RelayTypeOK, OneUser, Fresh
<1>4. Fresh'
  BY <1>0, <1>1 DEF RelayTypeOK, Fresh
<1>5. Distinct' /\ Gone'
  BY <1>0, <1>1, LogUnchanged DEF RelayTypeOK, Gone
<1>6. HeardInOrder'
  <2>1. ASSUME NEW d \in Clients, d # c PROVE Stream(d)' = Stream(d)
    BY <1>0, <1>1, <2>1 DEF RelayTypeOK, Stream
  <2>2. Stream(c)' = got[c] \o <<>> /\ Stream(c) = got[c] /\ got[c] \in Seq(Packets)
    BY <1>0, <1>1 DEF RelayTypeOK, Fresh, Stream
  <2>3. Stream(c)' = Stream(c)
    BY <2>2, ConcatEmptySeq
  <2> QED
    BY <1>0, <2>1, <2>3 DEF HeardInOrder
<1>7. UpstreamComplete'
  <2>1. ASSUME NEW j \in Conns, j # k PROVE Arrives(j)'
    <3>1. srv'[j] = srv[j] /\ Arrives(j)
      BY <1>0, <1>1, <2>1, UpstreamByConn DEF RelayTypeOK
    <3> QED
      BY <3>1, ArrivesUnchanged
  <2>4. PacketsOf(k, log) \o up[k] = Posts(k)
    BY <1>0, <1>1, UpstreamByConn DEF Arrives
  <2>5. PacketsOf(k, log)' = PacketsOf(k, log) /\ Posts(k)' = Posts(k) /\ srv'[k] = "backlog" /\ up'[k] = up[k]
    BY <1>0, <1>1 DEF PacketsOf, Posts, RelayTypeOK
  <2>6. Arrives(k)'
    BY <2>4, <2>5 DEF Arrives
  <2> QED
    BY <2>1, <2>6, UpstreamByConn
<1>8. DownstreamComplete'
  BY <1>0, <1>1 DEF RelayTypeOK, DownstreamComplete
<1> QED
  BY <1>2, <1>3, <1>4, <1>5, <1>6, <1>7, <1>8 DEF IInv
LEMMA SendSteps == ASSUME IInv, NEW c \in Clients, Send(c) PROVE IInv'
<1> USE RelayAssumption
<1>0. RelayTypeOK /\ OneUser /\ Fresh /\ Gone /\ Distinct /\ HeardInOrder /\ UpstreamComplete
      /\ DownstreamComplete
  BY DEF IInv
<1>1. PICK k \in Conns, n \in Nat : k = cur[c] /\ n = posted[k] /\ posts < MaxPosts
  BY <1>0 DEF RelayTypeOK, Send
<1> DEFINE p == <<k, n + 1>>
<1>2. /\ up' = IF srv[k] = "removed" THEN up ELSE [up EXCEPT ![k] = Append(@, p)]
      /\ posted' = [posted EXCEPT ![k] = n + 1] /\ Len(up[k]) < RoomUp
      /\ posts' = posts + 1
      /\ UNCHANGED <<cur, got, srv, hungUp, down, joined, lossy, todo, inRound, stops, log>>
  BY <1>1 DEF Send, serverVars, clientVars
<1>3. /\ srv[k] # "unused" /\ n < MaxPosts /\ n <= posts /\ posts \in Nat
  BY <1>0, <1>1, <1>2 DEF RelayTypeOK, Fresh, Send
<1>4. /\ p \in Packets /\ Posts(k) \in Seq(Packets) /\ Posts(k)' = Append(Posts(k), p)
      /\ \A u \in Seq(Packets) : IsPrefix(u, Posts(k)) => IsPrefix(u, Posts(k)')
  <2>1. Posts(k) = Numbered(k, n) /\ Posts(k)' = Numbered(k, n + 1)
    BY <1>0, <1>1, <1>2 DEF Numbered, Posts, RelayTypeOK
  <2>2. \A i \in 1..(n + 1) : <<k, i>> \in Packets
    BY <1>3, RelayAssumption DEF Packets
  <2> QED
    BY <2>1, <2>2, NumberedGrows
<1> HIDE DEF p
<1>5. /\ up[k] \in Seq(Packets) /\ up \in [Conns -> Seq(Packets)] /\ Len(up[k]) \in Nat
      /\ Append(up[k], p) \in Seq(Packets) /\ Len(Append(up[k], p)) = Len(up[k]) + 1
  BY <1>0, <1>4, AppendProperties DEF RelayTypeOK
<1>6. RelayTypeOK'
  <2>0. RelayTypeOK
    BY <1>0
  <2>1. up' \in [Conns -> Seq(Packets)] /\ \A j \in Conns : Len(up'[j]) <= RoomUp
    <3>1. RoomUp \in Nat /\ \A j \in Conns : Len(up[j]) <= RoomUp /\ Len(up[j]) \in Nat
      BY <2>0 DEF RelayTypeOK
    <3>2. CASE up' = up
      BY <1>5, <3>1, <3>2
    <3>3. CASE up' = [up EXCEPT ![k] = Append(@, p)]
      <4>1. up'[k] = Append(up[k], p) /\ \A j \in Conns \ {k} : up'[j] = up[j]
        BY <1>5, <3>3
      <4>2. Len(up'[k]) <= RoomUp
        BY <1>2, <1>5, <3>1, <4>1
      <4> QED
        BY <1>5, <3>1, <3>3, <4>1, <4>2
    <3> QED
      BY <1>2, <3>2, <3>3
  <2>2. posts' \in 0..MaxPosts
    <3>1. posts < MaxPosts
      BY <1>1
    <3> QED
      BY <1>2, <1>3, <3>1
  <2>3. posted' \in [Conns -> 0..MaxPosts]
    BY <2>0, <1>1, <1>2, <1>3 DEF RelayTypeOK
  <2> QED
    BY <2>0, <1>2, <2>1, <2>2, <2>3 DEF RelayTypeOK
<1>7. OneUser' /\ HeardInOrder' /\ DownstreamComplete'
  <2>1. OneUser'
    BY <1>0, <1>2 DEF OneUser
  <2>2. \A d \in Clients : Stream(d)' = Stream(d)
    BY <1>2 DEF Stream
  <2>3. HeardInOrder'
    BY <1>0, <1>2, <2>2 DEF HeardInOrder
  <2>4. DownstreamComplete'
    BY <1>0, <1>2, Zenon DEF DownstreamComplete
  <2> QED
    BY <2>1, <2>3, <2>4
<1>8. Fresh'
  <2>0. posted \in [Conns -> 0..MaxPosts] /\ \A j \in Conns : posted[j] <= posts
    BY <1>0 DEF RelayTypeOK, Fresh
  <2>1. ASSUME NEW j \in Conns PROVE posted'[j] <= posts'
    <3>1. CASE j = k
      BY <1>2, <1>3, <2>0, <3>1
    <3>2. CASE j # k
      BY <1>2, <1>3, <2>0, <3>2
    <3> QED
      BY <3>1, <3>2
  <2>2. \A j \in Conns : srv[j] = "unused" => posted'[j] = posted[j] /\ up'[j] = up[j]
    BY <1>0, <1>2, <1>3 DEF RelayTypeOK
  <2> QED
    BY <1>0, <1>2, <2>1, <2>2 DEF Fresh
<1>9. Distinct' /\ Gone'
  BY <1>0, <1>2, LogUnchanged DEF Gone
<1>10. UpstreamComplete'
  <2>1. ASSUME NEW j \in Conns, j # k PROVE Arrives(j)'
    <3>1. srv'[j] = srv[j] /\ up'[j] = up[j] /\ posted'[j] = posted[j] /\ Arrives(j)
      BY <1>0, <1>2, <2>1, UpstreamByConn DEF RelayTypeOK
    <3> QED
      BY <1>2, <3>1, ArrivesUnchanged
  <2>2. PICK f \in Seq(Packets) : f = PacketsOf(k, log) /\ f = PacketsOf(k, log)'
    BY <1>0, <1>2, FromIsSeq DEF RelayTypeOK, PacketsOf
  <2>3. Arrives(k) /\ srv'[k] = srv[k]
    BY <1>0, <1>2, UpstreamByConn
  <2>4. Arrives(k)'
    <3>1. CASE srv[k] # "removed"
      <4>1. up'[k] = Append(up[k], p)
        BY <1>2, <1>5, <3>1
      <4>2. f \o up[k] = Posts(k)
        BY <2>2, <2>3, <3>1 DEF Arrives
      <4>3. PICK u \in Seq(Packets) : u = up[k]
        BY <1>5
      <4>4. f \o Append(u, p) = Append(f \o u, p)
        BY <1>4, ConcatAppend
      <4>5. f \o up'[k] = Posts(k)'
        BY <1>4, <4>1, <4>2, <4>3, <4>4, Zenon
      <4> QED
        BY <2>2, <2>3, <3>1, <4>5 DEF Arrives
    <3>2. CASE srv[k] = "removed"
      <4>1. stops > 0
        <5>1. k \notin hungUp
          BY <1>0, <1>1 DEF Gone, Send
        <5>2. stops # 0 /\ stops \in Nat
          BY <1>0, <3>2, <5>1 DEF Gone, RelayTypeOK
        <5> QED
          BY <5>2
      <4>2. IsPrefix(f, Posts(k))
        BY <2>2, <2>3, <3>2, <4>1 DEF Arrives
      <4>3. IsPrefix(f, Posts(k)')
        BY <1>4, <4>2
      <4> QED
        BY <1>2, <2>2, <2>3, <3>2, <4>1, <4>3 DEF Arrives
    <3> QED
      BY <3>1, <3>2
  <2> QED
    BY <2>1, <2>4, UpstreamByConn
<1> QED
  BY <1>6, <1>7, <1>8, <1>9, <1>10 DEF IInv

\* Hearing moves a packet from what is to be read to what was heard.
LEMMA HearSteps == ASSUME IInv, NEW c \in Clients, Hear(c) PROVE IInv'
<1> USE RelayAssumption
<1>0. RelayTypeOK /\ OneUser /\ Fresh /\ Gone /\ Distinct /\ HeardInOrder /\ UpstreamComplete
      /\ DownstreamComplete
  BY DEF IInv
<1>1. PICK k \in Conns : k = cur[c] /\ k # NoConn /\ down[k] # <<>>
  BY <1>0 DEF RelayTypeOK, Hear
<1>2. PICK s \in Seq(Packets), g \in Seq(Packets) : s = down[k] /\ g = got[c] /\ s # <<>>
  BY <1>0, <1>1 DEF RelayTypeOK
<1>3. /\ got' = [got EXCEPT ![c] = Append(g, Head(s))] /\ down' = [down EXCEPT ![k] = Tail(s)]
      /\ UNCHANGED <<cur, srv, hungUp, up, posts, posted, joined, lossy, todo, inRound, stops, log>>
  BY <1>1, <1>2 DEF Hear, serverVars
<1>4. PICK h \in Packets, r \in Seq(Packets), a \in Seq(Packets) :
        /\ h = Head(s) /\ r = Tail(s) /\ a = Append(g, h)
        /\ Len(r) = Len(s) - 1 /\ a \o r = g \o s
  <2>1. PICK h \in Packets, r \in Seq(Packets) : h = Head(s) /\ r = Tail(s) /\ Len(r) = Len(s) - 1
    BY <1>2, HeadTailProperties
  <2>2. PICK a \in Seq(Packets) : a = Append(g, h)
    BY AppendProperties
  <2>3. Append(g, Head(s)) \o Tail(s) = g \o s
    BY <1>2, ConcatShift
  <2>4. a \o r = g \o s
    BY <2>1, <2>2, <2>3, Zenon
  <2> QED
    BY <2>1, <2>2, <2>4
<1>5. RelayTypeOK'
  <2>1. \A j \in Conns : Len(down'[j]) <= RoomDown
    BY <1>0, <1>2, <1>3, <1>4 DEF RelayTypeOK
  <2> QED
    BY <1>0, <1>3, <1>4, <2>1 DEF RelayTypeOK
<1>6. OneUser' /\ Distinct' /\ Gone'
  BY <1>0, <1>3, LogUnchanged DEF OneUser, Gone
<1>7. Fresh'
  BY <1>0, <1>1, <1>3 DEF Fresh, RelayTypeOK
<1>8. \A d \in Clients : Stream(d)' = Stream(d)
  <2>1. ASSUME NEW d \in Clients, d # c PROVE Stream(d)' = Stream(d)
    <3>1. got'[d] = got[d] /\ cur'[d] = cur[d]
      BY <1>0, <1>3, <2>1 DEF RelayTypeOK
    <3>2. cur[d] # NoConn => cur[d] # k /\ cur[d] \in Conns
      BY <1>0, <1>1, <2>1 DEF OneUser, RelayTypeOK
    <3>3. cur[d] # NoConn => down'[cur[d]] = down[cur[d]]
      BY <1>0, <1>3, <3>2 DEF RelayTypeOK
    <3> QED
      BY <3>1, <3>3 DEF Stream
  <2>2. Stream(c) = g \o s
    BY <1>1, <1>2 DEF Stream
  <2>3. Stream(c)' = a \o r
    <3>1. got'[c] = a /\ down'[k] = r /\ cur'[c] = k
      BY <1>0, <1>1, <1>3, <1>4 DEF RelayTypeOK
    <3> QED
      BY <1>1, <3>1 DEF Stream
  <2> QED
    BY <1>4, <2>1, <2>2, <2>3
<1>9. HeardInOrder' /\ DownstreamComplete'
  BY <1>0, <1>3, <1>8, StreamsUnchanged
<1>10. UpstreamComplete'
  BY <1>0, <1>3, ArrivesUnchanged, UpstreamByConn
<1> QED
  BY <1>5, <1>6, <1>7, <1>9, <1>10 DEF IInv

LEMMA HangUpSteps == ASSUME IInv, NEW c \in Clients, HangUp(c) PROVE IInv'
<1> USE RelayAssumption
<1>0. RelayTypeOK /\ OneUser /\ Fresh /\ Gone /\ Distinct /\ HeardInOrder /\ UpstreamComplete
      /\ DownstreamComplete
  BY DEF IInv
<1>1. PICK k \in Conns : k = cur[c] /\ k # NoConn
  BY <1>0 DEF RelayTypeOK, HangUp
<1>2. /\ hungUp' = hungUp \cup {k} /\ down' = [down EXCEPT ![k] = <<>>]
      /\ lossy' = lossy \cup {k} /\ cur' = [cur EXCEPT ![c] = NoConn]
      /\ UNCHANGED <<got, srv, up, posts, posted, joined, todo, inRound, stops, log>>
  BY <1>1 DEF HangUp, serverVars
<1>3. RelayTypeOK'
  <2>1. down' \in [Conns -> Seq(Packets)] /\ \A j \in Conns : Len(down'[j]) <= RoomDown
    BY <1>0, <1>2 DEF RelayTypeOK
  <2> QED
    BY <1>0, <1>2, <2>1 DEF RelayTypeOK
<1>4. OneUser' /\ Distinct'
  BY <1>0, <1>2, LogUnchanged DEF OneUser, RelayTypeOK
<1>5. Fresh' /\ Gone'
  <2>1. \A d \in Clients : cur'[d] # NoConn => cur'[d] = cur[d] /\ cur[d] # k
    BY <1>0, <1>1, <1>2 DEF OneUser, RelayTypeOK
  <2> QED
    BY <1>0, <1>1, <1>2, <2>1 DEF Fresh, Gone, RelayTypeOK
<1>6. ASSUME NEW d \in Clients, d # c PROVE Stream(d)' = Stream(d) /\ cur'[d] = cur[d]
  <2>1. cur'[d] = cur[d]
    BY <1>0, <1>2, <1>6 DEF RelayTypeOK
  <2>2. cur[d] # NoConn => cur[d] # k /\ cur[d] \in Conns
    BY <1>0, <1>1, <1>6 DEF OneUser, RelayTypeOK
  <2>3. cur[d] # NoConn => down'[cur[d]] = down[cur[d]]
    BY <1>0, <1>2, <2>2 DEF RelayTypeOK
  <2> QED
    BY <1>2, <2>1, <2>3 DEF Stream
<1>7. cur'[c] = NoConn
  BY <1>0, <1>2 DEF RelayTypeOK
<1>8. HeardInOrder'
  <2>1. InOrder(Stream(c)', log)
    <3>1. PICK g \in Seq(Packets), s \in Seq(Packets) : g = got[c] /\ s = down[k]
      BY <1>0 DEF RelayTypeOK
    <3>2. Stream(c)' = g /\ Stream(c) = g \o s
      BY <1>1, <1>2, <1>7, <3>1 DEF Stream
    <3>3. InOrder(g \o s, log) /\ log \in Seq(Packets)
      BY <1>0, <3>2 DEF HeardInOrder, RelayTypeOK
    <3>4. g \o s \in Seq(Packets) /\ Len(g) <= Len(g \o s) /\ \A i \in 1..Len(g) : g[i] = (g \o s)[i]
      BY ConcatProperties
    <3>5. InOrder(g, log)
      BY <3>3, <3>4, OrderOfBeginning
    <3> QED
      BY <3>2, <3>5
  <2> QED
    BY <1>0, <1>2, <1>6, <2>1 DEF HeardInOrder
<1>9. DownstreamComplete'
  <2>1. ASSUME NEW d \in Clients PROVE Hears(d)'
    BY <1>0, <1>2, <1>6, <1>7, DownstreamByClient DEF Hears
  <2> QED
    BY <2>1, DownstreamByClient
<1>10. UpstreamComplete'
  BY <1>0, <1>2, ArrivesUnchanged, UpstreamByConn
<1> QED
  BY <1>3, <1>4, <1>5, <1>8, <1>9, <1>10 DEF IInv

\* A connection starts to count from the end of the log.
LEMMA BeginRoundSteps == ASSUME IInv, BeginRound PROVE IInv'
<1> USE RelayAssumption
<1>0. RelayTypeOK /\ OneUser /\ Fresh /\ Gone /\ Distinct /\ HeardInOrder /\ UpstreamComplete
      /\ DownstreamComplete
  BY DEF IInv
<1>1. /\ srv' \in [Conns -> {"unused", "backlog", "Ready", "Finished", "removed"}]
      /\ \A k \in Conns : srv'[k] = CASE srv[k] = "backlog"  -> "Ready"
                                     [] srv[k] = "Finished" -> "removed"
                                     [] OTHER -> srv[k]
      /\ joined' \in [Conns -> Nat]
      /\ \A k \in Conns : joined'[k] = IF srv[k] = "backlog" THEN Len(log) ELSE joined[k]
      /\ todo' = {k \in Conns : srv'[k] = "Ready"} /\ inRound' = TRUE
      /\ UNCHANGED <<cur, got, hungUp, up, down, posts, posted, lossy, stops, log>>
  <2>1. Len(log) \in Nat
    BY <1>0 DEF RelayTypeOK
  <2> QED
    BY <1>0, <2>1 DEF BeginRound, RelayTypeOK, clientVars
<1>2. RelayTypeOK'
  BY <1>0, <1>1 DEF RelayTypeOK
<1>3. OneUser' /\ Distinct'
  BY <1>0, <1>1, LogUnchanged DEF OneUser
<1>4. Fresh'
  <2>1. \A k \in Conns : srv'[k] = "unused" <=> srv[k] = "unused"
    BY <1>1
  <2>2. \A k \in Conns : posted'[k] <= posts' /\ joined'[k] <= Len(log')
    BY <1>0, <1>1 DEF Fresh, RelayTypeOK
  <2> QED
    BY <1>0, <1>1, <2>1, <2>2 DEF Fresh, RelayTypeOK
<1>9. Gone'
  <2>1. \A k \in Conns : (srv'[k] = "removed" => srv[k] \in {"removed", "Finished"})
                         /\ srv'[k] # "Finished" /\ (srv'[k] = "unused" <=> srv[k] = "unused")
    BY <1>1
  <2> QED
    BY <1>0, <1>1, <2>1 DEF Gone, RelayTypeOK
<1>5. \A c \in Clients : Stream(c)' = Stream(c)
  BY <1>1 DEF Stream
<1>6. HeardInOrder'
  BY <1>0, <1>1, <1>5 DEF HeardInOrder
<1>7. DownstreamComplete'
  <2>1. ASSUME NEW c \in Clients PROVE Hears(c)'
    <3>1. CASE cur[c] = NoConn
      BY <1>1, <3>1 DEF Hears
    <3>2. CASE cur[c] # NoConn
      <4>1. PICK k \in Conns : k = cur[c] /\ k = cur'[c]
        BY <1>0, <1>1, <3>2 DEF RelayTypeOK
      <4>2. CASE srv[k] = "backlog"
        <5>1. PICK t \in Seq(Packets) : t = Stream(c)'
          BY <1>0, <1>5, StreamIsSeq
        <5>2. SubSeq(log, Len(log) + 1, Len(log)) = <<>> /\ joined'[k] = Len(log)
          BY <1>0, <1>1, <4>2, SubSeqEmpty DEF RelayTypeOK
        <5>3. IsSuffix(<<>>, t)
          BY SuffixEmpty
        <5>4. SubSeq(log', joined'[k] + 1, Len(log')) = <<>>
          BY <1>1, <5>2
        <5> QED
          BY <4>1, <5>1, <5>3, <5>4 DEF Hears
      <4>3. CASE srv[k] # "backlog"
        <5>1. Hears(c) /\ joined'[k] = joined[k] /\ (srv'[k] = "Ready" => srv[k] = "Ready")
          BY <1>0, <1>1, <4>3, DownstreamByClient
        <5> QED
          BY <1>1, <1>5, <4>1, <5>1 DEF Hears
      <4> QED
        BY <4>2, <4>3
    <3> QED
      BY <3>1, <3>2
  <2> QED
    BY <2>1, DownstreamByClient
<1>8. UpstreamComplete'
  <2>1. ASSUME NEW k \in Conns PROVE Arrives(k)'
    <3>1. /\ Arrives(k) /\ PacketsOf(k, log)' = PacketsOf(k, log) /\ Posts(k)' = Posts(k)
          /\ up'[k] = up[k] /\ stops' = stops
      BY <1>0, <1>1, UpstreamByConn DEF PacketsOf, Posts
    <3>2. CASE srv[k] = "Finished"
      <4>1. PICK f \in Seq(Packets), u \in Seq(Packets) : f = PacketsOf(k, log) /\ u = up[k]
        BY <1>0, FromIsSeq DEF RelayTypeOK
      <4>2. f \o u = Posts(k) /\ IsPrefix(f, f \o u)
        BY <3>1, <3>2, <4>1, PrefixOfConcat DEF Arrives
      <4> QED
        BY <3>1, <4>1, <4>2 DEF Arrives
    <3>3. CASE srv[k] # "Finished"
      <4>1. srv'[k] = "removed" <=> srv[k] = "removed"
        BY <1>1, <3>3
      <4> QED
        BY <3>1, <4>1 DEF Arrives
    <3> QED
      BY <3>2, <3>3
  <2> QED
    BY <2>1, UpstreamByConn
<1> QED
  BY <1>2, <1>3, <1>4, <1>6, <1>7, <1>8, <1>9 DEF IInv

LEMMA PauseSteps ==
  ASSUME IInv, EndRound \/ (\E k \in Conns : NothingYet(k))
  PROVE  IInv'
<1> USE RelayAssumption
<1>0. RelayTypeOK /\ OneUser /\ Fresh /\ Gone /\ Distinct /\ HeardInOrder /\ UpstreamComplete
      /\ DownstreamComplete
  BY DEF IInv
<1>1. /\ UNCHANGED <<cur, got, srv, hungUp, up, down, posts, posted, joined, lossy, stops, log>>
      /\ todo' \subseteq todo /\ inRound' \in BOOLEAN
  BY <1>0 DEF EndRound, NothingYet, clientVars, connVars, RelayTypeOK
<1>2. RelayTypeOK'
  BY <1>0, <1>1 DEF RelayTypeOK
<1>3. OneUser' /\ Distinct' /\ Fresh' /\ Gone'
  BY <1>0, <1>1, LogUnchanged DEF OneUser, Fresh, Gone
<1>4. \A c \in Clients : Stream(c)' = Stream(c)
  BY <1>1 DEF Stream
<1>5. HeardInOrder' /\ DownstreamComplete'
  BY <1>0, <1>1, <1>4, StreamsUnchanged
<1>6. UpstreamComplete'
  BY <1>0, <1>1, ArrivesUnchanged, UpstreamByConn
<1> QED
  BY <1>2, <1>3, <1>5, <1>6 DEF IInv

\* A connection that its client has closed is read to its end.
LEMMA EndOfStreamSteps == ASSUME IInv, NEW k \in Conns, EndOfStream(k) PROVE IInv'
<1> USE RelayAssumption
<1>0. RelayTypeOK /\ OneUser /\ Fresh /\ Gone /\ Distinct /\ HeardInOrder /\ UpstreamComplete
      /\ DownstreamComplete
  BY DEF IInv
<1>1. /\ k \in todo /\ k \in hungUp /\ up[k] = <<>> /\ srv' = [srv EXCEPT ![k] = "Finished"] /\ todo' = todo \ {k}
      /\ UNCHANGED <<cur, got, hungUp, up, down, posts, posted, joined, lossy, inRound, stops, log>>
  BY DEF EndOfStream, clientVars
<1>2. RelayTypeOK'
  BY <1>0, <1>1 DEF RelayTypeOK
<1>3. srv[k] = "Ready"
  BY <1>0, <1>1 DEF Fresh
<1>4. OneUser' /\ Distinct' /\ Fresh' /\ Gone'
  BY <1>0, <1>1, <1>3, LogUnchanged DEF OneUser, Fresh, Gone, RelayTypeOK
<1>5. \A c \in Clients : Stream(c)' = Stream(c)
  BY <1>1 DEF Stream
<1>6. HeardInOrder' /\ DownstreamComplete'
  <2>1. \A c \in Clients : cur'[c] # NoConn =>
           cur'[c] = cur[c] /\ (srv'[cur[c]] = "Ready" => srv[cur[c]] = "Ready")
    BY <1>0, <1>1 DEF RelayTypeOK
  <2> QED
    BY <1>0, <1>1, <1>5, <2>1, StreamsUnchanged
<1>7. UpstreamComplete'
  <2>1. ASSUME NEW j \in Conns, j # k PROVE Arrives(j)'
    <3>1. srv'[j] = srv[j] /\ Arrives(j)
      BY <1>0, <1>1, <2>1, UpstreamByConn DEF RelayTypeOK
    <3> QED
      BY <1>1, <3>1, ArrivesUnchanged
  <2>2. Arrives(k)'
    <3>1. /\ PacketsOf(k, log) \o up[k] = Posts(k) /\ PacketsOf(k, log)' = PacketsOf(k, log)
          /\ Posts(k)' = Posts(k) /\ up'[k] = up[k]
      BY <1>0, <1>1, <1>3, UpstreamByConn DEF Arrives, PacketsOf, Posts
    <3>2. srv'[k] = "Finished"
      BY <1>0, <1>1 DEF RelayTypeOK
    <3> QED
      BY <3>1, <3>2 DEF Arrives
  <2> QED
    BY <2>1, <2>2, UpstreamByConn
<1> QED
  BY <1>2, <1>4, <1>6, <1>7 DEF IInv

\* The head of a Ready connection is the packet that follows those of it in the
\* log, so it is not there yet.
LEMMA NextPacket ==
  ASSUME IInv, NEW k \in Conns, srv[k] = "Ready", up[k] # <<>>
  PROVE  /\ Head(up[k]) \in Packets
         /\ Head(up[k]) = <<k, Len(PacketsOf(k, log)) + 1>>
         /\ \A i \in 1..Len(log) : log[i] # Head(up[k])
<1>1. PICK u \in Seq(Packets), f \in Seq(Packets) : u = up[k] /\ f = PacketsOf(k, log)
  BY FromIsSeq DEF IInv, RelayTypeOK
<1>2. f \o u = Posts(k) /\ u # <<>>
  BY <1>1, UpstreamByConn DEF IInv, Arrives
<1>3. Len(f) + 1 \in 1..Len(f \o u) /\ Head(u) = (f \o u)[Len(f) + 1] /\ Head(u) \in Packets
  BY <1>2, PrefixOfConcat, HeadTailProperties
<1>4. posted[k] \in Nat
  BY RelayAssumption DEF IInv, RelayTypeOK
<1>5. Len(Posts(k)) = posted[k] /\ \A i \in 1..posted[k] : Posts(k)[i] = <<k, i>>
  BY <1>4 DEF Posts
<1>6. Head(u) = <<k, Len(f) + 1>>
  BY <1>2, <1>3, <1>5
<1>7. ASSUME NEW i \in 1..Len(log), log[i] = Head(u) PROVE FALSE
  <2>1. log[i][2] <= Len(PacketsOf(log[i][1], log))
    BY DEF IInv, Distinct
  <2>2. log[i][1] = k /\ log[i][2] = Len(f) + 1
    BY <1>6, <1>7
  <2>3. Len(f) + 1 <= Len(f) /\ Len(f) \in Nat
    BY <1>1, <2>1, <2>2
  <2> QED
    BY <2>3
<1> QED
  BY <1>1, <1>3, <1>6, <1>7

\* Relaying puts the packet at the end of the log and of the streams it reaches.
LEMMA RelaySteps == ASSUME IInv, NEW k \in Conns, Relay(k) PROVE IInv'
<1> USE RelayAssumption
<1>0. RelayTypeOK /\ OneUser /\ Fresh /\ Gone /\ Distinct /\ HeardInOrder /\ UpstreamComplete
      /\ DownstreamComplete
  BY DEF IInv
<1>1. srv[k] = "Ready" /\ up[k] # <<>> /\ k \in todo
  BY <1>0 DEF Relay, Fresh
<1>2. PICK u \in Seq(Packets), f \in Seq(Packets), l \in Seq(Packets) :
        u = up[k] /\ f = PacketsOf(k, log) /\ l = log /\ u # <<>>
  BY <1>0, <1>1, FromIsSeq DEF RelayTypeOK
<1>3. PICK p \in Packets, r \in Seq(Packets) : p = Head(u) /\ r = Tail(u) /\ Len(r) = Len(u) - 1
  BY <1>2, HeadTailProperties
<1>4. p = <<k, Len(f) + 1>> /\ \A i \in 1..Len(l) : l[i] # p
  BY <1>1, <1>2, <1>3, NextPacket
<1> DEFINE ids     == {j \in Conns : srv[j] = "Ready"}
           reached == {j \in ids \ hungUp : Len(down[j]) < RoomDown}
<1>5. /\ down' = [j \in Conns |-> IF j \in reached THEN Append(down[j], p) ELSE down[j]]
      /\ lossy' = lossy \cup (ids \ reached)
      /\ log' = Append(l, p)
  BY <1>2, <1>3 DEF Relay, Rebroadcast
<1>6. /\ up' = [up EXCEPT ![k] = r] /\ todo' = todo \ {k}
      /\ UNCHANGED <<cur, got, srv, hungUp, posts, posted, joined, inRound, stops>>
  BY <1>2, <1>3 DEF Relay, clientVars
<1>7. \A j \in reached : j \in Conns /\ Len(down[j]) < RoomDown /\ srv[j] = "Ready"
  OBVIOUS
<1>8. \A j \in Conns : srv[j] = "Ready" /\ j \notin reached => j \in lossy'
  BY <1>5
<1>9. lossy \subseteq lossy' /\ lossy' \subseteq Conns
  BY <1>0, <1>5 DEF RelayTypeOK
<1> HIDE DEF ids, reached
<1> DEFINE g == Append(l, p)
<1>10. /\ g \in Seq(Packets) /\ g = Append(l, p) /\ Len(g) = Len(l) + 1
      /\ g[Len(l) + 1] = p /\ \A i \in 1..Len(l) : g[i] = l[i]
  BY AppendProperties
<1>11. log' = g /\ log = l
  BY <1>5, <1>2
<1> HIDE DEF g
<1>12. ASSUME NEW j \in Conns
      PROVE  /\ down'[j] \in Seq(Packets) /\ Len(down'[j]) <= RoomDown
             /\ down'[j] = IF j \in reached THEN Append(down[j], p) ELSE down[j]
  <2>1. PICK d \in Seq(Packets) : d = down[j] /\ Len(d) <= RoomDown
    BY <1>0 DEF RelayTypeOK
  <2>2. Append(d, p) \in Seq(Packets) /\ Len(Append(d, p)) = Len(d) + 1
    BY AppendProperties
  <2>3. j \in reached => Len(d) < RoomDown
    BY <1>7, <2>1
  <2>4. down'[j] = IF j \in reached THEN Append(d, p) ELSE d
    BY <1>5, <2>1
  <2> QED
    BY <2>1, <2>2, <2>3, <2>4
<1>13. RelayTypeOK'
  <2>1. \A j \in Conns : Len(up'[j]) <= RoomUp
    BY <1>0, <1>2, <1>3, <1>6 DEF RelayTypeOK
  <2>2. down' \in [Conns -> Seq(Packets)]
    BY <1>5, <1>12
  <2>3. up' \in [Conns -> Seq(Packets)] /\ lossy' \subseteq Conns /\ log' \in Seq(Packets)
    <3>1. up' \in [Conns -> Seq(Packets)]
      BY <1>0, <1>6 DEF RelayTypeOK
    <3>2. log' \in Seq(Packets)
      BY <1>10, <1>11
    <3> QED
      BY <1>9, <3>1, <3>2
  <2> QED
    BY <1>0, <1>6, <1>12, <2>1, <2>2, <2>3 DEF RelayTypeOK
<1>14. OneUser' /\ Gone'
  BY <1>0, <1>6 DEF OneUser, Gone
<1>15. Fresh'
  <2>1. \A j \in Conns : srv[j] = "unused" => up'[j] = up[j] /\ down'[j] = down[j]
    BY <1>0, <1>1, <1>6, <1>12, <1>7 DEF RelayTypeOK
  <2>2. \A j \in Conns : joined'[j] <= Len(log')
    BY <1>0, <1>6, <1>10, <1>11 DEF Fresh, RelayTypeOK
  <2> QED
    BY <1>0, <1>6, <2>1, <2>2 DEF Fresh, RelayTypeOK
<1>16. \A j \in Conns : PacketsOf(j, log)' = IF p[1] = j THEN Append(PacketsOf(j, l), p) ELSE PacketsOf(j, l)
  <2>1. \A j \in Conns : PacketsOf(j, log)' = PacketsOf(j, g)
    BY <1>11 DEF PacketsOf
  <2>2. \A j \in Conns : PacketsOf(j, Append(l, p)) = IF p[1] = j THEN Append(PacketsOf(j, l), p) ELSE PacketsOf(j, l)
    BY FromAppend
  <2> QED
    BY <1>10, <2>1, <2>2, Zenon
<1>17. Distinct'
  <2>1. \A i, j \in 1..Len(l) : l[i] = l[j] => i = j
    BY <1>0, <1>11 DEF Distinct
  <2>2. ASSUME NEW i \in 1..Len(g), NEW j \in 1..Len(g), g[i] = g[j] PROVE i = j
    <3>1. (i \in 1..Len(l) \/ i = Len(l) + 1) /\ (j \in 1..Len(l) \/ j = Len(l) + 1)
      BY <1>10
    <3>2. \A x \in 1..Len(l) : g[x] = l[x] /\ l[x] # p
      BY <1>4, <1>10
    <3> QED
      BY <1>10, <2>1, <2>2, <3>1, <3>2
  <2>3. ASSUME NEW i \in 1..Len(g) PROVE g[i][2] <= Len(PacketsOf(g[i][1], log)')
    <3>1. CASE i = Len(l) + 1
      <4>1. PacketsOf(k, log)' = Append(f, p) /\ Len(Append(f, p)) = Len(f) + 1
        BY <1>4, <1>16, <1>2, AppendProperties
      <4>2. g[i][2] = Len(f) + 1 /\ g[i][1] = k
        BY <1>4, <1>10, <3>1
      <4> QED
        BY <4>1, <4>2
    <3>2. CASE i \in 1..Len(l)
      <4>0. l[i] \in Packets /\ g[i] = l[i]
        BY <1>10, <3>2
      <4>1. PICK j \in Conns, n \in 1..MaxPosts : /\ j = g[i][1] /\ n = g[i][2]
                                               /\ j = l[i][1] /\ n = l[i][2]
        BY <4>0 DEF Packets
      <4>2. PICK q \in Seq(Packets) : q = PacketsOf(j, l)
        BY FromIsSeq
      <4>3. n <= Len(q)
        BY <1>0, <1>11, <3>2, <4>1, <4>2 DEF Distinct
      <4>4. PacketsOf(j, log)' = q \/ PacketsOf(j, log)' = Append(q, p)
        BY <1>16, <4>2
      <4>5. Len(Append(q, p)) = Len(q) + 1
        BY AppendProperties
      <4> QED
        BY <4>1, <4>3, <4>4, <4>5
    <3>3. i = Len(l) + 1 \/ i \in 1..Len(l)
      BY <1>10
    <3> QED
      BY <3>1, <3>2, <3>3
  <2>4. \A i \in 1..Len(log') : log'[i][2] <= Len(PacketsOf(log[i][1], log)')
    BY <1>11, <2>3 DEF PacketsOf
  <2> QED
    BY <1>11, <2>2, <2>4 DEF Distinct
<1>18. ASSUME NEW c \in Clients
       PROVE  Stream(c)' = IF cur[c] \in reached THEN Append(Stream(c), p) ELSE Stream(c)
  <2>1. CASE cur[c] = NoConn
    BY <1>6, <1>7, <2>1 DEF Stream
  <2>2. CASE cur[c] # NoConn
    <3>1. PICK j \in Conns, a \in Seq(Packets), d \in Seq(Packets) : j = cur[c] /\ a = got[c] /\ d = down[j]
      BY <1>0, <2>2 DEF RelayTypeOK
    <3>2. a \o Append(d, p) = Append(a \o d, p)
      BY ConcatAppend
    <3>3. Stream(c) = a \o d /\ Stream(c)' = a \o down'[j]
      BY <1>6, <2>2, <3>1 DEF Stream
    <3> QED
      BY <1>12, <3>1, <3>2, <3>3
  <2> QED
    BY <2>1, <2>2
<1>19. HeardInOrder'
  <2>1. ASSUME NEW c \in Clients PROVE InOrder(Stream(c)', g)
    <3>1. PICK t \in Seq(Packets) : t = Stream(c)
      BY <1>0, StreamIsSeq
    <3>2. InOrder(t, l)
      BY <1>0, <1>11, <3>1 DEF HeardInOrder
    <3>3. InOrder(t, g) /\ InOrder(Append(t, p), g)
      BY <1>10, <3>2, OrderGrows
    <3> QED
      BY <1>18, <3>1, <3>3
  <2> QED
    BY <1>11, <2>1 DEF HeardInOrder
<1>20. DownstreamComplete'
  <2>1. ASSUME NEW c \in Clients, cur[c] # NoConn, srv[cur[c]] = "Ready", cur[c] \notin lossy'
        PROVE  IsSuffix(SubSeq(g, joined[cur[c]] + 1, Len(g)), Stream(c)')
    <3>0. PICK t \in Seq(Packets) : t = Stream(c)
      BY <1>0, StreamIsSeq
    <3>1. PICK j \in Conns, n \in Nat : j = cur[c] /\ n = joined[j] /\ n <= Len(l) /\ t = Stream(c)
      <4>1. cur[c] \in Conns /\ joined[cur[c]] \in Nat
        BY <1>0, <2>1 DEF RelayTypeOK
      <4>2. joined[cur[c]] <= Len(l)
        BY <1>0, <1>11, <4>1 DEF Fresh
      <4> QED
        BY <3>0, <4>1, <4>2
    <3>2. j \in reached /\ j \notin lossy
      BY <1>8, <1>9, <2>1, <3>1
    <3>4. IsSuffix(SubSeq(l, n + 1, Len(l)), t)
      BY <1>0, <1>11, <2>1, <3>1, <3>2, DownstreamByClient DEF Hears
    <3>5. IsSuffix(SubSeq(g, n + 1, Len(g)), Append(t, p))
      BY <1>10, <3>1, <3>4, SuffixGrows
    <3>6. Stream(c)' = Append(t, p)
      BY <1>18, <3>1, <3>2
    <3> QED
      BY <3>1, <3>5, <3>6
  <2>2. ASSUME NEW c \in Clients PROVE Hears(c)'
    BY <1>6, <1>11, <2>1 DEF Hears
  <2> QED
    BY <2>2, DownstreamByClient
<1>21. UpstreamComplete'
  <2>1. ASSUME NEW j \in Conns, j # k PROVE Arrives(j)'
    <3>1. PacketsOf(j, log)' = PacketsOf(j, log) /\ Posts(j)' = Posts(j) /\ up'[j] = up[j] /\ srv'[j] = srv[j]
      BY <1>0, <1>4, <1>6, <1>16, <1>11, <2>1 DEF Posts, RelayTypeOK
    <3>2. Arrives(j)
      BY <1>0, UpstreamByConn
    <3> QED
      BY <1>6, <3>1, <3>2 DEF Arrives
  <2>2. PacketsOf(k, log)' = Append(f, p) /\ up'[k] = r /\ Posts(k)' = Posts(k) /\ srv'[k] = "Ready"
    BY <1>0, <1>1, <1>4, <1>6, <1>16, <1>2, <1>11 DEF Posts, RelayTypeOK
  <2>3. f \o u = Posts(k)
    BY <1>0, <1>1, <1>2, UpstreamByConn DEF Arrives
  <2>4. Append(f, Head(u)) \o Tail(u) = f \o u
    BY <1>2, ConcatShift
  <2>5. Append(f, p) \o r = Posts(k)
    BY <1>3, <2>3, <2>4, Zenon
  <2>6. Arrives(k)'
    BY <2>2, <2>5 DEF Arrives
  <2> QED
    BY <2>1, <2>6, UpstreamByConn
<1> QED
  BY <1>13, <1>14, <1>15, <1>17, <1>19, <1>20, <1>21 DEF IInv

\* What is lost with the server is the end of the streams.
LEMMA ServerStopsSteps == ASSUME IInv, ServerStops PROVE IInv'
<1> USE RelayAssumption
<1>0. RelayTypeOK /\ OneUser /\ Fresh /\ Gone /\ Distinct /\ HeardInOrder /\ UpstreamComplete
      /\ DownstreamComplete
  BY DEF IInv
<1> DEFINE open == {k \in Conns : srv[k] \in {"backlog", "Ready", "Finished"}}
<1>1. PICK n \in [open -> 0..RoomDown] :
        down' = [k \in Conns |-> IF k \in open /\ n[k] < Len(down[k])
                                 THEN SubSeq(down[k], 1, n[k]) ELSE down[k]]
  BY DEF ServerStops
<1>2. /\ stops < MaxStops /\ stops' = stops + 1 /\ todo' = {} /\ inRound' = FALSE
      /\ srv' = [k \in Conns |-> IF k \in open THEN "removed" ELSE srv[k]]
      /\ up' = [k \in Conns |-> IF k \in open THEN <<>> ELSE up[k]]
      /\ lossy' = lossy \cup open
      /\ UNCHANGED <<cur, got, hungUp, posts, posted, joined, log>>
  BY DEF ServerStops, clientVars
<1>3. ASSUME NEW k \in Conns
      PROVE  /\ down'[k] \in Seq(Packets) /\ Len(down'[k]) <= Len(down[k]) /\ Len(down[k]) <= RoomDown
             /\ \A i \in 1..Len(down'[k]) : down'[k][i] = down[k][i]
             /\ k \notin open => down'[k] = down[k]
  <2>1. PICK d \in Seq(Packets) : d = down[k] /\ Len(d) <= RoomDown
    BY <1>0 DEF RelayTypeOK
  <2>2. CASE k \in open /\ n[k] < Len(d)
    <3>1. PICK m \in Nat : m = n[k] /\ m < Len(d)
      BY <1>1, <2>2
    <3>2. SubSeq(d, 1, m) \in Seq(Packets) /\ Len(SubSeq(d, 1, m)) = m
          /\ \A i \in 1..m : SubSeq(d, 1, m)[i] = d[i]
      BY <3>1
    <3>3. down'[k] = SubSeq(d, 1, m)
      BY <1>1, <2>1, <2>2, <3>1
    <3> QED
      BY <2>1, <2>2, <3>1, <3>2, <3>3
  <2>3. CASE ~ (k \in open /\ n[k] < Len(d))
    <3>1. down'[k] = d
      BY <1>1, <2>1, <2>3
    <3> QED
      BY <2>1, <3>1
  <2> QED
    BY <2>2, <2>3
<1>4. \A k \in Conns : srv'[k] \in {"unused", "removed"} /\ (srv'[k] = "unused" => srv[k] = "unused" /\ k \notin open)
  BY <1>0, <1>2 DEF RelayTypeOK
<1>5. RelayTypeOK'
  <2>1. down' \in [Conns -> Seq(Packets)] /\ \A k \in Conns : Len(down'[k]) <= RoomDown
    <3>1. \A k \in Conns : Len(down'[k]) <= RoomDown
      BY <1>3
    <3> QED
      BY <1>1, <1>3, <3>1
  <2>2. up' \in [Conns -> Seq(Packets)] /\ \A k \in Conns : Len(up'[k]) <= RoomUp
    BY <1>0, <1>2 DEF RelayTypeOK
  <2>3. srv' \in [Conns -> {"unused", "backlog", "Ready", "Finished", "removed"}]
    BY <1>0, <1>2 DEF RelayTypeOK
  <2>4. stops' \in 0..MaxStops /\ lossy' \subseteq Conns
    BY <1>0, <1>2 DEF RelayTypeOK
  <2> QED
    BY <1>0, <1>2, <2>1, <2>2, <2>3, <2>4 DEF RelayTypeOK
<1>6. OneUser' /\ Distinct' /\ Gone'
  <2>1. stops' # 0
    BY <1>0, <1>2 DEF RelayTypeOK
  <2>2. \A k \in Conns : srv'[k] = "unused" => srv[k] = "unused"
    BY <1>4
  <2> QED
    BY <1>0, <1>2, <1>4, <2>1, <2>2, LogUnchanged DEF OneUser, Gone, RelayTypeOK
<1>7. Fresh'
  <2>1. \A k \in Conns : srv[k] # "unused" => srv'[k] # "unused"
    BY <1>2
  <2>2. \A k \in Conns : srv'[k] = "unused" => up'[k] = up[k] /\ down'[k] = down[k] /\ srv[k] = "unused"
    BY <1>2, <1>3, <1>4
  <2> QED
    BY <1>0, <1>2, <2>1, <2>2 DEF Fresh, RelayTypeOK
<1>8. HeardInOrder'
  <2>1. ASSUME NEW c \in Clients PROVE InOrder(Stream(c)', log)
    <3>1. CASE cur[c] = NoConn
      <4>1. Stream(c)' = Stream(c)
        BY <1>2, <3>1 DEF Stream
      <4> QED
        BY <1>0, <4>1 DEF HeardInOrder
    <3>2. CASE cur[c] # NoConn
      <4>1. PICK k \in Conns, g \in Seq(Packets), d \in Seq(Packets), e \in Seq(Packets) :
              k = cur[c] /\ g = got[c] /\ d = down[k] /\ e = down'[k]
        BY <1>0, <1>3, <3>2 DEF RelayTypeOK
      <4>2. Len(e) <= Len(d) /\ \A i \in 1..Len(e) : e[i] = d[i]
        BY <1>3, <4>1
      <4>3. Stream(c) = g \o d /\ Stream(c)' = g \o e
        BY <1>2, <3>2, <4>1 DEF Stream
      <4> DEFINE s == g \o d
                 t == g \o e
      <4>4. s \in Seq(Packets) /\ Len(s) = Len(g) + Len(d)
            /\ \A i \in 1..(Len(g) + Len(d)) : s[i] = IF i <= Len(g) THEN g[i] ELSE d[i - Len(g)]
        BY ConcatProperties
      <4>5. t \in Seq(Packets) /\ Len(t) = Len(g) + Len(e)
            /\ \A i \in 1..(Len(g) + Len(e)) : t[i] = IF i <= Len(g) THEN g[i] ELSE e[i - Len(g)]
        BY ConcatProperties
      <4> HIDE DEF s, t
      <4>6. ASSUME NEW i \in 1..Len(t) PROVE t[i] = s[i]
        <5>1. i \in 1..(Len(g) + Len(d)) /\ i \in 1..(Len(g) + Len(e))
          BY <4>2, <4>5
        <5>2. CASE i <= Len(g)
          BY <4>4, <4>5, <5>1, <5>2
        <5>3. CASE ~ (i <= Len(g))
          <6>1. i - Len(g) \in 1..Len(e)
            BY <5>1, <5>3
          <6> QED
            BY <4>2, <4>4, <4>5, <5>1, <5>3, <6>1
        <5> QED
          BY <5>2, <5>3
      <4>7. Len(t) <= Len(s)
        BY <4>2, <4>4, <4>5
      <4>8. InOrder(s, log) /\ log \in Seq(Packets)
        BY <1>0, <4>3 DEF HeardInOrder, RelayTypeOK, s
      <4>9. InOrder(t, log)
        BY <4>4, <4>5, <4>6, <4>7, <4>8, OrderOfBeginning
      <4> QED
        BY <4>3, <4>9 DEF t
    <3> QED
      BY <3>1, <3>2
  <2> QED
    BY <1>2, <2>1 DEF HeardInOrder
<1>9. DownstreamComplete'
  <2>1. ASSUME NEW c \in Clients PROVE Hears(c)'
    BY <1>0, <1>2, <1>4 DEF Hears, RelayTypeOK
  <2> QED
    BY <2>1, DownstreamByClient
<1>10. UpstreamComplete'
  <2>1. ASSUME NEW k \in Conns PROVE Arrives(k)'
    <3>1. PICK f \in Seq(Packets), u \in Seq(Packets) :
            f = PacketsOf(k, log) /\ f = PacketsOf(k, log)' /\ u = up[k]
      BY <1>0, <1>2, FromIsSeq DEF RelayTypeOK, PacketsOf
    <3>2. Arrives(k) /\ Posts(k)' = Posts(k)
      BY <1>0, <1>2, UpstreamByConn DEF Posts
    <3>3. IsPrefix(f, f \o u)
      BY PrefixOfConcat
    <3>4. IsPrefix(f, Posts(k))
      BY <3>1, <3>2, <3>3 DEF Arrives
    <3>5. CASE srv'[k] = "removed"
      <4>1. stops' > 0
        BY <1>0, <1>2 DEF RelayTypeOK
      <4> QED
        BY <3>1, <3>2, <3>4, <3>5, <4>1 DEF Arrives
    <3>6. CASE srv'[k] # "removed"
      <4>1. srv[k] = "unused" /\ k \notin open
        BY <1>4, <3>6
      <4>2. up'[k] = up[k] /\ PacketsOf(k, log) \o up[k] = Posts(k)
        BY <1>2, <3>2, <4>1 DEF Arrives
      <4> QED
        BY <3>1, <3>2, <3>6, <4>2 DEF Arrives
    <3> QED
      BY <3>5, <3>6
  <2> QED
    BY <2>1, UpstreamByConn
<1> QED
  BY <1>5, <1>6, <1>7, <1>8, <1>9, <1>10 DEF IInv

LEMMA StutterSteps == ASSUME IInv, UNCHANGED relayVars PROVE IInv'
<1> USE DEF relayVars, clientVars, connVars, serverVars
<1>0. RelayTypeOK /\ OneUser /\ Fresh /\ Gone /\ Distinct /\ HeardInOrder /\ UpstreamComplete
      /\ DownstreamComplete
  BY DEF IInv
<1>1. RelayTypeOK'
  BY <1>0 DEF RelayTypeOK
<1>2. OneUser' /\ Fresh' /\ Distinct' /\ Gone'
  BY <1>0, LogUnchanged DEF OneUser, Fresh, Gone
<1>3. \A c \in Clients : Stream(c)' = Stream(c)
  BY DEF Stream
<1>4. HeardInOrder' /\ DownstreamComplete'
  BY <1>0, <1>3, StreamsUnchanged
<1>5. UpstreamComplete'
  BY <1>0, ArrivesUnchanged, UpstreamByConn
<1> QED
  BY <1>1, <1>2, <1>4, <1>5 DEF IInv

THEOREM IInvInductive == IInv /\ [RelayNext]_relayVars => IInv'
<1> SUFFICES ASSUME IInv, [RelayNext]_relayVars PROVE IInv'
  OBVIOUS
<1>1. CASE \E c \in Clients : Client(c)
  BY <1>1, ConnectSteps, SendSteps, HearSteps, HangUpSteps DEF Client
<1>2. CASE Round
  BY <1>2, BeginRoundSteps, PauseSteps, RelaySteps, EndOfStreamSteps DEF Round
<1>3. CASE ServerStops
  BY <1>3, ServerStopsSteps
<1>4. CASE UNCHANGED relayVars
  BY <1>4, StutterSteps
<1> QED
  BY <1>1, <1>2, <1>3, <1>4 DEF RelayNext

THEOREM Invariance == RelaySpec => []IInv
  BY InitIInv, IInvInductive, PTL DEF RelaySpec

\* Every state has the types RelayTypeOK gives it.
THEOREM TypeCorrect == RelaySpec => []RelayTypeOK
<1>1. IInv => RelayTypeOK
  BY DEF IInv
<1> QED
  BY <1>1, Invariance, PTL

\* What is sent gets through, both ways: nothing is lost, doubled or overtaken
\* between a driver and the log, whether its client has hung up by then or not,
\* unless a server stops; and a client that
\* lost nothing for want of room has heard the log from where it joined.
THEOREM NothingLost == RelaySpec => []PacketsComplete
  BY Invariance, IInvSafe, PTL

-----------------------------------------------------------------------------
(* The pool implements BroadcastBus *)

IndexIn(l, x) == CHOOSE i \in 1..Len(l) : l[i] = x

\* What BroadcastBus calls heard: the mapping of ServerRelay.
Heard == [c \in Clients |-> [i \in 1..Len(got[c]) |-> IndexIn(log, got[c][i])]]

LEMMA MappedState ==
  /\ Bus!bvars = <<log, Heard>>
  /\ Bus!bvars' = <<log', Heard'>>
  /\ Bus!Init <=> log = <<>> /\ Heard = [c \in Clients |-> <<>>]
  /\ Bus!Post <=> (\E packet \in Packets : log' = Append(log, packet)) /\ Heard' = Heard
  /\ \A c \in Clients :
       Bus!Hear(c) <=>
         /\ \E i \in ((IF Heard[c] = <<>> THEN 0 ELSE Heard[c][Len(Heard[c])]) + 1)..Len(log) :
              Heard' = [Heard EXCEPT ![c] = Append(@, i)]
         /\ log' = log
<1> USE DEF Heard, IndexIn, IndexInLog
<1>1. Bus!bvars = <<log, Heard>> /\ Bus!bvars' = <<log', Heard'>>
  BY DEF Bus!bvars
<1>2. Bus!Init <=> log = <<>> /\ Heard = [c \in Clients |-> <<>>]
  BY DEF Bus!Init
<1>3. Bus!Post <=> (\E packet \in Packets : log' = Append(log, packet)) /\ Heard' = Heard
  BY DEF Bus!Post
<1>4. ASSUME NEW c \in Clients
      PROVE  Bus!Hear(c) <=>
         /\ \E i \in ((IF Heard[c] = <<>> THEN 0 ELSE Heard[c][Len(Heard[c])]) + 1)..Len(log) :
              Heard' = [Heard EXCEPT ![c] = Append(@, i)]
         /\ log' = log
  BY DEF Bus!Hear, Bus!LastHeard
<1> QED
  BY <1>1, <1>2, <1>3, <1>4

\* In a sequence without repetitions an element has one index.
LEMMA IndexUnique ==
  ASSUME NEW l, NEW i \in 1..Len(l), \A j, m \in 1..Len(l) : l[j] = l[m] => j = m
  PROVE  IndexIn(l, l[i]) = i
BY DEF IndexIn

LEMMA HearRefines == ASSUME IInv, NEW c \in Clients, Hear(c) PROVE Bus!Hear(c)
<1>0. RelayTypeOK /\ OneUser /\ Distinct /\ HeardInOrder
  BY DEF IInv
<1>1. PICK k \in Conns : k = cur[c] /\ k # NoConn /\ down[k] # <<>>
  BY <1>0, RelayAssumption DEF RelayTypeOK, Hear
<1>2. PICK s \in Seq(Packets), g \in Seq(Packets), l \in Seq(Packets) :
        s = down[k] /\ g = got[c] /\ s # <<>> /\ l = log
  BY <1>0, <1>1 DEF RelayTypeOK
<1>3. got' = [got EXCEPT ![c] = Append(g, Head(s))] /\ log' = l /\ log = l
  BY <1>1, <1>2 DEF Hear, serverVars
<1>4. PICK h \in Packets : h = Head(s) /\ h = s[1]
  BY <1>2, HeadTailProperties
<1> DEFINE t == g \o s
<1>5. /\ t \in Seq(Packets) /\ Len(g) + 1 \in 1..Len(t) /\ t[Len(g) + 1] = h
      /\ \A m \in 1..Len(g) : m \in 1..Len(t) /\ t[m] = g[m]
  <2>1. Len(g) + 1 \in 1..Len(t) /\ h = t[Len(g) + 1]
    BY <1>2, <1>4, PrefixOfConcat
  <2>2. /\ t \in Seq(Packets) /\ Len(t) = Len(g) + Len(s)
        /\ \A m \in 1..(Len(g) + Len(s)) : t[m] = IF m <= Len(g) THEN g[m] ELSE s[m - Len(g)]
    BY ConcatProperties
  <2> HIDE DEF t
  <2>3. ASSUME NEW m \in 1..Len(g) PROVE m \in 1..Len(t) /\ t[m] = g[m]
    BY <2>2
  <2> QED
    BY <2>1, <2>2, <2>3
<1>6. InOrder(t, l)
  BY <1>0, <1>1, <1>2 DEF HeardInOrder, Stream
<1> HIDE DEF t
<1>7. \A i \in 1..Len(l) : IndexIn(l, l[i]) = i
  BY <1>0, <1>3, IndexUnique DEF Distinct
<1>8. PICK i \in 1..Len(l) : l[i] = h /\ IndexIn(l, h) = i
  <2>1. PICK i \in 1..Len(l) : l[i] = t[Len(g) + 1]
    BY <1>5, <1>6 DEF InOrder
  <2> QED
    BY <1>5, <1>7, <2>1
<1>9. ASSUME g # <<>> PROVE IndexIn(l, g[Len(g)]) < i /\ IndexIn(l, g[Len(g)]) \in Nat
  <2>1. Len(g) \in 1..Len(g) /\ Len(g) < Len(g) + 1
    BY <1>9
  <2>2. PICK a \in 1..Len(l), b \in 1..Len(l) : a < b /\ l[a] = t[Len(g)] /\ l[b] = t[Len(g) + 1]
    BY <1>5, <1>6, <2>1 DEF InOrder
  <2>3. IndexIn(l, l[a]) = a /\ IndexIn(l, l[b]) = b
    BY <1>7
  <2>4. l[b] = h /\ l[a] = g[Len(g)]
    BY <1>5, <2>1, <2>2
  <2> QED
    BY <1>8, <2>2, <2>3, <2>4
<1> DEFINE X == [m \in 1..Len(g) |-> IndexIn(l, g[m])]
<1>10. Heard[c] = X
  BY <1>2 DEF Heard
<1>12. Heard' = [Heard EXCEPT ![c] = Append(X, i)]
  <2> DEFINE a == Append(g, h)
  <2>1. a \in Seq(Packets) /\ Len(a) = Len(g) + 1 /\ a[Len(g) + 1] = h /\ \A m \in 1..Len(g) : a[m] = g[m]
    BY AppendProperties
  <2> HIDE DEF a
  <2>2. Heard' = [d \in Clients |-> [m \in 1..Len(got'[d]) |-> IndexIn(l, got'[d][m])]]
    BY <1>3 DEF Heard
  <2>3. got'[c] = a /\ \A d \in Clients : d # c => got'[d] = got[d]
    BY <1>0, <1>3, <1>4 DEF RelayTypeOK, a
  <2>4. [m \in 1..Len(a) |-> IndexIn(l, a[m])] = Append(X, i)
    <3> DEFINE Y == [m \in 1..Len(a) |-> IndexIn(l, a[m])]
               Z == Append(X, i)
    <3>1. ASSUME NEW m \in 1..Len(g) PROVE IndexIn(l, g[m]) \in Nat
      <4>1. PICK q \in 1..Len(l) : l[q] = t[m]
        BY <1>5, <1>6 DEF InOrder
      <4> QED
        BY <1>5, <1>7, <4>1
    <3>2. X \in Seq(Nat) /\ Len(X) = Len(g) /\ i \in Nat
      BY <3>1
    <3>3. Y \in Seq(Nat) /\ Len(Y) = Len(g) + 1 /\ \A m \in 1..(Len(g) + 1) : Y[m] = IndexIn(l, a[m])
      <4>1. \A m \in 1..(Len(g) + 1) : IndexIn(l, a[m]) \in Nat
        BY <1>8, <2>1, <3>1
      <4> QED
        BY <2>1, <4>1
    <3>4. \A m \in 1..Len(g) : X[m] = IndexIn(l, g[m])
      OBVIOUS
    <3> HIDE DEF X
    <3>5. Z \in Seq(Nat) /\ Len(Z) = Len(g) + 1 /\ Z[Len(g) + 1] = i /\ \A m \in 1..Len(g) : Z[m] = X[m]
      BY <3>2, AppendProperties
    <3> HIDE DEF Y, Z
    <3>6. ASSUME NEW m \in 1..(Len(g) + 1) PROVE Y[m] = Z[m]
      <4>1. m \in 1..Len(g) \/ m = Len(g) + 1
        OBVIOUS
      <4> QED
        BY <1>8, <2>1, <3>3, <3>4, <3>5, <4>1
    <3>7. Y = Z
      BY <3>3, <3>5, <3>6, SeqEqual
    <3> QED
      BY <3>7 DEF Y, Z
  <2>5. ASSUME NEW d \in Clients
        PROVE  [m \in 1..Len(got'[d]) |-> IndexIn(l, got'[d][m])]
                 = IF d = c THEN Append(X, i) ELSE Heard[d]
    <3>1. CASE d = c
      BY <2>3, <2>4, <3>1
    <3>2. CASE d # c
      BY <1>3, <2>3, <3>2 DEF Heard
    <3> QED
      BY <3>1, <3>2
  <2> HIDE DEF X
  <2>6. [Heard EXCEPT ![c] = Append(X, i)] = [d \in Clients |-> IF d = c THEN Append(X, i) ELSE Heard[d]]
    BY DEF Heard
  <2> QED
    BY <2>2, <2>5, <2>6
<1>13. i \in (IF X = <<>> THEN 0 ELSE X[Len(X)]) + 1..Len(l)
  <2>1. CASE g = <<>>
    <3>1. X = <<>>
      BY <2>1
    <3> QED
      BY <3>1
  <2>2. CASE g # <<>>
    <3>1. Len(X) = Len(g) /\ X # <<>> /\ Len(g) \in 1..Len(g)
      BY <2>2
    <3>2. X[Len(X)] = IndexIn(l, g[Len(g)])
      BY <3>1
    <3> HIDE DEF X
    <3>3. X[Len(X)] < i /\ X[Len(X)] \in Nat
      BY <1>9, <2>2, <3>2
    <3> QED
      BY <1>8, <3>1, <3>3
  <2> QED
    BY <2>1, <2>2
<1> HIDE DEF X
<1> QED
  BY <1>3, <1>10, <1>12, <1>13, MappedState

\* A relayed packet gets the next index; those that were heard keep theirs.
LEMMA RelayRefines == ASSUME IInv, IInv', NEW k \in Conns, Relay(k) PROVE Bus!Post
<1>1. srv[k] = "Ready" /\ up[k] # <<>>
  BY DEF IInv, Relay, Fresh
<1>2. PICK p \in Packets : p = Head(up[k])
  BY <1>1, NextPacket
<1>3. log' = Append(log, p) /\ got' = got
  BY <1>2 DEF Relay, Rebroadcast, clientVars
<1>4. PICK l \in Seq(Packets) : l = log
  BY DEF IInv, RelayTypeOK
<1> DEFINE g == Append(l, p)
<1>5. log' = g /\ Len(g) = Len(l) + 1 /\ \A i \in 1..Len(l) : g[i] = l[i]
  BY <1>3, <1>4, AppendProperties
<1> HIDE DEF g
<1>6. \A i \in 1..Len(l) : IndexIn(l, l[i]) = i
  BY <1>4, IndexUnique DEF IInv, Distinct
<1>7. \A i \in 1..Len(g) : IndexIn(g, g[i]) = i
  <2>1. Distinct'
    BY DEF IInv
  <2>2. \A i, j \in 1..Len(g) : g[i] = g[j] => i = j
    BY <1>5, <2>1 DEF Distinct
  <2> QED
    BY <2>2, IndexUnique
<1>8. ASSUME NEW c \in Clients, NEW m \in 1..Len(got[c])
      PROVE  IndexIn(g, got[c][m]) = IndexIn(l, got[c][m])
  <2>1. PICK s \in Seq(Packets), t \in Seq(Packets) : s = got[c] /\ t = Stream(c)
    BY StreamIsSeq DEF IInv, RelayTypeOK
  <2>2. m \in 1..Len(t) /\ t[m] = s[m]
    <3>1. CASE cur[c] = NoConn
      BY <2>1, <3>1 DEF Stream
    <3>2. CASE cur[c] # NoConn
      <4>1. PICK d \in Seq(Packets) : d = down[cur[c]]
        BY <3>2 DEF IInv, RelayTypeOK
      <4>2. t = s \o d
        BY <2>1, <3>2, <4>1 DEF Stream
      <4>3. m \in 1..(Len(s) + Len(d)) /\ m <= Len(s)
        BY <2>1
      <4>4. Len(s \o d) = Len(s) + Len(d) /\ \A i \in 1..(Len(s) + Len(d)) :
              (s \o d)[i] = IF i <= Len(s) THEN s[i] ELSE d[i - Len(s)]
        BY ConcatProperties
      <4>5. m \in 1..Len(s \o d) /\ (s \o d)[m] = s[m]
        BY <4>3, <4>4
      <4> QED
        BY <4>2, <4>5
    <3> QED
      BY <3>1, <3>2
  <2>3. InOrder(t, l)
    BY <1>4, <2>1 DEF IInv, HeardInOrder
  <2>4. PICK i \in 1..Len(l) : l[i] = t[m]
    BY <2>2, <2>3 DEF InOrder
  <2>5. i \in 1..Len(g) /\ g[i] = l[i]
    BY <1>5
  <2>6. IndexIn(l, l[i]) = i /\ IndexIn(g, g[i]) = i
    BY <1>6, <1>7, <2>5
  <2> QED
    BY <2>1, <2>2, <2>4, <2>5, <2>6
<1>9. Heard' = Heard
  BY <1>3, <1>4, <1>5, <1>8 DEF Heard
<1> QED
  BY <1>3, <1>9, MappedState

\* All other steps are no business of the bus.
LEMMA QuietRefines == ASSUME UNCHANGED <<got, log>> PROVE UNCHANGED Bus!bvars
<1>1. Heard' = Heard
  BY DEF Heard
<1> QED
  BY <1>1, MappedState

\* The modems hear the packets of the network in one order, the same for all,
\* and none twice: ServerRelay implements BroadcastBus.
THEOREM RelayImplementsBus == RelaySpec => BusSpec
<1>1. RelayInit => Bus!Init
  <2> SUFFICES ASSUME RelayInit PROVE log = <<>> /\ Heard = [c \in Clients |-> <<>>]
    BY MappedState
  <2>1. \A c \in Clients : got[c] = <<>>
    BY DEF RelayInit
  <2>2. \A c \in Clients : [i \in 1..Len(got[c]) |-> IndexIn(log, got[c][i])] = <<>>
    BY <2>1
  <2> QED
    BY <2>2 DEF RelayInit, Heard
<1>2. IInv /\ IInv' /\ [RelayNext]_relayVars => [Bus!Next]_(Bus!bvars)
  <2> SUFFICES ASSUME IInv, IInv', [RelayNext]_relayVars PROVE [Bus!Next]_(Bus!bvars)
    OBVIOUS
  <2>1. ASSUME NEW c \in Clients, Hear(c) PROVE Bus!Next
    BY <2>1, HearRefines DEF Bus!Next
  <2>2. ASSUME NEW k \in Conns, Relay(k) PROVE Bus!Next
    BY <2>2, RelayRefines DEF Bus!Next
  <2>3. ASSUME NEW c \in Clients, Connect(c) \/ Send(c) \/ HangUp(c) PROVE UNCHANGED Bus!bvars
    <3>1. UNCHANGED <<got, log>>
      BY <2>3 DEF Connect, Send, HangUp, serverVars, clientVars
    <3> QED
      BY <3>1, QuietRefines
  <2>4. CASE BeginRound \/ EndRound \/ ServerStops \/ UNCHANGED relayVars
             \/ \E k \in Conns : NothingYet(k) \/ EndOfStream(k)
    <3>1. UNCHANGED <<got, log>>
      BY <2>4 DEF BeginRound, EndRound, ServerStops, NothingYet, EndOfStream, relayVars, clientVars,
                  connVars, serverVars
    <3> QED
      BY <3>1, QuietRefines
  <2> QED
    BY <2>1, <2>2, <2>3, <2>4 DEF RelayNext, Client, Round
<1> QED
  BY <1>1, <1>2, Invariance, PTL DEF RelaySpec, BusSpec, Bus!Spec

=============================================================================
