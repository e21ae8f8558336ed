----------------------------- MODULE ServerRelay -----------------------------
(***************************************************************************)
(* The traffic of the modem network: ModemDrivers (the clients) exchange       *)
(* packets through the ServerPool of one of the processes                      *)
(* (drivers/server_pool.cpp, drivers/modem_drv.cpp).  The pool works in        *)
(* rounds: take in new connections, drop those that are over, then read at     *)
(* most one packet from each and write it to all, the sender included.         *)
(*                                                                           *)
(* PacketLink shows what a connection makes of its bytes; here a connection    *)
(* carries whole packets in order, as many as there is room for.               *)
(* ServerElection shows how a server comes and goes; here there is one at a    *)
(* time.                                                                      *)
(***************************************************************************)
EXTENDS Subsequence, SequencesExt

CONSTANTS
  Clients,
  Conns,        \* bound: connections made in a behaviour
  NoConn,
  RoomUp,       \* packets a connection holds on their way to the server
  RoomDown,     \* and on their way to the client
  MaxPosts,     \* bound: packets sent in a behaviour
  MaxStops      \* bound: servers that stop

ASSUME RelayAssumption ==
  /\ NoConn \notin Conns
  /\ RoomUp \in Nat \ {0} /\ RoomDown \in Nat \ {0}
  /\ MaxPosts \in Nat /\ MaxStops \in Nat

VARIABLES
  \* the clients
  cur,        \* the connection of a client's driver, or NoConn
  got,        \* packets its driver pushed to the modem (history)
  \* the connections, seen from the server
  srv,        \* "unused", "backlog" until accepted, Ready, Finished, "removed"
  hungUp,     \* connections the client has closed
  up, down,   \* packets under way to the server and to the client
  posts,      \* packets sent
  posted,     \* number of packets the client has put on it (history)
  joined,     \* Len(log) when it was accepted (history)
  lossy,      \* a packet for it was dropped, or it was closed under way (history)
  \* the server
  todo,       \* connections still to be read in this round
  inRound,
  stops,      \* servers that have stopped
  log         \* packets relayed, in order (history)

clientVars == <<cur, got>>
connVars   == <<srv, hungUp, up, down, posts, posted, joined, lossy>>
serverVars == <<todo, inRound, stops, log>>
relayVars  == <<clientVars, connVars, serverVars>>

Packets == Conns \X (1..MaxPosts)

RelayTypeOK ==
  /\ cur \in [Clients -> Conns \cup {NoConn}]
  /\ got \in [Clients -> Seq(Packets)]
  /\ srv \in [Conns -> {"unused", "backlog", "Ready", "Finished", "removed"}]
  /\ hungUp \subseteq Conns
  /\ up \in [Conns -> Seq(Packets)] /\ down \in [Conns -> Seq(Packets)]
  /\ \A k \in Conns : Len(up[k]) <= RoomUp /\ Len(down[k]) <= RoomDown
  /\ posts \in 0..MaxPosts /\ posted \in [Conns -> 0..MaxPosts]
  /\ joined \in [Conns -> Nat]
  /\ lossy \subseteq Conns
  /\ todo \subseteq Conns /\ inRound \in BOOLEAN
  /\ stops \in 0..MaxStops
  /\ log \in Seq(Packets)

RelayInit ==
  /\ cur = [c \in Clients |-> NoConn]
  /\ got = [c \in Clients |-> <<>>]
  /\ srv = [k \in Conns |-> "unused"]
  /\ hungUp = {}
  /\ up = [k \in Conns |-> <<>>] /\ down = [k \in Conns |-> <<>>]
  /\ posts = 0 /\ posted = [k \in Conns |-> 0]
  /\ joined = [k \in Conns |-> 0]
  /\ lossy = {}
  /\ todo = {} /\ inRound = FALSE /\ stops = 0
  /\ log = <<>>

-----------------------------------------------------------------------------
(* ModemDriver *)

Connect(c) ==
  /\ cur[c] = NoConn
  /\ \E k \in Conns :
       /\ srv[k] = "unused"
       /\ cur' = [cur EXCEPT ![c] = k]
       /\ srv' = [srv EXCEPT ![k] = "backlog"]
  /\ UNCHANGED <<got, hungUp, up, down, posts, posted, joined, lossy, serverVars>>

\* send() by the modem component.  With no room it returns false; on a
\* connection the server has closed, the packet is lost.
Send(c) ==
  LET k == cur[c] IN
  /\ k # NoConn
  /\ posts < MaxPosts /\ posts' = posts + 1 /\ Len(up[k]) < RoomUp
  /\ posted' = [posted EXCEPT ![k] = @ + 1]
  /\ up' = IF srv[k] = "removed" THEN up
           ELSE [up EXCEPT ![k] = Append(@, <<k, posted[k] + 1>>)]
  /\ UNCHANGED <<clientVars, srv, hungUp, down, joined, lossy, serverVars>>

\* Mutant: the packet stays in the buffer.
HearAgain(c) ==
  LET k == cur[c] IN
  /\ k # NoConn
  /\ down[k] # <<>>
  /\ got' = [got EXCEPT ![c] = Append(@, Head(down[k]))]
  /\ UNCHANGED <<cur, srv, hungUp, up, down, posts, posted, joined, lossy, serverVars>>

\* runOnce reads a packet and pushes it to the modem's EventSource.
Hear(c) ==
  LET k == cur[c] IN
  /\ k # NoConn
  /\ down[k] # <<>>
  /\ got' = [got EXCEPT ![c] = Append(@, Head(down[k]))]
  /\ down' = [down EXCEPT ![k] = Tail(@)]
  /\ UNCHANGED <<cur, srv, hungUp, up, posts, posted, joined, lossy, serverVars>>

\* The connection is dropped: it has ended, or the driver is stopped.
HangUp(c) ==
  /\ cur[c] # NoConn
  /\ hungUp' = hungUp \cup {cur[c]}
  /\ down' = [down EXCEPT ![cur[c]] = <<>>]
  /\ lossy' = lossy \cup {cur[c]}
  /\ cur' = [cur EXCEPT ![c] = NoConn]
  /\ UNCHANGED <<got, srv, up, posts, posted, joined, serverVars>>

-----------------------------------------------------------------------------
(* ServerPool::runOnce *)

\* Accept what is in the backlog, remove what is over, list the rest.
BeginRound ==
  /\ ~inRound
  /\ srv' = [k \in Conns |-> CASE srv[k] = "backlog"  -> "Ready"
                               [] srv[k] = "Finished" -> "removed"
                               [] OTHER -> srv[k]]
  /\ joined' = [k \in Conns |-> IF srv[k] = "backlog" THEN Len(log) ELSE joined[k]]
  /\ todo' = {k \in Conns : srv'[k] = "Ready"}
  /\ inRound' = TRUE
  /\ UNCHANGED <<clientVars, hungUp, up, down, posts, posted, lossy, stops, log>>

\* Mutant: the sender is left out.
RebroadcastToOthers(packet) ==
  LET ids == {k \in Conns : srv[k] = "Ready" /\ k # packet[1]}
      reached == {k \in ids \ hungUp : Len(down[k]) < RoomDown}
  IN  /\ down' = [k \in Conns |-> IF k \in reached THEN Append(down[k], packet)
                                  ELSE down[k]]
      /\ lossy' = lossy \cup (ids \ reached)
      /\ log' = Append(log, packet)

\* write() of a packet to every connection still Ready; nobody looks at the
\* answer, so one without room (or whose client is gone) misses the packet.
Rebroadcast(packet) ==
  LET ids == {k \in Conns : srv[k] = "Ready"}
      reached == {k \in ids \ hungUp : Len(down[k]) < RoomDown}
  IN  /\ down' = [k \in Conns |-> IF k \in reached THEN Append(down[k], packet)
                                  ELSE down[k]]
      /\ lossy' = lossy \cup (ids \ reached)
      /\ log' = Append(log, packet)

Relay(k) ==
  /\ k \in todo
  /\ up[k] # <<>>
  /\ Rebroadcast(Head(up[k]))
  /\ up' = [up EXCEPT ![k] = Tail(@)]
  /\ todo' = todo \ {k}
  /\ UNCHANGED <<clientVars, srv, hungUp, posts, posted, joined, inRound, stops>>

\* Nothing to read yet, although something may be on its way.
NothingYet(k) ==
  /\ k \in todo
  /\ k \notin hungUp
  /\ todo' = todo \ {k}
  /\ UNCHANGED <<clientVars, connVars, inRound, stops, log>>

\* Mutant: a connection its client has closed is over, whatever it still holds.
EndOfStreamEarly(k) ==
  /\ k \in todo
  /\ k \in hungUp
  /\ srv' = [srv EXCEPT ![k] = "Finished"]
  /\ todo' = todo \ {k}
  /\ UNCHANGED <<clientVars, hungUp, up, down, posts, posted, joined, lossy,
                 inRound, stops, log>>

\* A read finds the end of the stream, behind all that was sent before it: preload
\* takes the connection for Finished, and the next round removes it.
EndOfStream(k) ==
  /\ k \in todo
  /\ k \in hungUp /\ up[k] = <<>>
  /\ srv' = [srv EXCEPT ![k] = "Finished"]
  /\ todo' = todo \ {k}
  /\ UNCHANGED <<clientVars, hungUp, up, down, posts, posted, joined, lossy,
                 inRound, stops, log>>

EndRound ==
  /\ inRound /\ todo = {}
  /\ inRound' = FALSE
  /\ UNCHANGED <<clientVars, connVars, todo, stops, log>>

\* The server's process stops or dies: its connections are closed, and the end of
\* what was under way on them may be lost (for some clients only, if it dies in
\* the middle of a rebroadcast).  Another process takes its place.
ServerStops ==
  /\ stops < MaxStops
  /\ stops' = stops + 1
  /\ LET open == {k \in Conns : srv[k] \in {"backlog", "Ready", "Finished"}}
     IN  /\ srv' = [k \in Conns |-> IF k \in open THEN "removed" ELSE srv[k]]
         /\ up' = [k \in Conns |-> IF k \in open THEN <<>> ELSE up[k]]
         /\ \E n \in [open -> 0..RoomDown] :
              down' = [k \in Conns |-> IF k \in open /\ n[k] < Len(down[k])
                                       THEN SubSeq(down[k], 1, n[k]) ELSE down[k]]
         /\ lossy' = lossy \cup open
  /\ todo' = {} /\ inRound' = FALSE
  /\ UNCHANGED <<clientVars, hungUp, posts, posted, joined, log>>

-----------------------------------------------------------------------------
Client(c) == Connect(c) \/ Send(c) \/ Hear(c) \/ HangUp(c)

Round == \/ BeginRound \/ EndRound
         \/ \E k \in Conns : Relay(k) \/ NothingYet(k) \/ EndOfStream(k)

RelayNext == (\E c \in Clients : Client(c)) \/ Round \/ ServerStops

RelaySpec == RelayInit /\ [][RelayNext]_relayVars

\* The pool's thread runs its rounds; a packet that is on its way arrives, so it
\* is not overlooked in every round; drivers read what they were sent.
RelayFairSpec ==
  /\ RelaySpec
  /\ WF_relayVars(Round)
  /\ \A k \in Conns : SF_relayVars(Relay(k)) /\ SF_relayVars(EndOfStream(k))
  /\ \A c \in Clients : WF_relayVars(Hear(c))

-----------------------------------------------------------------------------
(* Properties *)

\* The packets of connection k in a sequence of packets.
PacketsOf(k, s) == Select(s, {k} \X (1..MaxPosts))
Posts(k)   == [n \in 1..posted[k] |-> <<k, n>>]

\* Nothing sent is lost, doubled or overtaken on its way to the server, on a
\* connection whose client has hung up no more than on another: only a server that
\* stops loses something, and then the end of it.
UpstreamComplete ==
  \A k \in Conns :
    IF srv[k] = "removed" /\ stops > 0
    THEN IsPrefix(PacketsOf(k, log), Posts(k))
    ELSE PacketsOf(k, log) \o up[k] = Posts(k)

\* A client hears every packet relayed since its connection was accepted, its
\* own included, unless one was dropped for want of room.
DownstreamComplete ==
  \A c \in Clients :
    LET k == cur[c] IN
    k # NoConn /\ srv[k] = "Ready" /\ k \notin lossy =>
      IsSuffix(SubSeq(log, joined[k] + 1, Len(log)), got[c] \o down[k])

\* Both ways: what is sent gets through, also what was sent just before hanging up.
PacketsComplete == UpstreamComplete /\ DownstreamComplete

\* Every packet sent to a server is relayed, also when its client hangs up at once,
\* unless a server stops first; s is the number of servers that had stopped.
PostsAreRelayed ==
  \A k \in Conns, s \in 0..MaxStops :
    posted[k] > Len(PacketsOf(k, log)) /\ srv[k] \in {"backlog", "Ready"} /\ stops = s
      ~> posted[k] = Len(PacketsOf(k, log)) \/ stops # s

\* Refinement: all clients hear packets in the one order of the log.
IndexInLog(packet) == CHOOSE i \in 1..Len(log) : log[i] = packet

Bus == INSTANCE BroadcastBus WITH
         heard <- [c \in Clients |-> [i \in 1..Len(got[c]) |-> IndexInLog(got[c][i])]]
BusSpec == Bus!Spec
=============================================================================
