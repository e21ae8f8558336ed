-------------------------- MODULE InternetSockets ---------------------------
(***************************************************************************)
(* Streams that Lua holds: Internet (components/internet.cpp) makes userdata,  *)
(* each an InternetConnection (drivers/internet_drv.cpp) around a Connection.   *)
(* A TCP stream is opened by a thread of its own; that of an HTTP request is a  *)
(* pipe, open at once.  The kernel gives out the lowest descriptor that is free.*)
(* Bytes are numbered in the order the peer sends them.                       *)
(***************************************************************************)
EXTENDS Connection

CONSTANTS
  Streams,         \* the userdata
  MaxConnections,  \* SystemApi::max_connections()
  Amounts,         \* what Lua asks to read
  MaxSent, MaxReads \* bounds: bytes the peer sends, and reads

ASSUME StreamAssumption ==
  Amounts \subseteq Int /\ MaxSent \in Nat /\ MaxReads \in Nat /\ MaxConnections \in Nat

VARIABLES
  stream,   \* per userdata: life (its place in its life), c (the Connection), id (_id),
            \* needsConnection and needsData
  fdOwner,  \* the userdata each open descriptor was given to
  \* history
  taken,      \* how many bytes Lua has read of each stream
  ended,    \* the streams of which a read told the end
  unheard,  \* the streams Lua has read and had no signal of since
  closed,   \* the streams that have been closed before their destructor
  robbers,  \* those that closed a descriptor another was given
  reads

streamVars == <<stream, fdOwner, taken, ended, unheard, closed, robbers, reads>>
streamHistory == <<taken, ended, unheard, closed, reads>>

NoStream == [life |-> "none", c |-> Dialing, id |-> -1, needsConnection |-> FALSE, needsData |-> FALSE]

StreamsInit ==
  /\ stream = [u \in Streams |-> NoStream]
  /\ fdOwner = [i \in {} |-> NoStream] /\ taken = [u \in Streams |-> 0]
  /\ ended = {} /\ unheard = {} /\ closed = {} /\ robbers = {} /\ reads = 0

Held(u) == stream[u].life = "open"
StateOf(u) == stream[u].c.state
Connections == {u \in Streams : Held(u)}    \* _connections

(* The kernel *)
LowestFree == Min(1..(Cardinality(DOMAIN fdOwner) + 1) \ DOMAIN fdOwner)
Given(u, id) == fdOwner' = [i \in DOMAIN fdOwner \cup {id} |-> IF i = id THEN u ELSE fdOwner[i]]
KernelCloses(u, id) ==
  /\ fdOwner' = [i \in DOMAIN fdOwner \ {id} |-> fdOwner[i]]
  /\ robbers' = robbers \cup {w \in {u} : id \in DOMAIN fdOwner /\ fdOwner[id] # u}

\* A stream and its connection after a call on it; when the call has found the end of
\* the stream, preload has closed the descriptor and forgotten it.
Becomes(u, s) == stream' = [stream EXCEPT ![u] = s]

\* Mutant: the descriptor is closed and not forgotten.
PreloadedKept(u, s) ==
  /\ Becomes(u, s)
  /\ IF StateOf(u) = "Ready" /\ s.c.state \in {"Finished", "Closed"} THEN KernelCloses(u, stream[u].id)
     ELSE UNCHANGED <<fdOwner, robbers>>

Preloaded(u, s) ==
  IF StateOf(u) = "Ready" /\ s.c.state \in {"Finished", "Closed"}
  THEN Becomes(u, [s EXCEPT !.id = -1]) /\ KernelCloses(u, stream[u].id)
  ELSE Becomes(u, s) /\ UNCHANGED <<fdOwner, robbers>>

\* Connection::close: it waits for the thread that opens the connection.
Closes(u, life) ==
  LET s == [stream[u] EXCEPT !.life = life, !.c = Close(@)]
  IN  IF StateOf(u) = "Starting"
      THEN /\ \E id \in {-1, LowestFree} : Becomes(u, [s EXCEPT !.id = id])
           /\ UNCHANGED <<fdOwner, robbers>>
      ELSE Becomes(u, s) /\ KernelCloses(u, stream[u].id)

-----------------------------------------------------------------------------
(* Lua *)

\* connect: refused while there are as many as may be, closed ones included.
connect(u) ==
  /\ stream[u].life = "none" /\ Cardinality(Connections) < MaxConnections
  /\ Becomes(u, [NoStream EXCEPT !.life = "open"])
  /\ UNCHANGED <<fdOwner, robbers, streamHistory>>

\* request: the output of a child.
request(u) ==
  /\ stream[u].life = "none" /\ Cardinality(Connections) < MaxConnections
  /\ Becomes(u, [NoStream EXCEPT !.life = "open", !.c = Opened(@), !.id = LowestFree])
  /\ Given(u, LowestFree)
  /\ UNCHANGED <<robbers, streamHistory>>

finishConnect(u) ==
  /\ Held(u)
  /\ Becomes(u, [stream[u] EXCEPT !.needsConnection = StateOf(u) \in {"Starting", "Failed"}])
  /\ UNCHANGED <<fdOwner, robbers, streamHistory>>

\* What read(n) can lead to: the bytes, and the connection.
Results(c, n) ==
  UNION {{[out |-> b.out, c |-> move(b.c, Len(b.out))] :
            b \in back_insert(p.c, 0, Min({n, Len(p.c.buffer)}))} : p \in preload(c, n)}

\* Mutant: a read that got nothing takes the stream for ended.
ReadClosingEarly(u, n) ==
  /\ Held(u) /\ reads < MaxReads /\ reads' = reads + 1
  /\ unheard' = unheard \cup {u}
  /\ UNCHANGED closed
  /\ LET s == [stream[u] EXCEPT !.needsData = TRUE]
     IN  \/ /\ StateOf(u) \notin {"Ready", "Finished"}
            /\ Becomes(u, s) /\ UNCHANGED <<fdOwner, robbers, taken, ended>>
         \/ /\ StateOf(u) \in {"Ready", "Finished"}
            /\ \E r \in Results(s.c, n) :
                 LET atEnd == r.out = <<>>
                 IN  /\ Preloaded(u, [s EXCEPT !.c = IF atEnd THEN Close(r.c) ELSE r.c])
                     /\ taken' = [taken EXCEPT ![u] = @ + Len(r.out)]
                     /\ ended' = IF atEnd /\ n > 0 THEN ended \cup {u} ELSE ended

\* Nothing read of a stream that has ended is answered with nil, and closes it.
ReadStream(u, n) ==
  /\ Held(u) /\ reads < MaxReads /\ reads' = reads + 1
  /\ unheard' = unheard \cup {u}
  /\ UNCHANGED closed
  /\ LET s == [stream[u] EXCEPT !.needsData = TRUE]
     IN  \/ /\ StateOf(u) \notin {"Ready", "Finished"}
            /\ Becomes(u, s) /\ UNCHANGED <<fdOwner, robbers, taken, ended>>
         \/ /\ StateOf(u) \in {"Ready", "Finished"}
            /\ \E r \in Results(s.c, n) :
                 LET atEnd == r.out = <<>> /\ r.c.state = "Finished"
                 IN  /\ Preloaded(u, [s EXCEPT !.c = IF atEnd THEN Close(r.c) ELSE r.c])
                     /\ taken' = [taken EXCEPT ![u] = @ + Len(r.out)]
                     /\ ended' = IF atEnd /\ n > 0 THEN ended \cup {u} ELSE ended

\* close, and dispose, which Lua's collector calls; the destructor closes once more
\* the number that the connection kept.
LuaCloses(u) == Held(u) /\ Closes(u, "open") /\ closed' = closed \cup {u}
                /\ UNCHANGED <<taken, ended, unheard, reads>>
Dispose(u)   == Held(u) /\ Closes(u, "disposed") /\ closed' = closed \cup {u}
                /\ UNCHANGED <<taken, ended, unheard, reads>>
Destroy(u)   == /\ stream[u].life = "disposed"
                /\ Becomes(u, [NoStream EXCEPT !.life = "gone"]) /\ KernelCloses(u, stream[u].id)
                /\ UNCHANGED streamHistory

-----------------------------------------------------------------------------
(* The main thread's pass: Internet::update *)

\* Mutant: what is waited for is forgotten when it is not there yet.
UpdateForgetting(u, r) ==
  LET s == stream[u]
      connected == s.needsConnection /\ StateOf(u) \in {"Ready", "Finished", "Closed"}
      looks     == s.needsData /\ StateOf(u) = "Ready"
  IN  /\ Held(u)
      /\ Preloaded(u, [s EXCEPT !.needsConnection = @ /\ ~connected, !.needsData = @ /\ ~looks,
                                !.c = IF looks THEN r.c ELSE @])
      /\ unheard' = IF connected \/ (looks /\ r.ok) THEN unheard \ {u} ELSE unheard
      /\ UNCHANGED <<taken, ended, closed, reads>>

\* Whoever waits for a connection or for bytes is signalled, once.
Update(u, r) ==
  LET s == stream[u]
      connected == s.needsConnection /\ StateOf(u) \in {"Ready", "Finished", "Closed"}
      looks     == s.needsData /\ StateOf(u) = "Ready"
  IN  /\ Held(u)
      /\ Preloaded(u, [s EXCEPT !.needsConnection = @ /\ ~connected,
                                !.needsData = @ /\ ~(looks /\ r.ok),
                                !.c = IF looks THEN r.c ELSE @])
      /\ unheard' = IF connected \/ (looks /\ r.ok) THEN unheard \ {u} ELSE unheard
      /\ UNCHANGED <<taken, ended, closed, reads>>

OneMore(u) == preload(stream[u].c, Len(stream[u].c.buffer) + 1)

-----------------------------------------------------------------------------
(* The threads that open connections, and the peers *)

ThreadOpens(u) ==
  /\ Held(u) /\ StateOf(u) = "Starting"
  /\ Becomes(u, [stream[u] EXCEPT !.c = Opened(@), !.id = LowestFree])
  /\ Given(u, LowestFree)
  /\ UNCHANGED <<robbers, streamHistory>>

ThreadFails(u) ==
  /\ Held(u) /\ StateOf(u) = "Starting"
  /\ Becomes(u, [stream[u] EXCEPT !.c = OpenFailed(@)])
  /\ UNCHANGED <<fdOwner, robbers, streamHistory>>

SentTo(u) == taken[u] + Len(stream[u].c.buffer) + Len(stream[u].c.wire)

StreamSends(u) ==
  /\ Held(u) /\ StateOf(u) = "Ready" /\ stream[u].c.peer = "open" /\ MapThenSumSet(SentTo, Streams) < MaxSent
  /\ Becomes(u, [stream[u] EXCEPT !.c.wire = Append(@, SentTo(u) + 1)])
  /\ UNCHANGED <<fdOwner, robbers, streamHistory>>

StreamEnds(u) ==
  /\ Held(u) /\ StateOf(u) = "Ready" /\ stream[u].c.peer = "open"
  /\ \/ Becomes(u, [stream[u] EXCEPT !.c.peer = "closed"])
     \/ \E k \in 0..Len(stream[u].c.wire) :
             Becomes(u, [stream[u] EXCEPT !.c.peer = "reset", !.c.wire = SubSeq(@, 1, k)])
  /\ UNCHANGED <<fdOwner, robbers, taken, ended, unheard, closed, reads>>

\* After a robbery two connections read one descriptor, or none: the model ends there.
StreamsNext ==
  /\ robbers = {}
  /\ \E u \in Streams :
       \/ connect(u) \/ request(u) \/ finishConnect(u) \/ \E n \in Amounts : ReadStream(u, n)
       \/ LuaCloses(u) \/ Dispose(u) \/ Destroy(u)
       \/ \E r \in OneMore(u) : Update(u, r)
       \/ ThreadOpens(u) \/ ThreadFails(u) \/ StreamSends(u) \/ StreamEnds(u)

StreamsSpec == StreamsInit /\ [][StreamsNext]_streamVars

\* The main thread runs on, and bytes that were sent arrive.
Signals(u) == robbers = {} /\ \E r \in {q \in OneMore(u) : q.ok} : Update(u, r)

-----------------------------------------------------------------------------
Bytes(u) == stream[u].c.buffer \o stream[u].c.wire

\* Bytes come to Lua in the order they were sent, none is lost or doubled between the
\* reads, and a read that asked for bytes tells the end only when Lua has all that had
\* come or was still to come.  (One that asks for none tells it too early,
\* internet_drv.cpp:93.)
EndOnlyAtEnd ==
  [][\A u \in Streams :
       /\ Held(u) /\ StateOf(u) \in {"Ready", "Finished"} =>
            \A i \in DOMAIN Bytes(u) : Bytes(u)[i] = taken[u] + i
       /\ u \in ended' \ ended => taken'[u] = SentTo(u)]_streamVars

\* A connection closes a descriptor that the kernel has given to another only if it was
\* closed before its destructor ran: the destructor closes the number again
\* (connection.cpp:98).  Without that no order of opening, reading to the end, closing
\* and collecting does.
ClosesItsOwn == [][robbers' \ robbers \subseteq closed]_streamVars

\* Who reads a stream that is open is signalled when more bytes come.  (Not of those that
\* a read has left in the buffer: update only looks for one more, internet_drv.cpp:68.)
ReadyIsSignalled ==
  \A u \in Streams :
    LET more == Held(u) /\ StateOf(u) = "Ready" /\ stream[u].c.wire # <<>>
    IN  (u \in unheard /\ more) ~> (u \notin unheard \/ ~more \/ robbers # {})
=============================================================================
