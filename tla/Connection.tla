----------------------------- MODULE Connection -----------------------------
(***************************************************************************)
(* One end of a stream socket (drivers/connection.cpp): the states of a      *)
(* Connection and its operations on the bounded internal buffer, as          *)
(* operators on a record                                                     *)
(*   state   the ConnectionState                                             *)
(*   buffer  the first _buffer_size bytes of _internal_buffer                 *)
(*   wire    bytes the peer wrote that this end has not read, in order        *)
(*   peer    "open", or no more bytes will follow: "closed", or "reset", when   *)
(*           the end of what was under way may be lost                        *)
(* TCP keeps the order of the bytes but not the boundaries of the writes: a   *)
(* read takes any part of the wire that is not more than it asked for.  A     *)
(* preload is one step although it may read several times: bytes that arrive  *)
(* between two reads are as well arrived before the first.                    *)
(***************************************************************************)
EXTENDS Integers, SequencesExt, FiniteSetsExt

CONSTANTS
  HeaderSize,   \* sizeof(int32_t) in readyNextPacket
  Base,         \* values of a byte
  MaxBuffer     \* max_buffer_size

ASSUME ConnectionAssumption ==
  /\ HeaderSize \in Nat \ {0}
  /\ Base \in Nat \ {0, 1}
  /\ MaxBuffer \in Nat /\ MaxBuffer >= HeaderSize

Byte == 0..(Base - 1)

ConnectionState == {"Starting", "Failed", "Ready", "Finished", "Closed"}

Conn == [state : ConnectionState, buffer : Seq(Byte), wire : Seq(Byte),
         peer : {"open", "closed", "reset"}]

\* Connection(host, port): async_open has yet to connect.
Dialing == [state |-> "Starting", buffer |-> <<>>, wire |-> <<>>, peer |-> "open"]

\* The thread of async_open, when it is done.
Opened(c)     == [c EXCEPT !.state = "Ready"]
OpenFailed(c) == [c EXCEPT !.state = "Failed"]

\* close(), from any state; the destructor calls it too.
Close(c) == [c EXCEPT !.state = "Closed"]

Skip(n, s) == SubSeq(s, n + 1, Len(s))

-----------------------------------------------------------------------------
(* Reading: each operator gives the set of its possible results *)

\* k more bytes from the socket.
Received(c, k) == [c EXCEPT !.buffer = @ \o SubSeq(c.wire, 1, k),
                            !.wire = Skip(k, @)]

\* Mutant: one byte more than was asked for is waited for.
ReadLoopGreedy(c, bytes) ==
  LET need == Max({0, bytes + 1 - Len(c.buffer)})
      all  == Len(c.wire)
  IN  {[ok |-> TRUE, c |-> Received(c, k)] : k \in {need} \cap 0..all}
      \cup {[ok |-> FALSE, c |-> Received(c, k)] : k \in 0..Min({need - 1, all})}
      \cup {[ok |-> FALSE, c |-> [Received(c, k) EXCEPT !.state = "Finished"]] :
              k \in {j \in {all} : need > j /\ c.peer # "open"}}

\* The read loop of preload, until the buffer holds bytes of them: it gets them
\* all, or some and then EAGAIN, or the end of the stream (or an error).
ReadLoop(c, bytes) ==
  LET need == Max({0, bytes - Len(c.buffer)})
      all  == Len(c.wire)
  IN  {[ok |-> TRUE, c |-> Received(c, k)] : k \in {need} \cap 0..all}
      \cup {[ok |-> FALSE, c |-> Received(c, k)] : k \in 0..Min({need - 1, all})}
      \cup {[ok |-> FALSE, c |-> [Received(c, k) EXCEPT !.state = "Finished"]] :
              k \in {j \in {all} : need > j /\ c.peer # "open"}}

preload(c, bytes) ==
  CASE c.state # "Ready" ->
         {[ok |-> bytes <= Len(c.buffer), c |-> c]}
    [] c.state = "Ready" /\ bytes > MaxBuffer /\ Len(c.buffer) = MaxBuffer ->
         {[ok |-> FALSE, c |-> [c EXCEPT !.state = "Failed"]]}
    [] OTHER -> ReadLoop(c, Min({bytes, MaxBuffer}))

\* Mutant: the offset is forgotten.
back_insertFromStart(c, offset, bytes) ==
  {[ok |-> r.ok, c |-> r.c,
    out |-> IF r.ok THEN SubSeq(r.c.buffer, 1, bytes) ELSE <<>>] :
     r \in preload(c, offset + bytes)}

\* The bytes copied out are not taken from the buffer: that is for move().
back_insert(c, offset, bytes) ==
  {[ok |-> r.ok, c |-> r.c,
    out |-> IF r.ok THEN SubSeq(r.c.buffer, offset + 1, offset + bytes) ELSE <<>>] :
     r \in preload(c, offset + bytes)}

move(c, bytes) == IF bytes <= Len(c.buffer)
                  THEN [c EXCEPT !.buffer = Skip(bytes, @)]
                  ELSE c

\* The int32 in a header, which has its least significant byte first: what is left
\* of a size after each of its bytes, and the value of each number of last bytes.
Shifted(size) ==
  LET rest[i \in 0..HeaderSize] == IF i = 0 THEN size ELSE rest[i - 1] \div Base
  IN  rest

Values(header) ==
  LET value[i \in 0..HeaderSize] ==
        IF i = 0 THEN 0 ELSE header[HeaderSize - i + 1] + Base * value[i - 1]
  IN  value

Encode(size)   == [i \in 1..HeaderSize |-> Shifted(size)[i - 1] % Base]
Decode(header) == Values(header)[HeaderSize]

\* The header has room for the size.
InHeader(size) == Shifted(size)[HeaderSize] = 0

readyNextPacket(c, keepPacketSize) ==
  LET header == back_insert(c, 0, HeaderSize)
      Payload(h) == back_insert(h.c, HeaderSize, Decode(h.out))
      End(h) == HeaderSize + Decode(h.out)
      fits == {h \in header : h.ok /\ End(h) <= MaxBuffer}
  IN  {[ok |-> FALSE, c |-> h.c, packet |-> <<>>] : h \in {g \in header : ~g.ok}}
      \cup {[ok |-> FALSE, c |-> move(h.c, HeaderSize), packet |-> <<>>] :
              h \in {g \in header \ fits : g.ok}}
      \cup UNION {{[ok |-> p.ok,
                    c |-> IF p.ok THEN move(p.c, End(h)) ELSE p.c,
                    packet |-> IF keepPacketSize THEN h.out \o p.out ELSE p.out] :
                     p \in Payload(h)} : h \in fits}

-----------------------------------------------------------------------------
(* Writing, from the other end: c is the reader's record *)

\* ::send on a non-blocking socket whose buffers have room for room more bytes:
\* it takes what fits and answers -1 only when that is nothing.
write(c, bytes, room) ==
  LET n == Min({Len(bytes), room})
  IN  [ok |-> n > 0, n |-> n, c |-> [c EXCEPT !.wire = @ \o SubSeq(bytes, 1, n)]]
=============================================================================
