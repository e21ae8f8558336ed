----------------------------- MODULE PacketLink -----------------------------
(***************************************************************************)
(* Packets over one direction of a modem connection: the writers put frames  *)
(* (a header with the payload's size, then the payload) on the stream, and    *)
(* readyNextPacket (drivers/connection.cpp) takes them off.  There are two    *)
(* writers: ModemDriver::send writes header and payload separately,           *)
(* ServerPool::runOnce passes on a whole frame in one write.  Neither looks   *)
(* at how much of a write was taken.                                          *)
(***************************************************************************)
EXTENDS Connection

CONSTANTS
  Payloads,    \* the payloads sent
  SockCap,     \* bytes the socket buffers hold
  MaxFrames    \* bound: frames sent in a behaviour

ASSUME LinkAssumption ==
  /\ SockCap \in Nat /\ MaxFrames \in Nat
  /\ \A p \in Payloads : p \in Seq(Byte) /\ p # <<>> /\ InHeader(Len(p))

VARIABLES
  c,           \* the reading end
  keep,        \* its keepPacketSize: TRUE in ServerPool, FALSE in ModemDriver
  pending,     \* the writes of the current frame that are still to be made
  sent,        \* payloads of the frames of which a byte was written (history)
  damaged,     \* index in sent of the first frame that was cut short or is
               \* longer than a buffer, 0 while there is none (history)
  delivered    \* packets readyNextPacket returned (history)

vars == <<c, keep, pending, sent, damaged, delivered>>

Frame(p) == Encode(Len(p)) \o p
Fits(p)  == HeaderSize + Len(p) <= MaxBuffer

TypeOK ==
  /\ c \in Conn
  /\ keep \in BOOLEAN
  /\ pending \in Seq(Seq(Byte)) /\ Len(pending) <= 2
  /\ sent \in Seq(Payloads) /\ Len(sent) <= MaxFrames
  /\ damaged \in 0..Len(sent)
  /\ delivered \in Seq(Seq(Byte))

Init ==
  /\ c = Dialing
  /\ keep \in BOOLEAN
  /\ pending = <<>>
  /\ sent = <<>>
  /\ damaged = 0
  /\ delivered = <<>>

-----------------------------------------------------------------------------
(* The writing end *)

\* What the socket takes now.
Room == IF c.peer = "open" THEN SockCap - Len(c.wire) ELSE 0

\* The first write of a frame, by ModemDriver::send (header, payload to come) or
\* by ServerPool::runOnce (all of it).  A refused one leaves no trace, as do all
\* once the reader is gone.
SendFrame(p) ==
  /\ pending = <<>> /\ c.state = "Ready"
  /\ Len(sent) < MaxFrames
  /\ \E writes \in {<<Encode(Len(p)), p>>, <<Frame(p)>>} :
       LET w == write(c, Head(writes), Room)
       IN  /\ w.ok
           /\ c' = w.c
           /\ pending' = Tail(writes)
           /\ damaged' = IF damaged = 0 /\ (w.n < Len(Head(writes)) \/ ~Fits(p))
                         THEN Len(sent) + 1 ELSE damaged
  /\ sent' = Append(sent, p)
  /\ UNCHANGED <<keep, delivered>>

\* ModemDriver::send, second write; refused, the header stays alone.
SendPayload ==
  /\ pending # <<>>
  /\ LET w == write(c, Head(pending), Room)
     IN  /\ c' = w.c
         /\ damaged' = IF damaged = 0 /\ w.n < Len(Head(pending))
                       THEN Len(sent) ELSE damaged
  /\ pending' = <<>>
  /\ UNCHANGED <<keep, sent, delivered>>

\* The writer's end is closed, and what it wrote will be read; or the connection
\* is reset, and some of that is lost.
PeerClosed ==
  /\ c.peer = "open" /\ pending = <<>> /\ c.state # "Starting"
  /\ c' = [c EXCEPT !.peer = "closed"]
  /\ UNCHANGED <<keep, pending, sent, damaged, delivered>>

PeerReset ==
  /\ c.peer = "open" /\ c.state # "Starting"
  /\ \E k \in 0..Len(c.wire) :
       c' = [c EXCEPT !.peer = "reset", !.wire = SubSeq(@, 1, k)]
  /\ UNCHANGED <<keep, pending, sent, damaged, delivered>>

-----------------------------------------------------------------------------
(* The reading end *)

Open ==
  /\ c.state = "Starting"
  /\ c' \in {Opened(c), OpenFailed(c)}
  /\ UNCHANGED <<keep, pending, sent, damaged, delivered>>

\* One readyNextPacket of a runOnce that found the connection Ready.
Receive ==
  /\ c.state = "Ready"
  /\ \E r \in readyNextPacket(c, keep) :
       /\ c' = r.c
       /\ delivered' = IF r.ok THEN Append(delivered, r.packet) ELSE delivered
  /\ UNCHANGED <<keep, pending, sent, damaged>>

\* The owner drops the connection: it is over, or the owner is being stopped.
Drop ==
  /\ c.state \notin {"Starting", "Closed"}
  /\ c' = Close(c)
  /\ UNCHANGED <<keep, pending, sent, damaged, delivered>>

Next == \/ \E p \in Payloads : SendFrame(p)
        \/ SendPayload \/ PeerClosed \/ PeerReset \/ Open \/ Receive \/ Drop

Spec == Init /\ [][Next]_vars

\* The reader polls its connection in every runOnce, and what is on the wire
\* arrives in the end; a send() that began goes on.
FairSpec == Spec /\ WF_vars(SendPayload) /\ WF_vars(Open) /\ WF_vars(Receive)

-----------------------------------------------------------------------------
(* Properties *)

AsDelivered(p) == IF keep THEN Frame(p) ELSE p

\* The frames sent before the first damaged one.
Sound == IF damaged = 0 THEN sent ELSE SubSeq(sent, 1, damaged - 1)

\* Reassembly: however the stream is cut into reads, packets come out whole, in
\* order, once each and unchanged, up to the first damaged frame; and while no
\* frame is damaged nothing else comes out.
DeliveredAsSent ==
  /\ \A i \in 1..Min({Len(Sound), Len(delivered)}) :
       delivered[i] = AsDelivered(sent[i])
  /\ damaged = 0 => Len(delivered) <= Len(sent)

\* Between frames the buffer holds the start of the next frame and nothing of
\* those delivered: the reader is never out of step with the writer.
InStep ==
  damaged = 0 /\ Len(delivered) < Len(sent) /\ c.state = "Ready"
    => IsPrefix(c.buffer, Frame(sent[Len(delivered) + 1]))

\* When the writer closes, the end of the stream is noticed only after every
\* sound frame was delivered: nothing whole is thrown away with the connection.
FinishedAfterAll ==
  c.state = "Finished" /\ c.peer = "closed" /\ damaged = 0 => Len(delivered) = Len(sent)

\* The reader checks a frame's size before it waits for the frame, so the
\* overflow of preload, which would fail the connection, is never met.
NeverOverflows == c.state = "Failed" => sent = <<>>

\* All of that together: what the two ends make of one stream of bytes agrees.
LinkIsSound == TypeOK /\ DeliveredAsSent /\ InStep /\ FinishedAfterAll /\ NeverOverflows

\* A sound frame is delivered, if the connection lives.
SoundFramesArrive ==
  \A n \in 1..MaxFrames :
    Len(sent) >= n /\ (damaged = 0 \/ damaged > n) /\ pending = <<>> /\ c.state = "Ready"
      ~> Len(delivered) >= n \/ c.state = "Closed" \/ c.peer = "reset"
=============================================================================
