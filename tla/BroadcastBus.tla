---------------------------- MODULE BroadcastBus ----------------------------
(***************************************************************************)
(* What the modem network promises the modems on it: packets are put in one   *)
(* order, the same for everybody, and each modem hears some of them, in that   *)
(* order and never twice.  (Which ones it hears depends on when it is          *)
(* connected and on room in its socket.)  ServerRelay implements this.         *)
(***************************************************************************)
EXTENDS Naturals, Sequences

CONSTANTS Clients, Packets

VARIABLES
  log,     \* the packets, in the order of the network
  heard    \* for each client, the indices in log of the packets it got

bvars == <<log, heard>>

Init == log = <<>> /\ heard = [c \in Clients |-> <<>>]

Post == /\ \E packet \in Packets : log' = Append(log, packet)
        /\ UNCHANGED heard

LastHeard(c) == IF heard[c] = <<>> THEN 0 ELSE heard[c][Len(heard[c])]

Hear(c) == /\ \E i \in (LastHeard(c) + 1)..Len(log) :
                heard' = [heard EXCEPT ![c] = Append(@, i)]
           /\ UNCHANGED log

Next == Post \/ \E c \in Clients : Hear(c)

Spec == Init /\ [][Next]_bvars
=============================================================================
