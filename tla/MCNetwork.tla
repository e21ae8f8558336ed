----------------------------- MODULE MCNetwork ------------------------------
(* ServerRelay, InternetSockets and HttpResponse for TLC, under the fairness that *)
(* delivery needs.  They share no state, so a behaviour is one of any of them,    *)
(* chosen at the start.                                                       *)
EXTENDS ServerRelay, InternetSockets, HttpResponse

\* Responses of lines of which two can be read as a status, of headers whose name comes
\* again, with blanks around the value or without one, cut anywhere; and a piece of no line
\* that fills the buffer.
MCOutputs == {<<1, 0>>, <<1, 2>>, <<3, 1, 0>>, <<1, 1, 1, 1, 1, 1, 1>>}
MCStatusLines == {<<1>>, <<3, 1>>}
MCStatusOf == [line \in MCStatusLines |-> <<Len(line), <<1>>>>]

VARIABLE part

NetworkInit ==
  /\ part \in {"relay", "streams", "http"}
  /\ RelayInit /\ StreamsInit /\ HttpInit

NetworkNext ==
  /\ UNCHANGED part
  /\ \/ part = "relay" /\ RelayNext /\ UNCHANGED <<streamVars, httpVars>>
     \/ part = "streams" /\ StreamsNext /\ UNCHANGED <<relayVars, httpVars>>
     \/ part = "http" /\ HttpNext /\ UNCHANGED <<relayVars, streamVars>>

\* The fairness of ServerRelay, where it is the part that runs.
RelayFairness ==
  /\ WF_relayVars(part = "relay" /\ Round)
  /\ \A k \in Conns : /\ SF_relayVars(part = "relay" /\ Relay(k))
                      /\ SF_relayVars(part = "relay" /\ EndOfStream(k))
  /\ \A c \in Clients : WF_relayVars(part = "relay" /\ Hear(c))

NetworkSpec ==
  /\ NetworkInit /\ [][NetworkNext]_<<part, relayVars, streamVars, httpVars>>
  /\ RelayFairness
  /\ \A u \in Streams : WF_streamVars(part = "streams" /\ Signals(u))
=============================================================================
