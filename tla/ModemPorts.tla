----------------------------- MODULE ModemPorts -----------------------------
(***************************************************************************)
(* Modem components (components/modem.cpp) on one network: what a program sends *)
(* is packed, everyone on the network gets it, and a modem keeps what is for    *)
(* it.  The network is the one of BroadcastBus: all hear, in one order; a modem  *)
(* that loses its server does not hear some of it.                            *)
(***************************************************************************)
EXTENDS Integers, SequencesExt, FiniteSets

CONSTANTS
  Modems, Ports, NoTarget,
  Parts,         \* arguments of send: [type, value, len]
  _maxArguments, _maxPacketSize,
  MaxSends       \* bound

Part == UNION {ToSet(parts) : parts \in Parts}

ASSUME ModemAssumption ==
  /\ NoTarget \notin Modems /\ Ports \subseteq Int /\ Parts \subseteq Seq(Part)
  /\ _maxArguments \in Nat /\ _maxPacketSize \in Nat /\ MaxSends \in Nat

VARIABLES
  ports,     \* _ports of each modem
  air,       \* the packets sent, and (history) the message of each
  at,        \* how many of them each modem's driver has seen
  inbox,     \* events of each modem that its component has not handled, by their number
  signalled  \* modem_message signals of each modem, without its own address

modemVars == <<ports, air, at, inbox, signalled>>

ModemsInit ==
  /\ ports = [m \in Modems |-> {}] /\ air = <<>> /\ at = [m \in Modems |-> 0]
  /\ inbox = [m \in Modems |-> <<>>] /\ signalled = [m \in Modems |-> <<>>]

ValidPort(port) == port \in 1..65535

\* open and close, which answer whether anything changed.
OpenPort(m, port)  == /\ ValidPort(port) /\ port \notin ports[m]
                      /\ ports' = [ports EXCEPT ![m] = @ \cup {port}]
                      /\ UNCHANGED <<air, at, inbox, signalled>>
ClosePort(m, port) == /\ port \in ports[m] /\ ports' = [ports EXCEPT ![m] = @ \ {port}]
                      /\ UNCHANGED <<air, at, inbox, signalled>>

-----------------------------------------------------------------------------
(* Packing: a packet is a sequence of fields *)

Typed(part) == IF part.type = "nil" THEN <<[type |-> part.type]>>
               ELSE <<[type |-> part.type], [value |-> part.value]>>

Header(msg) ==
  <<[sender |-> msg.sender], [target |-> msg.target # NoTarget]>>
  \o (IF msg.target # NoTarget THEN <<[addr |-> msg.target]>> ELSE <<>>)
  \o <<[port |-> msg.port], [num |-> Len(msg.parts)]>>

pack(msg) ==
  LET fields[n \in 0..Len(msg.parts)] ==
        IF n = 0 THEN <<>> ELSE fields[n - 1] \o Typed(msg.parts[n])
  IN  Header(msg) \o fields[Len(msg.parts)]

\* What counts against the limit is not what is packed.
SizeOf(part) == CASE part.type \in {"nil", "boolean"} -> 6
                  [] part.type = "number" -> 10
                  [] part.type = "string" -> part.len + 2
Size(parts) == FoldLeft(LAMBDA sum, p : sum + SizeOf(p), 0, parts)

\* An error leaves nothing sent.
Packs(msg) ==
  /\ ValidPort(msg.port) /\ Len(msg.parts) <= _maxArguments
  /\ \A i \in DOMAIN msg.parts : msg.parts[i].type \in {"nil", "boolean", "number", "string"}
  /\ Size(msg.parts) <= _maxPacketSize

\* send and broadcast
Transmit(msg) ==
  /\ Len(air) < MaxSends /\ Packs(msg)
  /\ air' = Append(air, [packet |-> pack(msg), msg |-> msg])
  /\ UNCHANGED <<ports, at, inbox, signalled>>

\* The driver: the next packet, its own ones too, or one that this modem misses.
Hears(m) ==
  /\ at[m] < Len(air) /\ at' = [at EXCEPT ![m] = @ + 1]
  /\ \E heard \in BOOLEAN :
       inbox' = IF heard THEN [inbox EXCEPT ![m] = Append(@, at[m] + 1)] ELSE inbox
  /\ UNCHANGED <<ports, air, signalled>>

-----------------------------------------------------------------------------
(* Modem::update: all events, each read field by field *)

HasTarget(packet) == packet[2].target
PortAt(packet)    == IF HasTarget(packet) THEN 4 ELSE 3

\* Mutant: a packet that names a target is taken by whoever has the port open.
isApplicableAnyTarget(m, packet) == packet[PortAt(packet)].port \in ports[m]

isApplicable(m, packet) ==
  /\ packet[PortAt(packet)].port \in ports[m]
  /\ HasTarget(packet) => packet[3].addr = m

Arguments(packet) ==
  LET read[n \in 0..packet[PortAt(packet) + 1].num] ==
        IF n = 0 THEN [next |-> PortAt(packet) + 2, parts |-> <<>>]
        ELSE LET r == read[n - 1]
             IN  IF packet[r.next].type = "nil"
                 THEN [next |-> r.next + 1, parts |-> Append(r.parts, <<"nil">>)]
                 ELSE [next |-> r.next + 2,
                       parts |-> Append(r.parts, <<packet[r.next].type, packet[r.next + 1].value>>)]
  IN  read[packet[PortAt(packet) + 1].num].parts

ModemMessage(packet) == [sender |-> packet[1].sender, port |-> packet[PortAt(packet)].port,
                   parts |-> Arguments(packet)]

ModemUpdate(m) ==
  LET told[n \in 0..Len(inbox[m])] ==
        IF n = 0 THEN signalled[m]
        ELSE IF isApplicable(m, air[inbox[m][n]].packet)
             THEN Append(told[n - 1], ModemMessage(air[inbox[m][n]].packet)) ELSE told[n - 1]
  IN  /\ inbox[m] # <<>> /\ inbox' = [inbox EXCEPT ![m] = <<>>]
      /\ signalled' = [signalled EXCEPT ![m] = told[Len(inbox[m])]]
      /\ UNCHANGED <<ports, air, at>>

Messages == [sender : Modems, target : Modems \cup {NoTarget}, port : Ports, parts : Parts]

ModemsNext ==
  \/ \E m \in Modems : \/ Hears(m) \/ ModemUpdate(m)
                       \/ \E port \in Ports : OpenPort(m, port) \/ ClosePort(m, port)
  \/ \E msg \in Messages : Transmit(msg)

ModemsSpec == ModemsInit /\ [][ModemsNext]_modemVars

-----------------------------------------------------------------------------
\* What the receiver's program is to be told of a message.
As(msg) == [sender |-> msg.sender, port |-> msg.port,
            parts |-> [j \in DOMAIN msg.parts |->
                         IF msg.parts[j].type = "nil" THEN <<"nil">>
                         ELSE <<msg.parts[j].type, msg.parts[j].value>>]]

\* What a component signals at a pass is, in the order sent, all and only the messages
\* that its driver got since the last one, on ports that are open by now, to all or to
\* itself; with the sender, the port and the arguments they were sent with.
HeardAsSent ==
  [][\A m \in Modems :
       LET mine == {i \in DOMAIN air : /\ \E k \in DOMAIN inbox[m] : inbox[m][k] = i
                                      /\ air[i].msg.port \in ports[m] /\ air[i].msg.target \in {m, NoTarget}}
           rank(i) == Cardinality({j \in mine : j <= i})
           before  == signalled[m]
           after   == signalled'[m]
       IN  IF inbox'[m] # <<>> \/ inbox[m] = <<>> THEN after = before
           ELSE /\ Len(after) = Len(before) + Cardinality(mine)
                /\ \A k \in DOMAIN before : after[k] = before[k]
                /\ \A i \in mine : after[Len(before) + rank(i)] = As(air[i].msg)]_modemVars
=============================================================================
