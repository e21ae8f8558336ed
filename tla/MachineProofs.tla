---------------------------- MODULE MachineProofs ----------------------------
(***************************************************************************)
(* Safety of Machine for any configuration, and any number of events, calls    *)
(* and boots: signals reach Lua in their order, and the list of components is  *)
(* exact.                                                                     *)
(*                                                                           *)
(* The signals of a source are, in a row, those that Lua heard, those that     *)
(* wait in the Computer, and those that wait in the source.  A step moves the  *)
(* head of one of these three to the end of the one before it, or puts a new   *)
(* signal behind the last.                                                     *)
(*                                                                           *)
(* A list that starts with the screen in front of its keyboards keeps that     *)
(* order whatever is removed from it or put behind it, so that the screen is   *)
(* destroyed first, after its frame has waited for the terminal's thread.       *)
(***************************************************************************)
EXTENDS Machine, SubsequenceProofs

\* What was removed does not come back in the same boot; the Computer stays.
Apart == alive \cap gone = {} /\ gone \subseteq Components \ {Computer}

\* A source's signals are about the source.
OwnEvents ==
  \A s \in Sources : \A i \in 1..Len(events[s]) :
    events[s][i] \in Signal => events[s][i][1] = s

\* SignalsInOrder, for one source.
Waiting(s) == IF s = Computer THEN <<>> ELSE Select(events[s], Signal)

Chain(s) == From(s, heard) \o From(s, signals) \o Waiting(s)

Delivered(s) == IF s \in gone THEN IsPrefix(Chain(s), Numbered(s, made[s]))
           ELSE Chain(s) = Numbered(s, made[s])

\* The list of the components, wherever it is.
List == IF phase = "destroy" THEN doomed ELSE vec

\* The screen comes before the keyboards.
ScreenFirst(l) == \A i, j \in 1..Len(l) : l[i] = Screen /\ l[j] \in Keyboards => i < j

\* A screen among A comes first, as it does in the configuration.
Leads(A) == Screen \in A /\ ScreenFirst(Config)

\* The list l holds the components of A, each once.
Lists(l, A) == ToSet(l) = A /\ IsInjective(l) /\ (Leads(A) => ScreenFirst(l))

Listed ==
  /\ phase \in {"pass", "lua", "close", "destroy"} => Lists(List, alive)
  /\ Running => ToSet(Config) \subseteq alive \cup gone

Attached == Screen \in alive => /\ ScreenFirst(Config) => attached \subseteq alive
                                /\ Running => attached = Keyboards \cap alive

\* A key is under way only while the screen's frame is open, and to keyboards that are
\* connected, unless that was changed meanwhile.
UnderWay == typing # None => /\ Screen \in alive
                             /\ typing.changed \/ typing.left \subseteq attached

SignalInv == Apart /\ OwnEvents /\ SignalsInOrder

ListInv == Listed /\ Attached /\ UnderWay

-----------------------------------------------------------------------------
(* Types *)

LEMMA ConfigFacts ==
  /\ Config \in Seq(Components) /\ Computer \in Components /\ Screen \in Sources
  /\ Sources \subseteq Components /\ Keyboards \subseteq Sources /\ Computer \notin Sources
  /\ Screen \in ToSet(Config) /\ Spare \subseteq Components
BY MachineAssumption DEF Components

\* The capacity after n push_backs is a number.
CapacityAt(f, i) == IF i <= 1 THEN i
                    ELSE IF f[i - 1] = i - 1 THEN 2 * (i - 1) ELSE f[i - 1]

LEMMA CapacityType == ASSUME NEW n \in Nat PROVE Capacity(n) \in Nat
<1> DEFINE Holds(f, m) == f = [i \in 0..m |-> CapacityAt(f, i)]
           Good == {m \in Nat : (\E f : Holds(f, m)) /\ \A f : Holds(f, m) => f[m] \in Nat}
<1>1. 0 \in Good
  <2> DEFINE f == [i \in 0..0 |-> 0]
  <2>1. f = [i \in 0..0 |-> CapacityAt(f, i)]
    BY DEF CapacityAt
  <2> HIDE DEF f
  <2>2. \E g : Holds(g, 0)
    BY <2>1
  <2>3. \A g : Holds(g, 0) => g[0] \in Nat
    BY DEF CapacityAt
  <2> QED
    BY <2>2, <2>3
<1>2. ASSUME NEW m \in Nat, m \in Good PROVE m + 1 \in Good
  <2>1. PICK f : Holds(f, m)
    BY <1>2
  <2> DEFINE g == [i \in 0..(m + 1) |-> IF i <= m THEN f[i] ELSE CapacityAt(f, i)]
  <2>2. ASSUME NEW i \in 0..(m + 1) PROVE g[i] = CapacityAt(g, i)
    <3>1. i > 1 => i - 1 \in 0..(m + 1) /\ i - 1 <= m
      OBVIOUS
    <3>2. i > 1 => g[i - 1] = f[i - 1]
      BY <3>1
    <3>3. i <= m => f[i] = CapacityAt(f, i)
      BY <2>1
    <3>4. g[i] = CapacityAt(f, i)
      BY <3>3
    <3> HIDE DEF g
    <3> QED
      BY <3>2, <3>4 DEF CapacityAt
  <2>3. g = [i \in 0..(m + 1) |-> CapacityAt(g, i)]
    BY <2>2
  <2> HIDE DEF g
  <2>4. \E h : Holds(h, m + 1)
    BY <2>3
  <2>5. ASSUME NEW h, Holds(h, m + 1) PROVE h[m + 1] \in Nat
    <3> DEFINE k == [i \in 0..m |-> h[i]]
    <3>1. \A i \in 0..(m + 1) : h[i] = CapacityAt(h, i)
      BY <2>5
    <3>2. ASSUME NEW i \in 0..m PROVE k[i] = CapacityAt(k, i)
      <4>1. i > 1 => i - 1 \in 0..m
        OBVIOUS
      <4>2. (i > 1 => k[i - 1] = h[i - 1]) /\ k[i] = h[i] /\ i \in 0..(m + 1)
        BY <4>1
      <4> HIDE DEF k
      <4> QED
        BY <3>1, <4>2 DEF CapacityAt
    <3>3. k = [i \in 0..m |-> CapacityAt(k, i)] /\ k[m] = h[m]
      BY <3>2
    <3> HIDE DEF k
    <3>4. h[m] \in Nat
      BY <1>2, <3>3
    <3>5. h[m + 1] = CapacityAt(h, m + 1) /\ (m + 1) - 1 = m
      BY <3>1
    <3> QED
      BY <3>4, <3>5 DEF CapacityAt
  <2> HIDE DEF Holds
  <2> QED
    BY <2>4, <2>5
<1> HIDE DEF Good
<1>3. n \in Good
  BY <1>1, <1>2, SetInduction
<1>4. Capacity(n) = (CHOOSE f : Holds(f, n))[n]
  BY DEF Capacity, CapacityAt
<1> HIDE DEF Holds
<1> QED
  BY <1>3, <1>4 DEF Good

LEMMA InitTypes == Init => TypeOK
<1> SUFFICES ASSUME Init PROVE TypeOK
  OBVIOUS
<1>1. /\ phase \in {"load", "pass", "lua", "close", "destroy", "over", "crashed"}
      /\ run \in {"Continue", "Reboot", "Halt"}
      /\ cap \in Nat /\ cursor \in Nat /\ last \in Nat /\ moved \in BOOLEAN
      /\ crashText \in BOOLEAN
      /\ alive \subseteq Components /\ gone \subseteq Components
      /\ attached \subseteq Keyboards /\ typing \in Typing \cup {None}
      /\ lua \in {"fresh", "yielded"} /\ timer \in {"due", "later", "never"}
  BY DEF Init
<1>2. /\ vec \in Seq(Components) /\ doomed \in Seq(Components)
      /\ signals \in Seq(Signal) /\ heard \in Seq(Signal)
      /\ made \in [Sources \cup {Computer} -> Nat]
      /\ events \in [Sources -> Seq(Event)]
  BY DEF Init
<1>3. inputs \in 0..MaxEvents /\ calls \in 0..MaxCalls /\ boots \in 0..MaxBoots
  BY MachineAssumption DEF Init
<1> QED
  BY <1>1, <1>2, <1>3 DEF TypeOK

\* A new Client has a part of the configuration.
LEMMA PartOfConfig ==
  ASSUME NEW n \in 0..Len(Config)
  PROVE  /\ SubSeq(Config, 1, n) \in Seq(Components) /\ Len(SubSeq(Config, 1, n)) = n
         /\ \A i \in 1..n : SubSeq(Config, 1, n)[i] = Config[i]
<1>1. Config \in Seq(Components) /\ Len(Config) \in Nat
  BY ConfigFacts
<1>2. n <= Len(Config) /\ \A i \in 1..n : i \in 1..Len(Config) /\ Config[i] \in Components
  BY <1>1
<1> QED
  BY <1>1, <1>2

LEMMA NewClientTypes ==
  ASSUME TypeOK, NEW n \in 0..Len(Config), NEW m \in 0..Len(Config), NewClient(n, m)
  PROVE  /\ vec' \in Seq(Components) /\ cap' \in Nat /\ cursor' \in Nat /\ last' \in Nat
         /\ moved' \in BOOLEAN /\ doomed' \in Seq(Components)
         /\ alive' \subseteq Components /\ gone' \subseteq Components /\ attached' \subseteq Keyboards
         /\ typing' \in Typing \cup {None}
         /\ events' \in [Sources -> Seq(Event)] /\ lua' \in {"fresh", "yielded"}
         /\ timer' \in {"due", "later", "never"} /\ signals' \in Seq(Signal)
         /\ heard' \in Seq(Signal) /\ made' \in [Sources \cup {Computer} -> Nat]
         /\ inputs' \in 0..MaxEvents /\ calls' \in 0..MaxCalls /\ boots' \in 0..MaxBoots
<1> USE MachineAssumption
<1>1. n \in Nat /\ Len(Config) \in Nat
  BY ConfigFacts
<1>2. vec' \in Seq(Components) /\ vec' = SubSeq(Config, 1, n)
  BY PartOfConfig DEF NewClient
<1>3. alive' = ToSet(vec') /\ ToSet(vec') \subseteq Components
  <2>1. PICK v \in Seq(Components) : v = vec'
    BY <1>2
  <2>2. ToSet(v) \subseteq Components
    BY DEF ToSet
  <2> QED
    BY <2>1, <2>2 DEF NewClient
<1>4. cap' \in Nat
  BY <1>1, CapacityType DEF NewClient
<1>5. attached' \subseteq Keyboards /\ gone' = {} /\ typing' \in Typing \cup {None}
  <2>1. attached' \subseteq Keyboards /\ gone' = {}
    BY DEF NewClient
  <2>2. \/ typing' = None
        \/ \E key \in {"signal", "abort"} :
             typing' = [key |-> key, left |-> attached', changed |-> TRUE]
    BY DEF NewClient
  <2>3. PICK a \in SUBSET Keyboards : a = attached'
    BY <2>1
  <2>4. \A key \in {"signal", "abort"} : [key |-> key, left |-> a, changed |-> TRUE] \in Typing
    BY DEF Typing
  <2> QED
    BY <2>1, <2>2, <2>3, <2>4
<1>6. /\ cursor' \in Nat /\ last' \in Nat /\ moved' \in BOOLEAN /\ doomed' \in Seq(Components)
      /\ lua' \in {"fresh", "yielded"} /\ timer' \in {"due", "later", "never"}
      /\ inputs' \in 0..MaxEvents /\ calls' \in 0..MaxCalls /\ boots' \in 0..MaxBoots
  <2>1. /\ cursor' = 1 /\ last' = n /\ moved' = FALSE /\ lua' = "fresh" /\ timer' = "due"
        /\ inputs' \in 0..MaxEvents /\ calls' = 0 /\ boots < MaxBoots /\ boots' = boots + 1
        /\ doomed' = doomed
    BY DEF NewClient
  <2>2. boots \in 0..MaxBoots /\ doomed \in Seq(Components)
    BY DEF TypeOK
  <2>3. doomed' \in Seq(Components)
    BY <2>1, <2>2
  <2>4. inputs' \in 0..MaxEvents /\ calls' \in 0..MaxCalls /\ boots' \in 0..MaxBoots
    BY <2>1, <2>2
  <2>5. cursor' \in Nat /\ last' \in Nat /\ moved' \in BOOLEAN
        /\ lua' \in {"fresh", "yielded"} /\ timer' \in {"due", "later", "never"}
    BY <1>1, <2>1
  <2> QED
    BY <2>3, <2>4, <2>5
<1>7. /\ events' \in [Sources -> Seq(Event)] /\ signals' \in Seq(Signal) /\ heard' \in Seq(Signal)
      /\ made' \in [Sources \cup {Computer} -> Nat]
  BY DEF NewClient
<1> QED
  BY <1>2, <1>3, <1>4, <1>5, <1>6, <1>7

\* Erasing one place of a list.
LEMMA RemoveAtPlaces ==
  ASSUME NEW S, NEW s \in Seq(S), NEW i \in 1..Len(s), NEW r, r = RemoveAt(s, i)
  PROVE  /\ r \in Seq(S) /\ Len(r) = Len(s) - 1
         /\ \A a \in 1..Len(r) : r[a] = s[IF a < i THEN a ELSE a + 1]
<1> DEFINE n == Len(s)
           p == SubSeq(s, 1, i - 1)
           q == SubSeq(s, i + 1, n)
<1>1. n \in Nat /\ i \in Nat /\ 1 <= i /\ i <= n /\ \A a \in 1..n : s[a] \in S
  OBVIOUS
<1>2. p \in Seq(S) /\ Len(p) = i - 1 /\ \A a \in 1..(i - 1) : p[a] = s[a]
  BY <1>1
<1>3. q \in Seq(S) /\ Len(q) = n - i /\ \A a \in 1..(n - i) : q[a] = s[i + a]
  BY <1>1
<1>4. r = p \o q
  BY DEF RemoveAt
<1> HIDE DEF p, q, n
<1>5. /\ p \o q \in Seq(S) /\ Len(p \o q) = (i - 1) + (n - i)
      /\ \A a \in 1..((i - 1) + (n - i)) :
           (p \o q)[a] = IF a <= i - 1 THEN p[a] ELSE q[a - (i - 1)]
  <2>1. /\ p \o q \in Seq(S) /\ Len(p \o q) = Len(p) + Len(q)
        /\ \A a \in 1..(Len(p) + Len(q)) :
             (p \o q)[a] = IF a <= Len(p) THEN p[a] ELSE q[a - Len(p)]
    BY <1>2, <1>3, ConcatProperties
  <2> QED
    BY <1>2, <1>3, <2>1, Zenon
<1>6. r \in Seq(S) /\ Len(r) = n - 1
  BY <1>1, <1>4, <1>5
<1>7. ASSUME NEW a \in 1..(n - 1) PROVE r[a] = s[IF a < i THEN a ELSE a + 1]
  <2>1. r[a] = IF a <= i - 1 THEN p[a] ELSE q[a - (i - 1)]
    BY <1>1, <1>4, <1>5
  <2>2. CASE a < i
    BY <1>1, <1>2, <2>1, <2>2
  <2>3. CASE ~(a < i)
    <3>1. a - (i - 1) \in 1..(n - i) /\ i + (a - (i - 1)) = a + 1
      BY <1>1, <2>3
    <3>2. q[a - (i - 1)] = s[a + 1]
      BY <1>3, <3>1
    <3> QED
      BY <1>1, <2>1, <2>3, <3>2
  <2> QED
    BY <2>2, <2>3
<1> QED
  BY <1>6, <1>7 DEF n

LEMMA PlaceInList ==
  ASSUME NEW c \in ToSet(vec)
  PROVE  Place(c) \in 1..Len(vec) /\ vec[Place(c)] = c
<1>1. \E i \in 1..Len(vec) : vec[i] = c
  BY DEF ToSet
<1> QED
  BY <1>1 DEF Place

-----------------------------------------------------------------------------
(* Types, step by step *)

\* What a step of the main thread's own bookkeeping leaves alone.
LEMMA PassTypes ==
  ASSUME TypeOK, unchangedByPass,
         phase' \in {"load", "pass", "lua", "close", "destroy", "over", "crashed"},
         run' \in {"Continue", "Reboot", "Halt"},
         cursor' \in Nat, last' \in Nat, moved' \in BOOLEAN, crashText' \in BOOLEAN,
         events' \in [Sources -> Seq(Event)], lua' \in {"fresh", "yielded"},
         timer' \in {"due", "later", "never"}, signals' \in Seq(Signal), heard' \in Seq(Signal)
  PROVE  TypeOK'
BY DEF TypeOK, unchangedByPass, partVars, countVars

LEMMA LuaTypes ==
  ASSUME TypeOK, unchangedByLua, Call, PushSignal, phase' \in {"lua", "crashed"},
         vec' \in Seq(Components), cap' \in Nat, moved' \in BOOLEAN,
         alive' \subseteq Components, gone' \subseteq Components, attached' \subseteq Keyboards,
         typing' \in Typing \cup {None}, events' \in [Sources -> Seq(Event)]
  PROVE  TypeOK'
<1>1. made[Computer] \in Nat /\ made[Computer] + 1 \in Nat
  BY DEF TypeOK
<1>2. made' \in [Sources \cup {Computer} -> Nat]
  BY <1>1 DEF TypeOK, PushSignal
<1>3. <<Computer, made[Computer] + 1>> \in Signal
  BY <1>1 DEF Signal
<1>4. signals' \in Seq(Signal)
  BY <1>3 DEF TypeOK, PushSignal
<1>5. calls' \in 0..MaxCalls
  BY MachineAssumption DEF TypeOK, Call
<1> QED
  BY <1>2, <1>4, <1>5 DEF TypeOK, unchangedByLua

LEMMA LoadTypes == ASSUME TypeOK, Load \/ LoadFailed PROVE TypeOK'
<1>1. Len(Config) \in Nat
  BY ConfigFacts
<1>2. \E n, m \in 0..Len(Config) : NewClient(n, m)
  BY <1>1 DEF Load, LoadFailed
<1>3. PICK n \in 0..Len(Config), m \in 0..Len(Config) : NewClient(n, m)
  BY <1>2
<1>4. /\ phase' \in {"pass", "close"} /\ run' \in {"Continue", "Halt"}
      /\ crashText' \in BOOLEAN
  BY DEF Load, LoadFailed
<1> QED
  BY <1>3, <1>4, NewClientTypes DEF TypeOK

LEMMA PushTypes ==
  ASSUME TypeOK, NEW s \in Sources, NEW kind \in {"signal", "ignored", "abort"}, Push(s, kind)
  PROVE  /\ events' \in [Sources -> Seq(Event)]
         /\ made' \in [Sources \cup {Computer} -> Nat]
<1>1. PICK q \in Seq(Event), n \in Nat : q = events[s] /\ n = made[s]
  BY DEF TypeOK
<1>2. PICK e \in Event : e = IF kind = "signal" THEN <<s, made[s] + 1>> ELSE kind
  <2>1. <<s, n + 1>> \in Event
    BY DEF Event, Signal
  <2>2. kind # "signal" => kind \in Event
    BY DEF Event
  <2> QED
    BY <1>1, <2>1, <2>2
<1>3. Append(q, e) \in Seq(Event)
  OBVIOUS
<1>4. events' = [events EXCEPT ![s] = Append(q, e)]
  BY <1>1, <1>2 DEF Push
<1>5. events' \in [Sources -> Seq(Event)]
  BY <1>3, <1>4 DEF TypeOK
<1>6. made' \in [Sources \cup {Computer} -> Nat]
  BY <1>1 DEF TypeOK, Push
<1> QED
  BY <1>5, <1>6

\* What the other threads' steps leave alone.
LEMMA OutsideFrame ==
  ASSUME TypeOK, unchangedOutside,
         phase' \in {"load", "pass", "lua", "close", "destroy", "over", "crashed"},
         typing' \in Typing \cup {None}, events' \in [Sources -> Seq(Event)],
         made' \in [Sources \cup {Computer} -> Nat], inputs' \in 0..MaxEvents
  PROVE  TypeOK'
BY DEF TypeOK, unchangedOutside, loopVars

LEMMA OutsideTypes == ASSUME TypeOK, Outside PROVE TypeOK'
<1>1. /\ phase \in {"load", "pass", "lua", "close", "destroy", "over", "crashed"}
      /\ typing \in Typing \cup {None} /\ attached \subseteq Keyboards
      /\ events \in [Sources -> Seq(Event)] /\ made \in [Sources \cup {Computer} -> Nat]
      /\ inputs \in 0..MaxEvents
  BY DEF TypeOK
<1>2. Input => inputs' \in 0..MaxEvents
  BY <1>1, MachineAssumption DEF Input
<1>3. CASE KeyTyped
  <2>1. /\ UNCHANGED <<phase, events, made>> /\ unchangedOutside /\ Input
        /\ \E key \in {"signal", "abort"} :
             typing' = [key |-> key, left |-> attached, changed |-> FALSE]
    BY <1>3 DEF KeyTyped
  <2>2. typing' \in Typing \cup {None}
    BY <1>1, <2>1 DEF Typing
  <2> QED
    BY <1>1, <1>2, <2>1, <2>2, OutsideFrame
<1>4. CASE PushKey
  <2>1. PICK k \in typing.left :
          /\ typing' = IF typing.left = {k} THEN None ELSE [typing EXCEPT !.left = @ \ {k}]
          /\ \/ Push(k, typing.key) /\ UNCHANGED phase
             \/ phase' \in {phase, "crashed"} /\ UNCHANGED <<events, made>>
    BY <1>4 DEF PushKey
  <2>2. typing # None /\ unchangedOutside /\ inputs' = inputs
    BY <1>4 DEF PushKey
  <2>3. typing \in Typing /\ k \in Sources /\ typing.key \in {"signal", "ignored", "abort"}
    BY <1>1, <2>2, ConfigFacts DEF Typing
  <2>4. typing' \in Typing \cup {None}
    BY <2>1, <2>3 DEF Typing
  <2>5. events' \in [Sources -> Seq(Event)] /\ made' \in [Sources \cup {Computer} -> Nat]
    <3>1. CASE Push(k, typing.key)
      BY <2>3, <3>1, PushTypes
    <3> QED
      BY <1>1, <2>1, <3>1
  <2>6. phase' \in {"load", "pass", "lua", "close", "destroy", "over", "crashed"}
    BY <1>1, <2>1
  <2> QED
    BY <1>1, <2>2, <2>4, <2>5, <2>6, OutsideFrame
<1>5. ASSUME NEW s \in Sources, EventArrived(s) PROVE TypeOK'
  <2>1. PICK kind \in {"signal", "ignored"} : Push(s, kind)
    BY <1>5 DEF EventArrived
  <2>2. UNCHANGED <<phase, typing>> /\ unchangedOutside /\ Input
    BY <1>5 DEF EventArrived
  <2>3. events' \in [Sources -> Seq(Event)] /\ made' \in [Sources \cup {Computer} -> Nat]
    BY <2>1, PushTypes
  <2> QED
    BY <1>1, <1>2, <2>2, <2>3, OutsideFrame
<1>6. CASE Tick
  BY <1>6 DEF TypeOK, Tick, loopVars, partVars, countVars
<1> QED
  BY <1>3, <1>4, <1>5, <1>6 DEF Outside

\* A change under the loop of the terminal's thread.
LEMMA LoopTypes == ASSUME TypeOK, ChangedUnderLoop PROVE typing' \in Typing \cup {None}
<1>1. typing \in Typing \cup {None}
  BY DEF TypeOK
<1>2. typing \in Typing => [typing EXCEPT !.changed = TRUE] \in Typing
  BY DEF Typing
<1> QED
  BY <1>1, <1>2 DEF ChangedUnderLoop

LEMMA UpdateTypes ==
  ASSUME TypeOK,
         \/ BeginPass \/ NullUpdate \/ NothingToPop \/ StartLua \/ ResumeAfterSleep \/ Standby
         \/ LuaSleeps \/ LuaReboots \/ LuaHalts
  PROVE  TypeOK'
<1>1. /\ phase \in {"load", "pass", "lua", "close", "destroy", "over", "crashed"}
      /\ run \in {"Continue", "Reboot", "Halt"} /\ crashText \in BOOLEAN
      /\ cursor \in Nat /\ last \in Nat /\ moved \in BOOLEAN /\ Len(vec) \in Nat
      /\ events \in [Sources -> Seq(Event)] /\ lua \in {"fresh", "yielded"}
      /\ timer \in {"due", "later", "never"} /\ signals \in Seq(Signal) /\ heard \in Seq(Signal)
  BY DEF TypeOK
<1> USE <1>1 DEF EndWith, NextComponent
<1>2. CASE BeginPass
  BY <1>2, PassTypes DEF BeginPass
<1>3. CASE NullUpdate
  BY <1>3, PassTypes DEF NullUpdate
<1>4. CASE NothingToPop
  BY <1>4, PassTypes DEF NothingToPop
<1>5. CASE StartLua
  BY <1>5, PassTypes DEF StartLua
<1>6. CASE ResumeAfterSleep
  BY <1>6, PassTypes DEF ResumeAfterSleep
<1>7. CASE Standby
  BY <1>7, PassTypes DEF Standby
<1>8. CASE LuaSleeps
  BY <1>8, PassTypes DEF LuaSleeps
<1>9. CASE LuaReboots
  BY <1>9, PassTypes DEF LuaReboots
<1>10. CASE LuaHalts
  BY <1>10, PassTypes DEF LuaHalts
<1> QED
  BY <1>2, <1>3, <1>4, <1>5, <1>6, <1>7, <1>8, <1>9, <1>10

\* The signals that a source or Lua takes from a queue.
LEMMA PopTypes == ASSUME TypeOK, PopEvent \/ ResumeWithSignal PROVE TypeOK'
<1>1. /\ phase \in {"load", "pass", "lua", "close", "destroy", "over", "crashed"}
      /\ run \in {"Continue", "Reboot", "Halt"} /\ crashText \in BOOLEAN
      /\ cursor \in Nat /\ last \in Nat /\ moved \in BOOLEAN
      /\ events \in [Sources -> Seq(Event)] /\ lua \in {"fresh", "yielded"}
      /\ timer \in {"due", "later", "never"} /\ signals \in Seq(Signal) /\ heard \in Seq(Signal)
  BY DEF TypeOK
<1>2. CASE PopEvent
  <2>1. PICK c \in Sources : /\ c = Current /\ events[c] # <<>>
                            /\ events' = [events EXCEPT ![c] = Tail(@)]
                            /\ signals' = IF Head(events[c]) \in Signal
                                         THEN Append(signals, Head(events[c])) ELSE signals
    BY <1>2 DEF PopEvent
  <2>2. PICK q \in Seq(Event) : q = events[c]
    BY <1>1, <2>1
  <2>3. Head(q) \in Event /\ Tail(q) \in Seq(Event)
    BY <2>1, <2>2
  <2>4. events' \in [Sources -> Seq(Event)]
    BY <1>1, <2>1, <2>2, <2>3
  <2>5. signals' \in Seq(Signal)
    BY <1>1, <2>1
  <2>6. /\ phase' \in {"load", "pass", "lua", "close", "destroy", "over", "crashed"}
        /\ run' \in {"Continue", "Reboot", "Halt"} /\ cursor' = cursor /\ last' = last
        /\ moved' = moved /\ UNCHANGED <<crashText, lua, timer, heard>> /\ unchangedByPass
    BY <1>1, <1>2 DEF PopEvent, EndWith
  <2> QED
    BY <1>1, <2>4, <2>5, <2>6, PassTypes
<1>3. CASE ResumeWithSignal
  <2>1. heard' = Append(heard, Head(signals)) /\ signals' = Tail(signals) /\ signals # <<>>
    BY <1>3 DEF ResumeWithSignal
  <2>2. Head(signals) \in Signal /\ Tail(signals) \in Seq(Signal)
    BY <1>1, <2>1
  <2>3. heard' \in Seq(Signal) /\ signals' \in Seq(Signal)
    BY <1>1, <2>1, <2>2
  <2>4. /\ phase' = "lua" /\ unchangedByPass
        /\ UNCHANGED <<run, cursor, last, moved, crashText, events, lua, timer>>
    BY <1>3 DEF ResumeWithSignal
  <2> QED
    BY <1>1, <2>3, <2>4, PassTypes
<1> QED
  BY <1>2, <1>3

LEMMA CallTypes ==
  ASSUME TypeOK, LuaPushes \/ \E c \in Components : LuaAdds(c) \/ LuaRemoves(c)
  PROVE  TypeOK'
<1>1. /\ phase \in {"load", "pass", "lua", "close", "destroy", "over", "crashed"}
      /\ vec \in Seq(Components) /\ cap \in Nat /\ moved \in BOOLEAN
      /\ alive \subseteq Components /\ gone \subseteq Components
      /\ attached \subseteq Keyboards /\ typing \in Typing \cup {None}
      /\ events \in [Sources -> Seq(Event)]
  BY DEF TypeOK
<1>2. CASE LuaPushes
  BY <1>1, <1>2, LuaTypes DEF LuaPushes, Call, partVars
<1>3. ASSUME NEW c \in Components, LuaAdds(c) PROVE TypeOK'
  <2>1. /\ vec' = Append(vec, c) /\ cap' = IF Len(vec) = cap THEN 2 * cap ELSE cap
        /\ moved' = (moved \/ Len(vec) = cap) /\ alive' = alive \cup {c}
        /\ attached' \subseteq attached \cup (Keyboards \cap {c})
        /\ Call /\ phase = "lua" /\ PushSignal /\ ChangedUnderLoop
        /\ UNCHANGED <<phase, gone, events>> /\ unchangedByLua
    BY <1>3 DEF LuaAdds, Call
  <2>2. vec' \in Seq(Components) /\ cap' \in Nat /\ moved' \in BOOLEAN
    BY <1>1, <2>1
  <2> QED
    BY <1>1, <2>1, <2>2, LoopTypes, LuaTypes
<1>4. ASSUME NEW c \in Components, LuaRemoves(c) PROVE TypeOK'
  <2>1. Call /\ phase = "lua" /\ PushSignal /\ UNCHANGED <<cap, moved>> /\ unchangedByLua
    BY <1>4 DEF LuaRemoves, Call
  <2>2. CASE SearchesList(c) /\ c # Last(vec)
    <3>1. phase' = "crashed" /\ UNCHANGED <<vec, partVars, events>>
      BY <1>4, <2>2 DEF LuaRemoves
    <3> QED
      BY <1>1, <2>1, <3>1, LuaTypes DEF partVars
  <2>3. CASE ~(SearchesList(c) /\ c # Last(vec))
    <3>1. /\ vec' = RemoveAt(vec, Place(c)) /\ alive' = alive \ {c} /\ gone' = gone \cup {c}
          /\ attached' \subseteq attached /\ ChangedUnderLoop
          /\ events' = [s \in Sources |-> IF s = c THEN <<>> ELSE events[s]]
          /\ phase' = phase /\ c \in ToSet(vec)
      BY <1>4, <2>3 DEF LuaRemoves
    <3>2. vec' \in Seq(Components)
      BY <1>1, <3>1, PlaceInList, RemoveAtPlaces
    <3>3. events' \in [Sources -> Seq(Event)]
      BY <1>1, <3>1
    <3> QED
      BY <1>1, <2>1, <3>1, <3>2, <3>3, LoopTypes, LuaTypes
  <2> QED
    BY <2>2, <2>3
<1> QED
  BY <1>2, <1>3, <1>4

LEMMA CloseTypes == ASSUME TypeOK, Close \/ Destroy \/ Closed PROVE TypeOK'
<1>1. /\ phase' \in {"load", "pass", "lua", "close", "destroy", "over", "crashed"}
      /\ alive' \subseteq alive /\ attached' \subseteq attached /\ typing' = typing
      /\ unchangedByClose
  BY DEF Close, Destroy, Closed, partVars
<1>2. vec' \in Seq(Components) /\ doomed' \in Seq(Components)
  <2>1. vec \in Seq(Components) /\ doomed \in Seq(Components)
    BY DEF TypeOK
  <2>2. doomed # <<>> => Tail(doomed) \in Seq(Components)
    BY <2>1
  <2>3. <<>> \in Seq(Components)
    OBVIOUS
  <2>4. \/ vec' = <<>> /\ doomed' = vec
        \/ vec' = vec /\ doomed # <<>> /\ doomed' = Tail(doomed)
        \/ vec' = vec /\ doomed' = doomed
    BY DEF Close, Destroy, Closed
  <2> QED
    BY <2>1, <2>2, <2>3, <2>4, Zenon
<1> QED
  BY <1>1, <1>2 DEF TypeOK, unchangedByClose, countVars

LEMMA TypeSteps == ASSUME TypeOK, [Next]_vars PROVE TypeOK'
<1>1. CASE UNCHANGED vars
  BY <1>1 DEF TypeOK, vars, loopVars, partVars, countVars
<1> QED
  BY <1>1, LoadTypes, OutsideTypes, UpdateTypes, PopTypes, CallTypes, CloseTypes
  DEF Next, MainThread, Lua

\* The state keeps its types.
THEOREM TypeCorrect == Spec => []TypeOK
<1>1. Init => TypeOK
  BY InitTypes
<1>2. TypeOK /\ [Next]_vars => TypeOK'
  BY TypeSteps
<1> QED
  BY <1>1, <1>2, PTL DEF Spec

-----------------------------------------------------------------------------
(* The signals of one component *)

LEMMA EventFacts ==
  /\ Signal \subseteq Event /\ "ignored" \notin Signal /\ "abort" \notin Signal
  /\ \A e \in Signal : e[1] \in Sources \cup {Computer} /\ e[2] \in Nat /\ e = <<e[1], e[2]>>
<1>1. \A e \in Signal : e[1] \in Sources \cup {Computer} /\ e[2] \in Nat /\ e = <<e[1], e[2]>>
  BY DEF Signal
<1> QED
  BY <1>1, EventsAssumption DEF Event

LEMMA FromIsSeq ==
  ASSUME NEW q \in Seq(Signal), NEW s
  PROVE  From(s, q) \in Seq(Signal)
BY SelectionInside DEF From

\* One more signal counts for the component it is about.
LEMMA FromAppend ==
  ASSUME NEW q \in Seq(Signal), NEW e \in Signal, NEW s
  PROVE  From(s, Append(q, e)) = IF e[1] = s THEN Append(From(s, q), e) ELSE From(s, q)
<1> DEFINE T == {s} \X Nat
<1>1. e \in T <=> e[1] = s
  BY DEF Signal
<1> HIDE DEF T
<1>2. Select(Append(q, e), T) = IF e \in T THEN Append(Select(q, T), e) ELSE Select(q, T)
  BY SelectAppend
<1>3. From(s, Append(q, e)) = Select(Append(q, e), T) /\ From(s, q) = Select(q, T)
  BY DEF From, T
<1> QED
  BY <1>1, <1>2, <1>3, Zenon

\* A signal that moves from one queue to the one before it stays in its place.
LEMMA FromMoved ==
  ASSUME NEW f \in Seq(Signal), NEW g \in Seq(Signal), g # <<>>, NEW s
  PROVE  From(s, Append(f, Head(g))) \o From(s, Tail(g)) = From(s, f) \o From(s, g)
<1> DEFINE T == {s} \X Nat
           h == Append(f, Head(g))
           r == Tail(g)
<1>1. h \in Seq(Signal) /\ r \in Seq(Signal)
  BY HeadTailProperties, AppendProperties
<1>2. h \o r = f \o g
  BY ConcatShift
<1> HIDE DEF T, h, r
<1>3. Select(h \o r, T) = Select(h, T) \o Select(r, T)
  BY <1>1, SelectConcat, SMTT(30)
<1>4. Select(f \o g, T) = Select(f, T) \o Select(g, T)
  BY SelectConcat
<1>5. Select(h, T) \o Select(r, T) = Select(f, T) \o Select(g, T)
  BY <1>2, <1>3, <1>4, Zenon
<1> QED
  BY <1>5 DEF From, T, h, r

\* Three queues in a row.
Row(x, y, z) == (x \o y) \o z

LEMMA Regroup ==
  ASSUME NEW x \in Seq(Signal), NEW y \in Seq(Signal), NEW z \in Seq(Signal)
  PROVE  Row(x, y, z) = x \o (y \o z)
BY ConcatAssociative DEF Row

\* What a source has still to say.
LEMMA WaitingIsSeq ==
  ASSUME NEW q \in Seq(Event)
  PROVE  Select(q, Signal) \in Seq(Signal)
<1>1. Event \cap Signal = Signal
  BY EventFacts
<1>2. Select(q, Signal) \in Seq(Event \cap Signal)
  BY SelectIsSeq
<1> QED
  BY <1>1, <1>2

\* An event that is popped is at the head of what the source had to say.
LEMMA EventMoved ==
  ASSUME NEW f \in Seq(Signal), NEW q \in Seq(Event), q # <<>>, NEW s,
         Head(q) \in Signal => Head(q)[1] = s,
         NEW g, g = IF Head(q) \in Signal THEN Append(f, Head(q)) ELSE f
  PROVE  From(s, g) \o Select(Tail(q), Signal) = From(s, f) \o Select(q, Signal)
<1> DEFINE e == Head(q)
           r == Tail(q)
           one == <<e>>
<1>1. e \in Event /\ r \in Seq(Event)
  BY HeadTailProperties
<1>2. Select(q, Signal) = (IF e \in Signal THEN one ELSE <<>>) \o Select(r, Signal)
  BY SelectHeadTail
<1>3. PICK w \in Seq(Signal) : w = Select(r, Signal)
  BY <1>1, WaitingIsSeq
<1>4. PICK k \in Seq(Signal) : k = From(s, f)
  BY FromIsSeq
<1>5. CASE e \in Signal
  <2>1. From(s, g) = Append(k, e)
    <3>1. e \in Signal /\ e[1] = s /\ g = Append(f, e)
      BY <1>5
    <3> HIDE DEF e
    <3> QED
      BY <1>4, <3>1, FromAppend
  <2>2. Append(k, e) \o w = k \o (one \o w)
    BY <1>5, AppendInside, SMTT(30)
  <2> HIDE DEF one, e, r
  <2> QED
    BY <1>2, <1>3, <1>4, <1>5, <2>1, <2>2, Zenon DEF e, r
<1>6. CASE e \notin Signal
  <2>1. <<>> \o w = w
    BY ConcatEmptySeq
  <2>2. g = f /\ Select(q, Signal) = w
    BY <1>2, <1>3, <1>6, <2>1
  <2> QED
    BY <1>3, <2>2
<1> QED
  BY <1>5, <1>6

\* A beginning of a beginning.
LEMMA PrefixTransitive ==
  ASSUME NEW S, NEW a \in Seq(S), NEW b \in Seq(S), NEW c \in Seq(S),
         IsPrefix(a, b), IsPrefix(b, c)
  PROVE  IsPrefix(a, c)
<1>1. Len(a) <= Len(b) /\ \A i \in 1..Len(a) : a[i] = b[i]
  BY PrefixByPlace
<1>2. Len(b) <= Len(c) /\ \A i \in 1..Len(b) : b[i] = c[i]
  BY PrefixByPlace
<1>3. Len(a) <= Len(c) /\ \A i \in 1..Len(a) : a[i] = c[i]
  BY <1>1, <1>2
<1> QED
  BY <1>3, PrefixByPlace

-----------------------------------------------------------------------------
(* Signals in order, one component at a time *)

Speakers == Sources \cup {Computer}

LEMMA ToldBySpeaker ==
  /\ SignalsInOrder <=> \A s \in Speakers : Delivered(s)
  /\ SignalsInOrder' <=> \A s \in Speakers : Delivered(s)'
BY DEF SignalsInOrder, Speakers, Delivered, Chain, Waiting, Numbered

LEMMA ChainParts ==
  ASSUME TypeOK, NEW s \in Speakers
  PROVE  From(s, heard) \in Seq(Signal) /\ From(s, signals) \in Seq(Signal)
         /\ Waiting(s) \in Seq(Signal)
<1>1. From(s, heard) \in Seq(Signal) /\ From(s, signals) \in Seq(Signal)
  BY FromIsSeq DEF TypeOK
<1>2. Waiting(s) \in Seq(Signal)
  <2>1. CASE s = Computer
    BY <2>1 DEF Waiting
  <2>2. CASE s # Computer
    <3>1. events[s] \in Seq(Event)
      BY <2>2 DEF TypeOK, Speakers
    <3> QED
      BY <2>2, <3>1, WaitingIsSeq DEF Waiting
  <2> QED
    BY <2>1, <2>2
<1> QED
  BY <1>1, <1>2

\* What there was stays.
LEMMA ToldSame ==
  ASSUME NEW s, Delivered(s), Chain(s)' = Chain(s), made'[s] = made[s], s \in gone' <=> s \in gone
  PROVE  Delivered(s)'
BY DEF Delivered

\* One more, at the end.
LEMMA ToldMore ==
  ASSUME TypeOK, NEW s \in Speakers, Delivered(s), s \notin gone, s \notin gone',
         Chain(s)' = Append(Chain(s), <<s, made[s] + 1>>), made'[s] = made[s] + 1
  PROVE  Delivered(s)'
<1>1. PICK n \in Nat : n = made[s]
  BY DEF TypeOK, Speakers
<1>2. \A i \in 1..(n + 1) : <<s, i>> \in Signal
  BY DEF Signal, Speakers
<1>3. /\ Numbered(s, n) \in Seq(Signal) /\ <<s, n + 1>> \in Signal
      /\ Append(Numbered(s, n), <<s, n + 1>>) = Numbered(s, n + 1)
  BY <1>2, NumberedGrows
<1>4. Numbered(s, made[s])' = Numbered(s, n + 1)
  BY <1>1 DEF Numbered
<1>5. Chain(s)' = Numbered(s, made[s])'
  BY <1>1, <1>3, <1>4 DEF Delivered
<1> QED
  BY <1>5 DEF Delivered

\* The component is removed, and what was left in it is gone.
LEMMA ToldLess ==
  ASSUME TypeOK, NEW s \in Speakers, Delivered(s), s \in gone', made'[s] = made[s],
         Chain(s)' = From(s, heard) \o From(s, signals)
  PROVE  Delivered(s)'
<1> DEFINE h == From(s, heard)
           f == From(s, signals)
           w == Waiting(s)
<1>1. h \in Seq(Signal) /\ f \in Seq(Signal) /\ w \in Seq(Signal)
  BY ChainParts
<1>2. Chain(s) = (h \o f) \o w /\ Chain(s)' = h \o f
  BY DEF Chain
<1> HIDE DEF h, f, w
<1>3. PICK a \in Seq(Signal) : a = h \o f
  BY <1>1, ConcatProperties
<1>4. PICK b \in Seq(Signal) : b = a \o w
  BY <1>1, ConcatProperties
<1>5. IsPrefix(a, b) /\ Chain(s) = b /\ Chain(s)' = a
  BY <1>1, <1>2, <1>3, <1>4, PrefixOfConcat
<1>6. PICK n \in Nat : n = made[s] /\ n = made'[s]
  BY DEF TypeOK, Speakers
<1>7. PICK c \in Seq(Signal) : c = Numbered(s, n)
  <2>1. \A i \in 1..(n + 1) : <<s, i>> \in Signal
    BY DEF Signal, Speakers
  <2> QED
    BY <2>1, NumberedGrows
<1>8. IsPrefix(b, c)
  <2>1. CASE s \in gone
    BY <1>5, <1>6, <1>7, <2>1 DEF Delivered
  <2>2. CASE s \notin gone
    <3>1. b = c
      BY <1>5, <1>6, <1>7, <2>2 DEF Delivered
    <3>2. IsPrefix(b, b)
      BY PrefixByPlace
    <3> QED
      BY <3>1, <3>2
  <2> QED
    BY <2>1, <2>2
<1>9. IsPrefix(a, c)
  BY <1>5, <1>8, PrefixTransitive
<1>10. Numbered(s, made[s])' = c
  BY <1>6, <1>7 DEF Numbered
<1> QED
  BY <1>5, <1>9, <1>10 DEF Delivered

\* Steps that leave the signals alone.
LEMMA SignalFrame ==
  ASSUME SignalInv, UNCHANGED <<heard, signals, events, made, gone>>, alive' \cap gone = {}
  PROVE  SignalInv'
<1>1. Apart' /\ OwnEvents'
  BY DEF SignalInv, Apart, OwnEvents
<1>2. SignalsInOrder'
  BY DEF SignalInv, SignalsInOrder
<1> QED
  BY <1>1, <1>2 DEF SignalInv

\* Computer::pushSignal, and what happens to the sources beside it.
LEMMA SignalPushed ==
  ASSUME TypeOK, SignalInv, PushSignal, UNCHANGED heard, Computer \notin gone',
         NEW s \in Speakers, s \in gone' <=> s \in gone, Waiting(s)' = Waiting(s)
  PROVE  Delivered(s)'
<1>1. Delivered(s) /\ Computer \notin gone
  BY ToldBySpeaker DEF SignalInv, Apart
<1>2. PICK h \in Seq(Signal), f \in Seq(Signal), w \in Seq(Signal) :
        h = From(s, heard) /\ f = From(s, signals) /\ w = Waiting(s)
  BY ChainParts
<1>3. made[Computer] \in Nat /\ made \in [Speakers -> Nat] /\ signals \in Seq(Signal)
  BY DEF TypeOK, Speakers
<1> DEFINE e == <<Computer, made[Computer] + 1>>
<1>4. e \in Signal /\ e[1] = Computer
  BY <1>3 DEF Signal
<1>5. signals' = Append(signals, e) /\ made' = [made EXCEPT ![Computer] = @ + 1]
  BY DEF PushSignal
<1> HIDE DEF e
<1>6. From(s, signals)' = IF Computer = s THEN Append(f, e) ELSE f
  <2>1. From(s, Append(signals, e)) = IF e[1] = s THEN Append(From(s, signals), e)
                                      ELSE From(s, signals)
    BY <1>3, <1>4, FromAppend
  <2>2. From(s, signals)' = From(s, Append(signals, e))
    BY <1>5 DEF From
  <2> QED
    BY <1>2, <1>4, <2>1, <2>2
<1>7. Chain(s) = (h \o f) \o w /\ Chain(s)' = (h \o From(s, signals)') \o w
  BY <1>2 DEF Chain, From
<1>8. CASE s # Computer
  <2>1. Chain(s)' = Chain(s) /\ made'[s] = made[s]
    BY <1>3, <1>5, <1>6, <1>7, <1>8
  <2> QED
    BY <1>1, <2>1, ToldSame
<1>9. CASE s = Computer
  <2>1. w = <<>>
    BY <1>2, <1>9 DEF Waiting
  <2>2. h \o Append(f, e) = Append(h \o f, e) /\ h \o f \in Seq(Signal)
    BY <1>4, ConcatAppend
  <2>3. PICK a \in Seq(Signal) : a = h \o f
    BY <2>2
  <2>4. Append(a, e) \in Seq(Signal)
    BY <1>4, AppendProperties
  <2>5. a \o <<>> = a /\ Append(a, e) \o <<>> = Append(a, e)
    BY <2>4, ConcatEmptySeq
  <2>6. Chain(s)' = Append(Chain(s), e)
    BY <1>6, <1>7, <1>9, <2>1, <2>2, <2>3, <2>5, Zenon
  <2>7. made'[s] = made[s] + 1 /\ Chain(s)' = Append(Chain(s), <<s, made[s] + 1>>)
    BY <1>3, <1>5, <1>9, <2>6 DEF e
  <2> QED
    BY <1>1, <1>9, <2>7, ToldMore
<1> QED
  BY <1>8, <1>9

LEMMA InitSignals == Init => SignalInv
<1> SUFFICES ASSUME Init PROVE SignalInv
  OBVIOUS
<1>1. Apart /\ OwnEvents
  BY DEF Init, Apart, OwnEvents
<1>2. ASSUME NEW s \in Speakers PROVE Delivered(s)
  <2>1. From(s, heard) = <<>> /\ From(s, signals) = <<>>
    BY SelectEmpty DEF Init, From
  <2>2. Waiting(s) = <<>>
    BY SelectEmpty DEF Init, Waiting, Speakers
  <2>3. Chain(s) = <<>> /\ s \notin gone /\ made[s] = 0
    BY <2>1, <2>2 DEF Init, Chain, Speakers
  <2> QED
    BY <2>3 DEF Delivered, Numbered
<1> QED
  BY <1>1, <1>2, ToldBySpeaker DEF SignalInv

\* A new Client starts from nothing.
LEMMA LoadSignals == ASSUME TypeOK, SignalInv, Load \/ LoadFailed PROVE SignalInv'
<1>1. \E n, m \in Nat : NewClient(n, m)
  <2>1. Len(Config) \in Nat
    BY ConfigFacts
  <2> QED
    BY <2>1 DEF Load, LoadFailed
<1>2. /\ gone' = {} /\ events' = [s \in Sources |-> <<>>] /\ signals' = <<>> /\ heard' = <<>>
      /\ made' = [s \in Sources \cup {Computer} |-> 0]
  BY <1>1 DEF NewClient
<1>3. Apart' /\ OwnEvents'
  BY <1>2 DEF Apart, OwnEvents
<1>4. ASSUME NEW s \in Speakers PROVE Delivered(s)'
  <2>1. From(s, heard)' = <<>> /\ From(s, signals)' = <<>>
    BY <1>2, SelectEmpty DEF From
  <2>2. Waiting(s)' = <<>>
    BY <1>2, SelectEmpty DEF Waiting, Speakers
  <2>3. Chain(s)' = <<>> /\ s \notin gone' /\ made'[s] = 0
    BY <1>2, <2>1, <2>2 DEF Chain, Speakers
  <2> QED
    BY <2>3 DEF Delivered, Numbered
<1> QED
  BY <1>3, <1>4, ToldBySpeaker DEF SignalInv

\* A source that has one more thing to say has not been removed.
LEMMA PushSignals ==
  ASSUME TypeOK, SignalInv, NEW c \in Sources \cap alive,
         NEW kind \in {"signal", "ignored", "abort"}, Push(c, kind), unchangedOutside
  PROVE  SignalInv'
<1>1. /\ events' = [events EXCEPT ![c] =
                      Append(@, IF kind = "signal" THEN <<c, made[c] + 1>> ELSE kind)]
      /\ made' = IF kind = "signal" THEN [made EXCEPT ![c] = @ + 1] ELSE made
      /\ UNCHANGED <<heard, signals, alive, gone>>
      /\ events \in [Sources -> Seq(Event)] /\ made \in [Sources \cup {Computer} -> Nat]
  BY DEF Push, unchangedOutside, TypeOK
<1>2. Apart'
  BY <1>1 DEF SignalInv, Apart
<1>3. ASSUME NEW s \in Sources
      PROVE  /\ Delivered(s)'
             /\ \A i \in 1..Len(events'[s]) : events'[s][i] \in Signal => events'[s][i][1] = s
  <2>1. /\ s \in Speakers /\ s # Computer /\ Delivered(s) /\ From(s, heard)' = From(s, heard)
        /\ From(s, signals)' = From(s, signals)
    BY <1>1, ConfigFacts, ToldBySpeaker DEF SignalInv, Speakers, From
  <2>2. PICK q \in Seq(Event), n \in Nat : q = events[s] /\ n = made[s]
    BY DEF TypeOK
  <2>3. \A i \in 1..Len(q) : q[i] \in Signal => q[i][1] = s
    BY <2>2 DEF SignalInv, OwnEvents
  <2>4. CASE s # c
    <3>1. events'[s] = q /\ made'[s] = n
      BY <1>1, <2>1, <2>2, <2>4 DEF Speakers
    <3>2. Waiting(s)' = Waiting(s)
      BY <2>1, <2>2, <3>1 DEF Waiting
    <3>3. Delivered(s)'
      BY <1>1, <2>1, <2>2, <3>1, <3>2, ToldSame DEF Chain
    <3> QED
      BY <2>3, <3>1, <3>3
  <2>5. CASE s = c
    <3>1. s \notin gone /\ s \notin gone'
      BY <1>1, <2>5 DEF SignalInv, Apart
    <3> DEFINE e == IF kind = "signal" THEN <<s, n + 1>> ELSE kind
    <3>2. /\ events'[s] = Append(q, e)
          /\ made'[s] = IF kind = "signal" THEN n + 1 ELSE n
      BY <1>1, <2>1, <2>2, <2>5 DEF Speakers
    <3>3. e \in Event /\ (e \in Signal <=> kind = "signal") /\ (e \in Signal => e[1] = s)
      <4>1. <<s, n + 1>> \in Signal
        BY DEF Signal
      <4>2. kind # "signal" => kind \in Event /\ kind \notin Signal
        BY EventFacts DEF Event
      <4> QED
        BY <4>1, <4>2, EventFacts
    <3>4. kind = "signal" => e = <<s, made[s] + 1>>
      BY <2>2
    <3> HIDE DEF e
    <3>5. /\ Len(Append(q, e)) = Len(q) + 1 /\ Append(q, e)[Len(q) + 1] = e
          /\ \A i \in 1..Len(q) : Append(q, e)[i] = q[i]
      BY <3>3, AppendProperties
    <3>6. \A i \in 1..Len(events'[s]) : events'[s][i] \in Signal => events'[s][i][1] = s
      <4>1. PICK r : r = Append(q, e)
        OBVIOUS
      <4>2. /\ Len(r) = Len(q) + 1 /\ r[Len(q) + 1] = e /\ \A i \in 1..Len(q) : r[i] = q[i]
        BY <3>5, <4>1
      <4>3. Len(q) \in Nat /\ events'[s] = r
        BY <3>2, <4>1
      <4>4. ASSUME NEW i \in 1..Len(r), r[i] \in Signal PROVE r[i][1] = s
        <5>1. i \in 1..Len(q) \/ i = Len(q) + 1
          BY <4>2, <4>3
        <5> QED
          BY <2>3, <3>3, <4>2, <4>4, <5>1
      <4> QED
        BY <4>3, <4>4
    <3>7. Select(Append(q, e), Signal) = IF e \in Signal THEN Append(Select(q, Signal), e)
                                         ELSE Select(q, Signal)
      BY <3>3, SelectAppend
    <3>8. Waiting(s)' = IF kind = "signal" THEN Append(Waiting(s), e) ELSE Waiting(s)
      <4>1. Waiting(s) = Select(q, Signal) /\ Waiting(s)' = Select(Append(q, e), Signal)
        BY <2>1, <2>2, <3>2 DEF Waiting
      <4> QED
        BY <3>3, <3>7, <4>1, Zenon
    <3>9. CASE kind = "signal"
      <4>1. PICK h \in Seq(Signal), f \in Seq(Signal), w \in Seq(Signal) :
              h = From(s, heard) /\ f = From(s, signals) /\ w = Waiting(s)
        BY <2>1, ChainParts
      <4>2. PICK a \in Seq(Signal) : a = h \o f
        BY ConcatProperties
      <4>3. a \o Append(w, e) = Append(a \o w, e)
        BY <3>3, <3>9, ConcatAppend
      <4>4. Chain(s) = a \o w /\ Chain(s)' = a \o Append(w, e)
        BY <2>1, <3>8, <3>9, <4>1, <4>2 DEF Chain
      <4>5. Chain(s)' = Append(Chain(s), <<s, made[s] + 1>>)
        BY <3>4, <3>9, <4>3, <4>4, Zenon
      <4>6. made'[s] = made[s] + 1
        BY <2>2, <3>2, <3>9
      <4>7. Delivered(s)'
        BY <2>1, <3>1, <4>5, <4>6, ToldMore
      <4> QED
        BY <3>6, <4>7
    <3>10. CASE kind # "signal"
      <4>1. Chain(s)' = Chain(s) /\ made'[s] = made[s]
        BY <2>1, <2>2, <3>2, <3>8, <3>10 DEF Chain
      <4>2. Delivered(s)'
        BY <1>1, <2>1, <4>1, ToldSame
      <4> QED
        BY <3>6, <4>2
    <3> QED
      BY <3>9, <3>10
  <2> QED
    BY <2>4, <2>5
<1>4. Delivered(Computer)'
  <2>1. Computer \in Speakers /\ Computer # c /\ Delivered(Computer)
    BY ConfigFacts, ToldBySpeaker DEF SignalInv, Speakers
  <2>2. made'[Computer] = made[Computer] /\ Chain(Computer)' = Chain(Computer)
    BY <1>1, <2>1 DEF Chain, From, Waiting, Speakers
  <2> QED
    BY <1>1, <2>1, <2>2, ToldSame
<1> QED
  BY <1>2, <1>3, <1>4, ToldBySpeaker DEF SignalInv, OwnEvents, Speakers

LEMMA OutsideSignals == ASSUME TypeOK, SignalInv, Outside PROVE SignalInv'
<1>1. ASSUME unchangedOutside, UNCHANGED <<events, made>> PROVE SignalInv'
  <2>1. UNCHANGED <<heard, signals, events, made, gone, alive>>
    BY <1>1 DEF unchangedOutside
  <2> QED
    BY <2>1, SignalFrame DEF SignalInv, Apart
<1>2. CASE KeyTyped
  BY <1>1, <1>2 DEF KeyTyped
<1>3. CASE PushKey
  <2>1. PICK k \in typing.left :
          \/ k \in alive /\ Push(k, typing.key)
          \/ UNCHANGED <<events, made>>
    BY <1>3 DEF PushKey
  <2>2. unchangedOutside /\ k \in Sources /\ typing.key \in {"signal", "ignored", "abort"}
    BY <1>3, ConfigFacts DEF PushKey, TypeOK, Typing
  <2>3. CASE k \in alive /\ Push(k, typing.key)
    <3>1. k \in Sources \cap alive
      BY <2>2, <2>3
    <3> QED
      BY <2>2, <2>3, <3>1, PushSignals
  <2> QED
    BY <1>1, <2>1, <2>2, <2>3
<1>4. ASSUME NEW s \in Sources, EventArrived(s) PROVE SignalInv'
  <2>1. s \in Sources \cap alive /\ unchangedOutside
    BY <1>4 DEF EventArrived
  <2>2. PICK kind \in {"signal", "ignored"} : Push(s, kind)
    BY <1>4 DEF EventArrived
  <2> QED
    BY <2>1, <2>2, PushSignals
<1>5. CASE Tick
  <2>1. UNCHANGED <<heard, signals, events, made, gone, alive>>
    BY <1>5 DEF Tick, partVars
  <2> QED
    BY <2>1, SignalFrame DEF SignalInv, Apart
<1> QED
  BY <1>2, <1>3, <1>4, <1>5 DEF Outside

\* From a source to the Computer.
LEMMA PopSignals == ASSUME TypeOK, SignalInv, PopEvent PROVE SignalInv'
<1>1. PICK c \in Sources :
        /\ events[c] # <<>>
        /\ events' = [events EXCEPT ![c] = Tail(@)]
        /\ signals' = IF Head(events[c]) \in Signal
                     THEN Append(signals, Head(events[c])) ELSE signals
        /\ UNCHANGED <<heard, made, alive, gone>>
  BY DEF PopEvent, unchangedByPass, partVars
<1>2. PICK q \in Seq(Event) : q = events[c]
  BY DEF TypeOK
<1>3. /\ q # <<>> /\ Head(q) \in Event /\ Tail(q) \in Seq(Event) /\ Head(q) = q[1]
      /\ Len(Tail(q)) = Len(q) - 1 /\ \A i \in 1..(Len(q) - 1) : Tail(q)[i] = q[i + 1]
      /\ Len(q) \in Nat \ {0}
  BY <1>1, <1>2
<1>4. \A i \in 1..Len(q) : q[i] \in Signal => q[i][1] = c
  BY <1>2 DEF SignalInv, OwnEvents
<1>5. Apart'
  BY <1>1 DEF SignalInv, Apart
<1>6. OwnEvents'
  <2>1. ASSUME NEW s \in Sources, NEW i \in 1..Len(events'[s]), events'[s][i] \in Signal
        PROVE  events'[s][i][1] = s
    <3>1. CASE s = c
      <4>1. PICK r : r = Tail(q)
        OBVIOUS
      <4>2. events'[s] = r
        BY <1>1, <1>2, <3>1, <4>1 DEF TypeOK
      <4>3. i + 1 \in 1..Len(q) /\ r[i] = q[i + 1]
        BY <1>3, <2>1, <4>1, <4>2
      <4> QED
        BY <1>4, <2>1, <3>1, <4>2, <4>3
    <3>2. CASE s # c
      <4>1. events'[s] = events[s]
        BY <1>1, <3>2 DEF TypeOK
      <4> QED
        BY <2>1, <4>1 DEF SignalInv, OwnEvents
    <3> QED
      BY <3>1, <3>2
  <2> QED
    BY <2>1 DEF OwnEvents
<1>7. PICK g \in Seq(Signal) : g = signals
  BY DEF TypeOK
<1>8. ASSUME NEW s \in Speakers PROVE Delivered(s)'
  <2>1. Delivered(s) /\ From(s, heard)' = From(s, heard)
    BY <1>1, ToldBySpeaker DEF SignalInv, From
  <2>2. Chain(s)' = Chain(s)
    <3>1. CASE s # c
      <4>1. Waiting(s)' = Waiting(s)
        BY <1>1, <3>1 DEF TypeOK, Waiting, Speakers
      <4>2. Head(q) \in Signal => Head(q)[1] # s
        BY <1>3, <1>4, <3>1
      <4>3. From(s, signals') = From(s, signals)
        BY <1>1, <1>2, <1>7, <4>2, FromAppend
      <4> QED
        BY <2>1, <4>1, <4>3 DEF Chain, From
    <3>2. CASE s = c
      <4>1. s # Computer
        BY <3>2, ConfigFacts
      <4>2. Waiting(s) = Select(q, Signal) /\ Waiting(s)' = Select(Tail(q), Signal)
        BY <1>1, <1>2, <3>2, <4>1 DEF Waiting, TypeOK
      <4>3. PICK f : f = IF Head(q) \in Signal THEN Append(g, Head(q)) ELSE g
        OBVIOUS
      <4>4. signals' = f
        BY <1>1, <1>2, <1>7, <4>3
      <4>5. Head(q) \in Signal => Head(q)[1] = s
        BY <1>3, <1>4, <3>2
      <4>6. From(s, f) \o Select(Tail(q), Signal) = From(s, g) \o Select(q, Signal)
        BY <1>3, <4>3, <4>5, EventMoved
      <4>7. From(s, f) \in Seq(Signal) /\ f \in Seq(Signal)
        <5>1. f \in Seq(Signal)
          BY <4>3
        <5> QED
          BY <5>1, FromIsSeq
      <4>8. PICK h \in Seq(Signal), a \in Seq(Signal), b \in Seq(Signal),
                v \in Seq(Signal), w \in Seq(Signal) :
              /\ h = From(s, heard) /\ a = From(s, g) /\ b = From(s, f)
              /\ v = Select(q, Signal) /\ w = Select(Tail(q), Signal)
        <5>1. /\ From(s, heard) \in Seq(Signal) /\ From(s, g) \in Seq(Signal)
              /\ Select(q, Signal) \in Seq(Signal) /\ Select(Tail(q), Signal) \in Seq(Signal)
          BY <1>3, FromIsSeq, WaitingIsSeq DEF TypeOK
        <5> QED
          BY <4>7, <5>1
      <4>9. (h \o a) \o v = (h \o b) \o w
        <5>1. Row(h, a, v) = h \o (a \o v)
          BY Regroup, ZenonT(40)
        <5>2. Row(h, b, w) = h \o (b \o w)
          BY Regroup, ZenonT(40)
        <5>3. a \o v = b \o w
          BY <4>6, <4>8
        <5> QED
          BY <5>1, <5>2, <5>3, Zenon DEF Row
      <4>10. Chain(s) = (h \o a) \o v /\ Chain(s)' = (h \o b) \o w
        <5>1. From(s, signals) = a /\ From(s, signals') = b
          BY <1>7, <4>4, <4>8
        <5>2. From(s, signals)' = From(s, signals')
          BY DEF From
        <5> QED
          BY <2>1, <4>2, <4>8, <5>1, <5>2, Zenon DEF Chain
      <4> QED
        BY <4>9, <4>10
    <3> QED
      BY <3>1, <3>2
  <2> QED
    BY <1>1, <2>1, <2>2, ToldSame
<1> QED
  BY <1>5, <1>6, <1>8, ToldBySpeaker DEF SignalInv

\* From the Computer to Lua.
LEMMA ResumeSignals == ASSUME TypeOK, SignalInv, ResumeWithSignal PROVE SignalInv'
<1>1. /\ signals # <<>> /\ heard' = Append(heard, Head(signals)) /\ signals' = Tail(signals)
      /\ UNCHANGED <<events, made, alive, gone>>
  BY DEF ResumeWithSignal, unchangedByPass, partVars
<1>2. Apart' /\ OwnEvents'
  BY <1>1 DEF SignalInv, Apart, OwnEvents
<1>3. PICK f \in Seq(Signal), g \in Seq(Signal) : f = heard /\ g = signals
  BY DEF TypeOK
<1>4. ASSUME NEW s \in Speakers PROVE Delivered(s)'
  <2>1. From(s, Append(f, Head(g))) \o From(s, Tail(g)) = From(s, f) \o From(s, g)
    BY <1>1, <1>3, FromMoved
  <2>2. From(s, heard)' = From(s, Append(f, Head(g))) /\ From(s, signals)' = From(s, Tail(g))
    BY <1>1, <1>3 DEF From
  <2>3. Waiting(s)' = Waiting(s)
    BY <1>1 DEF Waiting
  <2>4. Chain(s)' = Chain(s)
    BY <1>3, <2>1, <2>2, <2>3, Zenon DEF Chain
  <2> QED
    BY <1>1, <2>4, ToldBySpeaker, ToldSame DEF SignalInv
<1> QED
  BY <1>2, <1>4, ToldBySpeaker DEF SignalInv

\* Signals that Lua itself gives rise to, and a component that goes.
LEMMA CallSignals ==
  ASSUME TypeOK, SignalInv, LuaPushes \/ \E c \in Components : LuaAdds(c) \/ LuaRemoves(c)
  PROVE  SignalInv'
<1>1. ASSUME PushSignal, UNCHANGED <<heard, events, gone>>, alive' \cap gone = {}
      PROVE  SignalInv'
  <2>1. Apart' /\ OwnEvents' /\ Computer \notin gone'
    BY <1>1 DEF SignalInv, Apart, OwnEvents
  <2>2. ASSUME NEW s \in Speakers PROVE Delivered(s)'
    <3>1. Waiting(s)' = Waiting(s) /\ (s \in gone' <=> s \in gone)
      BY <1>1 DEF Waiting
    <3> QED
      BY <1>1, <2>1, <3>1, SignalPushed
  <2> QED
    BY <2>1, <2>2, ToldBySpeaker DEF SignalInv
<1>2. CASE LuaPushes
  <2>1. PushSignal /\ UNCHANGED <<heard, events, gone, alive>>
    BY <1>2 DEF LuaPushes, unchangedByLua, partVars
  <2> QED
    BY <1>1, <2>1 DEF SignalInv, Apart
<1>3. ASSUME NEW c \in Components, LuaAdds(c) PROVE SignalInv'
  <2>1. /\ PushSignal /\ UNCHANGED <<heard, events, gone>> /\ alive' = alive \cup {c}
        /\ c \notin gone
    BY <1>3 DEF LuaAdds, unchangedByLua
  <2> QED
    BY <1>1, <2>1 DEF SignalInv, Apart
<1>4. ASSUME NEW c \in Components, LuaRemoves(c) PROVE SignalInv'
  <2>1. PushSignal /\ UNCHANGED heard /\ c # Computer
    BY <1>4 DEF LuaRemoves, unchangedByLua
  <2>2. CASE UNCHANGED <<events, alive, gone>>
    BY <1>1, <2>1, <2>2 DEF SignalInv, Apart
  <2>3. CASE /\ alive' = alive \ {c} /\ gone' = gone \cup {c}
             /\ events' = [s \in Sources |-> IF s = c THEN <<>> ELSE events[s]]
    <3>1. Apart' /\ Computer \notin gone'
      BY <2>1, <2>3 DEF SignalInv, Apart
    <3>2. OwnEvents'
      <4>1. ASSUME NEW s \in Sources, NEW i \in 1..Len(events'[s]), events'[s][i] \in Signal
            PROVE  events'[s][i][1] = s
        <5>1. s # c
          BY <2>3, <4>1
        <5>2. events'[s] = events[s]
          BY <2>3, <5>1
        <5> QED
          BY <4>1, <5>2 DEF SignalInv, OwnEvents
      <4> QED
        BY <4>1 DEF OwnEvents
    <3>3. ASSUME NEW s \in Speakers PROVE Delivered(s)'
      <4>1. CASE s # c
        <5>1. Waiting(s)' = Waiting(s) /\ (s \in gone' <=> s \in gone)
          BY <2>3, <4>1 DEF Waiting, Speakers
        <5> QED
          BY <2>1, <3>1, <5>1, SignalPushed
      <4>2. CASE s = c
        <5>1. s \in Sources /\ s # Computer /\ s \in gone' /\ Delivered(s)
          BY <2>1, <2>3, <4>2, ToldBySpeaker DEF SignalInv, Speakers
        <5>2. made'[s] = made[s]
          BY <2>1, <5>1 DEF TypeOK, PushSignal
        <5>3. Waiting(s)' = <<>>
          BY <2>3, <4>2, <5>1, SelectEmpty DEF Waiting
        <5>4. From(s, signals)' = From(s, signals)
          <6>1. PICK f \in Seq(Signal), n \in Nat : f = signals /\ n = made[Computer]
            BY DEF TypeOK
          <6>2. PICK e \in Signal : e = <<Computer, n + 1>> /\ e[1] # s
            <7>1. <<Computer, n + 1>> \in Signal
              BY DEF Signal
            <7>2. <<Computer, n + 1>>[1] # s
              BY <5>1
            <7> QED
              BY <7>1, <7>2
          <6>3. From(s, Append(f, e)) = From(s, f)
            BY <6>2, FromAppend
          <6>4. signals' = Append(f, e)
            BY <2>1, <6>1, <6>2 DEF PushSignal
          <6> QED
            BY <6>1, <6>3, <6>4 DEF From
        <5>5. PICK h \in Seq(Signal), f \in Seq(Signal) :
                h = From(s, heard) /\ f = From(s, signals)
          BY ChainParts
        <5>6. PICK a \in Seq(Signal) : a = h \o f
          BY ConcatProperties
        <5>7. a \o <<>> = a
          BY ConcatEmptySeq
        <5>8. From(s, heard)' = h
          BY <2>1, <5>5 DEF From
        <5>9. Chain(s)' = a \o <<>>
          BY <5>3, <5>4, <5>5, <5>6, <5>8, Zenon DEF Chain
        <5>10. Chain(s)' = From(s, heard) \o From(s, signals)
          BY <5>5, <5>6, <5>7, <5>9
        <5> QED
          BY <5>1, <5>2, <5>10, ToldLess
      <4> QED
        BY <4>1, <4>2
    <3> QED
      BY <3>1, <3>2, <3>3, ToldBySpeaker DEF SignalInv
  <2> QED
    BY <1>4, <2>2, <2>3 DEF LuaRemoves, partVars
<1> QED
  BY <1>2, <1>3, <1>4

LEMMA OtherSignals ==
  ASSUME TypeOK, SignalInv,
         \/ BeginPass \/ NullUpdate \/ NothingToPop \/ StartLua \/ ResumeAfterSleep \/ Standby
         \/ LuaSleeps \/ LuaReboots \/ LuaHalts \/ Close \/ Destroy \/ Closed
         \/ UNCHANGED vars
  PROVE  SignalInv'
<1>1. UNCHANGED <<heard, signals, events, made, gone>> /\ alive' \subseteq alive
  BY DEF BeginPass, NullUpdate, NothingToPop, StartLua, ResumeAfterSleep, Standby, LuaSleeps,
         LuaReboots, LuaHalts, Close, Destroy, Closed, unchangedByPass, unchangedByClose,
         vars, partVars, countVars
<1> QED
  BY <1>1, SignalFrame DEF SignalInv, Apart

LEMMA SignalSteps == ASSUME TypeOK, SignalInv, [Next]_vars PROVE SignalInv'
BY LoadSignals, OutsideSignals, PopSignals, ResumeSignals, CallSignals, OtherSignals
DEF Next, MainThread, Lua

\* The signals of a component reach Lua in the order they were made, none lost and
\* none twice, whatever else the threads, Lua and the boots do meanwhile.
THEOREM SignalsArrive == Spec => []SignalsInOrder
<1>1. Init => TypeOK /\ SignalInv
  BY InitTypes, InitSignals
<1>2. TypeOK /\ SignalInv /\ [Next]_vars => (TypeOK /\ SignalInv)'
  BY TypeSteps, SignalSteps
<1>3. SignalInv => SignalsInOrder
  BY DEF SignalInv
<1> QED
  BY <1>1, <1>2, <1>3, PTL DEF Spec

-----------------------------------------------------------------------------
(* Lists of components *)

LEMMA ListsByPlace ==
  ASSUME NEW S, NEW l \in Seq(S), NEW A
  PROVE  Lists(l, A) <=> /\ \A i \in 1..Len(l) : l[i] \in A
                         /\ \A x \in A : \E i \in 1..Len(l) : l[i] = x
                         /\ \A i, j \in 1..Len(l) : l[i] = l[j] => i = j
                         /\ Leads(A) => ScreenFirst(l)
<1>1. DOMAIN l = 1..Len(l)
  OBVIOUS
<1>2. ToSet(l) = A <=> /\ \A i \in 1..Len(l) : l[i] \in A
                       /\ \A x \in A : \E i \in 1..Len(l) : l[i] = x
  BY <1>1 DEF ToSet
<1>3. IsInjective(l) <=> \A i, j \in 1..Len(l) : l[i] = l[j] => i = j
  BY <1>1 DEF IsInjective
<1> QED
  BY <1>2, <1>3 DEF Lists

\* A component is put behind the others.
LEMMA ListsAppend ==
  ASSUME NEW S, NEW l \in Seq(S), NEW A, Lists(l, A), NEW c \in S, c \notin A, c # Screen
  PROVE  Lists(Append(l, c), A \cup {c})
<1> DEFINE r == Append(l, c)
           n == Len(l)
<1>1. /\ r \in Seq(S) /\ Len(r) = n + 1 /\ r[n + 1] = c /\ n \in Nat
      /\ \A i \in 1..n : r[i] = l[i]
  BY AppendProperties
<1> HIDE DEF r
<1>2. /\ \A i \in 1..n : l[i] \in A
      /\ \A x \in A : \E i \in 1..n : l[i] = x
      /\ \A i, j \in 1..n : l[i] = l[j] => i = j
      /\ Leads(A) => ScreenFirst(l)
  BY ListsByPlace
<1> HIDE DEF n
<1>3. \A i \in 1..(n + 1) : i \in 1..n \/ i = n + 1
  BY <1>1
<1>4. \A i \in 1..(n + 1) : r[i] \in A \cup {c}
  BY <1>1, <1>2, <1>3
<1>5. ASSUME NEW x \in A \cup {c} PROVE \E i \in 1..(n + 1) : r[i] = x
  <2>1. CASE x = c
    <3>1. n + 1 \in 1..(n + 1)
      BY <1>1
    <3> QED
      BY <1>1, <2>1, <3>1
  <2>2. CASE x \in A
    <3>1. PICK i \in 1..n : l[i] = x
      BY <1>2, <2>2
    <3>2. i \in 1..(n + 1) /\ r[i] = x
      BY <1>1, <3>1
    <3> QED
      BY <3>2
  <2> QED
    BY <2>1, <2>2
<1>6. ASSUME NEW i \in 1..(n + 1), NEW j \in 1..(n + 1), r[i] = r[j] PROVE i = j
  BY <1>1, <1>2, <1>3, <1>6
<1>7. Leads(A \cup {c}) => ScreenFirst(r)
  <2> SUFFICES ASSUME Leads(A), NEW i \in 1..(n + 1), NEW j \in 1..(n + 1),
                      r[i] = Screen, r[j] \in Keyboards
               PROVE  i < j
    BY <1>1 DEF ScreenFirst, Leads
  <2>1. i \in 1..n /\ l[i] = Screen
    BY <1>1, <1>3
  <2>2. CASE j \in 1..n
    BY <1>1, <1>2, <2>1, <2>2 DEF ScreenFirst, n
  <2>3. CASE j = n + 1
    BY <1>1, <2>1, <2>3
  <2> QED
    BY <1>3, <2>2, <2>3
<1>8. Lists(r, A \cup {c})
  <2>1. PICK B : B = A \cup {c}
    OBVIOUS
  <2>2. /\ \A i \in 1..Len(r) : r[i] \in B
        /\ \A x \in B : \E i \in 1..Len(r) : r[i] = x
        /\ \A i, j \in 1..Len(r) : r[i] = r[j] => i = j
        /\ Leads(B) => ScreenFirst(r)
    BY <1>1, <1>4, <1>5, <1>6, <1>7, <2>1
  <2>3. Lists(r, B)
    BY <1>1, <2>2, ListsByPlace
  <2> QED
    BY <2>1, <2>3
<1> QED
  BY <1>8 DEF r

\* A component is taken from its place, and those behind it move down.
LEMMA ListsRemove ==
  ASSUME NEW S, NEW l \in Seq(S), NEW A, Lists(l, A), NEW k \in 1..Len(l), NEW r \in Seq(S),
         Len(r) = Len(l) - 1,
         \A a \in 1..Len(r) : r[a] = l[IF a < k THEN a ELSE a + 1]
  PROVE  Lists(r, A \ {l[k]})
<1> DEFINE n == Len(l)
           at(a) == IF a < k THEN a ELSE a + 1
<1>1. n \in Nat /\ n > 0 /\ k \in 1..n /\ Len(r) = n - 1
  OBVIOUS
<1>2. /\ \A i \in 1..n : l[i] \in A
      /\ \A x \in A : \E i \in 1..n : l[i] = x
      /\ \A i, j \in 1..n : l[i] = l[j] => i = j
      /\ Leads(A) => ScreenFirst(l)
  BY ListsByPlace
<1>3. \A a \in 1..(n - 1) : at(a) \in 1..n /\ at(a) # k /\ r[a] = l[at(a)]
  BY <1>1
<1>4. \A a, b \in 1..(n - 1) : /\ at(a) = at(b) => a = b
                               /\ at(a) < at(b) => a < b
  BY <1>1
<1>5. \A i \in 1..n : i # k => \E a \in 1..(n - 1) : at(a) = i
  <2> SUFFICES ASSUME NEW i \in 1..n, i # k PROVE \E a \in 1..(n - 1) : at(a) = i
    OBVIOUS
  <2>1. CASE i < k
    <3>1. i \in 1..(n - 1) /\ at(i) = i
      BY <1>1, <2>1
    <3> QED
      BY <3>1
  <2>2. CASE i > k
    <3>1. i - 1 \in 1..(n - 1) /\ at(i - 1) = i
      BY <1>1, <2>2
    <3> QED
      BY <3>1
  <2> QED
    BY <1>1, <2>1, <2>2
<1> HIDE DEF at, n
<1>6. \A a \in 1..(n - 1) : r[a] \in A \ {l[k]}
  BY <1>1, <1>2, <1>3
<1>7. ASSUME NEW x \in A \ {l[k]} PROVE \E a \in 1..(n - 1) : r[a] = x
  <2>1. PICK i \in 1..n : l[i] = x
    BY <1>2
  <2>2. PICK a \in 1..(n - 1) : at(a) = i
    BY <1>5, <2>1
  <2> QED
    BY <1>3, <2>1, <2>2
<1>8. ASSUME NEW a \in 1..(n - 1), NEW b \in 1..(n - 1), r[a] = r[b] PROVE a = b
  <2>1. l[at(a)] = l[at(b)] /\ at(a) \in 1..n /\ at(b) \in 1..n
    BY <1>3, <1>8
  <2>2. at(a) = at(b)
    BY <1>2, <2>1
  <2> QED
    BY <1>4, <2>2
<1>9. Leads(A \ {l[k]}) => ScreenFirst(r)
  <2> SUFFICES ASSUME Leads(A), NEW a \in 1..(n - 1), NEW b \in 1..(n - 1),
                      r[a] = Screen, r[b] \in Keyboards
               PROVE  a < b
    BY <1>1 DEF ScreenFirst, Leads
  <2>1. at(a) < at(b)
    BY <1>2, <1>3 DEF ScreenFirst, n
  <2> QED
    BY <1>4, <2>1
<1> QED
  <2>1. PICK B : B = A \ {l[k]}
    OBVIOUS
  <2>2. /\ \A i \in 1..Len(r) : r[i] \in B
        /\ \A x \in B : \E i \in 1..Len(r) : r[i] = x
        /\ \A i, j \in 1..Len(r) : r[i] = r[j] => i = j
        /\ Leads(B) => ScreenFirst(r)
    BY <1>1, <1>6, <1>7, <1>8, <1>9, <2>1
  <2>3. Lists(r, B)
    BY <2>2, ListsByPlace
  <2> QED
    BY <2>1, <2>3

\* The first component is destroyed: it is no keyboard of a screen that stays.
LEMMA ListsTail ==
  ASSUME NEW S, NEW l \in Seq(S), NEW A, Lists(l, A), l # <<>>
  PROVE  /\ Lists(Tail(l), A \ {Head(l)})
         /\ Leads(A \ {Head(l)}) => Head(l) \notin Keyboards
<1>1. Len(l) \in Nat /\ 1 \in 1..Len(l) /\ Head(l) = l[1]
  OBVIOUS
<1>2. /\ Tail(l) \in Seq(S) /\ Len(Tail(l)) = Len(l) - 1
      /\ \A a \in 1..Len(Tail(l)) : Tail(l)[a] = l[a + 1]
  BY HeadTailProperties
<1>3. PICK r \in Seq(S) : r = Tail(l)
  BY <1>2
<1>4. Len(r) = Len(l) - 1 /\ \A a \in 1..Len(r) : r[a] = l[IF a < 1 THEN a ELSE a + 1]
  BY <1>1, <1>2, <1>3
<1>5. Lists(r, A \ {l[1]})
  BY <1>1, <1>4, ListsRemove
<1>6. ASSUME Leads(A), Screen # l[1], l[1] \in Keyboards PROVE FALSE
  <2>1. ScreenFirst(l) /\ \E i \in 1..Len(l) : l[i] = Screen
    BY <1>6, ListsByPlace DEF Leads
  <2>2. PICK i \in 1..Len(l) : l[i] = Screen
    BY <2>1
  <2>3. i < 1
    BY <1>1, <1>6, <2>1, <2>2 DEF ScreenFirst
  <2> QED
    BY <1>1, <2>3
<1> QED
  BY <1>1, <1>3, <1>5, <1>6 DEF Leads

\* What has been loaded of the configuration.
LEMMA ListsPart ==
  ASSUME NEW n \in 0..Len(Config), NEW l, l = SubSeq(Config, 1, n)
  PROVE  Lists(l, ToSet(l))
<1>1. /\ l \in Seq(Components) /\ Len(l) = n /\ Len(Config) \in Nat
      /\ \A i \in 1..n : l[i] = Config[i] /\ i \in 1..Len(Config)
  BY PartOfConfig, ConfigFacts
<1>2. DOMAIN l = 1..n /\ DOMAIN Config = 1..Len(Config)
  BY <1>1, ConfigFacts
<1>3. IsInjective(l)
  BY <1>1, <1>2, MachineAssumption DEF IsInjective
<1>4. ScreenFirst(Config) => ScreenFirst(l)
  BY <1>1 DEF ScreenFirst
<1> QED
  BY <1>3, <1>4 DEF Lists, Leads

-----------------------------------------------------------------------------
(* The list is exact *)

LEMMA InitList == Init => ListInv
BY DEF Init, ListInv, Listed, Attached, UnderWay, Running

\* Steps that leave the list and its components alone.
LEMMA ListFrame ==
  ASSUME ListInv, UNCHANGED <<vec, doomed, alive, gone, attached>>, UnderWay',
         \/ phase' = phase
         \/ phase' = "crashed"
         \/ Running /\ phase' \in {"pass", "lua", "close", "crashed"}
  PROVE  ListInv'
<1>1. phase' \in {"pass", "lua", "close", "destroy"} =>
        /\ phase \in {"pass", "lua", "close", "destroy"}
        /\ phase' = "destroy" <=> phase = "destroy"
  BY DEF Running
<1>2. Running' => Running
  BY DEF Running
<1>3. phase' \in {"pass", "lua", "close", "destroy"} => Lists(List, alive)'
  BY <1>1, Zenon DEF ListInv, Listed, List, Lists, ScreenFirst, Leads
<1> QED
  BY <1>2, <1>3 DEF ListInv, Listed, Attached

\* A key that stays under way.
LEMMA StillUnderWay ==
  ASSUME TypeOK, UnderWay, typing # None => Screen \in alive',
         \/ ChangedUnderLoop
         \/ typing' = typing /\ attached' = attached
  PROVE  UnderWay'
<1>1. typing # None => typing \in Typing
  BY DEF TypeOK
<1>2. typing \in Typing => [typing EXCEPT !.changed = TRUE].changed
  BY DEF Typing
<1> QED
  BY <1>1, <1>2 DEF UnderWay, ChangedUnderLoop

LEMMA LoadList ==
  ASSUME TypeOK, Load \/ LoadFailed
  PROVE  ListInv'
<1>1. Len(Config) \in Nat
  BY ConfigFacts
<1>2. PICK n \in 0..Len(Config), m \in 0..Len(Config) :
        /\ NewClient(n, m) /\ m <= n /\ phase' \in {"pass", "close"}
        /\ phase' = "pass" => m = Len(Config) /\ n = Len(Config)
  <2>1. CASE Load
    BY <1>1, <2>1 DEF Load
  <2>2. CASE LoadFailed
    <3>1. PICK i \in 0..(Len(Config) - 1) :
            NewClient(i, 0) \/ NewClient(Len(Config), i)
      BY <2>2 DEF LoadFailed
    <3>2. phase' = "close"
      BY <2>2 DEF LoadFailed
    <3> QED
      BY <1>1, <3>1, <3>2
  <2> QED
    BY <2>1, <2>2
<1> DEFINE l == SubSeq(Config, 1, n)
           k == SubSeq(Config, 1, m)
<1>3. /\ vec' = l /\ alive' = ToSet(l) /\ attached' = Keyboards \cap ToSet(k)
  BY <1>2 DEF NewClient
<1>4. Lists(l, ToSet(l))
  BY ListsPart
<1>5. /\ l \in Seq(Components) /\ Len(l) = n /\ \A i \in 1..n : l[i] = Config[i]
      /\ k \in Seq(Components) /\ Len(k) = m /\ \A i \in 1..m : k[i] = Config[i]
  BY <1>1, PartOfConfig
<1>6. n = Len(Config) => l = Config
  <2> SUFFICES ASSUME n = Len(Config) PROVE l = Config
    OBVIOUS
  <2> HIDE DEF l
  <2>1. Len(l) = Len(Config) /\ \A i \in 1..Len(l) : l[i] = Config[i]
    BY <1>5
  <2> QED
    BY <1>5, <2>1, ConfigFacts, SeqEqual
<1>7. ToSet(k) \subseteq ToSet(l)
  <2>1. DOMAIN k = 1..m /\ DOMAIN l = 1..n
    BY <1>5
  <2> HIDE DEF k, l
  <2> QED
    BY <1>2, <1>5, <2>1 DEF ToSet
<1> HIDE DEF k
<1>8. Lists(List, alive)'
  <2>1. List' = l
    BY <1>2, <1>3 DEF List
  <2> HIDE DEF l
  <2> QED
    BY <1>3, <1>4, <2>1 DEF Lists, ScreenFirst, Leads
<1>9. phase' = "pass" => ToSet(Config) \subseteq alive' /\ attached' = Keyboards \cap alive'
  BY <1>2, <1>3, <1>6 DEF k
<1>10. Listed'
  BY <1>2, <1>8, <1>9 DEF Listed, Running
<1>11. attached' \subseteq alive'
  BY <1>3, <1>7
<1>12. Attached'
  BY <1>2, <1>9, <1>11 DEF Attached, Running
<1>13. UnderWay'
  <2>1. \/ typing' = None
        \/ /\ Screen \in alive'
           /\ \E key \in {"signal", "abort"} :
                typing' = [key |-> key, left |-> attached', changed |-> TRUE]
    BY <1>2 DEF NewClient
  <2> QED
    BY <2>1 DEF UnderWay
<1> QED
  BY <1>10, <1>12, <1>13 DEF ListInv

LEMMA AddList ==
  ASSUME TypeOK, ListInv, NEW c \in Components, LuaAdds(c)
  PROVE  ListInv'
<1>1. /\ phase = "lua" /\ phase' = "lua" /\ c \notin alive /\ c \notin gone
      /\ alive' = alive \cup {c} /\ gone' = gone /\ vec' = Append(vec, c)
      /\ attached' = IF c \in Keyboards /\ Screen \in ToSet(vec)
                     THEN attached \cup {c} ELSE attached
  BY DEF LuaAdds, Call
<1>2. Lists(vec, alive) /\ ToSet(Config) \subseteq alive \cup gone
  BY <1>1 DEF ListInv, Listed, List, Running
<1>3. c # Screen
  BY <1>1, <1>2, ConfigFacts
<1>4. PICK l \in Seq(Components) : l = vec
  BY DEF TypeOK
<1>5. Lists(Append(l, c), alive \cup {c})
  BY <1>1, <1>2, <1>3, <1>4, ListsAppend
<1>6. Listed'
  <2>1. List' = Append(l, c)
    BY <1>1, <1>4 DEF List
  <2>2. Lists(List, alive)'
    BY <1>1, <1>5, <2>1 DEF Lists, ScreenFirst, Leads
  <2> QED
    BY <1>1, <1>2, <2>2 DEF Listed
<1>7. Attached'
  <2> SUFFICES ASSUME Screen \in alive' PROVE attached' = Keyboards \cap alive'
    BY DEF Attached
  <2>1. Screen \in alive /\ Screen \in ToSet(vec)
    BY <1>1, <1>2, <1>3 DEF Lists
  <2>2. attached = Keyboards \cap alive
    BY <1>1, <2>1 DEF ListInv, Attached, Running
  <2> QED
    BY <1>1, <2>1, <2>2
<1>8. UnderWay'
  <2>1. UnderWay /\ ChangedUnderLoop
    BY DEF LuaAdds, ListInv
  <2>2. typing # None => Screen \in alive'
    BY <1>1, <2>1 DEF UnderWay
  <2> QED
    BY <2>1, <2>2, StillUnderWay
<1> QED
  BY <1>6, <1>7, <1>8 DEF ListInv

LEMMA RemoveList ==
  ASSUME TypeOK, ListInv, NEW c \in Components, LuaRemoves(c)
  PROVE  ListInv'
<1>1. phase = "lua" /\ c \in ToSet(vec) /\ doomed' = doomed
  BY DEF LuaRemoves, Call, unchangedByLua
<1>2. CASE phase' = "crashed" /\ UNCHANGED <<vec, partVars>>
  <2>1. UNCHANGED <<alive, gone, attached, typing>>
    BY <1>2 DEF partVars
  <2>2. UnderWay'
    BY <2>1 DEF ListInv, UnderWay
  <2> QED
    BY <1>1, <1>2, <2>1, <2>2, ListFrame
<1>3. CASE /\ vec' = RemoveAt(vec, Place(c)) /\ alive' = alive \ {c} /\ gone' = gone \cup {c}
           /\ attached' = IF c = Screen THEN {} ELSE attached \ {c}
           /\ phase' = phase /\ ChangedUnderLoop /\ (c = Screen => typing = None)
  <2>1. Lists(vec, alive) /\ ToSet(Config) \subseteq alive \cup gone
    BY <1>1 DEF ListInv, Listed, List, Running
  <2>2. PICK l \in Seq(Components) : l = vec
    BY DEF TypeOK
  <2>3. PICK k \in 1..Len(l) : k = Place(c) /\ l[k] = c
    BY <1>1, <2>2, PlaceInList
  <2>4. PICK r \in Seq(Components) :
          /\ r = RemoveAt(l, k) /\ Len(r) = Len(l) - 1
          /\ \A a \in 1..Len(r) : r[a] = l[IF a < k THEN a ELSE a + 1]
    BY RemoveAtPlaces
  <2>5. Lists(r, alive \ {c})
    <3>1. Lists(l, alive)
      BY <2>1, <2>2
    <3>2. Lists(r, alive \ {l[k]})
      BY <2>4, <3>1, ListsRemove
    <3> QED
      BY <2>3, <3>2
  <2>6. Listed'
    <3>1. List' = r
      BY <1>1, <1>3, <2>2, <2>3, <2>4 DEF List
    <3>2. Lists(List, alive)'
      BY <1>3, <2>5, <3>1 DEF Lists, ScreenFirst, Leads
    <3> QED
      BY <1>1, <1>3, <2>1, <3>2 DEF Listed
  <2>7. Attached'
    <3> SUFFICES ASSUME Screen \in alive' PROVE attached' = Keyboards \cap alive'
      BY DEF Attached
    <3>1. Screen \in alive /\ c # Screen
      BY <1>3
    <3>2. attached = Keyboards \cap alive
      BY <1>1, <3>1 DEF ListInv, Attached, Running
    <3> QED
      BY <1>3, <3>1, <3>2
  <2>8. UnderWay'
    <3>1. UnderWay /\ (typing # None => Screen \in alive')
      BY <1>3 DEF ListInv, UnderWay
    <3> QED
      BY <1>3, <3>1, StillUnderWay
  <2> QED
    BY <2>6, <2>7, <2>8 DEF ListInv
<1> QED
  BY <1>2, <1>3 DEF LuaRemoves

LEMMA CloseList == ASSUME TypeOK, ListInv, Close \/ Destroy \/ Closed PROVE ListInv'
<1>1. CASE Close
  <2>1. /\ phase = "close" /\ phase' = "destroy" /\ doomed' = vec
        /\ UNCHANGED <<alive, attached, typing>>
    BY <1>1 DEF Close
  <2>2. Lists(vec, alive) /\ List' = vec
    BY <2>1 DEF ListInv, Listed, List
  <2>3. Lists(List, alive)'
    BY <2>1, <2>2 DEF Lists, ScreenFirst, Leads
  <2> QED
    BY <2>1, <2>3 DEF ListInv, Listed, Attached, UnderWay, Running
<1>2. CASE Destroy
  <2>1. /\ phase = "destroy" /\ phase' = "destroy" /\ doomed # <<>> /\ doomed' = Tail(doomed)
        /\ alive' = alive \ {Head(doomed)}
        /\ attached' = IF Head(doomed) = Screen THEN {} ELSE attached
        /\ typing' = typing /\ (Head(doomed) = Screen => typing = None)
    BY <1>2 DEF Destroy
  <2>2. PICK l \in Seq(Components) : l = doomed
    BY DEF TypeOK
  <2>3. Lists(l, alive)
    BY <2>1, <2>2 DEF ListInv, Listed, List
  <2>4. /\ Lists(Tail(l), alive \ {Head(l)})
        /\ Leads(alive \ {Head(l)}) => Head(l) \notin Keyboards
    BY <2>1, <2>2, <2>3, ListsTail
  <2>5. Lists(List, alive)'
    <3>1. PICK r : r = Tail(l)
      OBVIOUS
    <3>2. List' = r /\ alive' = alive \ {Head(l)}
      BY <2>1, <2>2, <3>1 DEF List
    <3>3. Lists(r, alive')
      BY <2>4, <3>1, <3>2
    <3> QED
      BY <3>2, <3>3 DEF Lists, ScreenFirst, Leads
  <2>6. Leads(alive') => attached' \subseteq alive'
    <3> SUFFICES ASSUME Screen \in alive', ScreenFirst(Config) PROVE attached' \subseteq alive'
      BY DEF Leads
    <3>1. Screen \in alive /\ Head(doomed) # Screen /\ Head(doomed) \notin Keyboards
      BY <2>1, <2>2, <2>4 DEF Leads
    <3>2. attached \subseteq alive /\ attached \subseteq Keyboards
      BY <3>1 DEF ListInv, Attached, TypeOK
    <3> QED
      BY <2>1, <3>1, <3>2
  <2>7. UnderWay'
    BY <2>1 DEF ListInv, UnderWay
  <2> QED
    BY <2>1, <2>5, <2>6, <2>7 DEF ListInv, Listed, Attached, Running, Leads
<1>3. CASE Closed
  <2>1. phase' \in {"load", "over"} /\ UNCHANGED <<alive, attached, typing>>
    BY <1>3 DEF Closed, partVars
  <2> QED
    BY <2>1 DEF ListInv, Listed, Attached, UnderWay, Running
<1> QED
  BY <1>1, <1>2, <1>3

LEMMA OtherList ==
  ASSUME TypeOK, ListInv,
         \/ BeginPass \/ NullUpdate \/ PopEvent \/ NothingToPop \/ StartLua
         \/ ResumeWithSignal \/ ResumeAfterSleep \/ Standby
         \/ LuaPushes \/ LuaSleeps \/ LuaReboots \/ LuaHalts \/ Outside \/ UNCHANGED vars
  PROVE  ListInv'
<1>1. UNCHANGED <<vec, doomed, alive, gone, attached>>
  BY DEF BeginPass, NullUpdate, PopEvent, NothingToPop, StartLua, ResumeWithSignal,
         ResumeAfterSleep, Standby, LuaPushes, LuaSleeps, LuaReboots, LuaHalts, Outside,
         KeyTyped, PushKey, EventArrived, Tick, unchangedOutside, unchangedByPass,
         unchangedByLua, vars, loopVars, partVars
<1>2. \/ phase' = phase
      \/ phase' = "crashed"
      \/ Running /\ phase' \in {"pass", "lua", "close", "crashed"}
  BY DEF BeginPass, NullUpdate, PopEvent, NothingToPop, StartLua, ResumeWithSignal,
         ResumeAfterSleep, Standby, LuaPushes, LuaSleeps, LuaReboots, LuaHalts, Outside,
         KeyTyped, PushKey, EventArrived, Tick, Updating, NextComponent, EndWith, Call, Running,
         vars
<1>3. UnderWay'
  <2>1. UnderWay
    BY DEF ListInv
  <2>2. CASE typing' = typing
    BY <1>1, <2>1, <2>2 DEF UnderWay
  <2>3. CASE KeyTyped
    <3>1. /\ Screen \in alive
          /\ \E key \in {"signal", "abort"} :
               typing' = [key |-> key, left |-> attached, changed |-> FALSE]
      BY <2>3 DEF KeyTyped
    <3> QED
      BY <1>1, <3>1 DEF UnderWay
  <2>4. CASE PushKey
    <3>1. PICK k \in typing.left :
            typing' = IF typing.left = {k} THEN None ELSE [typing EXCEPT !.left = @ \ {k}]
      BY <2>4 DEF PushKey
    <3>2. typing \in Typing /\ typing # None
      BY <2>4 DEF PushKey, TypeOK
    <3>3. PICK t : t = [typing EXCEPT !.left = @ \ {k}]
      OBVIOUS
    <3>4. t.changed = typing.changed /\ t.left \subseteq typing.left
      BY <3>2, <3>3 DEF Typing
    <3>5. typing' = None \/ typing' = t
      BY <3>1, <3>3
    <3> QED
      BY <1>1, <2>1, <3>2, <3>4, <3>5 DEF UnderWay
  <2>5. \/ typing' = typing \/ KeyTyped \/ PushKey
    BY DEF BeginPass, NullUpdate, PopEvent, NothingToPop, StartLua, ResumeWithSignal,
           ResumeAfterSleep, Standby, LuaPushes, LuaSleeps, LuaReboots, LuaHalts, Outside,
           EventArrived, Tick, unchangedByPass, unchangedByLua, vars, partVars
  <2> QED
    BY <2>2, <2>3, <2>4, <2>5
<1> QED
  BY <1>1, <1>2, <1>3, ListFrame

LEMMA ListSteps ==
  ASSUME TypeOK, ListInv, [Next]_vars
  PROVE  ListInv'
BY LoadList, AddList, RemoveList, CloseList, OtherList DEF Next, MainThread, Lua

LEMMA ListSafe ==
  ASSUME TypeOK, ListInv
  PROVE  ListIsExact /\ (ScreenFirst(Config) => ComponentsExist)
<1>1. Running => Lists(vec, alive)
  BY DEF ListInv, Listed, List, Running
<1> QED
  BY <1>1 DEF ComponentsExist, ListIsExact, KeyboardsExist, ListInv, Attached, UnderWay, Lists

LEMMA ListAlways == Spec => [](TypeOK /\ ListInv)
<1>1. Init => TypeOK /\ ListInv
  BY InitTypes, InitList
<1>2. TypeOK /\ ListInv /\ [Next]_vars => (TypeOK /\ ListInv)'
  BY TypeSteps, ListSteps
<1> QED
  BY <1>1, <1>2, PTL DEF Spec

\* While the machine runs, the list is exact, in whatever order client.cfg names the
\* components and whatever Lua adds and removes.
THEOREM ListStaysExact == Spec => []ListIsExact
<1>1. TypeOK /\ ListInv => ListIsExact
  BY ListSafe
<1> QED
  BY <1>1, ListAlways, PTL

\* Where the screen comes before its keyboards in client.cfg, the keyboards that the
\* terminal's thread pushes to exist, too, up to the end of the last component; also those
\* it comes to in the middle of a key, unless keyboards were connected or disconnected
\* since it began.
THEOREM KeyboardsOutlived == ScreenFirst(Config) => (Spec => []ComponentsExist)
<1> SUFFICES ASSUME ScreenFirst(Config) PROVE Spec => []ComponentsExist
  OBVIOUS
<1>1. TypeOK /\ ListInv => ComponentsExist
  BY ListSafe
<1> QED
  BY <1>1, ListAlways, PTL
=============================================================================
