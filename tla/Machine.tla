------------------------------- MODULE Machine -------------------------------
(***************************************************************************)
(* The emulated machine: the boot loop (main.cpp), the Client and its list of *)
(* components (model/client.cpp), the Computer that runs Lua                  *)
(* (components/computer.cpp) and the components that turn events of other     *)
(* threads into Lua signals (io/event.h; keyboard, screen and modem).          *)
(*                                                                           *)
(* The main thread loads the components, updates them in the order of the     *)
(* list, pass after pass, until one answers Halt or Reboot, and destroys them. *)
(* The Computer's update runs Lua, which may push signals and, through the     *)
(* sandbox component, add and remove components while the pass is under way:   *)
(* the loop of Client::run goes on over the vector as it was.  The terminal's  *)
(* and the modem's threads push events at any time; a key is given to one        *)
(* keyboard after the other, and nothing keeps the main thread from connecting,    *)
(* disconnecting and destroying keyboards meanwhile.                            *)
(*                                                                           *)
(* Other calls of Lua into components change nothing that is kept here.  Lua   *)
(* does not remove its own computer.                                          *)
(***************************************************************************)
EXTENDS Subsequence, SequencesExt

CONSTANTS
  Config,      \* the components listed in client.cfg, in order
  Spare,       \* components the sandbox may add
  Computer, Screen,
  Keyboards,   \* those that are connected to Screen by postInit
  Sources,     \* components with an EventSource
  None,
  MaxEvents,   \* bound: times something is typed, clicked or received, per boot
  MaxCalls,    \* bound: Lua calls that change this state, per boot
  MaxBoots     \* bound: boots

Components == ToSet(Config) \cup Spare

ASSUME MachineAssumption ==
  /\ Config \in Seq(Components) /\ IsInjective(Config)
  /\ Computer \in ToSet(Config) /\ Screen \in ToSet(Config)
  /\ Keyboards \cup {Screen} \subseteq Sources
  /\ Sources \subseteq Components \ {Computer}
  /\ None \notin Components
  /\ MaxEvents \in Nat /\ MaxCalls \in Nat /\ MaxBoots \in Nat

VARIABLES
  \* the main thread
  phase,      \* "load", "pass", "lua" (inside the Computer's update), "close",
              \* "destroy", "over" (main returns), "crashed" (SIGSEGV)
  run,        \* the RunState the loop ended with
  vec,        \* _components
  cap,        \* its capacity
  cursor,     \* position of Client::run's loop
  last,       \* its end, taken at the start of the pass
  moved,      \* the vector has been reallocated since
  doomed,     \* comp_copy in Client::close
  crashText,  \* _crash is not empty
  \* the components
  alive,      \* those constructed and not destroyed
  gone,       \* those removed in this boot
  attached,   \* _keyboards of Screen
  typing,     \* the loop of Screen::push(KeyEvent), or None: the key, the keyboards that
              \* still get it, and whether _keyboards was changed since it began
  events,     \* the queue of each EventSource
  \* the Computer
  lua,        \* lua_status(_state): "fresh" or "yielded"
  timer,      \* _standby is "due", comes "later" or "never"
  signals,    \* _signals
  \* history and bounds
  heard,      \* signals given to Lua in this boot
  made,       \* signals each source (and the Computer) gave rise to
  inputs, calls, boots

loopVars  == <<run, vec, cap, cursor, last, moved>>
partVars  == <<alive, gone, attached, typing>>
countVars == <<inputs, calls, boots>>
vars == <<phase, loopVars, doomed, crashText, partVars, events,
          lua, timer, signals, heard, made, countVars>>

\* A signal is known by the component it is about and a number.  An event is a
\* signal to be, one that is ignored (a button released, a packet that does not
\* apply), or the key that aborts.
Signal == (Sources \cup {Computer}) \X Nat
Event  == Signal \cup {"ignored", "abort"}

Typing == [key : {"signal", "abort"}, left : SUBSET Keyboards, changed : BOOLEAN]

ASSUME EventsAssumption == {"ignored", "abort"} \cap Signal = {}

TypeOK ==
  /\ phase \in {"load", "pass", "lua", "close", "destroy", "over", "crashed"}
  /\ run \in {"Continue", "Reboot", "Halt"}
  /\ vec \in Seq(Components) /\ doomed \in Seq(Components)
  /\ cap \in Nat /\ cursor \in Nat /\ last \in Nat /\ moved \in BOOLEAN
  /\ crashText \in BOOLEAN
  /\ alive \subseteq Components /\ gone \subseteq Components
  /\ attached \subseteq Keyboards /\ typing \in Typing \cup {None}
  /\ events \in [Sources -> Seq(Event)]
  /\ lua \in {"fresh", "yielded"}
  /\ timer \in {"due", "later", "never"}
  /\ signals \in Seq(Signal) /\ heard \in Seq(Signal)
  /\ made \in [Sources \cup {Computer} -> Nat]
  /\ inputs \in 0..MaxEvents /\ calls \in 0..MaxCalls /\ boots \in 0..MaxBoots

Init ==
  /\ phase = "load" /\ run = "Continue"
  /\ vec = <<>> /\ cap = 0 /\ cursor = 1 /\ last = 0 /\ moved = FALSE
  /\ doomed = <<>> /\ crashText = FALSE
  /\ alive = {} /\ gone = {} /\ attached = {} /\ typing = None
  /\ events = [s \in Sources |-> <<>>]
  /\ lua = "fresh" /\ timer = "due" /\ signals = <<>>
  /\ heard = <<>> /\ made = [s \in Sources \cup {Computer} |-> 0]
  /\ inputs = 0 /\ calls = 0 /\ boots = 0

-----------------------------------------------------------------------------
(* The other threads *)

\* Something is typed, clicked or received.
Input == inputs < MaxEvents /\ inputs' = inputs + 1

\* EventSource::push.
Push(s, kind) ==
  /\ events' = [events EXCEPT ![s] =
                 Append(@, IF kind = "signal" THEN <<s, made[s] + 1>> ELSE kind)]
  /\ made' = IF kind = "signal" THEN [made EXCEPT ![s] = @ + 1] ELSE made

unchangedOutside == UNCHANGED <<loopVars, doomed, crashText, alive, gone, attached, lua, timer,
                                signals, heard, calls, boots>>

\* Screen::push(KeyEvent), by the terminal's thread while the screen's frame is open,
\* begins to go through the keyboards.
KeyTyped ==
  /\ Screen \in alive /\ attached # {} /\ typing = None
  /\ Input
  /\ \E key \in {"signal", "abort"} :
       typing' = [key |-> key, left |-> attached, changed |-> FALSE]
  /\ UNCHANGED <<phase, events, made>> /\ unchangedOutside

\* The next keyboard gets the key.  One that was destroyed does not, nor need one
\* after a change of the vector under the loop (its buffer may have been given up);
\* either may be the end of the process.
PushKey ==
  /\ typing # None
  /\ \E k \in typing.left :
       /\ typing' = IF typing.left = {k} THEN None ELSE [typing EXCEPT !.left = @ \ {k}]
       /\ \/ k \in alive /\ Push(k, typing.key) /\ UNCHANGED phase
          \/ /\ k \notin alive \/ typing.changed
             /\ phase' \in {phase, "crashed"} /\ UNCHANGED <<events, made>>
  /\ UNCHANGED inputs /\ unchangedOutside

\* Screen::push(MouseEvent), or ModemDriver::runOnce.
EventArrived(s) ==
  /\ s \in (Sources \ Keyboards) \cap alive
  /\ Input
  /\ \E kind \in {"signal", "ignored"} : Push(s, kind)
  /\ UNCHANGED <<phase, typing>> /\ unchangedOutside

\* The time in _standby comes.
Tick ==
  /\ timer = "later" /\ phase \in {"pass", "lua"}
  /\ timer' = "due"
  /\ UNCHANGED <<phase, loopVars, doomed, crashText, partVars, events, lua, signals,
                 heard, made, countVars>>

Outside == \/ phase # "crashed" /\ (KeyTyped \/ PushKey \/ \E s \in Sources : EventArrived(s))
           \/ Tick

-----------------------------------------------------------------------------
(* Boot: a new Client, and Client::load *)

\* push_back doubles the capacity when there is no room: what it is after n of them.
Capacity(n) ==
  LET capacity[i \in 0..n] == IF i <= 1 THEN i
                             ELSE IF capacity[i - 1] = i - 1 THEN 2 * (i - 1)
                             ELSE capacity[i - 1]
  IN  capacity[n]

\* A new Client with its first n components, of which the first m are connected.  The
\* frame is open before the keyboards are connected: a key may be on its way meanwhile.
NewClient(n, m) ==
  /\ phase = "load"
  /\ boots < MaxBoots /\ boots' = boots + 1
  /\ vec' = SubSeq(Config, 1, n) /\ cap' = Capacity(n)
  /\ cursor' = 1 /\ last' = n /\ moved' = FALSE
  /\ alive' = ToSet(vec') /\ gone' = {}
  /\ attached' = Keyboards \cap ToSet(SubSeq(Config, 1, m))
  /\ events' = [s \in Sources |-> <<>>]
  /\ lua' = "fresh" /\ timer' = "due" /\ signals' = <<>>
  /\ heard' = <<>> /\ made' = [s \in Sources \cup {Computer} |-> 0]
  /\ calls' = 0
  /\ \/ typing' = None /\ inputs' = 0
     \/ /\ Screen \in alive' /\ attached' # {}
        /\ MaxEvents > 0 /\ inputs' = 1
        /\ \E key \in {"signal", "abort"} :
             typing' = [key |-> key, left |-> attached', changed |-> TRUE]
  /\ UNCHANGED doomed

Load ==
  /\ NewClient(Len(Config), Len(Config))
  /\ phase' = "pass" /\ run' = "Continue" /\ crashText' = FALSE

\* A component cannot be made, or its postInit fails: the loop is left.  Only
\* the Computer's postInit says something about it.
LoadFailed ==
  /\ \/ \E n \in 0..(Len(Config) - 1) : NewClient(n, 0) /\ crashText' = FALSE
     \/ \E m \in 0..(Len(Config) - 1) :
          NewClient(Len(Config), m) /\ crashText' = (Config[m + 1] = Computer)
  /\ phase' = "close" /\ run' = "Halt"

-----------------------------------------------------------------------------
(* Client::run *)

\* What the loop finds at its position: nothing in a buffer that was given up,
\* nor behind the end of a vector that has shrunk.
Current == IF moved \/ cursor > Len(vec) THEN None ELSE vec[cursor]

Updating == phase = "pass" /\ cursor <= last

unchangedByPass == UNCHANGED <<vec, cap, doomed, partVars, made, countVars>>

NextComponent == /\ phase' = "pass" /\ cursor' = cursor + 1
                 /\ UNCHANGED <<run, last, moved>>

EndWith(state) == /\ phase' = "close" /\ run' = state
                  /\ UNCHANGED <<cursor, last, moved>>

BeginPass ==
  /\ phase = "pass" /\ cursor > last
  /\ cursor' = 1 /\ last' = Len(vec) /\ moved' = FALSE
  /\ UNCHANGED <<phase, run, crashText, events, lua, timer, signals, heard>>
  /\ unchangedByPass

\* pc->update() on a null unique_ptr.
NullUpdate ==
  /\ Updating /\ Current = None
  /\ phase' = "crashed"
  /\ UNCHANGED <<run, cursor, last, moved, crashText, events, lua, timer, signals, heard>>
  /\ unchangedByPass

\* Mutant: the abort key is read and does nothing.
PopUnheeded ==
  /\ Updating /\ Current \in Sources /\ events[Current] # <<>>
  /\ events' = [events EXCEPT ![Current] = Tail(@)]
  /\ LET e == Head(events[Current]) IN
     signals' = IF e \in Signal THEN Append(signals, e) ELSE signals
  /\ UNCHANGED <<phase, run, cursor, last, moved>>
  /\ UNCHANGED <<crashText, lua, timer, heard>> /\ unchangedByPass

\* update() of a source: pop, under the source's lock, until there is nothing.
PopEvent ==
  /\ Updating /\ Current \in Sources /\ events[Current] # <<>>
  /\ events' = [events EXCEPT ![Current] = Tail(@)]
  /\ LET e == Head(events[Current]) IN
     /\ signals' = IF e \in Signal THEN Append(signals, e) ELSE signals
     /\ IF e = "abort" THEN EndWith("Halt")
        ELSE UNCHANGED <<phase, run, cursor, last, moved>>
  /\ UNCHANGED <<crashText, lua, timer, heard>> /\ unchangedByPass

NothingToPop ==
  /\ Updating /\ Current \notin {None, Computer}
  /\ Current \in Sources => events[Current] = <<>>
  /\ NextComponent
  /\ UNCHANGED <<crashText, events, lua, timer, signals, heard>> /\ unchangedByPass

\* Computer::update: the first time Lua is started; later it is resumed with the
\* next signal, or with nothing when the sleep is over.
StartLua ==
  /\ Updating /\ Current = Computer /\ lua = "fresh"
  /\ phase' = "lua"
  /\ UNCHANGED <<run, cursor, last, moved, crashText, events, lua, timer, signals, heard>>
  /\ unchangedByPass

\* Mutant: the signal stays in the queue.
ResumeWithoutPop ==
  /\ Updating /\ Current = Computer /\ lua = "yielded"
  /\ signals # <<>>
  /\ Len(heard) < MaxEvents + MaxCalls
  /\ heard' = Append(heard, Head(signals))
  /\ phase' = "lua"
  /\ UNCHANGED <<run, cursor, last, moved, crashText, events, lua, timer, signals>>
  /\ unchangedByPass

ResumeWithSignal ==
  /\ Updating /\ Current = Computer /\ lua = "yielded"
  /\ signals # <<>>
  /\ heard' = Append(heard, Head(signals))
  /\ signals' = Tail(signals)
  /\ phase' = "lua"
  /\ UNCHANGED <<run, cursor, last, moved, crashText, events, lua, timer>>
  /\ unchangedByPass

\* Mutant: the comparison with the time is the wrong way round.
ResumeTooEarly ==
  /\ Updating /\ Current = Computer /\ lua = "yielded"
  /\ signals = <<>> /\ timer # "due"
  /\ phase' = "lua"
  /\ UNCHANGED <<run, cursor, last, moved, crashText, events, lua, timer, signals, heard>>
  /\ unchangedByPass

ResumeAfterSleep ==
  /\ Updating /\ Current = Computer /\ lua = "yielded"
  /\ signals = <<>> /\ timer = "due"
  /\ phase' = "lua"
  /\ UNCHANGED <<run, cursor, last, moved, crashText, events, lua, timer, signals, heard>>
  /\ unchangedByPass

\* Mutant: a sleep is not interrupted by signals.
StandbyAnyway ==
  /\ Updating /\ Current = Computer /\ lua = "yielded"
  /\ timer # "due"
  /\ NextComponent
  /\ UNCHANGED <<crashText, events, lua, timer, signals, heard>> /\ unchangedByPass

Standby ==
  /\ Updating /\ Current = Computer /\ lua = "yielded"
  /\ signals = <<>> /\ timer # "due"
  /\ NextComponent
  /\ UNCHANGED <<crashText, events, lua, timer, signals, heard>> /\ unchangedByPass

-----------------------------------------------------------------------------
(* Lua, between resume and yield *)

unchangedByLua == UNCHANGED <<run, cursor, last, doomed, crashText, lua, timer,
                              heard, inputs, boots>>

Call == phase = "lua" /\ calls < MaxCalls /\ calls' = calls + 1

\* Computer::pushSignal.
PushSignal == /\ signals' = Append(signals, <<Computer, made[Computer] + 1>>)
              /\ made' = [made EXCEPT ![Computer] = @ + 1]

LuaPushes ==
  /\ Call /\ PushSignal
  /\ UNCHANGED <<phase, vec, cap, moved, partVars, events>>
  /\ unchangedByLua

\* connectKeyboard and disconnectKeyboard change the vector that the terminal's thread
\* may be going through.
ChangedUnderLoop ==
  typing' = IF typing = None \/ attached' = attached THEN typing
            ELSE [typing EXCEPT !.changed = TRUE]

\* Client::add_component: initialize and postInit, then push_back and the signal.
LuaAdds(c) ==
  /\ Call /\ c \in Spare \ (alive \cup gone)
  /\ alive' = alive \cup {c}
  /\ attached' = IF c \in Keyboards /\ Screen \in ToSet(vec)
                 THEN attached \cup {c} ELSE attached
  /\ ChangedUnderLoop
  /\ vec' = Append(vec, c)
  /\ cap' = IF Len(vec) = cap THEN 2 * cap ELSE cap
  /\ moved' = (moved \/ Len(vec) = cap)
  /\ PushSignal
  /\ UNCHANGED <<phase, gone, events>> /\ unchangedByLua

\* Destructors that look other components up in the list: ~Keyboard, and
\* ~Screen, which detaches its keyboards.
SearchesList(c) == c \in Keyboards \/ (c = Screen /\ attached # {})

\* Where the list has a component.
Place(c) == CHOOSE i \in 1..Len(vec) : vec[i] = c

\* Client::remove_component: the signal, then erase.  erase moves what follows
\* one place down, and the component is destroyed when its successor is put in
\* its place: the successor's old place is null then, and a search of the list
\* runs into it.  The last component is destroyed after the vector has shrunk.  A screen
\* closes its frame, which waits for the terminal's thread.
LuaRemoves(c) ==
  /\ Call /\ c \in ToSet(vec) \ {Computer}
  /\ PushSignal
  /\ IF SearchesList(c) /\ c # Last(vec)
     THEN /\ phase' = "crashed"
          /\ UNCHANGED <<vec, partVars, events>>
     ELSE /\ c = Screen => typing = None
          /\ vec' = RemoveAt(vec, Place(c))
          /\ alive' = alive \ {c}
          /\ gone' = gone \cup {c}
          /\ attached' = IF c = Screen THEN {} ELSE attached \ {c}
          /\ ChangedUnderLoop
          /\ events' = [s \in Sources |-> IF s = c THEN <<>> ELSE events[s]]
          /\ UNCHANGED phase
  /\ UNCHANGED <<cap, moved>> /\ unchangedByLua

\* A yield with a number or nil sets _standby; one without values does not.
LuaSleeps ==
  /\ phase = "lua"
  /\ NextComponent
  /\ lua' = "yielded"
  /\ timer' \in {timer, "due", "later", "never"}
  /\ UNCHANGED <<crashText, events, signals, heard>> /\ unchangedByPass

LuaReboots ==
  /\ phase = "lua"
  /\ EndWith("Reboot")
  /\ lua' = "yielded"
  /\ UNCHANGED <<crashText, events, timer, signals, heard>> /\ unchangedByPass

\* Shutdown, an unsupported yield or an error; or a panic, which is reported.
LuaHalts ==
  /\ phase = "lua"
  /\ EndWith("Halt")
  /\ lua' = "yielded"
  /\ crashText' \in {crashText, TRUE}
  /\ UNCHANGED <<events, timer, signals, heard>> /\ unchangedByPass

Lua == \/ LuaPushes \/ LuaSleeps \/ LuaReboots \/ LuaHalts
       \/ \E c \in Components : LuaAdds(c) \/ LuaRemoves(c)

-----------------------------------------------------------------------------
(* ~Client *)

unchangedByClose == UNCHANGED <<run, cap, cursor, last, moved, crashText, gone, events,
                                lua, timer, signals, heard, made, countVars>>

\* Client::close: the components leave the list, and _crash is written to stderr.
Close ==
  /\ phase = "close"
  /\ doomed' = vec
  /\ vec' = <<>>
  /\ phase' = "destroy"
  /\ UNCHANGED <<alive, attached, typing>> /\ unchangedByClose

\* Mutant: the frame is closed without waiting for the terminal's thread.
DestroyAtOnce ==
  /\ phase = "destroy" /\ doomed # <<>>
  /\ alive' = alive \ {Head(doomed)}
  /\ attached' = IF Head(doomed) = Screen THEN {} ELSE attached
  /\ doomed' = Tail(doomed)
  /\ UNCHANGED <<phase, vec, typing>> /\ unchangedByClose

\* comp_copy goes out of scope.  No component finds another one any more; a screen
\* closes its frame, which waits for the terminal's thread.
Destroy ==
  /\ phase = "destroy" /\ doomed # <<>>
  /\ Head(doomed) = Screen => typing = None
  /\ alive' = alive \ {Head(doomed)}
  /\ attached' = IF Head(doomed) = Screen THEN {} ELSE attached
  /\ doomed' = Tail(doomed)
  /\ UNCHANGED <<phase, vec, typing>> /\ unchangedByClose

Closed ==
  /\ phase = "destroy" /\ doomed = <<>>
  /\ phase' = IF run = "Reboot" THEN "load" ELSE "over"
  /\ UNCHANGED <<vec, doomed, partVars>> /\ unchangedByClose

-----------------------------------------------------------------------------
MainThread ==
  \/ Load \/ LoadFailed
  \/ BeginPass \/ NullUpdate \/ PopEvent \/ NothingToPop
  \/ StartLua \/ ResumeWithSignal \/ ResumeAfterSleep \/ Standby \/ Lua
  \/ Close \/ Destroy \/ Closed

Next == MainThread \/ Outside

Spec == Init /\ [][Next]_vars

\* The main thread goes on, which includes that Lua yields (machine.lua has a
\* deadline for that), and time passes.
FairSpec == Spec /\ WF_vars(MainThread) /\ WF_vars(Tick)

-----------------------------------------------------------------------------
(* Properties *)

Running == phase \in {"pass", "lua"}

From(s, signalSeq) == Select(signalSeq, {s} \X Nat)

\* The signals of a component reach Lua in the order its events were pushed, none
\* lost or doubled on the way: what Lua heard, what waits in the Computer and
\* what waits in the source make up all there was.  (The queue of a removed
\* source goes with it.)
SignalsInOrder ==
  \A s \in Sources \cup {Computer} :
    LET waiting == IF s = Computer THEN <<>>
                   ELSE Select(events[s], Signal)
        all == From(s, heard) \o From(s, signals) \o waiting
        due == [n \in 1..made[s] |-> <<s, n>>]
    IN  IF s \in gone THEN IsPrefix(all, due) ELSE all = due

\* The keyboards that the terminal's thread would push a key to exist, and so do those
\* to which it has still to push one, unless keyboards were connected or disconnected
\* while it went through them.
KeyboardsExist ==
  /\ Screen \in alive => attached \subseteq alive
  /\ typing # None => typing.changed \/ typing.left \subseteq alive

\* While the machine runs the list is exact: it holds the components that exist,
\* each once, and Screen knows the keyboards on it.
ListIsExact ==
  Running => /\ ToSet(vec) = alive /\ IsInjective(vec)
             /\ Screen \in alive => attached = Keyboards \cap alive

\* What the main thread walks over is there, and what the terminal's thread pushes to,
\* in the middle of a key as well, whatever was added, removed or destroyed; when the
\* client goes, the screen's frame waits for that thread before the keyboards behind it
\* in client.cfg are destroyed.
ComponentsExist == ListIsExact /\ KeyboardsExist

\* Every signal is heard in time, unless the boot ends or its component goes.
SignalsAreHeard ==
  \A s \in Sources \cup {Computer} : \A n \in 1..(IF s = Computer THEN MaxCalls ELSE MaxEvents) :
    Running /\ made[s] >= n
      ~> ~Running \/ s \in gone \/ Len(From(s, heard)) >= n

\* The abort key ends the boot, unless its keyboard goes.
AbortIsHeeded ==
  \A k \in Keyboards :
    Running /\ k \in alive /\ Contains(events[k], "abort") ~> ~Running \/ k \in gone

\* A machine that sleeps for a time is woken up.
SleeperWakes == phase = "pass" /\ timer = "later" ~> phase = "lua" \/ ~Running

\* "some components detach from each other during dtor and to find each other,
\* they may use component.list" (client.cpp:166-167): a removal while the machine
\* runs does not crash.
RemovalSurvives == phase # "crashed"

\* "kb events are duplicated to all kbs" (screen.cpp:194): a key that is being typed goes
\* to keyboards.
KeysGoToKeyboards == typing # None => typing.left \subseteq alive

\* "now the screen should be closed, we can report crash info" (client.cpp:174).
ReportedOffScreen == phase = "destroy" /\ crashText => Screen \notin alive
=============================================================================
