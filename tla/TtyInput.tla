------------------------------ MODULE TtyInput ------------------------------
(***************************************************************************)
(* The terminal's input: the thread of TtyReader (drivers/raw_tty.cpp) takes   *)
(* bytes from the tty into its buffer and has them parsed, one report or key a *)
(* run, by the mouse driver (drivers/mouse_drv.cpp) and by one of the two       *)
(* keyboard drivers (drivers/kb_drv.cpp): of a console, which tells presses and *)
(* releases, or of a pty, which only tells what was typed.  The table of keys   *)
(* (drivers/kb_data.cpp) is a constant.                                       *)
(***************************************************************************)
EXTENDS Integers, SequencesExt, FiniteSetsExt

CONSTANTS
  KeyTable,          \* [seq, code, mods]: the bytes a pty sends for a key
  PtyInputs, RawInputs, \* what is typed or clicked, as bytes
  MaxTyped, MaxWire  \* bounds: how often, and bytes not yet read

Byte == 0..255

\* The keys of KBData::modifiers; no sequence is of one of them.
ModifierKeys == {42, 54, 58, 29, 157, 56, 184, 69}

ASSUME TtyAssumption ==
  /\ KeyTable \subseteq [seq : Seq(Byte), code : (Byte \ {0}) \ ModifierKeys,
                         mods : SUBSET {"Shift", "Control", "Alt"}]
  /\ \A k, l \in KeyTable : k.seq = l.seq => k = l
  /\ PtyInputs \cup RawInputs \subseteq Seq(Byte)
  /\ MaxTyped \in Nat /\ MaxWire \in Nat

VARIABLES
  tty,     \* fixed: raw (a console) and mouse (there is a mouse driver)
  wire,    \* bytes sent by the terminal and not yet read
  buffer,  \* _buffer
  mouse,   \* _pressed and _dragging
  kbd,      \* held  _mod_groups, as the set of modifier keys held down
           \* mods  _modifier_state
           \* cache _pressedCodesCache
  quiet,   \* more than the idle timeout has passed since the last key
  keyDown, \* history: keys told to be down, and not yet up
  gesture, \* history: where the mouse events told so far have led
  typed

ttyVars == <<tty, wire, buffer, mouse, kbd, quiet, keyDown, gesture, typed>>

TtyInit ==
  /\ tty \in [raw : BOOLEAN, mouse : BOOLEAN]
  /\ wire = <<>> /\ buffer = <<>>
  /\ mouse = [pressed |-> 3, dragging |-> FALSE]
  /\ kbd = [held |-> {}, mods |-> {}, cache |-> {}]
  /\ quiet = FALSE /\ keyDown = {} /\ gesture = "idle" /\ typed = 0

Drop(s, n) == SubSeq(s, n + 1, Len(s))
SChar(b) == IF b >= 128 THEN b - 256 ELSE b     \* char is signed

hasMouseCode(b) == Len(b) > 3 /\ SubSeq(b, 1, 3) = <<27, 91, 77>>   \* ESC [ M

-----------------------------------------------------------------------------
(* The mouse driver.  Buttons: 3 for none, from 32 on for a move. *)

\* Mutant: a move is a drag with no button down.
MouseReportLoose(m, btn) ==
  CASE btn = 3 /\ m.pressed = 3 -> [event |-> "none", mouse |-> m]
    [] btn = 3 /\ m.pressed # 3 -> [event |-> IF m.dragging THEN "drop" ELSE "release",
                                    mouse |-> [pressed |-> 3, dragging |-> FALSE]]
    [] btn >= 32 -> [event |-> "drag", mouse |-> [m EXCEPT !.dragging = TRUE]]
    [] OTHER -> [event |-> IF m.dragging \/ m.pressed # 3 THEN "none" ELSE "press",
                 mouse |-> [m EXCEPT !.pressed = btn]]

\* The event of a button byte in a state of the mouse, and the next state.
MouseReport(m, btn) ==
  CASE btn = 3 /\ m.pressed = 3 -> [event |-> "none", mouse |-> m]
    [] btn = 3 /\ m.pressed # 3 -> [event |-> IF m.dragging THEN "drop" ELSE "release",
                                    mouse |-> [pressed |-> 3, dragging |-> FALSE]]
    [] btn >= 32 -> IF m.pressed = 3 THEN [event |-> "none", mouse |-> m]
                    ELSE [event |-> "drag", mouse |-> [m EXCEPT !.dragging = TRUE]]
    [] OTHER -> [event |-> IF m.dragging \/ m.pressed # 3 THEN "none" ELSE "press",
                 mouse |-> [m EXCEPT !.pressed = btn]]

\* MouseTerminalDriver::parse: a report that is not all there loses its header, and
\* its other bytes stay, to be taken for keys.
ParseMouse(b) ==
  LET rest   == Drop(b, 3)
      report == MouseReport(mouse, SChar(rest[1]) - 32)
  IN  IF ~tty.mouse \/ ~hasMouseCode(b) THEN [buffer |-> b, mouse |-> mouse, event |-> "none"]
      ELSE IF Len(rest) < 3 THEN [buffer |-> rest, mouse |-> mouse, event |-> "none"]
      ELSE [buffer |-> Drop(rest, 3), mouse |-> report.mouse, event |-> report.event]

-----------------------------------------------------------------------------
(* The keyboard drivers *)

ModifierOf(c) == CASE c \in {42, 54} -> "Shift" [] c = 58 -> "Caps" [] c \in {29, 157} -> "Control"
                   [] c \in {56, 184} -> "Alt" [] c = 69 -> "NumLock"
Modifiers == [c \in ModifierKeys |-> ModifierOf(c)]
ModCode == [Shift |-> 42, Control |-> 29, Alt |-> 56]   \* getModCodes, in this order
Ignored == {170, 174, 176, 183, 204, 212, 214, 223}

\* The key that is told of one pressed or released while mods are on.
Told(code, mods) ==
  LET c == IF code \in {219, 221} THEN 0 ELSE code
  IN  IF "Shift" \in mods /\ c \in {3, 7, 12, 39}
      THEN CASE c = 3 -> 145 [] c = 7 -> 144 [] c = 12 -> 147 [] c = 39 -> 146
      ELSE c

\* mark, of one key after the other: k is [kbd, down], the driver's state and the keys
\* told to be down.  The keys are all modifiers, which are told by their own codes, or
\* none is, so that the order is of no matter.
mark(k, pressed, codes) ==
  LET told == codes \ Ignored
      held == IF pressed THEN k.kbd.held \cup (told \cap DOMAIN Modifiers) ELSE k.kbd.held \ told
      mods == {m \in k.kbd.mods : \A c \in told \cap DOMAIN Modifiers : Modifiers[c] # m}
              \cup {Modifiers[h] : h \in {h \in held : \E c \in told \cap DOMAIN Modifiers :
                                                         Modifiers[c] = Modifiers[h]}}
      keys == {Told(c, mods) : c \in told}
  IN  [kbd   |-> [k.kbd EXCEPT !.held = held, !.mods = mods],
       down |-> IF pressed THEN k.down \cup keys ELSE k.down \ keys]

Codes(mods) == {ModCode[m] : m \in mods \cap DOMAIN ModCode}

\* A console's byte; as char is signed, no byte is 0xE0 or 0xE1 and every one is a key.
ParseRaw(b) ==
  [buffer |-> Tail(b), k |-> mark([kbd |-> kbd, down |-> keyDown], b[1] < 128, {b[1] % 128}), active |-> FALSE]

\* KBData::lookup: the longest beginning of the buffer that is a key.
Matches(b) == {key \in KeyTable : IsPrefix(key.seq, b)}
Longest(b) == CHOOSE key \in Matches(b) : \A o \in Matches(b) : Len(o.seq) <= Len(key.seq)

\* Mutant: a key is not remembered when the modifiers have just changed.
PressForgotten(key) ==
  LET released == mark([kbd |-> kbd, down |-> keyDown], FALSE, Codes(kbd.mods \ key.mods))
      pressed  == mark(released, TRUE, Codes(key.mods \ kbd.mods))
      known    == IF kbd.mods = key.mods THEN kbd.cache \cup {key.code} ELSE kbd.cache
      now      == [kbd  |-> [pressed.kbd EXCEPT !.mods = key.mods, !.cache = known],
                   down |-> pressed.down]
  IN  mark(now, TRUE, {key.code})

\* A key of a pty: modifiers that changed are told first.
Press(key) ==
  LET released == mark([kbd |-> kbd, down |-> keyDown], FALSE, Codes(kbd.mods \ key.mods))
      pressed  == mark(released, TRUE, Codes(key.mods \ kbd.mods))
      now      == [kbd  |-> [pressed.kbd EXCEPT !.mods = key.mods, !.cache = @ \cup {key.code}],
                   down |-> pressed.down]
  IN  mark(now, TRUE, {key.code})

\* What is no key is inserted, all of it.
ParsePty(b) ==
  IF Matches(b) = {} THEN [buffer |-> <<>>, k |-> [kbd |-> kbd, down |-> keyDown], active |-> TRUE]
  ELSE [buffer |-> Drop(b, Len(Longest(b).seq)), k |-> Press(Longest(b)), active |-> TRUE]

ParseKey(b) ==
  IF b = <<>> \/ hasMouseCode(b) THEN [buffer |-> b, k |-> [kbd |-> kbd, down |-> keyDown], active |-> FALSE]
  ELSE IF tty.raw THEN ParseRaw(b) ELSE ParsePty(b)

-----------------------------------------------------------------------------
(* Actions *)

Type(s) ==
  /\ typed < MaxTyped /\ Len(wire) + Len(s) <= MaxWire
  /\ typed' = typed + 1 /\ wire' = wire \o s
  /\ UNCHANGED <<tty, buffer, mouse, kbd, quiet, keyDown, gesture>>

TimePasses == ~quiet /\ quiet' = TRUE
              /\ UNCHANGED <<tty, wire, buffer, mouse, kbd, keyDown, gesture, typed>>

\* Press, then drags, then a drop if there were any and a release if not.
Follow(g, event) ==
  CASE event = "none" -> g
    [] event = "press" /\ g = "idle" -> "pressed"
    [] event = "drag" /\ g \in {"pressed", "dragged"} -> "dragged"
    [] (event = "drop" /\ g = "dragged") \/ (event = "release" /\ g = "pressed") -> "idle"
    [] OTHER -> "broken"

\* runOnce, when the first n bytes of the wire have arrived.  If nobody took anything,
\* a byte, or a mouse report, is thrown away.
RunOnce(n) ==
  \E b \in {buffer \o SubSeq(wire, 1, n)} : \E m \in {ParseMouse(b)} : \E p \in {ParseKey(m.buffer)} :
      /\ b # <<>>
      /\ wire' = Drop(wire, n)
      /\ buffer' = IF p.buffer # b THEN p.buffer ELSE Drop(b, IF hasMouseCode(b) THEN 6 ELSE 1)
      /\ mouse' = m.mouse /\ gesture' = Follow(gesture, m.event)
      /\ kbd' = p.k.kbd /\ keyDown' = p.k.down
      /\ quiet' = (quiet /\ ~p.active)
      /\ UNCHANGED <<tty, typed>>

\* KeyboardPtyDriver::idle
Idle ==
  LET freed == mark([kbd |-> kbd, down |-> keyDown], FALSE, Codes(kbd.mods))
      up    == mark([kbd |-> [freed.kbd EXCEPT !.mods = {}], down |-> freed.down], FALSE, kbd.cache)
  IN  /\ ~tty.raw /\ buffer = <<>> /\ quiet /\ kbd.cache # {}
      /\ kbd' = [up.kbd EXCEPT !.cache = {}] /\ keyDown' = up.down
      /\ UNCHANGED <<tty, wire, buffer, mouse, quiet, gesture, typed>>

TtyNext ==
  \/ \E s \in IF tty.raw THEN RawInputs ELSE PtyInputs : Type(s)
  \/ \E n \in 0..Len(wire) : RunOnce(n)
  \/ TimePasses \/ Idle

TtySpec == TtyInit /\ [][TtyNext]_ttyVars

-----------------------------------------------------------------------------
\* However reports are cut by the reads, lost or mixed with keys: a press comes when no
\* button was down, drags follow a press, a drop ends a drag and a release a click.
MouseGrammar == gesture # "broken"

ShiftedCodes == {144, 145, 146, 147}

\* Once the keys of a pty are released for being idle, every key that was told to be down
\* has been told to be up, but for those told by another code while shift is on.
KeysReleased == ~tty.raw /\ kbd.cache = {} => keyDown \subseteq ShiftedCodes
=============================================================================
