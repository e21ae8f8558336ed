---------------------------- MODULE TerminalProofs ----------------------------
(***************************************************************************)
(* GpuBinding, for any gpus and screens: the two sides' pointers agree       *)
(* wherever no screen was contested, and with them no call of a screen goes   *)
(* to a gpu that is gone.                                                     *)
(*                                                                         *)
(* Then TtyInput, for any table of keys and any input: what the mouse driver *)
(* keeps says where in a gesture the user is, and what is down at the keyboard *)
(* is what its cache and its modifiers name, so that idling lets go of it all. *)
(*                                                                         *)
(* Then GpuCells, for any characters, sizes, texts, rectangles and copies: what *)
(* a program reads back is what the terminal shows.  In the midst of a call     *)
(* this is not so, for a wide character is two cells that are set one after the *)
(* other: Local says of each cell what may be shown of it then, and with every  *)
(* wide character having its other half again it is ShownAsRead.  That a copy    *)
(* moves what was there is argued by what its sets have done so far (Moved): one *)
(* blanks or locks cells beside its own, but none that was set before it.        *)
(*                                                                         *)
(* And GpuColors, for any colours and indexes: what a cell's index stands for is *)
(* found again, or as good, when it is made an index again.                     *)
(*                                                                         *)
(* Last, Worker, whose thread the terminal's reader runs on, for any number of   *)
(* starts.  Its properties are not inductive by themselves: each leans on who     *)
(* holds _m and on _pthread naming the one thread that may be in proc(), the two   *)
(* facts that WorkerInv adds.                                                    *)
(***************************************************************************)
EXTENDS GpuBinding, TtyInput, GpuCells, GpuColors, Worker, SubsequenceProofs

-----------------------------------------------------------------------------
(* The gpus and the screens *)

\* The two directions of the binding need each other: a gpu that leaves clears the
\* pointer of the screen it knows, and only GpuKnowsItsScreen says that it is its own.
BindingInv == /\ BindingTypeOK
              /\ ScreenKnowsItsGpu
              /\ GpuKnowsItsScreen
              /\ FaultOnlyIfContested

\* A fresh machine has no bindings (gpu.cpp:12, screen.cpp's constructor).
LEMMA BindingInvInit == BindingInit => BindingInv
BY BindingAssumption DEF BindingInit, BindingInv, BindingTypeOK, ScreenKnowsItsGpu,
   GpuKnowsItsScreen, FaultOnlyIfContested

\* A call of a gpu that is there finds its screen, or the screen was contested.
LEMMA GpuFindsItsScreen ==
  ASSUME BindingInv, NEW g \in plugged \cap Gpus, Calls(screenOf[g])
  PROVE  fault' \in BOOLEAN /\ (fault' => contested # {})
BY BindingAssumption DEF BindingInv, BindingTypeOK, GpuKnowsItsScreen, Calls

\* Binding a gpu to a screen keeps the two sides in agreement (gpu.cpp:57).
LEMMA BindKeeps ==
  ASSUME BindingInv, NEW g \in Gpus, NEW s \in Screens, Bind(g, s)
  PROVE  BindingInv'
<1> USE BindingAssumption DEF Bind
<1>1. /\ g \in plugged /\ s \in plugged /\ screenOf[g] # s
      /\ g # NoPeer /\ s # NoPeer /\ g \notin Screens
  OBVIOUS
<1>2. /\ fault' \in BOOLEAN
      /\ fault' => contested # {}
  BY <1>1, GpuFindsItsScreen
<1>3. contested \subseteq contested'
  OBVIOUS
<1>4. BindingTypeOK'
  BY <1>2 DEF BindingInv, BindingTypeOK
<1>5. ScreenKnowsItsGpu'
  <2> SUFFICES ASSUME NEW t \in (plugged \cap Screens)', gpuOf'[t] # NoPeer
               PROVE  gpuOf'[t] \in plugged' /\ screenOf'[gpuOf'[t]] = t
    BY DEF ScreenKnowsItsGpu
  <2>1. CASE t = s
    BY <1>1, <2>1 DEF BindingInv, BindingTypeOK
  <2>2. CASE t # s
    <3>1. t # screenOf[g] /\ gpuOf'[t] = gpuOf[t]
      BY <2>2
    <3>2. gpuOf[t] \in plugged \cap Gpus /\ screenOf[gpuOf[t]] = t
      BY <3>1 DEF BindingInv, BindingTypeOK, ScreenKnowsItsGpu
    <3>3. gpuOf[t] # g
      BY <3>1, <3>2
    <3> QED
      BY <3>1, <3>2, <3>3 DEF BindingInv, BindingTypeOK
  <2> QED
    BY <2>1, <2>2
<1>6. GpuKnowsItsScreen'
  <2> SUFFICES ASSUME NEW h \in (plugged \cap Gpus)', screenOf'[h] \in Screens \ contested'
               PROVE  screenOf'[h] \in plugged' /\ gpuOf'[screenOf'[h]] = h
    BY DEF GpuKnowsItsScreen
  <2>1. CASE h = g
    BY <1>1, <2>1 DEF BindingInv, BindingTypeOK
  <2>2. CASE h # g
    <3>1. screenOf'[h] = screenOf[h] /\ screenOf[h] # s
      BY <2>2 DEF BindingInv, BindingTypeOK
    <3>2. screenOf[h] \in plugged /\ gpuOf[screenOf[h]] = h
      BY <1>3, <3>1 DEF BindingInv, GpuKnowsItsScreen
    <3>3. screenOf[h] # screenOf[g]
      BY <1>1, <1>3, <2>2, <3>1, <3>2 DEF BindingInv, GpuKnowsItsScreen
    <3> QED
      BY <3>1, <3>2, <3>3 DEF BindingInv, BindingTypeOK
  <2> QED
    BY <2>1, <2>2
<1>7. FaultOnlyIfContested'
  BY <1>2, <1>3 DEF FaultOnlyIfContested
<1> QED
  BY <1>4, <1>5, <1>6, <1>7 DEF BindingInv

\* A gpu that goes tells its screen (gpu.cpp:36).
LEMMA RemoveGpuKeeps ==
  ASSUME BindingInv, NEW g \in Gpus, RemoveGpu(g)
  PROVE  BindingInv'
<1> USE BindingAssumption DEF RemoveGpu
<1>1. BindingTypeOK' /\ FaultOnlyIfContested'
  BY GpuFindsItsScreen DEF BindingInv, BindingTypeOK, FaultOnlyIfContested
<1>2. ScreenKnowsItsGpu'
  BY DEF BindingInv, BindingTypeOK, ScreenKnowsItsGpu
<1>3. GpuKnowsItsScreen'
  <2> SUFFICES ASSUME NEW h \in (plugged \cap Gpus)', screenOf'[h] \in Screens \ contested'
               PROVE  screenOf'[h] \in plugged' /\ gpuOf'[screenOf'[h]] = h
    BY DEF GpuKnowsItsScreen
  <2>1. h # g /\ screenOf'[h] = screenOf[h] /\ h \in plugged
    BY DEF BindingInv, BindingTypeOK
  <2>2. screenOf[h] \in plugged /\ gpuOf[screenOf[h]] = h /\ screenOf[h] # g
    BY <2>1 DEF BindingInv, GpuKnowsItsScreen
  <2>3. screenOf[h] # screenOf[g]
    BY <2>1, <2>2 DEF BindingInv, GpuKnowsItsScreen
  <2> QED
    BY <2>1, <2>2, <2>3
<1> QED
  BY <1>1, <1>2, <1>3 DEF BindingInv

\* A screen that goes unbinds the gpu it knows of (screen.cpp:84).
LEMMA RemoveScreenKeeps ==
  ASSUME BindingInv, NEW s \in Screens, RemoveScreen(s)
  PROVE  BindingInv'
<1> USE BindingAssumption DEF RemoveScreen
<1>1. gpuOf[s] # NoPeer => gpuOf[s] \in plugged \cap Gpus /\ screenOf[gpuOf[s]] = s
  BY DEF BindingInv, BindingTypeOK, ScreenKnowsItsGpu
<1>2. gpuOf' = [t \in Screens |-> IF t = s THEN NoPeer ELSE gpuOf[t]]
  BY <1>1
<1>3. fault' = FALSE
  BY <1>1 DEF Calls
<1>4. BindingTypeOK' /\ FaultOnlyIfContested'
  <2>1. gpuOf' \in [Screens -> Gpus \cup {NoPeer}]
    BY <1>2 DEF BindingInv, BindingTypeOK
  <2>2. /\ plugged' \subseteq Gpus \cup Screens /\ contested' \subseteq Screens
        /\ screenOf' \in [Gpus -> Screens \cup {NoPeer}]
    BY DEF BindingInv, BindingTypeOK
  <2> QED
    BY <1>3, <2>1, <2>2 DEF BindingTypeOK, FaultOnlyIfContested
<1>5. ScreenKnowsItsGpu'
  <2> SUFFICES ASSUME NEW t \in (plugged \cap Screens)', gpuOf'[t] # NoPeer
               PROVE  gpuOf'[t] \in plugged' /\ screenOf'[gpuOf'[t]] = t
    BY DEF ScreenKnowsItsGpu
  <2>1. t # s /\ t \in plugged /\ gpuOf'[t] = gpuOf[t]
    BY <1>2
  <2>2. gpuOf[t] \in plugged \cap Gpus /\ screenOf[gpuOf[t]] = t
    BY <2>1 DEF BindingInv, BindingTypeOK, ScreenKnowsItsGpu
  <2>3. gpuOf[t] # gpuOf[s]
    BY <1>1, <2>1, <2>2
  <2> QED
    BY <2>1, <2>2, <2>3
<1>6. GpuKnowsItsScreen'
  <2> SUFFICES ASSUME NEW h \in (plugged \cap Gpus)', screenOf'[h] \in Screens \ contested'
               PROVE  screenOf'[h] \in plugged' /\ gpuOf'[screenOf'[h]] = h
    BY DEF GpuKnowsItsScreen
  <2>1. h # gpuOf[s] /\ screenOf'[h] = screenOf[h] /\ h \in plugged
    BY DEF BindingInv, BindingTypeOK
  <2>2. screenOf[h] \in plugged /\ gpuOf[screenOf[h]] = h
    BY <2>1 DEF BindingInv, GpuKnowsItsScreen
  <2> QED
    BY <1>2, <2>1, <2>2
<1> QED
  BY <1>4, <1>5, <1>6 DEF BindingInv

\* A call changes no binding.
LEMMA CallsKeep ==
  ASSUME BindingInv,
         \/ \E g \in Gpus : GpuCalls(g)
         \/ \E s \in Screens : ScreenCalls(s)
  PROVE  BindingInv'
<1>1. (fault' \in BOOLEAN) /\ (fault' => contested # {})
  <2>1. CASE \E g \in Gpus : GpuCalls(g)
    BY <2>1, GpuFindsItsScreen DEF GpuCalls
  <2>2. CASE \E s \in Screens : ScreenCalls(s)
    BY <2>2 DEF ScreenCalls, Calls, BindingInv, ScreenKnowsItsGpu
  <2> QED
    BY <2>1, <2>2
<1>2. UNCHANGED <<plugged, screenOf, gpuOf, contested>>
  BY DEF GpuCalls, ScreenCalls
<1> QED
  BY <1>1, <1>2 DEF BindingInv, BindingTypeOK, ScreenKnowsItsGpu, GpuKnowsItsScreen, FaultOnlyIfContested

\* Every step keeps the invariant.
LEMMA BindingInvStep == BindingInv /\ [BindingNext]_bindingVars => BindingInv'
<1> SUFFICES ASSUME BindingInv, [BindingNext]_bindingVars PROVE BindingInv'
  OBVIOUS
<1>1. CASE \E g \in Gpus : RemoveGpu(g)
  BY <1>1, RemoveGpuKeeps
<1>2. CASE \E g \in Gpus, s \in Screens : Bind(g, s)
  BY <1>2, BindKeeps
<1>3. CASE \E s \in Screens : RemoveScreen(s)
  BY <1>3, RemoveScreenKeeps
<1>4. CASE (\E g \in Gpus : GpuCalls(g)) \/ (\E s \in Screens : ScreenCalls(s))
  BY <1>4, CallsKeep
<1>5. CASE UNCHANGED bindingVars
  BY <1>5 DEF bindingVars, BindingInv, BindingTypeOK, ScreenKnowsItsGpu, GpuKnowsItsScreen, FaultOnlyIfContested
<1> QED
  BY <1>1, <1>2, <1>3, <1>4, <1>5 DEF BindingNext

\* Pointers keep their types, and what the screens know is true: for any gpus and
\* screens, bound and removed in any order, no screen calls a gpu that is gone, and a
\* gpu calls a screen that is gone only if two gpus were bound to one screen
\* (gpu.cpp:57, screen.cpp:84).
THEOREM NobodyCallsTheDead == BindingSpec => [](BindingTypeOK /\ NoCallToTheDead)
<1>1. BindingInv => BindingTypeOK /\ NoCallToTheDead
  BY DEF BindingInv, NoCallToTheDead
<1> QED
  BY <1>1, BindingInvInit, BindingInvStep, PTL DEF BindingSpec

-----------------------------------------------------------------------------
\* What the keyboard is made of.
ModNames == {"Shift", "Caps", "Control", "Alt", "NumLock"}
KeyCodes == (Byte \ {0}) \ ModifierKeys
Keyboard == [held : SUBSET ModifierKeys, mods : SUBSET ModNames, cache : SUBSET KeyCodes]

TtyTypeOK ==
  /\ tty \in [raw : BOOLEAN, mouse : BOOLEAN]
  /\ wire \in Seq(Byte) /\ buffer \in Seq(Byte)
  /\ mouse \in [pressed : Int, dragging : BOOLEAN]
  /\ kbd \in Keyboard
  /\ quiet \in BOOLEAN /\ keyDown \subseteq Byte /\ typed \in Nat

\* MouseGrammar, by what the driver keeps.
Following(g, j) ==
  \/ g = "idle" /\ j.pressed = 3 /\ ~j.dragging
  \/ g = "pressed" /\ j.pressed # 3 /\ ~j.dragging
  \/ g = "dragged" /\ j.pressed # 3 /\ j.dragging

\* KeysReleased, while keys are down.
Released(k, down) ==
  /\ k.cache = {} => k.mods = {}
  /\ down \subseteq {Told(c, {}) : c \in k.cache \ Ignored} \cup Codes(k.mods) \cup ShiftedCodes

TtyInv == TtyTypeOK /\ Following(gesture, mouse) /\ (~tty.raw => Released(kbd, keyDown))

-----------------------------------------------------------------------------
\* What is left of a buffer is one.
LEMMA DropIsSeq ==
  ASSUME NEW S, NEW s \in Seq(S), NEW n \in Nat
  PROVE  Drop(s, n) \in Seq(S)
BY DEF Drop

\* What the drivers compute from a byte.
LEMMA ByteValues ==
  ASSUME NEW v \in Byte
  PROVE  v % 128 \in Byte /\ (v < 128) \in BOOLEAN /\ SChar(v) - 32 \in Int
<1>1. v \in 0..255
  BY DEF Byte
<1> QED
  BY <1>1 DEF Byte, SChar

\* A read takes from the wire and adds to the buffer.
LEMMA WireSplit ==
  ASSUME NEW S, NEW s \in Seq(S), NEW t \in Seq(S), NEW n \in 0..Len(s)
  PROVE  t \o SubSeq(s, 1, n) \in Seq(S)
OBVIOUS

\* Where some sequence matches, the longest that does is one of the table.
LEMMA LongestIsKey ==
  ASSUME TtyAssumption, NEW b \in Seq(Byte), Matches(b) # {}
  PROVE  Longest(b) \in KeyTable /\ Len(Longest(b).seq) \in Nat
<1> DEFINE T == {Len(b) - Len(key.seq) : key \in Matches(b)}
<1>1. \A key \in Matches(b) : Len(key.seq) \in Nat /\ Len(key.seq) <= Len(b)
  BY DEF Matches, IsPrefix, TtyAssumption
<1>2. Len(b) \in Nat
  OBVIOUS
<1>3. T \subseteq Nat /\ T # {}
  BY <1>1, <1>2
<1>4. PICK x \in T : \A y \in T : ~(<<y, x>> \in OpToRel(<, Nat))
  BY <1>3, NatLessThanWellFounded, WFMin
<1>5. PICK key \in Matches(b) : x = Len(b) - Len(key.seq)
  BY <1>4
<1>6. ASSUME NEW o \in Matches(b)
      PROVE  Len(o.seq) <= Len(key.seq)
  <2>1. Len(b) - Len(o.seq) \in T
    OBVIOUS
  <2>2. ~(Len(b) - Len(o.seq) < x)
    BY <1>3, <1>4, <2>1 DEF OpToRel
  <2> QED
    BY <1>1, <1>2, <1>5, <2>2
<1>7. Longest(b) \in Matches(b)
  BY <1>5, <1>6 DEF Longest
<1> QED
  BY <1>1, <1>7 DEF Matches

\* The code a key is told by, too, is one.
LEMMA ToldIsCode ==
  ASSUME NEW c \in Byte, NEW mods
  PROVE  Told(c, mods) \in Byte
BY DEF Told, Byte

\* The parts of mark.
HeldAfter(k, pressed, told) ==
  IF pressed THEN k.kbd.held \cup (told \cap DOMAIN Modifiers) ELSE k.kbd.held \ told

ModsAfter(k, pressed, told) ==
  {j \in k.kbd.mods : \A c \in told \cap DOMAIN Modifiers : Modifiers[c] # j}
  \cup {Modifiers[h] : h \in {h \in HeldAfter(k, pressed, told) :
                                \E c \in told \cap DOMAIN Modifiers : Modifiers[c] = Modifiers[h]}}

ToldOf(told, mods) == {Told(c, mods) : c \in told}

DownAfter(k, pressed, keys) == IF pressed THEN k.down \cup keys ELSE k.down \ keys

\* mark, by its parts: the keyboard, and what the components were told is down.
LEMMA MarkIs ==
  ASSUME NEW k, NEW pressed, NEW codes
  PROVE  LET told == codes \ Ignored
             mods == ModsAfter(k, pressed, told)
         IN  mark(k, pressed, codes)
               = [kbd  |-> [k.kbd EXCEPT !.held = HeldAfter(k, pressed, told), !.mods = mods],
                  down |-> DownAfter(k, pressed, ToldOf(told, mods))]
BY SMTT(60) DEF mark, HeldAfter, ModsAfter, ToldOf, DownAfter

LEMMA MarkKbd ==
  ASSUME NEW k, NEW pressed, NEW codes
  PROVE  mark(k, pressed, codes).kbd = [k.kbd EXCEPT !.held = HeldAfter(k, pressed, codes \ Ignored),
                                                     !.mods = ModsAfter(k, pressed, codes \ Ignored)]
BY MarkIs

LEMMA MarkDown ==
  ASSUME NEW k, NEW pressed, NEW codes
  PROVE  mark(k, pressed, codes).down
           = DownAfter(k, pressed, ToldOf(codes \ Ignored, ModsAfter(k, pressed, codes \ Ignored)))
BY MarkIs

\* mark, of any keys.
LEMMA MarkType ==
  ASSUME NEW k, k.kbd \in Keyboard, k.down \subseteq Byte, NEW pressed \in BOOLEAN,
         NEW codes, codes \subseteq Byte
  PROVE  /\ mark(k, pressed, codes).kbd \in Keyboard
         /\ mark(k, pressed, codes).kbd.cache = k.kbd.cache
         /\ mark(k, pressed, codes).down \subseteq Byte
<1>1. \A c \in DOMAIN Modifiers : Modifiers[c] \in ModNames
  BY DEF Modifiers, ModifierOf, ModifierKeys, ModNames
<1>2. DOMAIN Modifiers = ModifierKeys
  BY DEF Modifiers
<1> DEFINE told == codes \ Ignored
           held == HeldAfter(k, pressed, told)
           mods == ModsAfter(k, pressed, told)
<1>3. held \subseteq ModifierKeys
  BY <1>2 DEF Keyboard, HeldAfter
<1>4. mods \subseteq ModNames
  BY <1>1, <1>2, <1>3 DEF Keyboard, ModsAfter
<1>5. /\ mark(k, pressed, codes).kbd = [k.kbd EXCEPT !.held = held, !.mods = mods]
      /\ mark(k, pressed, codes).down = DownAfter(k, pressed, ToldOf(told, mods))
  BY MarkKbd, MarkDown
<1> HIDE DEF held, mods
<1>6. ToldOf(told, mods) \subseteq Byte
  BY ToldIsCode DEF ToldOf
<1> QED
  BY <1>3, <1>4, <1>5, <1>6 DEF Keyboard, DownAfter

\* The keys of modifiers are told by their own codes.
Modifying == {29, 42, 56}

LEMMA ModifiersTold ==
  ASSUME NEW k, NEW pressed \in BOOLEAN, NEW codes, codes \subseteq Modifying
  PROVE  mark(k, pressed, codes).down = DownAfter(k, pressed, codes)
<1>1. ToldOf(codes \ Ignored, ModsAfter(k, pressed, codes \ Ignored)) = codes
  <2>1. \A c \in codes : c \notin Ignored /\ \A mods : Told(c, mods) = c
    BY DEF Told, Ignored, Modifying
  <2> QED
    BY <2>1 DEF ToldOf
<1> QED
  BY <1>1, MarkDown

\* Letting modifiers go.
LEMMA ModifiersReleased ==
  ASSUME NEW k, NEW codes, codes \subseteq Modifying
  PROVE  mark(k, FALSE, codes).down = k.down \ codes
<1>1. mark(k, FALSE, codes).down = DownAfter(k, FALSE, codes)
  BY ModifiersTold
<1> QED
  BY <1>1 DEF DownAfter

\* Pressing modifiers.
LEMMA ModifiersPressed ==
  ASSUME NEW k, NEW codes, codes \subseteq Modifying
  PROVE  mark(k, TRUE, codes).down = k.down \cup codes
<1>1. mark(k, TRUE, codes).down = DownAfter(k, TRUE, codes)
  BY ModifiersTold
<1> QED
  BY <1>1 DEF DownAfter

\* Keys that are no modifiers leave these alone.
LEMMA MarkKeys ==
  ASSUME NEW k, k.kbd \in Keyboard, NEW pressed \in BOOLEAN, NEW codes, codes \cap ModifierKeys = {}
  PROVE  /\ mark(k, pressed, codes).kbd.mods = k.kbd.mods
         /\ mark(k, pressed, codes).down = DownAfter(k, pressed, ToldOf(codes \ Ignored, k.kbd.mods))
<1> DEFINE told == codes \ Ignored
           held == HeldAfter(k, pressed, told)
           mods == ModsAfter(k, pressed, told)
<1>1. told \cap DOMAIN Modifiers = {}
  BY DEF Modifiers
<1>2. mods = k.kbd.mods
  BY <1>1 DEF ModsAfter
<1>3. /\ mark(k, pressed, codes).kbd = [k.kbd EXCEPT !.held = held, !.mods = mods]
      /\ mark(k, pressed, codes).down = DownAfter(k, pressed, ToldOf(told, mods))
  BY MarkKbd, MarkDown
<1> HIDE DEF held, mods
<1> QED
  BY <1>2, <1>3 DEF Keyboard

-----------------------------------------------------------------------------
\* What the keyboard drivers keep, and what is known of it.
Kept(k, codes) == k.kbd \in Keyboard /\ k.kbd.cache = codes /\ k.down \subseteq Byte

\* getModCodes answers with keys of modifiers.
LEMMA CodesOfMods ==
  ASSUME NEW mods
  PROVE  Codes(mods) \subseteq Modifying /\ Codes(mods) \subseteq Byte
BY DEF Codes, ModCode, Modifying, Byte

\* Modifiers that are let go and others that are pressed.
LEMMA CodesChange ==
  ASSUME NEW j, NEW n
  PROVE  (Codes(j) \ Codes(j \ n)) \cup Codes(n \ j) \subseteq Codes(n)
BY DEF Codes

\* A key that the table names adds to the cache what it presses.
LEMMA PressKeeps ==
  ASSUME TtyTypeOK, NEW key \in KeyTable
  PROVE  /\ Kept(Press(key), kbd.cache \cup {key.code})
         /\ Released(kbd, keyDown) => Released(Press(key).kbd, Press(key).down)
<1> DEFINE k0       == [kbd |-> kbd, down |-> keyDown]
           released == mark(k0, FALSE, Codes(kbd.mods \ key.mods))
           pressed  == mark(released, TRUE, Codes(key.mods \ kbd.mods))
           now      == [kbd  |-> [pressed.kbd EXCEPT !.mods = key.mods, !.cache = @ \cup {key.code}],
                        down |-> pressed.down]
           struck     == mark(now, TRUE, {key.code})
<1>1. key.code \in KeyCodes /\ key.mods \subseteq ModNames
  BY TtyAssumption DEF TtyAssumption, ModNames, KeyCodes, ModifierKeys
<1>2. Kept(k0, kbd.cache)
  BY DEF TtyTypeOK, Kept
<1>3. Kept(released, kbd.cache)
  <2> HIDE DEF k0
  <2> QED
    BY <1>2, CodesOfMods, MarkType DEF Kept
<1>4. Kept(pressed, kbd.cache)
  <2> HIDE DEF released
  <2> QED
    BY <1>3, CodesOfMods, MarkType DEF Kept
<1>5. /\ Kept(now, kbd.cache \cup {key.code}) /\ now.kbd.mods = key.mods
      /\ now.down = pressed.down
  <2> HIDE DEF pressed
  <2>1. pressed.kbd \in Keyboard /\ pressed.kbd.cache = kbd.cache
    BY <1>4 DEF Kept
  <2>2. /\ now.kbd = [pressed.kbd EXCEPT !.mods = key.mods, !.cache = kbd.cache \cup {key.code}]
        /\ now.down = pressed.down
    BY <2>1
  <2> HIDE DEF now
  <2> QED
    BY <1>1, <1>4, <2>1, <2>2 DEF Kept, Keyboard
<1>6. {key.code} \subseteq Byte /\ {key.code} \cap ModifierKeys = {}
  BY <1>1 DEF KeyCodes
<1>7. Kept(struck, kbd.cache \cup {key.code})
  <2> HIDE DEF now
  <2> QED
    BY <1>5, <1>6, MarkType DEF Kept
<1>8. /\ struck.kbd.mods = key.mods
      /\ struck.down = pressed.down \cup ToldOf({key.code} \ Ignored, key.mods)
  <2> HIDE DEF now, pressed
  <2>1. now.kbd \in Keyboard
    BY <1>5 DEF Kept
  <2>2. /\ struck.kbd.mods = now.kbd.mods
        /\ struck.down = DownAfter(now, TRUE, ToldOf({key.code} \ Ignored, now.kbd.mods))
    BY <1>6, <2>1, MarkKeys
  <2> QED
    BY <1>5, <2>2 DEF DownAfter
<1>9. released.down = keyDown \ Codes(kbd.mods \ key.mods)
  <2>1. k0.down = keyDown
    OBVIOUS
  <2> HIDE DEF k0
  <2>2. Codes(kbd.mods \ key.mods) \subseteq Modifying
    BY CodesOfMods
  <2> QED
    BY <2>1, <2>2, ModifiersReleased
<1>10. pressed.down = released.down \cup Codes(key.mods \ kbd.mods)
  <2> HIDE DEF released
  <2>1. Codes(key.mods \ kbd.mods) \subseteq Modifying
    BY CodesOfMods
  <2> QED
    BY <2>1, ModifiersPressed
<1>11. Press(key) = struck
  BY DEF Press
<1> HIDE DEF struck, now, pressed, released
<1>12. ASSUME Released(kbd, keyDown)
       PROVE  Released(struck.kbd, struck.down)
  <2> DEFINE keys == {Told(c, {}) : c \in kbd.cache \ Ignored}
             more == {Told(c, {}) : c \in (kbd.cache \cup {key.code}) \ Ignored}
  <2>1. keyDown \subseteq keys \cup Codes(kbd.mods) \cup ShiftedCodes
    BY <1>12 DEF Released
  <2>2. keys \subseteq more
    OBVIOUS
  <2>3. ToldOf({key.code} \ Ignored, key.mods) \subseteq more \cup ShiftedCodes
    BY DEF ToldOf, Told, ShiftedCodes
  <2>4. (Codes(kbd.mods) \ Codes(kbd.mods \ key.mods)) \cup Codes(key.mods \ kbd.mods) \subseteq Codes(key.mods)
    BY CodesChange
  <2> HIDE DEF keys, more
  <2>5. struck.down \subseteq more \cup Codes(key.mods) \cup ShiftedCodes
    BY <1>8, <1>9, <1>10, <2>1, <2>2, <2>3, <2>4
  <2>6. struck.kbd.cache = kbd.cache \cup {key.code}
    BY <1>7 DEF Kept
  <2> QED
    BY <1>8, <2>5, <2>6 DEF Released, more
<1> QED
  BY <1>7, <1>11, <1>12

\* Idle, as what it makes of the keyboard.
IdleKeys ==
  LET freed == mark([kbd |-> kbd, down |-> keyDown], FALSE, Codes(kbd.mods))
      up    == mark([kbd |-> [freed.kbd EXCEPT !.mods = {}], down |-> freed.down], FALSE, kbd.cache)
  IN  [kbd |-> [up.kbd EXCEPT !.cache = {}], down |-> up.down]

\* Idling lets go of what the cache and the modifiers name.
LEMMA IdleKeeps ==
  ASSUME TtyTypeOK
  PROVE  /\ Kept(IdleKeys, {})
         /\ Released(kbd, keyDown) => Released(IdleKeys.kbd, IdleKeys.down)
<1> DEFINE k0    == [kbd |-> kbd, down |-> keyDown]
           freed == mark(k0, FALSE, Codes(kbd.mods))
           now   == [kbd |-> [freed.kbd EXCEPT !.mods = {}], down |-> freed.down]
           up    == mark(now, FALSE, kbd.cache)
<1>1. Kept(k0, kbd.cache)
  BY DEF TtyTypeOK, Kept
<1>2. Kept(freed, kbd.cache)
  <2> HIDE DEF k0
  <2> QED
    BY <1>1, CodesOfMods, MarkType DEF Kept
<1>3. freed.down = keyDown \ Codes(kbd.mods)
  <2>1. k0.down = keyDown
    OBVIOUS
  <2> HIDE DEF k0
  <2>2. Codes(kbd.mods) \subseteq Modifying
    BY CodesOfMods
  <2> QED
    BY <2>1, <2>2, ModifiersReleased
<1>4. Kept(now, kbd.cache) /\ now.kbd.mods = {} /\ now.down = freed.down
  <2> HIDE DEF freed
  <2>1. now.kbd = [freed.kbd EXCEPT !.mods = {}] /\ now.down = freed.down
    OBVIOUS
  <2> HIDE DEF now
  <2> QED
    BY <1>2, <2>1 DEF Kept, Keyboard
<1>5. kbd.cache \subseteq Byte /\ kbd.cache \cap ModifierKeys = {}
  BY DEF TtyTypeOK, Keyboard, KeyCodes
<1>6. Kept(up, kbd.cache)
  <2> HIDE DEF now
  <2> QED
    BY <1>4, <1>5, MarkType DEF Kept
<1>7. up.kbd.mods = {} /\ up.down = DownAfter(now, FALSE, ToldOf(kbd.cache \ Ignored, {}))
  <2> HIDE DEF now
  <2>1. now.kbd \in Keyboard
    BY <1>4 DEF Kept
  <2> QED
    <3>1. mark(now, FALSE, kbd.cache).kbd.mods = now.kbd.mods
      BY <1>5, <2>1, MarkKeys
    <3>2. mark(now, FALSE, kbd.cache).down
            = DownAfter(now, FALSE, ToldOf(kbd.cache \ Ignored, now.kbd.mods))
      BY <1>5, <2>1, MarkKeys
    <3> QED
      BY <1>4, <3>1, <3>2
<1>8. up.down = freed.down \ ToldOf(kbd.cache \ Ignored, {})
  <2> HIDE DEF now, freed, up
  <2> QED
    BY <1>4, <1>7 DEF DownAfter
<1>9. IdleKeys.kbd = [up.kbd EXCEPT !.cache = {}] /\ IdleKeys.down = up.down
  BY DEF IdleKeys
<1> HIDE DEF up, freed, now
<1>10. Kept(IdleKeys, {}) /\ IdleKeys.kbd.mods = {}
  BY <1>6, <1>7, <1>9 DEF Kept, Keyboard
<1>11. ASSUME Released(kbd, keyDown)
       PROVE  IdleKeys.down \subseteq ShiftedCodes
  BY <1>3, <1>8, <1>9, <1>11 DEF Released, ToldOf
<1> QED
  BY <1>10, <1>11 DEF Released, Kept

-----------------------------------------------------------------------------
\* A report leads from one state of the buttons to another.
LEMMA ReportFollows ==
  ASSUME NEW j \in [pressed : Int, dragging : BOOLEAN], NEW g, Following(g, j), NEW btn \in Int
  PROVE  LET r == MouseReport(j, btn)
         IN  r.mouse \in [pressed : Int, dragging : BOOLEAN] /\ Following(Follow(g, r.event), r.mouse)
<1> DEFINE r == MouseReport(j, btn)
           M == [pressed : Int, dragging : BOOLEAN]
<1>0. MouseReport(j, btn)
        = IF btn = 3
          THEN IF j.pressed = 3 THEN [event |-> "none", mouse |-> j]
               ELSE [event |-> IF j.dragging THEN "drop" ELSE "release",
                     mouse |-> [pressed |-> 3, dragging |-> FALSE]]
          ELSE IF btn >= 32
          THEN IF j.pressed = 3 THEN [event |-> "none", mouse |-> j]
               ELSE [event |-> "drag", mouse |-> [j EXCEPT !.dragging = TRUE]]
          ELSE [event |-> IF j.dragging \/ j.pressed # 3 THEN "none" ELSE "press",
                mouse |-> [j EXCEPT !.pressed = btn]]
  BY DEF MouseReport
<1>1. CASE r = [event |-> "none", mouse |-> j]
  BY <1>1 DEF Follow
<1>2. CASE btn = 3 /\ j.pressed # 3
  <2>1. r.event = (IF j.dragging THEN "drop" ELSE "release")
        /\ r.mouse = [pressed |-> 3, dragging |-> FALSE]
    BY <1>0, <1>2
  <2>2. r.mouse \in M /\ r.mouse.pressed = 3 /\ ~r.mouse.dragging
    BY <2>1
  <2>3. Follow(g, r.event) = "idle"
    BY <1>2, <2>1 DEF Following, Follow
  <2> QED
    BY <2>2, <2>3 DEF Following
<1>3. CASE btn # 3 /\ btn >= 32 /\ j.pressed # 3
  <2>1. r.event = "drag" /\ r.mouse = [j EXCEPT !.dragging = TRUE]
    BY <1>0, <1>3
  <2>2. r.mouse \in M /\ r.mouse.pressed # 3 /\ r.mouse.dragging
    BY <1>3, <2>1
  <2>3. Follow(g, r.event) = "dragged"
    BY <1>3, <2>1 DEF Following, Follow
  <2> QED
    BY <2>2, <2>3 DEF Following
<1>4. CASE btn # 3 /\ ~(btn >= 32)
  <2>1. r.event = (IF j.dragging \/ j.pressed # 3 THEN "none" ELSE "press")
        /\ r.mouse = [j EXCEPT !.pressed = btn]
    BY <1>0, <1>4
  <2>2. r.mouse \in M /\ r.mouse.pressed # 3 /\ r.mouse.dragging = j.dragging
    BY <1>4, <2>1
  <2>3. Follow(g, r.event) = IF g = "idle" THEN "pressed" ELSE g
    BY <1>4, <2>1 DEF Following, Follow
  <2> QED
    BY <2>2, <2>3 DEF Following
<1>5. \/ r = [event |-> "none", mouse |-> j]
      \/ btn = 3 /\ j.pressed # 3
      \/ btn # 3 /\ btn >= 32 /\ j.pressed # 3
      \/ btn # 3 /\ ~(btn >= 32)
  BY <1>0
<1> QED
  BY <1>1, <1>2, <1>3, <1>4, <1>5

\* Whatever bytes there are, the mouse driver and its events stay together.
LEMMA ParseMouseKeeps ==
  ASSUME TtyTypeOK, Following(gesture, mouse), NEW b \in Seq(Byte)
  PROVE  /\ ParseMouse(b).buffer \in Seq(Byte)
         /\ ParseMouse(b).mouse \in [pressed : Int, dragging : BOOLEAN]
         /\ Following(Follow(gesture, ParseMouse(b).event), ParseMouse(b).mouse)
<1> DEFINE rest   == Drop(b, 3)
           report == MouseReport(mouse, SChar(rest[1]) - 32)
<1>1. CASE ~(tty.mouse /\ hasMouseCode(b))
  <2>1. ParseMouse(b) = [buffer |-> b, mouse |-> mouse, event |-> "none"]
    BY <1>1 DEF ParseMouse
  <2> QED
    BY <2>1 DEF Follow, TtyTypeOK
<1>2. CASE tty.mouse /\ hasMouseCode(b) /\ Len(rest) < 3
  <2>1. rest \in Seq(Byte)
    BY DropIsSeq
  <2>2. ParseMouse(b) = [buffer |-> rest, mouse |-> mouse, event |-> "none"]
    BY <1>2 DEF ParseMouse
  <2> HIDE DEF rest
  <2> QED
    BY <2>1, <2>2 DEF Follow, TtyTypeOK
<1>3. CASE tty.mouse /\ hasMouseCode(b) /\ ~(Len(rest) < 3)
  <2>1. rest \in Seq(Byte) /\ Drop(rest, 3) \in Seq(Byte)
    BY DropIsSeq
  <2>2. ParseMouse(b) = [buffer |-> Drop(rest, 3), mouse |-> report.mouse, event |-> report.event]
    BY <1>3 DEF ParseMouse
  <2>3. SChar(rest[1]) - 32 \in Int
    <3> HIDE DEF rest
    <3>1. Len(rest) \in Nat /\ 1 \in 1..Len(rest)
      BY <1>3, <2>1
    <3>2. rest[1] \in Byte
      BY <2>1, <3>1, ElementOfSeq
    <3> QED
      BY <3>2, ByteValues
  <2>4. /\ report.mouse \in [pressed : Int, dragging : BOOLEAN]
        /\ Following(Follow(gesture, report.event), report.mouse)
    <3> HIDE DEF rest
    <3> QED
      BY <2>3, ReportFollows DEF TtyTypeOK
  <2> HIDE DEF rest, report
  <2> QED
    BY <2>1, <2>2, <2>4
<1> QED
  BY <1>1, <1>2, <1>3

\* What parsing keys makes of the keyboard.
Parsed(p) ==
  /\ p.buffer \in Seq(Byte)
  /\ p.k.kbd \in Keyboard /\ p.k.down \subseteq Byte
  /\ ~tty.raw /\ Released(kbd, keyDown) => Released(p.k.kbd, p.k.down)

\* Where nothing was parsed, the keyboard is as it was.
LEMMA NothingParsed ==
  ASSUME TtyTypeOK, NEW b \in Seq(Byte), NEW active
  PROVE  Parsed([buffer |-> b, k |-> [kbd |-> kbd, down |-> keyDown], active |-> active])
BY DEF Parsed, TtyTypeOK

\* Parsing keys, in either mode.
LEMMA ParseKeyKeeps ==
  ASSUME TtyTypeOK, TtyAssumption, NEW b \in Seq(Byte)
  PROVE  Parsed(ParseKey(b))
<1>1. CASE b = <<>> \/ hasMouseCode(b)
  BY <1>1, NothingParsed DEF ParseKey
<1>2. CASE ~(b = <<>> \/ hasMouseCode(b)) /\ tty.raw
  <2> DEFINE k0 == [kbd |-> kbd, down |-> keyDown]
             k1 == mark(k0, b[1] < 128, {b[1] % 128})
  <2>1. Tail(b) \in Seq(Byte) /\ b[1] \in Byte
    <3>1. Len(b) \in Nat /\ Len(b) # 0 /\ 1 \in 1..Len(b)
      BY <1>2
    <3> QED
      BY <1>2, <3>1, ElementOfSeq
  <2>2. ParseKey(b) = [buffer |-> Tail(b), k |-> k1, active |-> FALSE]
    BY <1>2 DEF ParseKey, ParseRaw
  <2>3. k1.kbd \in Keyboard /\ k1.down \subseteq Byte
    <3>1. k0.kbd \in Keyboard /\ k0.down \subseteq Byte
      BY DEF TtyTypeOK
    <3>2. {b[1] % 128} \subseteq Byte
      BY <2>1, ByteValues
    <3>3. (b[1] < 128) \in BOOLEAN
      BY <2>1, ByteValues
    <3> DEFINE pressed == b[1] < 128
               codes   == {b[1] % 128}
    <3>4. pressed \in BOOLEAN /\ codes \subseteq Byte
      BY <3>2, <3>3
    <3> HIDE DEF k0, pressed, codes
    <3>5. mark(k0, pressed, codes).kbd \in Keyboard /\ mark(k0, pressed, codes).down \subseteq Byte
      BY <3>1, <3>4, MarkType
    <3> QED
      BY <3>5 DEF k0, pressed, codes
  <2> HIDE DEF k1
  <2> QED
    BY <1>2, <2>1, <2>2, <2>3 DEF Parsed
<1>3. CASE ~(b = <<>> \/ hasMouseCode(b)) /\ ~tty.raw /\ Matches(b) = {}
  <2>1. ParseKey(b) = [buffer |-> <<>>, k |-> [kbd |-> kbd, down |-> keyDown], active |-> TRUE]
    BY <1>3 DEF ParseKey, ParsePty
  <2>2. <<>> \in Seq(Byte)
    OBVIOUS
  <2> QED
    BY <2>1, <2>2, NothingParsed
<1>4. CASE ~(b = <<>> \/ hasMouseCode(b)) /\ ~tty.raw /\ Matches(b) # {}
  <2>1. ParseKey(b) = [buffer |-> Drop(b, Len(Longest(b).seq)), k |-> Press(Longest(b)), active |-> TRUE]
    BY <1>4 DEF ParseKey, ParsePty
  <2>2. Longest(b) \in KeyTable /\ Drop(b, Len(Longest(b).seq)) \in Seq(Byte)
    BY <1>4, LongestIsKey, DropIsSeq
  <2>3. Press(Longest(b)).kbd \in Keyboard /\ Press(Longest(b)).down \subseteq Byte
    BY <2>2, PressKeeps DEF Kept
  <2>4. Released(kbd, keyDown) => Released(Press(Longest(b)).kbd, Press(Longest(b)).down)
    BY <2>2, PressKeeps
  <2> DEFINE k1 == Press(Longest(b))  rest == Drop(b, Len(Longest(b).seq))
  <2> HIDE DEF k1, rest
  <2>5. ParseKey(b) = [buffer |-> rest, k |-> k1, active |-> TRUE]
    BY <2>1 DEF k1, rest
  <2> QED
    BY <2>2, <2>3, <2>4, <2>5 DEF Parsed, k1, rest
<1> QED
  BY <1>1, <1>2, <1>3, <1>4

-----------------------------------------------------------------------------
\* The inductive invariant: it holds at first,
LEMMA TtyStarts == TtyInit => TtyInv
<1> SUFFICES ASSUME TtyInit PROVE TtyInv
  OBVIOUS
<1>1. TtyTypeOK
  <2>1. wire \in Seq(Byte) /\ buffer \in Seq(Byte)
    BY DEF TtyInit
  <2>2. kbd \in Keyboard /\ mouse \in [pressed : Int, dragging : BOOLEAN]
    BY DEF TtyInit, Keyboard
  <2> QED
    BY <2>1, <2>2 DEF TtyInit, TtyTypeOK
<1>2. Following(gesture, mouse)
  BY DEF TtyInit, Following
<1>3. Released(kbd, keyDown)
  BY DEF TtyInit, Released
<1> QED
  BY <1>1, <1>2, <1>3 DEF TtyInv

\* the reader's turn keeps it,
LEMMA TtyRuns ==
  ASSUME TtyAssumption, TtyInv, NEW n \in 0..Len(wire), RunOnce(n)
  PROVE  TtyInv'
<1> USE DEF TtyInv
<1>1. PICK b, j, p :
        /\ b = buffer \o SubSeq(wire, 1, n) /\ j = ParseMouse(b) /\ p = ParseKey(j.buffer)
        /\ wire' = Drop(wire, n)
        /\ buffer' = (IF p.buffer # b THEN p.buffer ELSE Drop(b, IF hasMouseCode(b) THEN 6 ELSE 1))
        /\ mouse' = j.mouse /\ gesture' = Follow(gesture, j.event)
        /\ kbd' = p.k.kbd /\ keyDown' = p.k.down
        /\ quiet' = (quiet /\ ~p.active)
        /\ UNCHANGED <<tty, typed>>
  BY Zenon DEF RunOnce
<1>2. b \in Seq(Byte)
  BY <1>1, WireSplit DEF TtyTypeOK
<1>3. /\ j.buffer \in Seq(Byte) /\ j.mouse \in [pressed : Int, dragging : BOOLEAN]
      /\ Following(Follow(gesture, j.event), j.mouse)
  BY <1>1, <1>2, ParseMouseKeeps
<1>4. Parsed(p)
  BY <1>1, <1>3, ParseKeyKeeps
<1>5. wire' \in Seq(Byte) /\ buffer' \in Seq(Byte)
  <2>1. Drop(b, 6) \in Seq(Byte) /\ Drop(b, 1) \in Seq(Byte)
    BY <1>2, DropIsSeq
  <2>2. wire' \in Seq(Byte)
    BY <1>1, DropIsSeq DEF TtyTypeOK
  <2> QED
    BY <1>1, <1>4, <2>1, <2>2 DEF Parsed
<1>6. quiet' \in BOOLEAN
  BY <1>1, Zenon
<1>7. TtyTypeOK'
  BY <1>1, <1>3, <1>4, <1>5, <1>6 DEF TtyTypeOK, Parsed
<1>8. Following(gesture', mouse')
  BY <1>1, <1>3
<1>9. ~tty'.raw => Released(kbd', keyDown')
  BY <1>1, <1>4 DEF Parsed
<1> QED
  BY <1>7, <1>8, <1>9

\* and idling does,
LEMMA TtyIdles ==
  ASSUME TtyInv, Idle
  PROVE  TtyInv'
<1> USE DEF TtyInv
<1>1. /\ ~tty.raw /\ kbd' = IdleKeys.kbd /\ keyDown' = IdleKeys.down
      /\ UNCHANGED <<tty, wire, buffer, mouse, quiet, gesture, typed>>
  BY DEF Idle, IdleKeys
<1>2. Kept(IdleKeys, {}) /\ Released(IdleKeys.kbd, IdleKeys.down)
  BY <1>1, IdleKeeps
<1>3. TtyTypeOK'
  BY <1>1, <1>2 DEF TtyTypeOK, Kept
<1>4. Following(gesture', mouse')
  BY <1>1
<1>5. ~tty'.raw => Released(kbd', keyDown')
  BY <1>1, <1>2
<1> QED
  BY <1>3, <1>4, <1>5

\* and so does every step.
LEMMA TtySteps == TtyInv /\ [TtyNext]_ttyVars => TtyInv'
<1> SUFFICES ASSUME TtyInv, [TtyNext]_ttyVars PROVE TtyInv'
  OBVIOUS
<1>1. ASSUME NEW s \in IF tty.raw THEN RawInputs ELSE PtyInputs, Type(s)
      PROVE  TtyInv'
  <2>1. s \in Seq(Byte)
    BY <1>1, TtyAssumption
  <2>2. wire' \in Seq(Byte) /\ typed' \in Nat
    BY <1>1, <2>1 DEF Type, TtyInv, TtyTypeOK
  <2> QED
    BY <1>1, <2>2 DEF Type, TtyInv, TtyTypeOK
<1>2. ASSUME NEW n \in 0..Len(wire), RunOnce(n)
      PROVE  TtyInv'
  BY <1>2, TtyAssumption, TtyRuns
<1>3. CASE TimePasses
  BY <1>3 DEF TimePasses, TtyInv, TtyTypeOK
<1>4. CASE Idle
  BY <1>4, TtyIdles
<1>5. CASE UNCHANGED ttyVars
  BY <1>5 DEF ttyVars, TtyInv, TtyTypeOK
<1> QED
  BY <1>1, <1>2, <1>3, <1>4, <1>5 DEF TtyNext

\* The reader's buffer holds bytes, and the drivers' state stays in its ranges, on any input.
THEOREM TtyTyped == TtySpec => []TtyTypeOK
<1>1. TtyInv => TtyTypeOK
  BY DEF TtyInv
<1> QED
  BY <1>1, TtyStarts, TtySteps, PTL DEF TtySpec

\* MouseTerminalDriver::parse reports a press before a drag or a release, and ends each
\* press with one release or one drop, whatever bytes come in.
THEOREM MouseIsFollowed == TtySpec => []MouseGrammar
<1>1. TtyInv => MouseGrammar
  BY DEF TtyInv, Following, MouseGrammar
<1> QED
  BY <1>1, TtyStarts, TtySteps, PTL DEF TtySpec

\* Once KeyboardPtyDriver::idle has let go, no key that the terminal can spell is still down
\* for the components, but for those told shifted.
THEOREM KeysAreReleased == TtySpec => []KeysReleased
<1>1. TtyInv => KeysReleased
  <2> SUFFICES ASSUME TtyInv, ~tty.raw, kbd.cache = {}
               PROVE  keyDown \subseteq ShiftedCodes
    BY DEF KeysReleased
  <2>1. Released(kbd, keyDown)
    BY DEF TtyInv
  <2>2. Codes(kbd.mods) = {}
    BY <2>1 DEF Released, Codes
  <2> QED
    BY <2>1, <2>2 DEF Released
<1> QED
  BY <1>1, TtyStarts, TtySteps, PTL DEF TtySpec

-----------------------------------------------------------------------------
(* The cells of a gpu, and the terminal *)

\* A view of cells D and a window T.
Pos   == Int \X Int
ACell == [value : Char, locked : BOOLEAN]
Views(D, T) == [cells : [D -> ACell], term : [T -> Char \cup {Half}], on : BOOLEAN, stale : SUBSET D]

IsWide(s, p)   == p \in DOMAIN s.cells /\ s.cells[p].value \in WideChar
IsLocked(s, p) == p \in DOMAIN s.cells /\ s.cells[p].locked

BlankLocks(s)   == \A p \in DOMAIN s.cells : s.cells[p].locked => s.cells[p].value = Blank
HalfHasWhole(s) == \A p \in DOMAIN s.term : s.term[p] = Half =>
                     Left(p) \in DOMAIN s.term /\ s.term[Left(p)] \in WideChar

\* What may be shown of a cell between two sets of one call: its character; or anything,
\* if it is a wide one whose other half is still to be locked; or the half that belongs to
\* a wide one that was just replaced by the lock of another.
FreeShown(s, p) ==
  \/ s.term[p] = s.cells[p].value
  \/ IsWide(s, p) /\ ~IsLocked(s, Right(p))
  \/ s.cells[p].value = Blank /\ s.term[p] = Half /\ IsLocked(s, Left(p)) /\ ~IsWide(s, Left(Left(p)))
LockShown(s, p) == s.term[p] = Half \/ ~IsWide(s, Left(p))
Local(s) == \A p \in DOMAIN s.cells \ s.stale :
              IF s.cells[p].locked THEN LockShown(s, p) ELSE FreeShown(s, p)

\* What every single set keeps.
Sound(D, T) == {s \in Views(D, T) : BlankLocks(s) /\ HalfHasWhole(s) /\ (s.on => Local(s))}

\* A place and those next to it.
LEMMA Beside ==
  \A p \in Pos : /\ Left(p) \in Pos /\ Right(p) \in Pos
                 /\ Left(Right(p)) = p /\ Right(Left(p)) = p
                 /\ Left(p) # p /\ Right(p) # p /\ Left(p) # Right(p)
BY DEF Pos, Left, Right

\* What the assumption says of the characters.
LEMMA CharFacts == /\ Half \notin Char /\ Blank \in Char /\ Blank \notin WideChar /\ WideChar \subseteq Char
BY GpuAssumption

Glyph(term, p, c, o) ==
  IF o = p THEN c
  ELSE IF c \in WideChar /\ o = Right(p) THEN Half
  ELSE IF o = Left(p) /\ term[p] = Half THEN Blank
  ELSE IF o = (IF c \in WideChar THEN Right(Right(p)) ELSE Right(p)) /\ term[o] = Half THEN Blank
  ELSE term[o]

\* What a character does to the terminal, by place.
LEMMA ShownType ==
  ASSUME NEW T \in SUBSET Pos, NEW term \in [T -> Char \cup {Half}], NEW p \in T, NEW c \in Char
  PROVE  /\ Shown(term, p, c) \in [T -> Char \cup {Half}]
         /\ \A o \in T : Shown(term, p, c)[o] = Glyph(term, p, c, o)
<1> DEFINE last == IF c \in WideChar THEN Right(p) ELSE p
           V(o) == CASE o = p -> c
                     [] o = last /\ o # p -> Half
                     [] (o = Left(p) /\ term[p] = Half) \/ (o = Right(last) /\ term[o] = Half) -> Blank
                     [] OTHER -> term[o]
<1>1. Shown(term, p, c) = [o \in T |-> V(o)]
  BY DEF Shown
<1>2. ASSUME NEW o \in T
      PROVE  V(o) = Glyph(term, p, c, o)
  <2>1. p \in Pos /\ Right(p) # p /\ Right(Right(p)) # Right(p) /\ Right(Right(p)) # p /\ Left(p) # p /\ Left(p) # Right(p)
    BY DEF Pos, Left, Right
  <2>2. CASE o = p
    BY <2>1, <2>2 DEF Glyph
  <2>3. CASE o # p /\ o = last
    BY <2>1, <2>3 DEF Glyph
  <2>4. CASE o # p /\ o # last
    BY <2>1, <2>4 DEF Glyph
  <2> QED
    BY <2>2, <2>3, <2>4
<1>3. \A o \in T : V(o) \in Char \cup {Half}
  BY <1>2, CharFacts DEF Glyph
<1> HIDE DEF V
<1> QED
  BY <1>1, <1>2, <1>3

\* A half stays behind its whole.
LEMMA ShownHalf ==
  ASSUME NEW T \in SUBSET Pos, NEW term \in [T -> Char \cup {Half}], NEW p \in T, NEW c \in Char,
         \A o \in T : term[o] = Half => Left(o) \in T /\ term[Left(o)] \in WideChar
  PROVE  \A o \in T : Shown(term, p, c)[o] = Half =>
           Left(o) \in T /\ Shown(term, p, c)[Left(o)] \in WideChar
<1> DEFINE new == Shown(term, p, c)
<1> SUFFICES ASSUME NEW o \in T, new[o] = Half
             PROVE  Left(o) \in T /\ new[Left(o)] \in WideChar
  OBVIOUS
<1>0. /\ p \in Pos /\ o \in Pos /\ Left(Right(p)) = p /\ Left(Right(Right(p))) = Right(p) /\ Right(Left(o)) = o
      /\ Left(o) # o /\ Right(p) # p /\ Right(Right(p)) # p /\ Right(Right(p)) # Right(p) /\ Left(p) # p
      /\ (Left(o) = Left(p) => o = p) /\ (Left(o) = p => o = Right(p)) /\ (Left(o) = Right(p) => o = Right(Right(p)))
      /\ (Left(o) = Right(Right(p)) => o = Right(Right(Right(p))))
  BY DEF Pos, Left, Right
<1>1. \A a \in T : new[a] = Glyph(term, p, c, a)
  BY ShownType
<1> HIDE DEF new
<1>2. CASE c \in WideChar /\ o = Right(p)
  BY <1>0, <1>1, <1>2 DEF Glyph
<1>3. CASE ~(c \in WideChar /\ o = Right(p))
  <2>1. o # p /\ term[o] = Half /\ (c \notin WideChar => o # Right(p)) /\ (c \in WideChar => o # Right(Right(p)))
    BY <1>1, <1>3, CharFacts DEF Glyph
  <2>2. Left(o) \in T /\ term[Left(o)] \in WideChar /\ term[Left(o)] # Half
    BY <2>1, CharFacts
  <2>3. new[Left(o)] = term[Left(o)]
    BY <1>0, <1>1, <2>1, <2>2, <1>3 DEF Glyph
  <2> QED
    BY <2>2, <2>3
<1> QED
  BY <1>2, <1>3

\* The terminal after a write of a cell.
Drawn(s, p, cell) == IF cell.locked \/ ~s.on \/ p \notin DOMAIN s.term THEN s.term
                     ELSE Shown(s.term, p, cell.value)

Touched(s, p, cell) ==
  IF cell.locked \/ ~s.on \/ p \notin DOMAIN s.term THEN {}
  ELSE {p, IF cell.value \in WideChar THEN Right(p) ELSE p}

Freed(cell) == [value |-> cell.value, locked |-> FALSE]

\* What is left of a view by a write, and by a narrow and a wide cell that are set.
Outcome(r, s, p, cell, cells) ==
  /\ r.cells = cells /\ r.on = s.on /\ r.term = Drawn(s, p, cell)
  /\ r.stale = s.stale \ Touched(s, p, cell)
NarrowCell(s, p, cell, o) ==
  IF o = p THEN cell
  ELSE IF o = Right(p) /\ s.cells[p].value \in WideChar THEN Freed(s.cells[o])
  ELSE s.cells[o]
NarrowCells(s, p, cell) == [o \in DOMAIN s.cells |-> NarrowCell(s, p, cell, o)]
WideCell(s, p, cell, force, o) ==
  IF o = p THEN cell
  ELSE IF Free(s, Right(p), force) /\ o = Right(p) THEN Locked
  ELSE IF Free(s, Right(p), force) /\ o = Right(Right(p)) /\ s.cells[Right(p)].value \in WideChar
         THEN Freed(s.cells[o])
  ELSE s.cells[o]
WideCells(s, p, cell, force) == [o \in DOMAIN s.cells |-> WideCell(s, p, cell, force, o)]

\* Frame::write changes what the terminal shows, and no cell.
LEMMA WriteFacts ==
  ASSUME NEW D, NEW T \in SUBSET Pos, NEW s \in Views(D, T), NEW p \in Pos, NEW cell \in ACell
  PROVE  /\ write(s, p, cell) \in Views(D, T)
         /\ Outcome(write(s, p, cell), s, p, cell, s.cells)
<1>1. CASE cell.locked \/ ~s.on \/ p \notin T
  BY <1>1 DEF write, Views, Drawn, Outcome, Touched
<1>2. CASE ~(cell.locked \/ ~s.on \/ p \notin T)
  <2>1. Shown(s.term, p, cell.value) \in [T -> Char \cup {Half}]
    BY <1>2, ShownType DEF Views, ACell
  <2> DEFINE gone == {p, IF Columns(cell.value) > 1 THEN Right(p) ELSE p}
             r == [s EXCEPT !.term = Shown(s.term, p, cell.value), !.stale = s.stale \ gone]
  <2>2. DOMAIN s.term = T
    BY DEF Views
  <2>3. write(s, p, cell) = r
    BY <1>2, <2>2 DEF write
  <2>4. gone = Touched(s, p, cell)
    BY <1>2, <2>2 DEF Columns, Touched
  <2>5. r \in Views(D, T) /\ r.cells = s.cells /\ r.on = s.on /\ r.term = Shown(s.term, p, cell.value)
        /\ r.stale = s.stale \ gone
    BY <2>1 DEF Views
  <2> HIDE DEF r, gone
  <2> QED
    BY <1>2, <2>2, <2>3, <2>4, <2>5 DEF Drawn, Outcome
<1> QED
  BY <1>1, <1>2

LEMMA FreedCell == \A c \in ACell : [c EXCEPT !.locked = FALSE] = Freed(c) /\ Freed(c) \in ACell
<1> SUFFICES ASSUME NEW c \in ACell
             PROVE  [c EXCEPT !.locked = FALSE] = Freed(c) /\ Freed(c) \in ACell
  OBVIOUS
<1> DEFINE r == [c EXCEPT !.locked = FALSE]
<1>1. r \in ACell /\ r.value = c.value /\ r.locked = FALSE
  BY DEF ACell
<1>2. Freed(c) \in ACell /\ Freed(c).value = c.value /\ Freed(c).locked = FALSE
  BY DEF ACell, Freed
<1>3. ASSUME NEW d \in ACell, NEW e \in ACell, d.value = e.value, d.locked = e.locked PROVE d = e
  BY <1>3 DEF ACell
<1> HIDE DEF r
<1>4. r = Freed(c)
  BY <1>1, <1>2, <1>3
<1> QED
  BY <1>2, <1>4 DEF r

\* Setting a cell last does what it says.
LEMMA Stored ==
  ASSUME NEW D, NEW T, NEW s, NEW p \in D, NEW cell \in ACell, NEW w \in Views(D, T),
         NEW cells, Outcome(w, s, p, cell, cells)
  PROVE  /\ [w EXCEPT !.cells = [w.cells EXCEPT ![p] = cell]] \in Views(D, T)
         /\ Outcome([w EXCEPT !.cells = [w.cells EXCEPT ![p] = cell]], s, p, cell, [cells EXCEPT ![p] = cell])
<1> DEFINE r == [w EXCEPT !.cells = [w.cells EXCEPT ![p] = cell]]
<1>1. [w.cells EXCEPT ![p] = cell] \in [D -> ACell]
  BY DEF Views
<1>2. r \in Views(D, T) /\ r.on = w.on /\ r.term = w.term /\ r.stale = w.stale /\ r.cells = [w.cells EXCEPT ![p] = cell]
  BY <1>1 DEF Views
<1> HIDE DEF r
<1>3. Outcome(r, s, p, cell, [cells EXCEPT ![p] = cell])
  BY <1>2 DEF Outcome
<1> QED
  BY <1>2, <1>3 DEF r

\* A narrow cell that is set, with what it covered set free.
LEMMA NarrowFacts ==
  ASSUME NEW D \in SUBSET Pos, NEW T \in SUBSET Pos, NEW s \in Views(D, T), NEW p \in Pos, NEW cell \in ACell,
         NEW force \in BOOLEAN, Free(s, p, force)
  PROVE  /\ setNarrow(s, p, cell, force) \in Views(D, T)
         /\ Outcome(setNarrow(s, p, cell, force), s, p, cell, NarrowCells(s, p, cell))
<1> DEFINE q == Right(p)
           u == IF s.cells[p].value \in WideChar /\ q \in DOMAIN s.cells
                  THEN [s EXCEPT !.cells[q].locked = FALSE] ELSE s
           w == write(u, p, cell)
           freed == [o \in D |-> IF o = q /\ s.cells[p].value \in WideChar THEN Freed(s.cells[o]) ELSE s.cells[o]]
<1>0. p \in D /\ DOMAIN s.cells = D /\ s.cells \in [D -> ACell] /\ DOMAIN s.term = T /\ q # p
  BY Beside DEF Free, Views
<1>1. setNarrow(s, p, cell, force) = [w EXCEPT !.cells = [w.cells EXCEPT ![p] = cell]]
  BY DEF setNarrow
<1>2. u \in Views(D, T) /\ u.on = s.on /\ u.term = s.term /\ u.stale = s.stale /\ u.cells = freed
  <2>1. CASE s.cells[p].value \in WideChar /\ q \in D
    <3>1. u = [s EXCEPT !.cells = [s.cells EXCEPT ![q] = [s.cells[q] EXCEPT !.locked = FALSE]]]
      BY <2>1, <1>0
    <3>a. s.cells[q] \in ACell
      BY <2>1, <1>0
    <3>2. [s.cells[q] EXCEPT !.locked = FALSE] = Freed(s.cells[q]) /\ Freed(s.cells[q]) \in ACell
      BY <3>a, FreedCell, Zenon
    <3>4. [s.cells EXCEPT ![q] = Freed(s.cells[q])] = freed
      BY <2>1, <1>0
    <3>5. freed \in [D -> ACell]
      BY <3>2, <3>4, <2>1, <1>0
    <3>6. u = [s EXCEPT !.cells = freed]
      BY <3>1, <3>2, <3>4
    <3> HIDE DEF freed, u
    <3> QED
      BY <3>5, <3>6 DEF Views
  <2>2. CASE ~(s.cells[p].value \in WideChar /\ q \in D)
    <3>1. u = s
      BY <2>2, <1>0
    <3>2. freed = s.cells
      BY <2>2, <1>0
    <3> QED
      BY <3>1, <3>2
  <2> QED
    BY <2>1, <2>2
<1> HIDE DEF u
<1>3. w \in Views(D, T) /\ Outcome(w, u, p, cell, u.cells)
  BY <1>2, WriteFacts
<1>4. Outcome(w, s, p, cell, freed)
  BY <1>2, <1>3 DEF Drawn, Outcome, Touched
<1> HIDE DEF w
<1>5. [freed EXCEPT ![p] = cell] = NarrowCells(s, p, cell)
  BY <1>0 DEF NarrowCells, NarrowCell
<1> HIDE DEF freed
<1> QED
  BY <1>0, <1>1, <1>3, <1>4, <1>5, Stored

\* A wide cell that is set, with the cell behind it locked.
LEMMA WideFacts ==
  ASSUME NEW D \in SUBSET Pos, NEW T \in SUBSET Pos, NEW s \in Views(D, T), NEW p \in Pos, NEW cell \in ACell,
         NEW force \in BOOLEAN, Free(s, p, force), Right(p) \in D \/ force
  PROVE  /\ setWide(s, p, cell, force) \in Views(D, T)
         /\ Outcome(setWide(s, p, cell, force), s, p, cell, WideCells(s, p, cell, force))
<1> DEFINE q == Right(p)
           u == setNarrow(s, q, Locked, force)
           w == write(u, p, cell)
           cells1 == [o \in D |-> IF Free(s, q, force) /\ o = q THEN Locked
                           ELSE IF Free(s, q, force) /\ o = Right(q) /\ s.cells[q].value \in WideChar
                                  THEN Freed(s.cells[o])
                           ELSE s.cells[o]]
<1>0. /\ p \in D /\ DOMAIN s.cells = D /\ s.cells \in [D -> ACell] /\ DOMAIN s.term = T /\ q # p /\ q \in Pos
      /\ Locked \in ACell /\ Locked.locked
  BY Beside, CharFacts DEF Free, Views, Locked, ACell
<1>1. setWide(s, p, cell, force) = [w EXCEPT !.cells = [w.cells EXCEPT ![p] = cell]]
  BY <1>0 DEF setWide
<1>2. u \in Views(D, T) /\ u.on = s.on /\ u.term = s.term /\ u.stale = s.stale /\ u.cells = cells1
  <2>1. CASE Free(s, q, force)
    <3>1. u \in Views(D, T) /\ Outcome(u, s, q, Locked, NarrowCells(s, q, Locked))
      BY <2>1, <1>0, NarrowFacts
    <3>2. Drawn(s, q, Locked) = s.term /\ Touched(s, q, Locked) = {} /\ NarrowCells(s, q, Locked) = cells1
      BY <1>0, <2>1 DEF Drawn, Touched, NarrowCells, NarrowCell
    <3> HIDE DEF u, cells1
    <3> QED
      BY <3>1, <3>2, <2>1 DEF Outcome
  <2>2. CASE ~Free(s, q, force)
    <3>1. u = s
      BY <2>2 DEF setNarrow
    <3>2. cells1 = s.cells
      BY <2>2, <1>0
    <3> QED
      BY <3>1, <3>2
  <2> QED
    BY <2>1, <2>2
<1> HIDE DEF u
<1>3. w \in Views(D, T) /\ Outcome(w, u, p, cell, u.cells)
  BY <1>2, WriteFacts
<1>4. Outcome(w, s, p, cell, cells1)
  BY <1>2, <1>3 DEF Drawn, Outcome, Touched
<1> HIDE DEF w
<1>5. [cells1 EXCEPT ![p] = cell] = WideCells(s, p, cell, force)
  BY <1>0 DEF WideCells, WideCell
<1> HIDE DEF cells1
<1> QED
  BY <1>0, <1>1, <1>3, <1>4, <1>5, Stored

\* The places around one.
LEMMA Around ==
  ASSUME NEW p \in Pos, NEW o \in Pos
  PROVE  /\ Left(o) \in Pos /\ Right(o) \in Pos /\ Right(Left(o)) = o /\ Left(Right(o)) = o
         /\ (o = Left(p) <=> Right(o) = p) /\ (o = Right(p) <=> Left(o) = p)
         /\ (o = Right(Right(p)) <=> Left(o) = Right(p)) /\ (o = Right(Right(p)) <=> Left(Left(o)) = p)
         /\ (o = Right(Right(Right(p))) <=> Left(Left(o)) = Right(p))
         /\ (o = Right(Right(Right(p))) <=> Left(o) = Right(Right(p)))
         /\ (Right(o) = Right(p) <=> o = p) /\ (Right(o) = Right(Right(p)) <=> o = Right(p))
         /\ Left(p) # p /\ Right(p) # p /\ Left(p) # Right(p) /\ Right(Right(p)) # p /\ Right(Right(p)) # Right(p)
         /\ Right(Right(p)) # Left(p) /\ Left(Left(p)) # p /\ Left(Left(p)) # Right(p) /\ Left(p) # Left(Left(p))
         /\ Right(Right(Right(p))) # p /\ Right(Right(Right(p))) # Right(p)
BY DEF Pos, Left, Right

\* What a draw shows, by place.
LEMMA DrawnFacts ==
  ASSUME NEW D, NEW T \in SUBSET Pos, NEW s \in Views(D, T), HalfHasWhole(s),
         NEW p \in Pos, NEW cell \in ACell
  PROVE  /\ \A o \in T : Drawn(s, p, cell)[o] = Half =>
              Left(o) \in T /\ Drawn(s, p, cell)[Left(o)] \in WideChar
         /\ p \in T /\ ~cell.locked /\ s.on =>
              \A o \in T : Drawn(s, p, cell)[o] = Glyph(s.term, p, cell.value, o)
<1>1. s.term \in [T -> Char \cup {Half}] /\ DOMAIN s.term = T /\ cell.value \in Char
  BY DEF Views, ACell
<1>2. CASE cell.locked \/ ~s.on \/ p \notin T
  <2>1. Drawn(s, p, cell) = s.term
    BY <1>1, <1>2 DEF Drawn
  <2> QED
    BY <2>1, <1>1, <1>2 DEF HalfHasWhole
<1>3. CASE ~(cell.locked \/ ~s.on \/ p \notin T)
  <2>1. Drawn(s, p, cell) = Shown(s.term, p, cell.value)
    BY <1>1, <1>3 DEF Drawn
  <2>2. \A o \in T : s.term[o] = Half => Left(o) \in T /\ s.term[Left(o)] \in WideChar
    BY <1>1 DEF HalfHasWhole
  <2>3. p \in T
    BY <1>3
  <2>4. \A o \in T : Shown(s.term, p, cell.value)[o] = Half =>
              Left(o) \in T /\ Shown(s.term, p, cell.value)[Left(o)] \in WideChar
    BY <2>2, <2>3, <1>1, ShownHalf
  <2>5. \A o \in T : Shown(s.term, p, cell.value)[o] = Glyph(s.term, p, cell.value, o)
    BY <2>3, <1>1, ShownType
  <2> QED
    BY <2>1, <2>4, <2>5, <1>3
<1> QED
  BY <1>2, <1>3

\* What may be set over a cell: a locked one only where one was, behind a wide character.
Settable(s, p, cell) == cell.locked => cell.value = Blank /\ (IsWide(s, Left(p)) => IsLocked(s, p))

\* A narrow cell keeps the screen in step, in the midst of a call too.
LEMMA NarrowSound ==
  ASSUME NEW D \in SUBSET Pos, NEW T \in SUBSET Pos, D \subseteq T, NEW s \in Sound(D, T), NEW p \in Pos,
         NEW cell \in ACell, cell.value \notin WideChar, Settable(s, p, cell),
         NEW force \in BOOLEAN, Free(s, p, force)
  PROVE  setNarrow(s, p, cell, force) \in Sound(D, T)
<1> DEFINE r == setNarrow(s, p, cell, force)
           q == Right(p)
<1>0. /\ s \in Views(D, T) /\ BlankLocks(s) /\ HalfHasWhole(s) /\ DOMAIN s.cells = D /\ DOMAIN s.term = T
      /\ p \in D /\ s.cells \in [D -> ACell] /\ s.term \in [T -> Char \cup {Half}]
  BY DEF Sound, Views, Free
<1>1. r \in Views(D, T) /\ Outcome(r, s, p, cell, NarrowCells(s, p, cell))
  BY <1>0, NarrowFacts
<1> HIDE DEF r
<1>2. /\ r.cells = NarrowCells(s, p, cell) /\ r.on = s.on
      /\ r.term = Drawn(s, p, cell) /\ r.stale = s.stale \ Touched(s, p, cell)
  BY <1>1 DEF Outcome
<1>3. DOMAIN r.cells = D /\ DOMAIN r.term = T /\ \A o \in D : r.cells[o] = NarrowCell(s, p, cell, o)
  BY <1>0, <1>1, <1>2 DEF Views, NarrowCells
<1>4. \A c : Freed(c).value = c.value /\ Freed(c).locked = FALSE
  BY DEF Freed
<1>5. p \in Pos /\ q \in Pos /\ q # p
  BY Around
<1>6. \A a : IsWide(r, a) <=> a # p /\ IsWide(s, a)
  BY <1>0, <1>3, <1>4 DEF IsWide, NarrowCell
<1>7. \A a : IsLocked(r, a) <=> IF a = p THEN cell.locked
                                ELSE IF a = q /\ IsWide(s, p) THEN FALSE ELSE IsLocked(s, a)
  BY <1>0, <1>3, <1>4, <1>5 DEF IsLocked, IsWide, NarrowCell
<1>8. \A a \in D : r.cells[a].value = IF a = p THEN cell.value ELSE s.cells[a].value
  BY <1>0, <1>3, <1>4, <1>5 DEF NarrowCell
<1>9. BlankLocks(r)
  BY <1>0, <1>3, <1>4 DEF BlankLocks, Settable, NarrowCell
<1>10. HalfHasWhole(r)
  BY <1>0, <1>2, <1>3, DrawnFacts DEF HalfHasWhole
<1>11. ASSUME s.on, NEW o \in D, o \notin r.stale
       PROVE  IF IsLocked(r, o) THEN LockShown(r, o) ELSE FreeShown(r, o)
  <2>0. o \in Pos /\ o \in T /\ p \in T /\ (IsWide(s, o) <=> s.cells[o].value \in WideChar)
    BY <1>0 DEF IsWide
  <2>a. IsWide(s, p) => ~IsLocked(s, p)
    BY <1>0, CharFacts DEF BlankLocks, IsWide, IsLocked
  <2>b. IsLocked(s, o) => s.cells[o].value = Blank
    BY <1>0 DEF BlankLocks, IsLocked
  <2>c. s.cells[o].value # Half
    BY <1>0, CharFacts DEF ACell
  <2>1. o \notin s.stale => IF IsLocked(s, o) THEN LockShown(s, o) ELSE FreeShown(s, o)
    BY <1>0, <1>11 DEF Local, Sound, IsLocked
  <2>2. CASE cell.locked
    <3>1. r.term = s.term /\ r.stale = s.stale
      BY <1>2, <2>2 DEF Drawn, Touched
    <3>2. cell.value = Blank /\ (IsWide(s, Left(p)) => IsLocked(s, p))
      BY <2>2 DEF Settable
    <3> HIDE DEF q
    <3>3. CASE o = p
      BY <1>6, <1>7, <1>8, <1>11, <2>0, <2>1, <2>2, <2>a, <2>b, <3>1, <3>2, <3>3, Around DEF LockShown, FreeShown
    <3>4. CASE o = q
      BY <1>6, <1>7, <1>8, <1>11, <2>0, <2>1, <2>2, <2>a, <2>b, <3>1, <3>2, <3>4, Around DEF LockShown, FreeShown, q
    <3>5. CASE o # p /\ o # q
      BY <1>6, <1>7, <1>8, <1>11, <2>0, <2>1, <2>2, <2>a, <2>b, <3>1, <3>2, <3>5, Around DEF LockShown, FreeShown, q
    <3> QED
      BY <3>3, <3>4, <3>5
  <2>3. CASE ~cell.locked
    <3>1. Touched(s, p, cell) = {p} /\ r.stale = s.stale \ {p}
      BY <1>0, <1>2, <1>11, <2>3 DEF Touched
    <3>2. \A a \in T : r.term[a] = Glyph(s.term, p, cell.value, a)
      BY <1>0, <1>2, <1>11, <2>0, <2>3, DrawnFacts
    <3>3. r.term[o] = IF o = p THEN cell.value
                      ELSE IF o = Left(p) /\ s.term[p] = Half THEN Blank
                      ELSE IF o = q /\ s.term[o] = Half THEN Blank
                      ELSE s.term[o]
      BY <2>0, <3>2 DEF Glyph
    <3>4. s.term[p] = Half => Left(p) \in T /\ s.term[Left(p)] \in WideChar
      BY <1>0, <2>0 DEF HalfHasWhole
    <3> HIDE DEF q
    <3>5. CASE o = p
      BY <1>7, <1>8, <2>0, <2>3, <3>3, <3>5 DEF FreeShown
    <3>6. CASE o = Left(p)
      BY <1>6, <1>7, <1>8, <1>11, <2>0, <2>1, <2>3, <2>a, <2>b, <3>1, <3>3, <3>4, <3>6, Around, CharFacts DEF LockShown, FreeShown, q
    <3>7. CASE o = q
      BY <1>6, <1>7, <1>8, <1>11, <2>0, <2>1, <2>3, <2>a, <2>b, <2>c, <3>1, <3>3, <3>4, <3>7, Around, CharFacts DEF LockShown, FreeShown, q
    <3>8. CASE o # p /\ o # Left(p) /\ o # q
      BY <1>6, <1>7, <1>8, <1>11, <2>0, <2>1, <2>3, <2>a, <2>b, <3>1, <3>3, <3>4, <3>8, Around, CharFacts DEF LockShown, FreeShown, q
    <3> QED
      BY <3>5, <3>6, <3>7, <3>8
  <2> QED
    BY <2>2, <2>3
<1>12. r.on => Local(r)
  BY <1>2, <1>3, <1>11 DEF Local, IsLocked
<1> QED
  BY <1>1, <1>9, <1>10, <1>12 DEF Sound, r

\* So does a wide one.
LEMMA WideSound ==
  ASSUME NEW D \in SUBSET Pos, NEW T \in SUBSET Pos, D \subseteq T, NEW s \in Sound(D, T), NEW p \in Pos,
         NEW cell \in ACell, cell.value \in WideChar, ~cell.locked,
         NEW force \in BOOLEAN, Free(s, p, force), Right(p) \in D \/ force
  PROVE  setWide(s, p, cell, force) \in Sound(D, T)
<1> DEFINE r == setWide(s, p, cell, force)
           q == Right(p)
<1>0. /\ s \in Views(D, T) /\ BlankLocks(s) /\ HalfHasWhole(s) /\ DOMAIN s.cells = D /\ DOMAIN s.term = T
      /\ p \in D /\ s.cells \in [D -> ACell] /\ s.term \in [T -> Char \cup {Half}]
  BY DEF Sound, Views, Free
<1>1. r \in Views(D, T) /\ Outcome(r, s, p, cell, WideCells(s, p, cell, force))
  BY <1>0, WideFacts
<1> HIDE DEF r
<1>2. /\ r.cells = WideCells(s, p, cell, force) /\ r.on = s.on
      /\ r.term = Drawn(s, p, cell) /\ r.stale = s.stale \ Touched(s, p, cell)
  BY <1>1 DEF Outcome
<1>3. DOMAIN r.cells = D /\ DOMAIN r.term = T /\ \A o \in D : r.cells[o] = WideCell(s, p, cell, force, o)
  BY <1>0, <1>1, <1>2 DEF Views, WideCells
<1>4. (\A c : Freed(c).value = c.value /\ Freed(c).locked = FALSE) /\ Locked.value = Blank /\ Locked.locked = TRUE
  BY DEF Freed, Locked
<1>5. p \in Pos /\ q \in Pos /\ q # p /\ Right(q) # p /\ Right(q) # q
  BY Around
<1>a. q \in D /\ ~Free(s, q, force) => s.cells[q].locked /\ s.cells[q].value = Blank
  BY <1>0 DEF Free, BlankLocks
<1>6. \A a : IsWide(r, a) <=> a = p \/ (a # q /\ IsWide(s, a))
  BY <1>0, <1>3, <1>4, <1>5, <1>a, CharFacts DEF IsWide, WideCell, Free
<1>7. \A a : IsLocked(r, a) <=> IF a = p THEN FALSE ELSE IF a = q THEN q \in D
                                ELSE IF a = Right(q) /\ IsWide(s, q) THEN FALSE ELSE IsLocked(s, a)
  BY <1>0, <1>3, <1>4, <1>5, <1>a, CharFacts DEF IsLocked, IsWide, WideCell, Free
<1>8. \A a \in D : r.cells[a].value = IF a = p THEN cell.value ELSE IF a = q THEN Blank ELSE s.cells[a].value
  BY <1>0, <1>3, <1>4, <1>5, <1>a DEF WideCell, Free
<1>9. BlankLocks(r)
  BY <1>0, <1>3, <1>4, <1>5 DEF BlankLocks, WideCell
<1>10. HalfHasWhole(r)
  BY <1>0, <1>2, <1>3, DrawnFacts DEF HalfHasWhole
<1>11. ASSUME s.on, NEW o \in D, o \notin r.stale
       PROVE  IF IsLocked(r, o) THEN LockShown(r, o) ELSE FreeShown(r, o)
  <2>0. o \in Pos /\ o \in T /\ p \in T /\ (IsWide(s, o) <=> s.cells[o].value \in WideChar)
    BY <1>0 DEF IsWide
  <2>b. IsLocked(s, o) => s.cells[o].value = Blank
    BY <1>0 DEF BlankLocks, IsLocked
  <2>c. s.cells[o].value # Half
    BY <1>0, CharFacts DEF ACell
  <2>1. o \notin s.stale => IF IsLocked(s, o) THEN LockShown(s, o) ELSE FreeShown(s, o)
    BY <1>0, <1>11 DEF Local, Sound, IsLocked
  <2>2. Touched(s, p, cell) = {p, q} /\ r.stale = s.stale \ {p, q}
    BY <1>0, <1>2, <1>11, <2>0 DEF Touched
  <2>3. \A a \in T : r.term[a] = Glyph(s.term, p, cell.value, a)
    BY <1>0, <1>2, <1>11, <2>0, DrawnFacts
  <2>4. r.term[o] = IF o = p THEN cell.value
                    ELSE IF o = q THEN Half
                    ELSE IF o = Left(p) /\ s.term[p] = Half THEN Blank
                    ELSE IF o = Right(q) /\ s.term[o] = Half THEN Blank
                    ELSE s.term[o]
    BY <2>0, <2>3 DEF Glyph
  <2>5. s.term[p] = Half => Left(p) \in T /\ s.term[Left(p)] \in WideChar
    BY <1>0, <2>0 DEF HalfHasWhole
  <2> HIDE DEF q
  <2>6. CASE o = p
    BY <1>7, <1>8, <2>0, <2>4, <2>6 DEF FreeShown
  <2>7. CASE o = q
    BY <1>5, <1>7, <2>4, <2>7 DEF LockShown
  <2>8. CASE o = Left(p)
    BY <1>6, <1>7, <1>8, <1>11, <2>0, <2>1, <2>b, <2>2, <2>4, <2>5, <2>8, Around, CharFacts DEF LockShown, FreeShown, q
  <2>9. CASE o = Right(q)
    BY <1>6, <1>7, <1>8, <1>11, <2>0, <2>1, <2>b, <2>c, <2>2, <2>4, <2>5, <2>9, Around, CharFacts DEF LockShown, FreeShown, q
  <2>10. CASE o # p /\ o # Left(p) /\ o # q /\ o # Right(q)
    BY <1>6, <1>7, <1>8, <1>11, <2>0, <2>1, <2>b, <2>2, <2>4, <2>5, <2>10, Around, CharFacts DEF LockShown, FreeShown, q
  <2> QED
    BY <2>6, <2>7, <2>8, <2>9, <2>10
<1>12. r.on => Local(r)
  BY <1>2, <1>3, <1>11 DEF Local, IsLocked
<1> QED
  BY <1>1, <1>9, <1>10, <1>12 DEF Sound, r

\* Gpu::set keeps the types, of any cells.
LEMMA SetType ==
  ASSUME NEW D \in SUBSET Pos, NEW T \in SUBSET Pos, NEW s \in Views(D, T), NEW p,
         NEW cell \in ACell, NEW force \in BOOLEAN
  PROVE  set(s, p, cell, force) \in Views(D, T)
<1>0. DOMAIN s.cells = D
  BY DEF Views
<1>1. CASE ~Free(s, p, force)
  BY <1>1 DEF set, setNarrow, setWide
<1>2. CASE Free(s, p, force) /\ cell.value \notin WideChar
  BY <1>0, <1>2, NarrowFacts DEF set, Columns, Free
<1>3. CASE Free(s, p, force) /\ cell.value \in WideChar
  <2>1. CASE Right(p) \notin D /\ ~force
    BY <1>0, <1>3, <2>1 DEF set, setWide, Columns
  <2>2. CASE Right(p) \in D \/ force
    BY <1>0, <1>3, <2>2, WideFacts DEF set, Columns, Free
  <2> QED
    BY <2>1, <2>2
<1> QED
  BY <1>1, <1>2, <1>3

\* A set keeps what the screen shows in step, forced or not.
Allowed(s, p, cell) == Free(s, p, TRUE) => Settable(s, p, cell)

LEMMA SetSound ==
  ASSUME NEW D \in SUBSET Pos, NEW T \in SUBSET Pos, D \subseteq T, NEW s \in Sound(D, T), NEW p,
         NEW cell \in ACell, Allowed(s, p, cell), NEW force \in BOOLEAN
  PROVE  set(s, p, cell, force) \in Sound(D, T)
<1>0. DOMAIN s.cells = D
  BY DEF Views, Sound
<1>1. CASE ~Free(s, p, force)
  BY <1>1 DEF set, setNarrow, setWide
<1>a. Free(s, p, force) => p \in Pos /\ Settable(s, p, cell)
  BY <1>0 DEF Free, Allowed
<1>2. CASE Free(s, p, force) /\ cell.value \notin WideChar
  BY <1>a, <1>2, NarrowSound DEF set, Columns
<1>3. CASE Free(s, p, force) /\ cell.value \in WideChar
  <2>1. CASE Right(p) \notin D /\ ~force
    BY <1>0, <1>3, <2>1 DEF set, setWide, Columns
  <2>2. CASE Right(p) \in D \/ force
    <3>1. cell.locked = FALSE
      BY <1>a, <1>3, CharFacts DEF Settable, ACell
    <3>2. setWide(s, p, cell, force) \in Sound(D, T)
      BY <1>a, <1>3, <2>2, <3>1, WideSound
    <3> QED
      BY <1>3, <3>2 DEF set, Columns
  <2> QED
    BY <2>1, <2>2
<1> QED
  BY <1>1, <1>2, <1>3

\* A set that is not forced leaves no half of a wide character.
LEMMA SetPaired ==
  ASSUME NEW D \in SUBSET Pos, NEW T \in SUBSET Pos, NEW s \in Views(D, T), Paired(s.cells), BlankLocks(s),
         NEW p, NEW c \in Char
  PROVE  Paired(set(s, p, Cell(c), FALSE).cells)
<1> DEFINE r == set(s, p, Cell(c), FALSE)
           q == Right(p)
<1>0. DOMAIN s.cells = D /\ s.cells \in [D -> ACell] /\ Cell(c) \in ACell /\ Cell(c).value = c /\ Cell(c).locked = FALSE
  BY DEF Views, Cell, ACell
<1>1. CASE ~Free(s, p, FALSE)
  BY <1>1 DEF set, setNarrow, setWide
<1>a. (\A d : Freed(d).value = d.value /\ Freed(d).locked = FALSE) /\ Locked.value = Blank /\ Locked.locked = TRUE
  BY DEF Freed, Locked
<1>b. \A o \in D : /\ s.cells[o].locked <=> IsWide(s, Left(o))
                   /\ s.cells[o].value \in WideChar => Right(o) \in D
  BY <1>0 DEF Paired, IsWide
<1>2. CASE Free(s, p, FALSE) /\ c \notin WideChar
  <2>1. r = setNarrow(s, p, Cell(c), FALSE)
    BY <1>0, <1>2 DEF set, Columns
  <2>2. p \in D /\ p \in Pos /\ q \in Pos /\ q # p /\ s.cells[p].locked = FALSE /\ Left(q) = p
    BY <1>0, <1>2, Around DEF Free, ACell
  <2>a. Outcome(setNarrow(s, p, Cell(c), FALSE), s, p, Cell(c), NarrowCells(s, p, Cell(c)))
    BY <1>0, <1>2, <2>2, NarrowFacts
  <2> HIDE DEF r
  <2>3. r.cells = NarrowCells(s, p, Cell(c))
    BY <2>1, <2>a DEF Outcome
  <2>4. DOMAIN r.cells = D /\ \A o \in D : r.cells[o] = NarrowCell(s, p, Cell(c), o)
    BY <1>0, <2>3 DEF NarrowCells
  <2>5. \A a : IsWide(r, a) <=> a # p /\ IsWide(s, a)
    BY <1>0, <1>2, <1>a, <2>4 DEF IsWide, NarrowCell
  <2>6. ASSUME NEW o \in D
        PROVE  /\ r.cells[o].locked <=> IsWide(r, Left(o))
               /\ r.cells[o].value \in WideChar => Right(o) \in D
    <3>0. o \in Pos /\ (o = q <=> Left(o) = p)
      BY <2>2, Around
    <3>1. r.cells[o].locked <=> IsWide(r, Left(o))
      BY <1>0, <1>a, <1>b, <2>2, <2>4, <2>5, <3>0 DEF NarrowCell, IsWide
    <3>2. r.cells[o].value \in WideChar => Right(o) \in D
      BY <1>0, <1>2, <1>a, <1>b, <2>4 DEF NarrowCell
    <3> QED
      BY <3>1, <3>2
  <2> QED
    BY <2>4, <2>6 DEF Paired, IsWide, r
<1>3. CASE Free(s, p, FALSE) /\ c \in WideChar
  <2>1. CASE q \notin D
    BY <1>0, <1>3, <2>1 DEF set, setWide, Columns
  <2>2. CASE q \in D
    <3>1. r = setWide(s, p, Cell(c), FALSE)
      BY <1>0, <1>3 DEF set, Columns
    <3>2. /\ p \in D /\ p \in Pos /\ q \in Pos /\ q # p /\ s.cells[p].locked = FALSE /\ Left(q) = p
          /\ Right(q) # p /\ Right(q) # q
      BY <1>0, <1>3, Around DEF Free, ACell
    <3>a. Outcome(setWide(s, p, Cell(c), FALSE), s, p, Cell(c), WideCells(s, p, Cell(c), FALSE))
      BY <1>0, <1>3, <2>2, <3>2, WideFacts
    <3> HIDE DEF r
    <3>3. r.cells = WideCells(s, p, Cell(c), FALSE)
      BY <3>1, <3>a DEF Outcome
    <3>4. DOMAIN r.cells = D /\ \A o \in D : r.cells[o] = WideCell(s, p, Cell(c), FALSE, o)
      BY <1>0, <3>3 DEF WideCells
    <3>5. Free(s, q, FALSE) <=> ~s.cells[q].locked
      BY <1>0, <2>2 DEF Free
    <3>6. s.cells[q].locked => s.cells[q].value = Blank
      BY <1>0, <2>2 DEF BlankLocks
    <3>7. \A a : IsWide(r, a) <=> a = p \/ (a # q /\ IsWide(s, a))
      BY <1>0, <1>3, <1>a, <2>2, <3>2, <3>4, <3>5, <3>6, CharFacts DEF IsWide, WideCell
    <3>8. ASSUME NEW o \in D
          PROVE  /\ r.cells[o].locked <=> IsWide(r, Left(o))
                 /\ r.cells[o].value \in WideChar => Right(o) \in D
      <4>0. /\ o \in Pos /\ (o = q <=> Left(o) = p) /\ (o = Right(q) <=> Left(o) = q)
            /\ Left(p) # p /\ Left(p) # q
        BY <3>2, Around
      <4>1. r.cells[o].locked <=> IsWide(r, Left(o))
        <5> HIDE DEF q
        <5>a. IsWide(s, q) => ~s.cells[q].locked
          BY <3>6, CharFacts DEF IsWide
        <5>3. CASE o = p
          BY <1>0, <1>b, <3>2, <3>4, <3>7, <4>0, <5>3 DEF WideCell
        <5>4. CASE o = q
          BY <1>0, <1>a, <3>2, <3>4, <3>5, <3>7, <4>0, <5>4 DEF WideCell, q
        <5>5. CASE o = Right(q)
          <6>1. r.cells[o].locked = IF IsWide(s, q) THEN FALSE ELSE s.cells[o].locked
            BY <1>0, <1>a, <2>2, <3>2, <3>4, <3>5, <5>a, <5>5 DEF WideCell, q, IsWide
          <6>2. s.cells[o].locked <=> IsWide(s, q)
            BY <1>b, <4>0, <5>5
          <6>3. ~IsWide(r, Left(o))
            BY <3>2, <3>7, <4>0, <5>5
          <6> QED
            BY <6>1, <6>2, <6>3
        <5>6. CASE o # p /\ o # q /\ o # Right(q)
          <6>1. r.cells[o] = s.cells[o]
            BY <3>4, <5>6 DEF WideCell, q
          <6> QED
            BY <1>b, <3>7, <4>0, <5>6, <6>1
        <5> QED
          BY <5>3, <5>4, <5>5, <5>6
      <4>2. r.cells[o].value \in WideChar => Right(o) \in D
        <5>1. o = p => Right(o) \in D
          BY <2>2
        <5>2. o # p /\ r.cells[o].value \in WideChar => s.cells[o].value \in WideChar
          BY <1>a, <3>4, CharFacts DEF WideCell
        <5> QED
          BY <1>b, <5>1, <5>2
      <4> QED
        BY <4>1, <4>2
    <3> QED
      BY <3>4, <3>8 DEF Paired, IsWide, r
  <2> QED
    BY <2>1, <2>2
<1> QED
  BY <1>1, <1>2, <1>3

\* A forced set changes only its row, and locks the cell behind a wide character.
Forced(r, s, p, cell, D) ==
  /\ \A o \in D : o[2] # p[2] => r.cells[o] = s.cells[o]
  /\ cell.value \in WideChar /\ p \in D /\ Right(p) \in D => r.cells[Right(p)].locked
  /\ p \in D => r.cells[p] = cell

LEMMA SetForced ==
  ASSUME NEW D \in SUBSET Pos, NEW T \in SUBSET Pos, NEW s \in Views(D, T), NEW p,
         NEW cell \in ACell
  PROVE  Forced(set(s, p, cell, TRUE), s, p, cell, D)
<1> DEFINE r == set(s, p, cell, TRUE)
           q == Right(p)
<1> SUFFICES /\ \A o \in D : o[2] # p[2] => r.cells[o] = s.cells[o]
             /\ cell.value \in WideChar /\ p \in D /\ q \in D => r.cells[q].locked
             /\ p \in D => r.cells[p] = cell
  BY DEF Forced
<1>0. DOMAIN s.cells = D
  BY DEF Views
<1>1. CASE p \notin D
  BY <1>0, <1>1 DEF set, setNarrow, setWide, Free
<1>2. CASE p \in D
  <2>0. p \in Pos /\ Free(s, p, TRUE) /\ q # p /\ q[2] = p[2] /\ Right(q)[2] = p[2]
    BY <1>0, <1>2 DEF Free, Pos, Right
  <2>1. CASE cell.value \notin WideChar
    <3>1. r = setNarrow(s, p, cell, TRUE)
      BY <2>1 DEF set, Columns
    <3>a. Outcome(setNarrow(s, p, cell, TRUE), s, p, cell, NarrowCells(s, p, cell))
      BY <2>0, NarrowFacts
    <3> HIDE DEF r
    <3>2. r.cells = NarrowCells(s, p, cell)
      BY <3>1, <3>a DEF Outcome
    <3>3. \A o \in D : r.cells[o] = NarrowCell(s, p, cell, o)
      BY <1>0, <3>2 DEF NarrowCells
    <3>4. \A o \in D : o[2] # p[2] => r.cells[o] = s.cells[o]
      BY <2>0, <3>3 DEF NarrowCell
    <3>5. r.cells[p] = cell
      BY <1>2, <3>3 DEF NarrowCell
    <3> QED
      BY <2>1, <3>4, <3>5 DEF r
  <2>2. CASE cell.value \in WideChar
    <3>1. r = setWide(s, p, cell, TRUE)
      BY <2>2 DEF set, Columns
    <3>a. Outcome(setWide(s, p, cell, TRUE), s, p, cell, WideCells(s, p, cell, TRUE))
      BY <2>0, WideFacts
    <3> HIDE DEF r
    <3>2. r.cells = WideCells(s, p, cell, TRUE)
      BY <3>1, <3>a DEF Outcome
    <3>3. \A o \in D : r.cells[o] = WideCell(s, p, cell, TRUE, o)
      BY <1>0, <3>2 DEF WideCells
    <3>4. \A o \in D : o[2] # p[2] => r.cells[o] = s.cells[o]
      BY <2>0, <3>3 DEF WideCell
    <3>5. r.cells[p] = cell
      BY <1>2, <3>3 DEF WideCell
    <3>6. q \in D => r.cells[q].locked
      BY <1>0, <2>0, <3>3 DEF WideCell, Free, Locked
    <3> QED
      BY <3>4, <3>5, <3>6 DEF r
  <2> QED
    BY <2>1, <2>2
<1> QED
  BY <1>1, <1>2

\* The views one set after the other makes.
Keeps(V, ops, N, force) == \A n \in 1..N, v \in V : set(v, ops[n].at, ops[n].cell, force) \in V
Paints(f, s, ops, N, force) ==
  /\ f[0] = s /\ f[N] = Painted(s, ops, force)
  /\ \A n \in 1..N : f[n] = set(f[n - 1], ops[n].at, ops[n].cell, force)

\* Painted goes through views, of a set that single sets keep.
LEMMA PaintedSteps ==
  ASSUME NEW V, NEW s \in V, NEW ops, NEW N \in Nat, N = Len(ops), NEW force, Keeps(V, ops, N, force)
  PROVE  \E f \in [0..N -> V] : Paints(f, s, ops, N, force)
<1> DEFINE Step(n, v) == set(v, ops[n].at, ops[n].cell, force)
           F == [x \in Nat \X V |-> IF x[1] \in 1..N THEN Step(x[1], x[2]) ELSE x[2]]
<1>0. \A n \in 1..N, v \in V : Step(n, v) \in V
  BY DEF Keeps
<1>1. F \in [Nat \X V -> V]
  <2> HIDE DEF Step
  <2>1. \A x \in Nat \X V : (IF x[1] \in 1..N THEN Step(x[1], x[2]) ELSE x[2]) \in V
    BY <1>0
  <2> QED
    BY <2>1
<1>2. \A n \in 1..N, v \in V : F[<<n, v>>] = Step(n, v)
  OBVIOUS
<1> HIDE DEF F
<1>3. PICK g \in [0..N -> V] : Follows(g, s, N, F)
  BY <1>1, StepsExist
<1>4. g[0] = s /\ \A n \in 1..N : g[n] = F[<<n, g[n - 1]>>]
  BY <1>3 DEF Follows
<1>5. ASSUME NEW n \in 1..N PROVE g[n] = Step(n, g[n - 1])
  <2>a. n - 1 \in 0..N
    OBVIOUS
  <2>1. g[n - 1] \in V
    BY <1>3, <2>a
  <2> QED
    BY <1>2, <1>4, <2>1
<1> DEFINE Is(f) == f = [n \in 0..N |-> IF n = 0 THEN s ELSE Step(n, f[n - 1])]
<1>6. Is(g)
  <2>1. ASSUME NEW n \in 0..N PROVE g[n] = IF n = 0 THEN s ELSE Step(n, g[n - 1])
    BY <1>4, <1>5
  <2> HIDE DEF Step
  <2> QED
    BY <2>1
<1> DEFINE after == CHOOSE f : Is(f)
<1>7. Is(after)
  BY <1>6
<1>8. Painted(s, ops, force) = after[N]
  BY DEF Painted
<1> HIDE DEF after
<1>9. after = g
  <2> DEFINE Good == {n \in Nat : n \in 0..N => after[n] = g[n]}
  <2>a. \A n \in 0..N : after[n] = IF n = 0 THEN s ELSE Step(n, after[n - 1])
    BY <1>7
  <2>b. DOMAIN after = 0..N /\ after = [n \in 0..N |-> after[n]]
    BY <1>7
  <2>1. 0 \in Good
    BY <2>a, <1>4
  <2>2. ASSUME NEW n \in Nat, n \in Good PROVE n + 1 \in Good
    <3>1. ASSUME n + 1 \in 0..N PROVE after[n + 1] = g[n + 1]
      <4>1. n \in 0..N /\ n + 1 # 0 /\ n + 1 \in 1..N /\ (n + 1) - 1 = n
        BY <3>1
      <4>2. after[n] = g[n]
        BY <2>2, <4>1
      <4>3. after[n + 1] = Step(n + 1, after[n])
        <5> HIDE DEF Step
        <5>1. n + 1 \in 0..N
          BY <3>1
        <5> QED
          BY <2>a, <4>1, <5>1
      <4>4. g[n + 1] = Step(n + 1, g[n])
        BY <1>5, <4>1
      <4> HIDE DEF Step
      <4> QED
        BY <4>2, <4>3, <4>4
    <3> QED
      BY <3>1
  <2> HIDE DEF Good
  <2>3. Nat \subseteq Good
    BY <2>1, <2>2, SetInduction
  <2>4. \A n \in 0..N : after[n] = g[n]
    BY <2>3 DEF Good
  <2> QED
    BY <2>b, <2>4
<1> QED
  BY <1>4, <1>5, <1>8, <1>9 DEF Paints

\* Division with remainder, as Rows and the wrapping of ints need it.
LEMMA DivMod ==
  ASSUME NEW a \in Int, NEW b \in Nat \ {0}
  PROVE  a = b * (a \div b) + (a % b) /\ a % b \in 0..(b - 1) /\ a \div b \in Int
OBVIOUS
LEMMA Times == ASSUME NEW b \in Nat \ {0}, NEW q \in Int, NEW k \in Int, q >= k + 1 PROVE b * q >= b * k + b
<1>1. b * q >= b * (k + 1)
  OBVIOUS
<1>2. b * (k + 1) = b * k + b
  OBVIOUS
<1> QED BY <1>1, <1>2
LEMMA DivModIs ==
  ASSUME NEW b \in Nat \ {0}, NEW q \in Int, NEW r \in 0..(b - 1), NEW a \in Int, a = b * q + r
  PROVE  a \div b = q /\ a % b = r
<1>1. PICK k \in Int, j \in 0..(b - 1) : k = a \div b /\ j = a % b /\ a = b * k + j
  BY DivMod
<1>2. ~(q >= k + 1)
  <2>1. ASSUME q >= k + 1 PROVE FALSE
    <3>1. b * q >= b * k + b
      BY <2>1, Times
    <3>2. PICK x, y \in Int : x = b * q /\ y = b * k
      OBVIOUS
    <3> QED
      BY <1>1, <3>1, <3>2
  <2> QED BY <2>1
<1>3. ~(k >= q + 1)
  <2>1. ASSUME k >= q + 1 PROVE FALSE
    <3>1. b * k >= b * q + b
      BY <2>1, Times
    <3>2. PICK x, y \in Int : x = b * q /\ y = b * k
      OBVIOUS
    <3> QED
      BY <1>1, <3>1, <3>2
  <2> QED BY <2>1
<1>4. q = k
  BY <1>1, <1>2, <1>3
<1> QED
  BY <1>1, <1>4

\* Rows goes through a grid, row by row, and leaves nothing out.
LEMMA RowsGoThrough ==
  ASSUME NEW w \in Nat, NEW h \in Nat
  PROVE  /\ w * h \in Nat /\ Len(Rows(<<w, h>>)) = w * h /\ DOMAIN Rows(<<w, h>>) = 1..(w * h)
         /\ \A i \in 1..(w * h) : Rows(<<w, h>>)[i] \in Grid(<<w, h>>)
         /\ \A i \in 2..(w * h) : \/ Rows(<<w, h>>)[i][2] > Rows(<<w, h>>)[i - 1][2]
                                  \/ /\ Rows(<<w, h>>)[i][2] = Rows(<<w, h>>)[i - 1][2]
                                     /\ Rows(<<w, h>>)[i][1] = Rows(<<w, h>>)[i - 1][1] + 1
         /\ \A p \in Grid(<<w, h>>) : \E i \in 1..(w * h) : Rows(<<w, h>>)[i] = p
<1>1. PICK N \in Nat : N = w * h
  OBVIOUS
<1> DEFINE rows == Rows(<<w, h>>)
<1>2. rows = [i \in 1..N |-> <<((i - 1) % w) + 1, ((i - 1) \div w) + 1>>]
  BY <1>1 DEF Rows
<1> HIDE DEF rows
<1>3. DOMAIN rows = 1..N /\ Len(rows) = N
  BY <1>2
<1>4. \A i \in 1..N : rows[i] = <<((i - 1) % w) + 1, ((i - 1) \div w) + 1>>
  BY <1>2
<1>5. N > 0 => w \in Nat \ {0} /\ h \in Nat \ {0}
  BY <1>1
<1>6. ASSUME NEW i \in 1..N
      PROVE  \E q \in 0..(h - 1), r \in 0..(w - 1) :
               i - 1 = w * q + r /\ rows[i] = <<r + 1, q + 1>>
  <2>1. w \in Nat \ {0} /\ h \in Nat \ {0} /\ i - 1 \in Int
    BY <1>5
  <2>2. PICK q \in Int, r \in 0..(w - 1) : q = (i - 1) \div w /\ r = (i - 1) % w /\ i - 1 = w * q + r
    BY <2>1, DivMod
  <2>3. ~(q >= h)
    <3>1. ASSUME q >= h PROVE FALSE
      <4>1. q >= (h - 1) + 1 /\ h - 1 \in Int
        BY <2>1, <3>1
      <4>2. w * q >= w * (h - 1) + w
        BY <2>1, <4>1, Times
      <4>3. w * (h - 1) + w = N
        BY <1>1
      <4>4. PICK x \in Int : x = w * q
        OBVIOUS
      <4>5. x >= N
        BY <4>2, <4>3, <4>4
      <4> QED
        BY <2>2, <4>4, <4>5
    <3> QED
      BY <3>1
  <2>4. ~(0 >= q + 1)
    <3>1. ASSUME 0 >= q + 1 PROVE FALSE
      <4>1. w * 0 >= w * q + w
        BY <2>1, <3>1, Times
      <4>2. PICK x \in Int : x = w * q
        OBVIOUS
      <4>3. 0 >= x + w
        BY <4>1, <4>2, <2>1
      <4> QED
        BY <2>2, <4>2, <4>3
    <3> QED
      BY <3>1
  <2>5. q \in 0..(h - 1)
    BY <2>1, <2>3, <2>4
  <2> QED
    BY <1>4, <2>2, <2>5
<1>7. \A i \in 1..N : rows[i] \in Grid(<<w, h>>)
  <2>1. ASSUME NEW i \in 1..N PROVE rows[i] \in Grid(<<w, h>>)
    <3>1. PICK q \in 0..(h - 1), r \in 0..(w - 1) : rows[i] = <<r + 1, q + 1>>
      BY <1>6
    <3>2. r + 1 \in 1..w /\ q + 1 \in 1..h
      OBVIOUS
    <3> QED
      BY <3>1, <3>2 DEF Grid
  <2> QED
    BY <2>1
<1>8. ASSUME NEW i \in 2..N
      PROVE  \/ rows[i][2] > rows[i - 1][2]
             \/ rows[i][2] = rows[i - 1][2] /\ rows[i][1] = rows[i - 1][1] + 1
  <2>0. i \in 1..N /\ i - 1 \in 1..N /\ w \in Nat \ {0}
    BY <1>5
  <2>1. PICK q \in 0..(h - 1), r \in 0..(w - 1) : i - 1 = w * q + r /\ rows[i] = <<r + 1, q + 1>>
    BY <1>6, <2>0
  <2>2. PICK k \in 0..(h - 1), j \in 0..(w - 1) : (i - 1) - 1 = w * k + j /\ rows[i - 1] = <<j + 1, k + 1>>
    BY <1>6, <2>0
  <2>3. ~(k >= q + 1)
    <3>1. ASSUME k >= q + 1 PROVE FALSE
      <4>1. w * k >= w * q + w
        BY <2>0, <3>1, Times
      <4>2. PICK x, y \in Int : x = w * k /\ y = w * q
        OBVIOUS
      <4> QED
        BY <2>1, <2>2, <4>1, <4>2
    <3> QED
      BY <3>1
  <2>4. k = q => r = j + 1
    <3>1. ASSUME k = q PROVE r = j + 1
      <4>1. PICK x \in Int : x = w * k /\ x = w * q
        BY <3>1
      <4> QED
        BY <2>1, <2>2, <4>1
    <3> QED
      BY <3>1
  <2> QED
    BY <2>1, <2>2, <2>3, <2>4
<1>9. ASSUME NEW p \in Grid(<<w, h>>)
      PROVE  \E i \in 1..N : rows[i] = p
  <2>1. PICK x \in 1..w, y \in 1..h : p = <<x, y>>
    BY DEF Grid
  <2>2. w \in Nat \ {0} /\ y - 1 \in Nat /\ x - 1 \in 0..(w - 1)
    OBVIOUS
  <2>3. PICK k \in Nat : k = w * (y - 1)
    BY <2>2
  <2>4. k + w <= N
    <3>1. w * h >= w * (y - 1) + w
      <4>1. h >= (y - 1) + 1
        OBVIOUS
      <4> QED
        BY <2>2, <4>1, Times
    <3> QED
      BY <1>1, <2>3, <3>1
  <2>5. PICK i \in 1..N : i = k + x
    BY <2>3, <2>4
  <2>6. i - 1 = w * (y - 1) + (x - 1) /\ i - 1 \in Int
    BY <2>3, <2>5
  <2>7. (i - 1) \div w = y - 1 /\ (i - 1) % w = x - 1
    <3>1. PICK a \in Int, q \in Int, r \in 0..(w - 1) : a = i - 1 /\ q = y - 1 /\ r = x - 1
      BY <2>2, <2>6
    <3>2. a = w * q + r
      BY <2>6, <3>1
    <3>3. a \div w = q /\ a % w = r
      BY <2>2, <3>2, DivModIs
    <3> QED
      BY <3>1, <3>3
  <2>8. rows[i] = <<x, y>>
    BY <1>4, <2>7
  <2> QED
    BY <2>1, <2>8
<1> QED
  BY <1>1, <1>3, <1>7, <1>8, <1>9 DEF rows

\* Unforced sets of free cells keep the view sound, and no half is left alone.
LEMMA UnforcedPainting ==
  ASSUME NEW D \in SUBSET Pos, NEW T \in SUBSET Pos, D \subseteq T, NEW s \in Sound(D, T), Paired(s.cells),
         NEW ops, NEW N \in Nat, N = Len(ops),
         \A n \in 1..N : \E c \in Char : ops[n].cell = Cell(c)
  PROVE  Painted(s, ops, FALSE) \in Sound(D, T) /\ Paired(Painted(s, ops, FALSE).cells)
<1> DEFINE V == {v \in Sound(D, T) : Paired(v.cells)}
<1>1. s \in V
  OBVIOUS
<1>2. ASSUME NEW n \in 1..N, NEW v \in V PROVE set(v, ops[n].at, ops[n].cell, FALSE) \in V
  <2>1. PICK c \in Char : ops[n].cell = Cell(c)
    OBVIOUS
  <2>2. Cell(c) \in ACell /\ Cell(c).locked = FALSE
    BY DEF Cell, ACell
  <2>3. v \in Sound(D, T) /\ v \in Views(D, T) /\ BlankLocks(v) /\ Paired(v.cells)
    BY DEF Sound
  <2> HIDE DEF V
  <2>4. set(v, ops[n].at, Cell(c), FALSE) \in Sound(D, T)
    BY <2>2, <2>3, SetSound DEF Settable, Allowed
  <2>5. Paired(set(v, ops[n].at, Cell(c), FALSE).cells)
    BY <2>3, SetPaired
  <2> QED
    BY <2>1, <2>4, <2>5 DEF V
<1>3. Painted(s, ops, FALSE) \in V
  <2> HIDE DEF V
  <2>1. Keeps(V, ops, N, FALSE)
    BY <1>2 DEF Keeps
  <2>2. PICK f \in [0..N -> V] : Paints(f, s, ops, N, FALSE)
    BY <1>1, <2>1, PaintedSteps
  <2>3. f[N] = Painted(s, ops, FALSE)
    BY <2>2 DEF Paints
  <2> QED
    BY <2>2, <2>3
<1> QED
  BY <1>3

\* Sets of any kind keep the types.
LEMMA PaintingType ==
  ASSUME NEW D \in SUBSET Pos, NEW T \in SUBSET Pos, NEW s \in Views(D, T), NEW force \in BOOLEAN,
         NEW ops, NEW N \in Nat, N = Len(ops), \A n \in 1..N : ops[n].cell \in ACell
  PROVE  Painted(s, ops, force) \in Views(D, T)
<1> DEFINE V == Views(D, T)
<1>1. Keeps(V, ops, N, force)
  BY SetType DEF Keeps
<1> HIDE DEF V
<1>2. s \in V
  BY DEF V
<1>3. PICK f \in [0..N -> V] : Paints(f, s, ops, N, force)
  BY <1>1, <1>2, PaintedSteps
<1>4. f[N] = Painted(s, ops, force)
  BY <1>3 DEF Paints
<1> QED
  BY <1>3, <1>4 DEF V

\* The places of sets that go row by row, as a copy's do.
RowByRow(at, N) == \A n \in 2..N : at[n][2] > at[n - 1][2] \/ at[n] = Right(at[n - 1])

\* Forced sets of what was in a view that had no half of a wide character keep the
\* screen in step: a locked cell comes to where one was, or just behind its wide one.
LEMMA ForcedPainting ==
  ASSUME NEW D \in SUBSET Pos, NEW T \in SUBSET Pos, D \subseteq T, NEW s \in Sound(D, T), Paired(s.cells),
         NEW ops, NEW N \in Nat, N = Len(ops), NEW at \in [1..N -> Pos], RowByRow(at, N),
         \A n \in 1..N : ops[n].at = at[n] /\ \E p \in D : ops[n].cell = s.cells[p]
  PROVE  Painted(s, ops, TRUE) \in Sound(D, T)
<1> DEFINE V == Views(D, T)
           Behind(v, p) == IsWide(v, p) => (Right(p) \in D => IsLocked(v, Right(p)))
           Untouched(v, n) == \A o \in D : (n = 0 \/ o[2] > at[n][2]) => v.cells[o] = s.cells[o]
           Fine(v, n) == v \in Sound(D, T) /\ Untouched(v, n) /\ (n # 0 => Behind(v, at[n]))
<1>0. /\ s \in V /\ DOMAIN s.cells = D /\ s.cells \in [D -> ACell] /\ BlankLocks(s)
  BY DEF Sound, Views
<1>1. \A n \in 1..N : ops[n].cell \in ACell
  BY <1>0
<1>2. Keeps(V, ops, N, TRUE)
  BY <1>1, SetType DEF Keeps
<1> HIDE DEF V
<1>3. PICK f \in [0..N -> V] : Paints(f, s, ops, N, TRUE)
  BY <1>0, <1>2, PaintedSteps
<1>4. /\ f[0] = s /\ f[N] = Painted(s, ops, TRUE)
      /\ \A n \in 1..N : f[n] = set(f[n - 1], at[n], ops[n].cell, TRUE)
  BY <1>3 DEF Paints
<1>5. Fine(f[0], 0)
  BY <1>4
<1>6. ASSUME NEW n \in 1..N, Fine(f[n - 1], n - 1)
      PROVE  Fine(f[n], n)
  <2> DEFINE v == f[n - 1]
             p == at[n]
             cell == ops[n].cell
  <2>1. f[n] = set(v, p, cell, TRUE)
    BY <1>4
  <2>2. v \in Sound(D, T) /\ v \in Views(D, T) /\ DOMAIN v.cells = D /\ p \in Pos /\ cell \in ACell
    BY <1>1, <1>6 DEF Sound, Views
  <2>3. cell.locked => cell.value = Blank
    <3>1. PICK o \in D : cell = s.cells[o]
      OBVIOUS
    <3> QED
      BY <1>0, <3>1 DEF BlankLocks
  <2>4. ASSUME p \in D, IsWide(v, Left(p)) PROVE IsLocked(v, p)
    <3>0. Left(p) \in D /\ Left(p)[2] = p[2] /\ p[2] \in Int
      BY <2>2, <2>4 DEF IsWide, Left, Pos
    <3>1. CASE n = 1 \/ at[n][2] > at[n - 1][2]
      <4>1. v.cells[p] = s.cells[p] /\ v.cells[Left(p)] = s.cells[Left(p)]
        BY <1>6, <2>4, <3>0, <3>1
      <4> QED
        BY <1>0, <2>2, <2>4, <3>0, <4>1 DEF Paired, IsWide, IsLocked
    <3>2. CASE n # 1 /\ at[n] = Right(at[n - 1])
      <4>1. n - 1 \in 1..N /\ at[n - 1] \in Pos
        BY <3>2
      <4>2. Left(p) = at[n - 1]
        BY <3>2, <4>1, Around
      <4>3. Behind(v, at[n - 1])
        BY <1>6, <4>1
      <4> QED
        BY <2>4, <3>2, <4>2, <4>3
    <3>3. n = 1 \/ n \in 2..N
      OBVIOUS
    <3> QED
      BY <3>1, <3>2, <3>3 DEF RowByRow
  <2>5. Allowed(v, p, cell)
    BY <2>2, <2>3, <2>4 DEF Allowed, Free, Settable
  <2> HIDE DEF v, p, cell
  <2>a. v \in Sound(D, T) /\ v \in Views(D, T) /\ cell \in ACell
    BY <2>2
  <2>6. f[n] \in Sound(D, T)
    <3>1. TRUE \in BOOLEAN
      OBVIOUS
    <3>2. set(v, p, cell, TRUE) \in Sound(D, T)
      BY <2>5, <2>a, <3>1, SetSound
    <3> QED
      BY <2>1, <3>2
  <2>b. Forced(set(v, p, cell, TRUE), v, p, cell, D)
    BY <2>a, SetForced
  <2>7. /\ \A o \in D : o[2] # p[2] => f[n].cells[o] = v.cells[o]
        /\ cell.value \in WideChar /\ p \in D /\ Right(p) \in D => f[n].cells[Right(p)].locked
        /\ p \in D => f[n].cells[p] = cell
    BY <2>1, <2>b DEF Forced
  <2>8. Untouched(f[n], n)
    <3>1. ASSUME NEW o \in D, o[2] > p[2] PROVE f[n].cells[o] = s.cells[o]
      <4>1. o \in Pos /\ o[2] \in Int /\ p[2] \in Int /\ f[n].cells[o] = v.cells[o]
        BY <2>2, <2>7, <3>1 DEF Pos
      <4>2. n = 1 \/ (n - 1 \in 1..N /\ at[n - 1] \in Pos /\ p[2] >= at[n - 1][2])
        <5>1. ASSUME n # 1 PROVE n - 1 \in 1..N /\ at[n - 1] \in Pos /\ p[2] >= at[n - 1][2]
          <6>1. n \in 2..N /\ n - 1 \in 1..N
            BY <5>1
          <6>2. at[n - 1] \in Pos
            BY <6>1
          <6>3. p[2] > at[n - 1][2] \/ p = Right(at[n - 1])
            BY <6>1 DEF RowByRow, p
          <6>4. p[2] >= at[n - 1][2]
            BY <6>2, <6>3, <4>1 DEF Pos, Right
          <6> QED
            BY <6>1, <6>2, <6>4
        <5> QED
          BY <5>1
      <4>3. n - 1 = 0 \/ o[2] > at[n - 1][2]
        <5>1. CASE n = 1
          BY <5>1
        <5>2. CASE n # 1
          <6>1. at[n - 1][2] \in Int /\ p[2] >= at[n - 1][2]
            BY <4>2, <5>2 DEF Pos
          <6> QED
            BY <3>1, <4>1, <6>1
        <5> QED
          BY <5>1, <5>2
      <4>4. v.cells[o] = s.cells[o]
        BY <1>6, <4>3 DEF v
      <4> QED
        BY <4>1, <4>4
    <3> QED
      BY <3>1 DEF p
  <2>9. Behind(f[n], p)
    <3>1. DOMAIN f[n].cells = D
      BY <2>6 DEF Sound, Views
    <3> QED
      BY <2>7, <3>1 DEF IsWide, IsLocked
  <2> QED
    BY <2>6, <2>8, <2>9 DEF p
<1> DEFINE Good == {n \in Nat : n \in 0..N => Fine(f[n], n)}
<1>7. 0 \in Good
  BY <1>5
<1>8. ASSUME NEW n \in Nat, n \in Good PROVE n + 1 \in Good
  <2>1. ASSUME n + 1 \in 0..N PROVE Fine(f[n + 1], n + 1)
    <3>1. n \in 0..N /\ n + 1 \in 1..N /\ (n + 1) - 1 = n
      BY <2>1
    <3>2. Fine(f[n], n)
      BY <1>8, <3>1
    <3> HIDE DEF Fine
    <3> QED
      BY <1>6, <3>1, <3>2
  <2> HIDE DEF Fine
  <2> QED
    BY <2>1
<1> HIDE DEF Good
<1>9. Nat \subseteq Good
  BY <1>7, <1>8, SetInduction
<1>10. N \in Good /\ N \in 0..N
  BY <1>9
<1> QED
  BY <1>4, <1>10 DEF Good

\* The views that drawing everything anew makes.
Redraws(f, s, all, N) ==
  /\ f[0] = [clear(s) EXCEPT !.stale = IF s.on THEN {} ELSE clear(s).stale] /\ f[N] = invalidate(s)
  /\ \A n \in 1..N : f[n] = write(f[n - 1], all[n], s.cells[all[n]])

Emptied(v, s, T) ==
  /\ v.term = [p \in T |-> Blank] /\ v.cells = s.cells /\ v.on = s.on
  /\ s.on => v.stale = {}

LEMMA Cleared ==
  ASSUME NEW D \in SUBSET Pos, NEW T \in SUBSET Pos, NEW s \in Views(D, T)
  PROVE  /\ clear(s) \in Views(D, T) /\ clear(s).cells = s.cells /\ clear(s).on = s.on
         /\ clear(s).stale = s.stale /\ clear(s).term = [p \in T |-> Blank]
<1>1. DOMAIN s.term = T /\ [p \in T |-> Blank] \in [T -> Char \cup {Half}]
  BY CharFacts DEF Views
<1>2. clear(s) = [s EXCEPT !.term = [p \in T |-> Blank]]
  BY <1>1 DEF clear
<1> QED
  BY <1>1, <1>2 DEF Views

\* invalidate goes through views, from a terminal that was cleared.
LEMMA RedrawnSteps ==
  ASSUME NEW D \in SUBSET Pos, NEW T \in SUBSET Pos, NEW s \in Views(D, T),
         NEW all, all = Rows(<<_width, _height>>), NEW N \in Nat, N = Len(all), all \in [1..N -> D]
  PROVE  \E f \in [0..N -> Views(D, T)] : Redraws(f, s, all, N) /\ Emptied(f[0], s, T)
<1> DEFINE V == Views(D, T)
           Step(n, v) == write(v, all[n], s.cells[all[n]])
           a == [clear(s) EXCEPT !.stale = IF s.on THEN {} ELSE clear(s).stale]
           F == [x \in Nat \X V |-> IF x[1] \in 1..N THEN Step(x[1], x[2]) ELSE x[2]]
<1>8. invalidate(s) = (CHOOSE f : f = [n \in 0..N |-> IF n = 0 THEN a ELSE Step(n, f[n - 1])])[N]
  BY DEF invalidate
<1>c. N \in Nat /\ all \in [1..N -> D]
  OBVIOUS
<1>a. /\ clear(s) \in V /\ clear(s).cells = s.cells /\ clear(s).on = s.on
      /\ clear(s).stale = s.stale /\ clear(s).term = [p \in T |-> Blank]
  BY Cleared
<1>b. a \in V /\ a.term = [p \in T |-> Blank] /\ a.cells = s.cells /\ a.on = s.on /\ (s.on => a.stale = {})
  BY <1>a DEF Views
<1>0. \A n \in 1..N, v \in V : Step(n, v) \in V
  <2>1. \A n \in 1..N : all[n] \in Pos /\ s.cells[all[n]] \in ACell
    BY <1>c DEF Views
  <2> QED
    BY <2>1, WriteFacts
<1> HIDE DEF a, V
<1>1. F \in [Nat \X V -> V]
  <2> HIDE DEF Step
  <2>1. \A x \in Nat \X V : (IF x[1] \in 1..N THEN Step(x[1], x[2]) ELSE x[2]) \in V
    BY <1>0
  <2> QED
    BY <2>1
<1>2. \A n \in 1..N, v \in V : F[<<n, v>>] = Step(n, v)
  OBVIOUS
<1> HIDE DEF F
<1>3. PICK g \in [0..N -> V] : Follows(g, a, N, F)
  BY <1>1, <1>b, <1>c, StepsExist
<1>4. g[0] = a /\ \A n \in 1..N : g[n] = F[<<n, g[n - 1]>>]
  BY <1>3 DEF Follows
<1>5. ASSUME NEW n \in 1..N PROVE g[n] = Step(n, g[n - 1])
  <2>a. n - 1 \in 0..N
    BY <1>c
  <2>1. g[n - 1] \in V
    BY <1>3, <2>a
  <2> QED
    BY <1>2, <1>4, <2>1
<1> DEFINE Is(f) == f = [n \in 0..N |-> IF n = 0 THEN a ELSE Step(n, f[n - 1])]
<1>6. Is(g)
  <2>1. ASSUME NEW n \in 0..N PROVE g[n] = IF n = 0 THEN a ELSE Step(n, g[n - 1])
    <3> HIDE DEF Step
    <3>1. n = 0 \/ n \in 1..N
      BY <1>c
    <3> QED
      BY <1>4, <1>5, <3>1
  <2> HIDE DEF Step
  <2> QED
    BY <2>1, <1>3
<1> DEFINE after == CHOOSE f : Is(f)
<1>7. Is(after)
  BY <1>6
<1>d. invalidate(s) = after[N]
  BY <1>8
<1> HIDE DEF after
<1>9. after = g
  <2> DEFINE Good == {n \in Nat : n \in 0..N => after[n] = g[n]}
  <2>a. \A n \in 0..N : after[n] = IF n = 0 THEN a ELSE Step(n, after[n - 1])
    BY <1>7
  <2>b. DOMAIN after = 0..N /\ after = [n \in 0..N |-> after[n]]
    BY <1>7
  <2>1. 0 \in Good
    BY <2>a, <1>4
  <2>2. ASSUME NEW n \in Nat, n \in Good PROVE n + 1 \in Good
    <3>1. ASSUME n + 1 \in 0..N PROVE after[n + 1] = g[n + 1]
      <4>1. n \in 0..N /\ n + 1 # 0 /\ n + 1 \in 1..N /\ (n + 1) - 1 = n
        BY <3>1, <1>c
      <4>2. after[n] = g[n]
        BY <2>2, <4>1
      <4>3. after[n + 1] = Step(n + 1, after[n])
        <5> HIDE DEF Step
        <5>1. n + 1 \in 0..N
          BY <3>1
        <5> QED
          BY <2>a, <4>1, <5>1
      <4>4. g[n + 1] = Step(n + 1, g[n])
        BY <1>5, <4>1
      <4> HIDE DEF Step
      <4> QED
        BY <4>2, <4>3, <4>4
    <3> QED
      BY <3>1
  <2> HIDE DEF Good
  <2>3. Nat \subseteq Good
    BY <2>1, <2>2, SetInduction
  <2>4. \A n \in 0..N : after[n] = g[n]
    BY <2>3, <1>c DEF Good
  <2> QED
    BY <2>b, <2>4, <1>3
<1>10. Redraws(g, s, all, N)
  BY <1>4, <1>5, <1>d, <1>9 DEF Redraws, a
<1> QED
  BY <1>3, <1>4, <1>b, <1>10 DEF V, Emptied

\* What the terminal shows of paired cells, of which those in W have been written.
Expected(s, W, o) ==
  IF o \notin DOMAIN s.cells THEN Blank
  ELSE IF s.cells[o].locked THEN (IF Left(o) \in W THEN Half ELSE Blank)
  ELSE IF o \in W THEN s.cells[o].value ELSE Blank
Partly(v, s, W) ==
  /\ v.cells = s.cells /\ v.on = s.on /\ HalfHasWhole(v)
  /\ s.on => (v.stale = {} /\ \A o \in DOMAIN v.term : v.term[o] = Expected(s, W, o))

\* One more cell is written.
LEMMA RedrawnStep ==
  ASSUME NEW D \in SUBSET Pos, NEW T \in SUBSET Pos, D \subseteq T, NEW s \in Views(D, T), BlankLocks(s),
         Paired(s.cells), NEW W \in SUBSET D, NEW v \in Views(D, T), Partly(v, s, W), NEW p \in D
  PROVE  Partly(write(v, p, s.cells[p]), s, W \cup {p})
<1> DEFINE cell == s.cells[p]
           r == write(v, p, cell)
           q == Right(p)
<1>0. /\ DOMAIN s.cells = D /\ DOMAIN v.term = T /\ p \in T /\ p \in Pos /\ cell \in ACell
      /\ q \in Pos /\ q # p /\ Left(q) = p /\ Right(q) # p /\ Right(q) # q /\ Left(Right(q)) = q
      /\ Left(p) # p
  BY Around DEF Views
<1>1. r \in Views(D, T) /\ Outcome(r, v, p, cell, v.cells)
  BY <1>0, WriteFacts
<1> HIDE DEF r
<1>2. r.cells = s.cells /\ r.on = s.on /\ r.term = Drawn(v, p, cell) /\ (s.on => r.stale = {})
  BY <1>1 DEF Outcome, Partly
<1>3. DOMAIN r.term = T
  BY <1>1 DEF Views
<1>4. HalfHasWhole(v) /\ v.on = s.on /\ (s.on => \A o \in T : v.term[o] = Expected(s, W, o))
  BY <1>0 DEF Partly
<1>5. HalfHasWhole(r)
  BY <1>0, <1>2, <1>3, <1>4, DrawnFacts DEF HalfHasWhole
<1>6. ASSUME s.on, NEW o \in T PROVE r.term[o] = Expected(s, W \cup {p}, o)
  <2>0. o \in Pos /\ (Left(o) = p <=> o = q) /\ (Left(o) = q <=> o = Right(q))
    BY <1>0, Around
  <2>1. \A a \in D : s.cells[a] \in ACell /\ s.cells[a].value # Half
    BY CharFacts DEF Views, ACell
  <2>2. \A a \in D : (s.cells[a].locked <=> (Left(a) \in D /\ s.cells[Left(a)].value \in WideChar))
                     /\ (s.cells[a].value \in WideChar => Right(a) \in D)
                     /\ (s.cells[a].locked => s.cells[a].value = Blank)
    BY <1>0 DEF Paired, BlankLocks
  <2>3. CASE cell.locked
    <3>1. r.term[o] = Expected(s, W, o)
      BY <1>0, <1>2, <1>4, <1>6, <2>3 DEF Drawn
    <3>2. o = p => Expected(s, W \cup {p}, o) = Expected(s, W, o)
      BY <1>0, <2>3 DEF Expected
    <3>3. o \in D /\ o = q => ~s.cells[o].locked
      BY <1>0, <2>0, <2>2, <2>3, CharFacts
    <3>4. o # p => Expected(s, W \cup {p}, o) = Expected(s, W, o)
      BY <1>0, <2>0, <3>3 DEF Expected
    <3> QED
      BY <3>1, <3>2, <3>4
  <2>4. CASE ~cell.locked
    <3>a. v.on /\ HalfHasWhole(v) /\ p \in T /\ ~cell.locked
      BY <1>0, <1>4, <1>6, <2>4
    <3>b. \A a \in T : Drawn(v, p, cell)[a] = Glyph(v.term, p, cell.value, a)
      BY <3>a, <1>0, DrawnFacts
    <3>1. r.term[o] = Glyph(v.term, p, cell.value, o)
      BY <1>2, <3>b
    <3>2. v.term[p] # Half /\ v.term[o] = Expected(s, W, o)
      BY <1>0, <1>4, <1>6, <2>1, <2>4, CharFacts DEF Expected
    <3>3. Expected(s, W, o) = Half => o \in D /\ s.cells[o].locked
      BY <1>0, <2>1, CharFacts DEF Expected
    <3>4. CASE cell.value \notin WideChar
      <4>1. o = q => v.term[o] # Half
        BY <2>0, <2>2, <3>2, <3>3, <3>4
      <4>2. r.term[o] = IF o = p THEN cell.value ELSE Expected(s, W, o)
        BY <3>1, <3>2, <3>4, <4>1 DEF Glyph
      <4>3. o = q /\ o \in D => ~s.cells[o].locked
        BY <2>0, <2>2, <3>4
      <4> QED
        BY <1>0, <2>0, <2>4, <4>2, <4>3 DEF Expected
    <3>5. CASE cell.value \in WideChar
      <4>1. q \in D /\ s.cells[q].locked /\ s.cells[q].value = Blank
        BY <1>0, <2>2, <3>5
      <4>2. o = Right(q) => v.term[o] # Half
        BY <2>0, <2>2, <3>2, <3>3, <4>1, CharFacts
      <4>3. r.term[o] = IF o = p THEN cell.value ELSE IF o = q THEN Half ELSE Expected(s, W, o)
        BY <3>1, <3>2, <3>5, <4>2 DEF Glyph
      <4> QED
        BY <1>0, <2>0, <2>4, <4>1, <4>3 DEF Expected
    <3> QED
      BY <3>4, <3>5
  <2> QED
    BY <2>3, <2>4
<1> QED
  BY <1>2, <1>3, <1>5, <1>6 DEF Partly, r

\* At the end all are.
LEMMA RedrawnSound ==
  ASSUME NEW D \in SUBSET Pos, NEW T \in SUBSET Pos, D \subseteq T, NEW s \in Views(D, T), BlankLocks(s),
         Paired(s.cells), NEW N \in Nat, NEW all \in [1..N -> D], \A p \in D : \E i \in 1..N : all[i] = p,
         NEW f \in [0..N -> Views(D, T)], Redraws(f, s, all, N), Emptied(f[0], s, T)
  PROVE  invalidate(s) \in Sound(D, T) /\ invalidate(s).cells = s.cells
<1> DEFINE W(n) == {all[i] : i \in 1..n}
           Good == {n \in Nat : n \in 0..N => Partly(f[n], s, W(n))}
<1>0. DOMAIN s.cells = D /\ f[N] = invalidate(s) /\ \A n \in 1..N : f[n] = write(f[n - 1], all[n], s.cells[all[n]])
  BY DEF Views, Redraws
<1>1. 0 \in Good
  <2>1. W(0) = {}
    OBVIOUS
  <2>2. HalfHasWhole(f[0])
    BY CharFacts DEF HalfHasWhole, Emptied
  <2>3. \A o \in T : Blank = Expected(s, {}, o)
    BY DEF Expected
  <2>4. Partly(f[0], s, {})
    BY <2>2, <2>3 DEF Partly, Emptied
  <2> QED
    BY <2>1, <2>4
<1>2. ASSUME NEW n \in Nat, n \in Good PROVE n + 1 \in Good
  <2>1. ASSUME n + 1 \in 0..N PROVE Partly(f[n + 1], s, W(n + 1))
    <3>1. n \in 0..N /\ n + 1 \in 1..N /\ (n + 1) - 1 = n
      BY <2>1
    <3>2. Partly(f[n], s, W(n)) /\ f[n] \in Views(D, T) /\ all[n + 1] \in D
      BY <1>2, <3>1
    <3>3. W(n) \subseteq D
      BY <3>1
    <3>4. W(n + 1) = W(n) \cup {all[n + 1]}
      <4>1. 1..(n + 1) = (1..n) \cup {n + 1}
        OBVIOUS
      <4> QED
        BY <4>1
    <3>5. f[n + 1] = write(f[n], all[n + 1], s.cells[all[n + 1]])
      BY <1>0, <3>1
    <3> HIDE DEF W
    <3>6. Partly(write(f[n], all[n + 1], s.cells[all[n + 1]]), s, W(n) \cup {all[n + 1]})
      BY <3>2, <3>3, RedrawnStep
    <3> QED
      BY <3>4, <3>5, <3>6
  <2> HIDE DEF W
  <2> QED
    BY <2>1
<1> HIDE DEF Good
<1>3. Nat \subseteq Good
  BY <1>1, <1>2, SetInduction
<1>4. N \in Good /\ N \in 0..N /\ W(N) = D
  BY <1>3
<1> HIDE DEF W
<1>5. Partly(invalidate(s), s, D) /\ invalidate(s) \in Views(D, T)
  BY <1>0, <1>4 DEF Good
<1> DEFINE r == invalidate(s)
<1> HIDE DEF r
<1>6. r \in Views(D, T) /\ r.cells = s.cells /\ r.on = s.on /\ HalfHasWhole(r) /\ DOMAIN r.term = T
  BY <1>5 DEF Partly, r, Views
<1>7. BlankLocks(r)
  BY <1>6 DEF BlankLocks
<1>8. ASSUME r.on PROVE Local(r)
  <2>1. ASSUME NEW p \in D PROVE IF s.cells[p].locked THEN LockShown(r, p) ELSE FreeShown(r, p)
    <3>1. r.term[p] = Expected(s, D, p)
      BY <1>5, <1>6, <1>8 DEF Partly, r
    <3>2. s.cells[p].locked => Left(p) \in D
      BY <1>0 DEF Paired
    <3>3. s.cells[p].locked => r.term[p] = Half
      BY <1>0, <3>1, <3>2 DEF Expected
    <3>4. ~s.cells[p].locked => r.term[p] = r.cells[p].value
      BY <1>0, <1>6, <3>1 DEF Expected
    <3> QED
      BY <3>3, <3>4 DEF LockShown, FreeShown
  <2> QED
    BY <1>0, <1>6, <2>1 DEF Local
<1> QED
  BY <1>6, <1>7, <1>8 DEF Sound, r

\* The places of a grid.
LEMMA GridPlaces ==
  ASSUME NEW size \in Nat \X Nat
  PROVE  /\ Grid(size) \in SUBSET Pos /\ size = <<size[1], size[2]>>
         /\ \A p : p \in Grid(size) <=> /\ p \in Pos /\ p = <<p[1], p[2]>>
                                        /\ p[1] \in 1..size[1] /\ p[2] \in 1..size[2]
BY DEF Grid, Pos

\* The resolution read off the cells is the one they were made with.
LEMMA SizeIs ==
  ASSUME NEW w \in Nat \ {0}, NEW h \in Nat \ {0}, DOMAIN view.cells = Grid(<<w, h>>)
  PROVE  _width = w /\ _height = h
<1>1. ASSUME NEW j \in Nat \ {0} PROVE Max(1..j) = j
  <2>0. j \in 1..j /\ \A y \in 1..j : j >= y
    OBVIOUS
  <2>1. Max(1..j) \in 1..j /\ \A y \in 1..j : Max(1..j) >= y
    BY <2>0 DEF Max
  <2> QED
    BY <2>0, <2>1
<1>2. {p[1] : p \in Grid(<<w, h>>)} = 1..w
  <2>1. ASSUME NEW x \in 1..w PROVE \E p \in Grid(<<w, h>>) : x = p[1]
    <3>1. <<x, 1>> \in Grid(<<w, h>>) /\ x = <<x, 1>>[1]
      BY DEF Grid
    <3> QED
      BY <3>1
  <2>2. \A p \in Grid(<<w, h>>) : p[1] \in 1..w
    BY DEF Grid
  <2> QED
    BY <2>1, <2>2
<1>3. {p[2] : p \in Grid(<<w, h>>)} = 1..h
  <2>1. ASSUME NEW y \in 1..h PROVE \E p \in Grid(<<w, h>>) : y = p[2]
    <3>1. <<1, y>> \in Grid(<<w, h>>) /\ y = <<1, y>>[2]
      BY DEF Grid
    <3> QED
      BY <3>1
  <2>2. \A p \in Grid(<<w, h>>) : p[2] \in 1..h
    BY DEF Grid
  <2> QED
    BY <2>1, <2>2
<1> QED
  BY <1>1, <1>2, <1>3 DEF _width, _height

\* Drawing everything anew: the type, and what is shown of paired cells.
LEMMA InvalidateFacts ==
  ASSUME NEW w \in Nat \ {0}, NEW h \in Nat \ {0}, DOMAIN view.cells = Grid(<<w, h>>),
         NEW T \in SUBSET Pos, NEW s \in Views(Grid(<<w, h>>), T)
  PROVE  /\ invalidate(s) \in Views(Grid(<<w, h>>), T)
         /\ Grid(<<w, h>>) \subseteq T /\ BlankLocks(s) /\ Paired(s.cells) =>
              invalidate(s) \in Sound(Grid(<<w, h>>), T) /\ invalidate(s).cells = s.cells
<1> DEFINE D == Grid(<<w, h>>)
           all == Rows(<<w, h>>)
           N == Len(all)
<1>1. D \in SUBSET Pos
  BY GridPlaces
<1>2. _width = w /\ _height = h
  BY SizeIs
<1>3. N \in Nat /\ DOMAIN all = 1..N /\ (\A i \in 1..N : all[i] \in D) /\ \A p \in D : \E i \in 1..N : all[i] = p
  <2>1. PICK j \in Nat : j = w * h
    OBVIOUS
  <2>0. w \in Nat /\ h \in Nat
    OBVIOUS
  <2>2. /\ N = j /\ DOMAIN all = 1..j /\ (\A i \in 1..j : all[i] \in D)
        /\ \A p \in D : \E i \in 1..j : all[i] = p
    BY <2>0, <2>1, RowsGoThrough, SMTT(30)
  <2> HIDE DEF all, D, N
  <2> QED
    BY <2>1, <2>2
<1>4. all = [i \in 1..N |-> all[i]]
  BY <1>3 DEF Rows
<1>5. all \in [1..N -> D]
  BY <1>3, <1>4
<1> HIDE DEF all, D, N
<1>a. s \in Views(D, T)
  BY DEF D
<1>6. PICK f \in [0..N -> Views(D, T)] : Redraws(f, s, all, N) /\ Emptied(f[0], s, T)
  <2>1. all = Rows(<<_width, _height>>) /\ N = Len(all)
    BY <1>2 DEF all, N
  <2> QED
    BY <1>1, <1>3, <1>5, <1>a, <2>1, RedrawnSteps
<1>7. invalidate(s) = f[N] /\ N \in 0..N
  BY <1>3, <1>6 DEF Redraws
<1>8. invalidate(s) \in Views(D, T)
  BY <1>6, <1>7
<1>9. ASSUME D \subseteq T, BlankLocks(s), Paired(s.cells)
      PROVE  invalidate(s) \in Sound(D, T) /\ invalidate(s).cells = s.cells
  <2>1. \A p \in D : \E i \in 1..N : all[i] = p
    BY <1>3
  <2> QED
    BY <1>1, <1>3, <1>5, <1>6, <1>9, <1>a, <2>1, RedrawnSound
<1> QED
  BY <1>8, <1>9 DEF D

\* The ints wrap around.
LEMMA WrapFacts ==
  /\ GpuMaxInt \in Nat \ {0}
  /\ \A n \in Int : GWrap(n) \in GpuInt
  /\ \A n \in GpuInt : GWrap(n) = n
  /\ \A n \in Int : n > GpuMaxInt /\ n <= 3 * GpuMaxInt + 2 => GWrap(n) = n - (2 * GpuMaxInt + 2)
  /\ \A n \in Int : n < -GpuMaxInt - 1 /\ n >= -3 * GpuMaxInt - 3 => GWrap(n) = n + (2 * GpuMaxInt + 2)
<1>1. GpuMaxInt \in Nat \ {0}
  BY GpuAssumption
<1>2. PICK M \in Nat \ {0} : M = GpuMaxInt
  BY <1>1
<1>3. PICK b \in Nat \ {0} : b = 2 * M + 2
  OBVIOUS
<1>4. \A n \in Int : GWrap(n) = ((n + M + 1) % b) - M - 1
  BY <1>2, <1>3 DEF GWrap
<1>5. ASSUME NEW n \in Int PROVE GWrap(n) \in GpuInt
  <2>1. n + M + 1 \in Int
    OBVIOUS
  <2>2. PICK r \in 0..(b - 1) : r = (n + M + 1) % b
    BY <2>1, DivMod
  <2> QED
    BY <1>2, <1>3, <1>4, <2>2 DEF GpuInt
<1>6. ASSUME NEW n \in Int, NEW q \in {-1, 0, 1}, n - b * q >= -M - 1, n - b * q <= M
      PROVE  GWrap(n) = n - b * q
  <2>1. PICK r \in Int : r = n - b * q + M + 1
    OBVIOUS
  <2>2. r \in 0..(b - 1)
    BY <1>3, <1>6, <2>1
  <2>3. PICK a \in Int : a = n + M + 1
    OBVIOUS
  <2>4. a = b * q + r
    BY <2>1, <2>3
  <2>5. a % b = r
    BY <2>2, <2>4, DivModIs
  <2>6. GWrap(n) = r - M - 1
    BY <1>4, <2>3, <2>5
  <2>7. PICK z \in Int : z = b * q
    OBVIOUS
  <2> QED
    BY <2>1, <2>6, <2>7
<1>7. ASSUME NEW n \in GpuInt PROVE GWrap(n) = n
  BY <1>2, <1>6 DEF GpuInt
<1>8. ASSUME NEW n \in Int, n > GpuMaxInt, n <= 3 * GpuMaxInt + 2 PROVE GWrap(n) = n - (2 * GpuMaxInt + 2)
  BY <1>2, <1>3, <1>6, <1>8
<1>9. ASSUME NEW n \in Int, n < -GpuMaxInt - 1, n >= -3 * GpuMaxInt - 3 PROVE GWrap(n) = n + (2 * GpuMaxInt + 2)
  BY <1>2, <1>3, <1>6, <1>9
<1> QED
  BY <1>1, <1>5, <1>7, <1>8, <1>9

\* What is copied lies on the screen, whatever wraps around on the way.
LEMMA SpanInside ==
  ASSUME NEW from \in GpuInt, NEW count \in GpuInt, NEW by \in GpuInt, NEW n \in 1..GpuMaxInt
  PROVE  /\ Span(from, count, by, n).from \in Nat \ {0}
         /\ Span(from, count, by, n).to \in Int
         /\ Span(from, count, by, n).count \in Nat
         /\ Span(from, count, by, n).count > 0 =>
              Span(from, count, by, n).from + Span(from, count, by, n).count - 1 <= n
<1>0. PICK M \in Nat \ {0} : M = GpuMaxInt
  BY WrapFacts
<1>a. GpuInt \subseteq Int /\ from \in Int /\ count \in Int /\ by \in Int /\ n \in Int
  BY <1>0 DEF GpuInt
<1> DEFINE adj == GWrap((IF from > 1 THEN from ELSE 1) - from)
           f == GWrap(from + adj)
           c == GWrap(count - adj)
           to == GWrap(f + GWrap(by - adj))
           k == IF c <= 0 \/ to > n \/ GWrap(to + c) < 1 \/ f > n \/ GWrap(f + c) < 1 THEN 0
                 ELSE IF c < n - f + 1 THEN c ELSE n - f + 1
<1>1. Span(from, count, by, n) = [from |-> f, to |-> to, count |-> k]
  BY DEF Span
<1>2. f = (IF from > 1 THEN from ELSE 1) /\ adj \in GpuInt
  <2>1. CASE from > 1
    <3>1. adj = 0
      BY <2>1, <1>0, <1>a, WrapFacts DEF GpuInt
    <3> HIDE DEF adj
    <3> QED
      BY <2>1, <3>1, <1>0, <1>a, WrapFacts DEF GpuInt
  <2>2. CASE from <= 1
    <3>1. adj = IF 1 - from <= M THEN 1 - from ELSE 1 - from - (2 * M + 2)
      BY <2>2, <1>0, <1>a, WrapFacts DEF GpuInt
    <3> HIDE DEF adj
    <3>2. adj \in GpuInt
      BY <2>2, <3>1, <1>0, <1>a DEF GpuInt
    <3>3. CASE 1 - from <= M
      BY <2>2, <3>1, <3>2, <3>3, <1>0, <1>a, WrapFacts DEF GpuInt
    <3>4. CASE 1 - from > M
      <4>1. from + adj = 1 - (2 * M + 2)
        BY <3>1, <3>4, <1>a
      <4>2. GWrap(1 - (2 * M + 2)) = 1
        BY <1>0, WrapFacts
      <4> QED
        BY <2>2, <4>1, <4>2, <3>2, <1>a
    <3> QED
      BY <3>3, <3>4, <1>0, <1>a
  <2> QED
    BY <2>1, <2>2, <1>a
<1>b. \A j \in Int : GWrap(j) \in Int
  BY <1>a, WrapFacts
<1>3. c \in Int
  <2> HIDE DEF adj
  <2>1. count - adj \in Int
    BY <1>2, <1>a
  <2> QED
    BY <2>1, <1>b
<1>4. to \in Int
  <2> HIDE DEF adj, f
  <2>1. f \in Int /\ by - adj \in Int
    BY <1>2, <1>a
  <2>2. f + GWrap(by - adj) \in Int
    BY <2>1, <1>b
  <2> QED
    BY <2>2, <1>b
<1> HIDE DEF f, c, to, adj
<1>5. k \in Nat /\ (k > 0 => f + k - 1 <= n) /\ f \in Nat \ {0}
  BY <1>2, <1>3, <1>4, <1>a
<1> HIDE DEF k
<1> QED
  BY <1>1, <1>4, <1>5

\* What is copied is on the screen, and its targets go row by row.
LEMMA CopyPlaces ==
  ASSUME NEW w \in 1..GpuMaxInt, NEW h \in 1..GpuMaxInt, DOMAIN view.cells = Grid(<<w, h>>),
         NEW a \in Copies, Moves(a)
  PROVE  \E N \in Nat : \E at \in [1..N -> Pos] :
           /\ Len(InOrder(a)) = N /\ DOMAIN InOrder(a) = 1..N
           /\ \A i \in 1..N : InOrder(a)[i] \in Grid(<<w, h>>) /\ Target(a, InOrder(a)[i]) = at[i]
           /\ RowByRow(at, N)
<1>1. _width = w /\ _height = h
  BY SizeIs, WrapFacts
<1>2. a.x \in GpuInt /\ a.y \in GpuInt /\ a.width \in GpuInt /\ a.height \in GpuInt /\ a.dx \in GpuInt /\ a.dy \in GpuInt
  BY GpuAssumption
<1>3. PICK X, Y : X = SpanX(a) /\ Y = SpanY(a)
  OBVIOUS
<1>4. /\ X.from \in Nat \ {0} /\ X.to \in Int /\ X.count \in Nat /\ X.count > 0 /\ X.from + X.count - 1 <= w
  <2>1. X = Span(a.x, a.width, a.dx, w)
    BY <1>1, <1>3 DEF SpanX
  <2>2. X.count > 0
    BY <1>3 DEF Moves
  <2> QED
    BY <1>2, <2>1, <2>2, SpanInside
<1>5. /\ Y.from \in Nat \ {0} /\ Y.to \in Int /\ Y.count \in Nat /\ Y.count > 0 /\ Y.from + Y.count - 1 <= h
  <2>1. Y = Span(a.y, a.height, a.dy, h)
    BY <1>1, <1>3 DEF SpanY
  <2>2. Y.count > 0
    BY <1>3 DEF Moves
  <2> QED
    BY <1>2, <2>1, <2>2, SpanInside
<1> DEFINE all == Rows(<<X.count, Y.count>>)
           N == Len(all)
<1>6. /\ N \in Nat /\ DOMAIN all = 1..N /\ \A i \in 1..N : all[i] \in Grid(<<X.count, Y.count>>)
      /\ \A i \in 2..N : \/ all[i][2] > all[i - 1][2]
                         \/ all[i][2] = all[i - 1][2] /\ all[i][1] = all[i - 1][1] + 1
  <2>1. PICK j \in Nat : j = X.count * Y.count
    BY <1>4, <1>5
  <2>2. /\ N = j /\ DOMAIN all = 1..j /\ (\A i \in 1..j : all[i] \in Grid(<<X.count, Y.count>>))
        /\ \A i \in 2..j : \/ all[i][2] > all[i - 1][2]
                           \/ all[i][2] = all[i - 1][2] /\ all[i][1] = all[i - 1][1] + 1
    <3>1. PICK c \in Nat, d \in Nat : c = X.count /\ d = Y.count
      BY <1>4, <1>5
    <3>2. /\ c * d \in Nat /\ Len(Rows(<<c, d>>)) = c * d /\ DOMAIN Rows(<<c, d>>) = 1..(c * d)
          /\ \A i \in 1..(c * d) : Rows(<<c, d>>)[i] \in Grid(<<c, d>>)
          /\ \A i \in 2..(c * d) : \/ Rows(<<c, d>>)[i][2] > Rows(<<c, d>>)[i - 1][2]
                                  \/ /\ Rows(<<c, d>>)[i][2] = Rows(<<c, d>>)[i - 1][2]
                                     /\ Rows(<<c, d>>)[i][1] = Rows(<<c, d>>)[i - 1][1] + 1
      BY ONLY c \in Nat, d \in Nat, RowsGoThrough
    <3>3. j = c * d
      BY <2>1, <3>1
    <3>4. PICK r : r = Rows(<<c, d>>)
      OBVIOUS
    <3>5. /\ Len(r) = j /\ DOMAIN r = 1..j /\ (\A i \in 1..j : r[i] \in Grid(<<c, d>>))
          /\ \A i \in 2..j : \/ r[i][2] > r[i - 1][2]
                             \/ r[i][2] = r[i - 1][2] /\ r[i][1] = r[i - 1][1] + 1
      BY ONLY <3>2, <3>3, <3>4, Zenon
    <3>6. r = all
      BY <3>1, <3>4
    <3> HIDE DEF all
    <3> QED
      BY <3>1, <3>5, <3>6
  <2> HIDE DEF all, N
  <2> QED
    BY <2>1, <2>2
<1>7. InOrder(a) = [i \in DOMAIN all |-> <<X.from + all[i][1] - 1, Y.from + all[i][2] - 1>>]
  BY <1>3 DEF InOrder
<1> HIDE DEF all, N
<1> DEFINE at == [i \in 1..N |-> <<all[i][1] - 1 + X.to, all[i][2] - 1 + Y.to>>]
<1>8. \A i \in 1..N : all[i] \in Int \X Int /\ all[i][1] \in 1..X.count /\ all[i][2] \in 1..Y.count
  <2> HIDE DEF at
  <2>1. Grid(<<X.count, Y.count>>) = (1..X.count) \X (1..Y.count)
    BY DEF Grid
  <2>2. \A i \in 1..N : all[i] \in (1..X.count) \X (1..Y.count)
    BY <1>6, <2>1
  <2> QED
    BY ONLY <1>4, <1>5, <2>2
<1>9. at \in [1..N -> Pos]
  BY <1>4, <1>5, <1>8 DEF Pos
<1>10. Len(InOrder(a)) = N /\ DOMAIN InOrder(a) = 1..N
  BY <1>6, <1>7
<1>11. ASSUME NEW i \in 1..N
       PROVE  InOrder(a)[i] \in Grid(<<w, h>>) /\ Target(a, InOrder(a)[i]) = at[i]
  <2>1. InOrder(a)[i] = <<X.from + all[i][1] - 1, Y.from + all[i][2] - 1>>
    BY <1>6, <1>7
  <2>2. PICK x \in 1..X.count, y \in 1..Y.count : x = all[i][1] /\ y = all[i][2]
    BY <1>8
  <2>3. InOrder(a)[i] \in Grid(<<w, h>>)
    BY <1>4, <1>5, <2>1, <2>2 DEF Grid
  <2>4. Target(a, InOrder(a)[i]) = <<(X.from + x - 1) - X.from + X.to, (Y.from + y - 1) - Y.from + Y.to>>
    BY <1>3, <2>1, <2>2 DEF Target
  <2>5. at[i] = <<x - 1 + X.to, y - 1 + Y.to>>
    BY <2>2
  <2> QED
    BY <1>4, <1>5, <2>2, <2>3, <2>4, <2>5
<1>12. RowByRow(at, N)
  <2> SUFFICES ASSUME NEW i \in 2..N
               PROVE  at[i][2] > at[i - 1][2] \/ at[i] = Right(at[i - 1])
    BY DEF RowByRow
  <2>1. i \in 1..N /\ i - 1 \in 1..N
    BY <1>6
  <2>2. PICK x \in Int, y \in Int, v \in Int, z \in Int :
          x = all[i][1] /\ y = all[i][2] /\ v = all[i - 1][1] /\ z = all[i - 1][2]
    BY <1>8, <2>1
  <2>3. at[i] = <<x - 1 + X.to, y - 1 + Y.to>> /\ at[i - 1] = <<v - 1 + X.to, z - 1 + Y.to>>
    BY <2>1, <2>2
  <2>4. y > z \/ (y = z /\ x = v + 1)
    BY <1>6, <2>2
  <2> HIDE DEF at
  <2> QED
    BY <1>4, <1>5, <2>3, <2>4 DEF Right
<1> HIDE DEF at
<1> QED
  BY <1>6, <1>9, <1>10, <1>11, <1>12

\* A copy: the type, and that the screen stays in step unless a character is cut.
LEMMA CopyFacts ==
  ASSUME NEW w \in 1..GpuMaxInt, NEW h \in 1..GpuMaxInt, NEW T \in SUBSET Pos,
         view \in Views(Grid(<<w, h>>), T), NEW a \in Copies, Moves(a)
  PROVE  /\ copy(view, a) \in Views(Grid(<<w, h>>), T)
         /\ Grid(<<w, h>>) \subseteq T /\ view \in Sound(Grid(<<w, h>>), T) /\ Paired(view.cells) =>
              copy(view, a) \in Sound(Grid(<<w, h>>), T)
<1> DEFINE D == Grid(<<w, h>>)
           all == InOrder(a)
           ops == [i \in DOMAIN all |-> [at |-> Target(a, all[i]), cell |-> view.cells[all[i]]]]
<1>1. D \in SUBSET Pos
  BY GridPlaces, WrapFacts
<1>2. DOMAIN view.cells = D /\ \A p \in D : view.cells[p] \in ACell
  BY DEF Views
<1>a. PICK N \in Nat : \E at \in [1..N -> Pos] :
        /\ Len(all) = N /\ DOMAIN all = 1..N
        /\ \A i \in 1..N : all[i] \in D /\ Target(a, all[i]) = at[i]
        /\ RowByRow(at, N)
  BY <1>2, CopyPlaces
<1>3. PICK at \in [1..N -> Pos] :
        /\ Len(all) = N /\ DOMAIN all = 1..N
        /\ \A i \in 1..N : all[i] \in D /\ Target(a, all[i]) = at[i]
        /\ RowByRow(at, N)
  BY <1>a
<1>4. copy(view, a) = Painted(view, ops, TRUE)
  BY DEF copy
<1> HIDE DEF D, all
<1>5. N = Len(ops) /\ \A n \in 1..N : ops[n].at = at[n] /\ ops[n].cell = view.cells[all[n]]
  BY <1>3
<1>6. \A n \in 1..N : ops[n].at = at[n] /\ \E p \in D : ops[n].cell = view.cells[p]
  BY <1>3, <1>5
<1>7. \A n \in 1..N : ops[n].cell \in ACell
  BY <1>2, <1>6
<1> HIDE DEF ops
<1>8. view \in Views(D, T) /\ TRUE \in BOOLEAN
  BY DEF D
<1>9. Painted(view, ops, TRUE) \in Views(D, T)
  BY <1>1, <1>5, <1>7, <1>8, PaintingType
<1>10. ASSUME D \subseteq T, view \in Sound(D, T), Paired(view.cells)
       PROVE  Painted(view, ops, TRUE) \in Sound(D, T)
  BY ONLY T \in SUBSET Pos, <1>1, <1>3, <1>5, <1>6, <1>10, ForcedPainting
<1> QED
  BY <1>4, <1>9, <1>10 DEF D

-----------------------------------------------------------------------------
(* Another size, of the cells or of the window *)

Regrids(r, s, D, T) ==
  /\ r.on = s.on
  /\ r.cells = [p \in D |-> IF p \in DOMAIN s.cells THEN s.cells[p] ELSE Cell(Blank)]
  /\ r.term = [p \in T |-> IF p \in DOMAIN s.term THEN s.term[p] ELSE Blank]
  /\ r.stale = (s.stale \cup (D \ DOMAIN s.cells)) \cap D

\* A view with other sizes keeps the terminal in step: new cells are stale.
LEMMA Regridded ==
  ASSUME NEW D0, NEW T0, NEW size \in Nat \X Nat, NEW fs \in Nat \X Nat,
         Grid(size) \subseteq Grid(fs), D0 \subseteq T0, NEW s \in Sound(D0, T0),
         D0 \in SUBSET Pos, T0 \in SUBSET Pos,
         \A p \in D0 : p[1] >= 1, \A p \in T0 : p[1] >= 1,
         NEW r \in Views(Grid(size), Grid(fs)), Regrids(r, s, Grid(size), Grid(fs))
  PROVE  r \in Sound(Grid(size), Grid(fs))
<1> DEFINE D == Grid(size)
           T == Grid(fs)
<1>0. /\ s \in Views(D0, T0) /\ BlankLocks(s) /\ HalfHasWhole(s) /\ (s.on => Local(s))
      /\ DOMAIN s.cells = D0 /\ DOMAIN s.term = T0 /\ DOMAIN r.cells = D /\ DOMAIN r.term = T
  BY DEF Sound, Views
<1>1. D \in SUBSET Pos /\ T \in SUBSET Pos
  BY GridPlaces
<1>2. \A p \in Pos : p[1] >= 1 =>
        (Right(p) \in D => p \in D) /\ (Right(p) \in T => p \in T)
  BY DEF Grid, Pos, Right
<1>3. \A p \in Pos : /\ Left(p) \in Pos /\ Right(p) \in Pos /\ Right(Left(p)) = p /\ Left(Left(p)) \in Pos
  BY Beside
<1>a. D \subseteq T
  OBVIOUS
<1> HIDE DEF D, T
<1>4. /\ r.on = s.on
      /\ \A p \in D : r.cells[p] = IF p \in D0 THEN s.cells[p] ELSE Cell(Blank)
      /\ \A p \in T : r.term[p] = IF p \in T0 THEN s.term[p] ELSE Blank
      /\ r.stale = (s.stale \cup (D \ D0)) \cap D
  BY <1>0 DEF Regrids, D, T
<1>5. Cell(Blank).locked = FALSE /\ Cell(Blank).value = Blank /\ Blank \notin WideChar /\ Blank # Half
  BY CharFacts DEF Cell
<1>6. BlankLocks(r)
  BY <1>0, <1>4, <1>5 DEF BlankLocks
<1>7. HalfHasWhole(r)
  <2> SUFFICES ASSUME NEW p \in T, r.term[p] = Half
               PROVE  Left(p) \in T /\ r.term[Left(p)] \in WideChar
    BY <1>0 DEF HalfHasWhole
  <2>1. p \in T0 /\ s.term[p] = Half
    BY <1>4, <1>5
  <2>2. Left(p) \in T0 /\ s.term[Left(p)] \in WideChar
    BY <1>0, <2>1 DEF HalfHasWhole
  <2>3. Left(p) \in T
    BY <1>1, <1>2, <1>3, <2>2
  <2> QED
    BY <1>4, <2>2, <2>3
<1>8. ASSUME r.on PROVE Local(r)
  <2> SUFFICES ASSUME NEW p \in D \ r.stale
               PROVE  IF r.cells[p].locked THEN LockShown(r, p) ELSE FreeShown(r, p)
    BY <1>0 DEF Local
  <2>1. p \in D0 \ s.stale /\ p \in Pos /\ p \in T0 /\ r.cells[p] = s.cells[p] /\ r.term[p] = s.term[p]
    BY <1>1, <1>4, <1>a
  <2>2. IF s.cells[p].locked THEN LockShown(s, p) ELSE FreeShown(s, p)
    BY <1>0, <1>4, <1>8, <2>1 DEF Local
  <2>3. \A o : /\ IsWide(r, o) => IsWide(s, o)
               /\ IsLocked(r, o) => IsLocked(s, o)
               /\ o \in D => (IsWide(s, o) => IsWide(r, o)) /\ (IsLocked(s, o) => IsLocked(r, o))
    BY <1>0, <1>4, <1>5 DEF IsWide, IsLocked
  <2>4. IsLocked(s, Left(p)) => Left(p) \in D
    BY <1>0, <1>2, <1>3, <2>1 DEF IsLocked
  <2>5. IsWide(s, p) => IsWide(r, p)
    BY <2>3
  <2> QED
    BY <2>1, <2>2, <2>3, <2>4, <2>5 DEF LockShown, FreeShown
<1> QED
  BY <1>0, <1>6, <1>7, <1>8 DEF Sound, D, T

\* resizeBuffer: the type, and what is kept.
LEMMA ResizedType ==
  ASSUME NEW D0, NEW T \in SUBSET Pos, NEW size \in Nat \X Nat, NEW s \in Views(D0, T)
  PROVE  Resized(s, size) \in Views(Grid(size), T) /\ Regrids(Resized(s, size), s, Grid(size), T)
<1> DEFINE cells == [p \in Grid(size) |-> IF p \in DOMAIN s.cells THEN s.cells[p] ELSE Cell(Blank)]
           stale == (s.stale \cup (Grid(size) \ DOMAIN s.cells)) \cap Grid(size)
           r == [s EXCEPT !.cells = cells, !.stale = stale]
<1>1. Resized(s, size) = r
  BY DEF Resized
<1>2. Cell(Blank) \in ACell
  BY CharFacts DEF Cell, ACell
<1>3. cells \in [Grid(size) -> ACell]
  BY <1>2 DEF Views
<1>4. stale \in SUBSET Grid(size)
  OBVIOUS
<1>5. s.term = [p \in T |-> IF p \in DOMAIN s.term THEN s.term[p] ELSE Blank]
  BY DEF Views
<1>6. r \in Views(Grid(size), T) /\ r.cells = cells /\ r.stale = stale /\ r.term = s.term /\ r.on = s.on
  <2> HIDE DEF cells, stale
  <2> QED
    BY <1>3, <1>4 DEF Views
<1> HIDE DEF r
<1> QED
  BY <1>1, <1>5, <1>6 DEF Regrids

-----------------------------------------------------------------------------
(* The invariant *)

\* The cells are those of one size, that is not beyond the window's; and unless a wide
\* character was cut, they are paired and the terminal is in step with them.
Fits(size, fs, v, isCut) ==
  /\ size \in FrameSizes /\ fs \in FrameSizes /\ size[1] <= fs[1] /\ size[2] <= fs[2]
  /\ v \in Views(Grid(size), Grid(fs))
  /\ ~isCut => Paired(v.cells) /\ v \in Sound(Grid(size), Grid(fs))

GpuIsSound ==
  /\ cut \in BOOLEAN /\ draws \in 0..MaxDraws
  /\ \E size \in FrameSizes : Fits(size, frameSize, view, cut)

\* The types alone: the cells, and what the terminal shows.
GpuTypeOK ==
  /\ frameSize \in FrameSizes /\ cut \in BOOLEAN /\ draws \in 0..MaxDraws
  /\ \E size \in FrameSizes : /\ size[1] <= frameSize[1] /\ size[2] <= frameSize[2]
                              /\ view \in Views(Grid(size), Grid(frameSize))

\* The sizes of a window.
LEMMA SizeFacts ==
  ASSUME NEW size \in FrameSizes
  PROVE  /\ size \in Nat \X Nat /\ size = <<size[1], size[2]>> /\ size[1] \in 1..GpuMaxInt /\ size[2] \in 1..GpuMaxInt
         /\ size[1] \in Nat \ {0} /\ size[2] \in Nat \ {0} /\ Grid(size) \in SUBSET Pos
         /\ \A p \in Grid(size) : p[1] >= 1
         /\ \A fs \in FrameSizes : size[1] <= fs[1] /\ size[2] <= fs[2] => Grid(size) \subseteq Grid(fs)
<1>1. size \in (1..GpuMaxInt) \X (1..GpuMaxInt) /\ GpuMaxInt \in Nat /\ FrameSizes \subseteq (1..GpuMaxInt) \X (1..GpuMaxInt)
  BY GpuAssumption
<1>2. size \in Nat \X Nat
  BY <1>1
<1>3. Grid(size) \in SUBSET Pos /\ \A p \in Grid(size) : p[1] >= 1
  BY <1>1 DEF Grid, Pos
<1>4. ASSUME NEW fs \in FrameSizes, size[1] <= fs[1], size[2] <= fs[2] PROVE Grid(size) \subseteq Grid(fs)
  BY <1>1, <1>4 DEF Grid
<1> QED
  BY <1>1, <1>2, <1>3, <1>4

\* A call that leaves the sizes as they are.
LEMMA SameSizes ==
  ASSUME GpuIsSound, NEW r, Draw(r), UNCHANGED frameSize, cut' \in BOOLEAN, cut => cut',
         \A size \in FrameSizes : Fits(size, frameSize, view, cut) => Fits(size, frameSize, r, cut')
  PROVE  GpuIsSound'
<1>1. draws' \in 0..MaxDraws /\ view' = r
  BY GpuAssumption DEF Draw, GpuIsSound
<1> QED
  BY <1>1 DEF GpuIsSound

LEMMA CellType == \A c \in Char : Cell(c) \in ACell
BY DEF Cell, ACell

\* A gpu just bound: all is blank.
LEMMA InitSound == ASSUME GpuCellsInit PROVE GpuIsSound
<1> DEFINE D == Grid(FirstSize)
<1>1. FirstSize \in FrameSizes /\ MaxDraws \in Nat
  BY GpuAssumption
<1>2. D \in SUBSET Pos /\ FirstSize[1] <= FirstSize[1] /\ FirstSize[2] <= FirstSize[2]
  BY <1>1, SizeFacts
<1>3. Cell(Blank) \in ACell /\ Cell(Blank).value = Blank /\ Cell(Blank).locked = FALSE
  BY CharFacts DEF Cell, ACell
<1> HIDE DEF D
<1>4. /\ view \in Views(D, D) /\ DOMAIN view.cells = D /\ DOMAIN view.term = D
      /\ \A p \in D : view.cells[p] = Cell(Blank) /\ view.term[p] = Blank
  BY <1>3, CharFacts DEF GpuCellsInit, Views, D
<1>5. Paired(view.cells)
  BY <1>3, <1>4, CharFacts DEF Paired
<1>6. BlankLocks(view) /\ HalfHasWhole(view) /\ Local(view)
  BY <1>3, <1>4, CharFacts DEF BlankLocks, HalfHasWhole, Local, FreeShown
<1>7. frameSize = FirstSize /\ draws = 0 /\ cut \in BOOLEAN
  BY DEF GpuCellsInit
<1>8. view \in Sound(D, D)
  BY <1>4, <1>6 DEF Sound
<1>9. Fits(FirstSize, frameSize, view, cut)
  BY <1>1, <1>2, <1>4, <1>5, <1>7, <1>8 DEF Fits, D
<1> QED
  BY <1>1, <1>7, <1>9 DEF GpuIsSound

\* The invariant, action by action.
LEMMA SetTextSound == ASSUME GpuIsSound, NEW t \in Texts, SetText(t) PROVE GpuIsSound'
<1>1. Draw(setText(view, t)) /\ UNCHANGED <<frameSize, cut>> /\ t.text \in Seq(Char)
  BY GpuAssumption DEF SetText
<1>2. ASSUME NEW size \in FrameSizes, Fits(size, frameSize, view, cut)
      PROVE  Fits(size, frameSize, setText(view, t), cut)
  <2> DEFINE at[i \in DOMAIN t.text] ==
        CASE i = 1 -> t.at
          [] i > 1 /\ t.vertical -> Below(at[i - 1])
          [] i > 1 /\ ~t.vertical -> <<at[i - 1][1] + Columns(t.text[i - 1]), at[i - 1][2]>>
             D == Grid(size)
             T == Grid(frameSize)
             ops == [i \in DOMAIN t.text |-> [at |-> at[i], cell |-> Cell(t.text[i])]]
  <2>1. setText(view, t) = Painted(view, ops, FALSE)
    BY DEF setText
  <2> HIDE DEF at
  <2>2. PICK N \in Nat : N = Len(t.text) /\ DOMAIN t.text = 1..N /\ \A i \in 1..N : t.text[i] \in Char
    BY <1>1
  <2>3. N = Len(ops) /\ \A n \in 1..N : ops[n].cell = Cell(t.text[n])
    BY <2>2
  <2> HIDE DEF ops
  <2>4. \A n \in 1..N : \E c \in Char : ops[n].cell = Cell(c)
    BY <2>2, <2>3
  <2>5. \A n \in 1..N : ops[n].cell \in ACell
    BY <2>2, <2>3, CellType
  <2>6. D \in SUBSET Pos /\ T \in SUBSET Pos /\ D \subseteq T /\ view \in Views(D, T)
    BY <1>2, SizeFacts DEF Fits
  <2>7. (~cut => Paired(view.cells) /\ view \in Sound(D, T)) /\ FALSE \in BOOLEAN
    BY <1>2 DEF Fits
  <2> HIDE DEF D, T
  <2>8. Painted(view, ops, FALSE) \in Views(D, T)
    BY <2>3, <2>5, <2>6, <2>7, PaintingType
  <2>9. ~cut => Painted(view, ops, FALSE) \in Sound(D, T) /\ Paired(Painted(view, ops, FALSE).cells)
    BY <2>3, <2>4, <2>6, <2>7, UnforcedPainting
  <2> QED
    BY <1>2, <2>1, <2>8, <2>9 DEF Fits, D, T
<1> QED
  BY <1>1, <1>2, SameSizes DEF GpuIsSound

LEMMA FillSound == ASSUME GpuIsSound, NEW f \in Fills, Fill(f) PROVE GpuIsSound'
<1>1. Draw(fill(view, f)) /\ UNCHANGED <<frameSize, cut>> /\ f.value \in Char /\ f.size \in Nat \X Nat
  BY GpuAssumption DEF Fill
<1>2. ASSUME NEW size \in FrameSizes, Fits(size, frameSize, view, cut)
      PROVE  Fits(size, frameSize, fill(view, f), cut)
  <2> DEFINE Place(o) == <<f.at[1] + (o[1] - 1) * Columns(f.value), f.at[2] + o[2] - 1>>
             all == Rows(f.size)
             D == Grid(size)
             T == Grid(frameSize)
             ops == [i \in DOMAIN all |-> [at |-> Place(all[i]), cell |-> Cell(f.value)]]
  <2>1. fill(view, f) = Painted(view, ops, FALSE)
    BY DEF fill
  <2> HIDE DEF Place
  <2>2. PICK N \in Nat : DOMAIN all = 1..N
    <3>1. f.size = <<f.size[1], f.size[2]>> /\ f.size[1] \in Nat /\ f.size[2] \in Nat
      BY <1>1
    <3>2. PICK j \in Nat : j = f.size[1] * f.size[2]
      BY <3>1
    <3>3. DOMAIN Rows(<<f.size[1], f.size[2]>>) = 1..(f.size[1] * f.size[2])
      BY <3>1, RowsGoThrough
    <3>4. DOMAIN all = 1..j
      BY <3>1, <3>2, <3>3
    <3> QED
      BY <3>4
  <2> HIDE DEF all
  <2>3. N = Len(ops) /\ \A n \in 1..N : ops[n].cell = Cell(f.value)
    BY <2>2
  <2> HIDE DEF ops
  <2>4. \A n \in 1..N : \E c \in Char : ops[n].cell = Cell(c)
    BY <1>1, <2>3
  <2>5. \A n \in 1..N : ops[n].cell \in ACell
    BY <1>1, <2>3, CellType
  <2>6. D \in SUBSET Pos /\ T \in SUBSET Pos /\ D \subseteq T /\ view \in Views(D, T)
    BY <1>2, SizeFacts DEF Fits
  <2>7. (~cut => Paired(view.cells) /\ view \in Sound(D, T)) /\ FALSE \in BOOLEAN
    BY <1>2 DEF Fits
  <2> HIDE DEF D, T
  <2>8. Painted(view, ops, FALSE) \in Views(D, T)
    BY <2>3, <2>5, <2>6, <2>7, PaintingType
  <2>9. ~cut => Painted(view, ops, FALSE) \in Sound(D, T) /\ Paired(Painted(view, ops, FALSE).cells)
    BY <2>3, <2>4, <2>6, <2>7, UnforcedPainting
  <2> QED
    BY <1>2, <2>1, <2>8, <2>9 DEF Fits, D, T
<1> QED
  BY <1>1, <1>2, SameSizes DEF GpuIsSound

\* A copy may cut a wide character, and then says so.
LEMMA CopyKeeps == ASSUME GpuIsSound, NEW a \in Copies, Copy(a) PROVE GpuIsSound'
<1> DEFINE r == IF Moves(a) THEN copy(view, a) ELSE view
<1>1. Draw(r) /\ view' = r /\ UNCHANGED frameSize /\ cut \in BOOLEAN /\ cut' = (cut \/ ~Paired(view'.cells))
  BY DEF Copy, Draw, GpuIsSound
<1>2. cut' \in BOOLEAN /\ (cut => cut') /\ (~cut' => ~cut /\ Paired(r.cells))
  BY <1>1
<1>3. ASSUME NEW size \in FrameSizes, Fits(size, frameSize, view, cut)
      PROVE  Fits(size, frameSize, r, cut')
  <2> DEFINE D == Grid(size)
             T == Grid(frameSize)
  <2>1. T \in SUBSET Pos /\ D \subseteq T /\ view \in Views(D, T)
    BY <1>3, SizeFacts DEF Fits
  <2>2. ~cut => Paired(view.cells) /\ view \in Sound(D, T)
    BY <1>3 DEF Fits
  <2>3. PICK w \in 1..GpuMaxInt, h \in 1..GpuMaxInt : size = <<w, h>>
    BY SizeFacts
  <2> HIDE DEF T
  <2>4. r \in Views(D, T) /\ (~cut => r \in Sound(D, T))
    <3>1. CASE Moves(a)
      <4>1. r = copy(view, a)
        BY <3>1
      <4>2. view \in Views(Grid(<<w, h>>), T)
        BY <2>1, <2>3
      <4>3. /\ copy(view, a) \in Views(Grid(<<w, h>>), T)
            /\ Grid(<<w, h>>) \subseteq T /\ view \in Sound(Grid(<<w, h>>), T) /\ Paired(view.cells) =>
                 copy(view, a) \in Sound(Grid(<<w, h>>), T)
        BY <2>1, <3>1, <4>2, CopyFacts
      <4> HIDE DEF r
      <4> QED
        BY <2>1, <2>2, <2>3, <4>1, <4>3
    <3>2. CASE ~Moves(a)
      BY <2>1, <2>2, <3>2
    <3> QED
      BY <3>1, <3>2
  <2> HIDE DEF r
  <2> QED
    BY <1>2, <1>3, <2>4 DEF Fits, T
<1> HIDE DEF r
<1> QED
  BY <1>1, <1>2, <1>3, SameSizes

LEMMA SetResolutionKeeps ==
  ASSUME GpuIsSound, NEW size \in FrameSizes, SetResolution(size) PROVE GpuIsSound'
<1> DEFINE r == Resized(view, size)
<1>1. /\ Draw(r) /\ view' = r /\ frameSize' = frameSize /\ cut \in BOOLEAN /\ cut' = (cut \/ ~Paired(view'.cells))
      /\ size[1] <= frameSize[1] /\ size[2] <= frameSize[2]
  BY DEF SetResolution, Draw, GpuIsSound
<1>2. cut' \in BOOLEAN /\ (~cut' => ~cut /\ Paired(r.cells))
  BY <1>1
<1>3. PICK old \in FrameSizes : Fits(old, frameSize, view, cut)
  BY DEF GpuIsSound
<1> DEFINE T == Grid(frameSize)
<1>4. /\ Grid(old) \in SUBSET Pos /\ T \in SUBSET Pos /\ Grid(old) \subseteq T /\ Grid(size) \subseteq T
      /\ (\A p \in Grid(old) : p[1] >= 1) /\ (\A p \in T : p[1] >= 1)
      /\ size \in Nat \X Nat /\ frameSize \in Nat \X Nat /\ frameSize \in FrameSizes
      /\ view \in Views(Grid(old), T)
  BY <1>1, <1>3, SizeFacts DEF Fits
<1>5. r \in Views(Grid(size), T) /\ Regrids(r, view, Grid(size), T)
  BY <1>4, ResizedType
<1>6. ~cut => view \in Sound(Grid(old), T)
  BY <1>3 DEF Fits
<1> HIDE DEF r
<1>7. ~cut => r \in Sound(Grid(size), T)
  BY <1>4, <1>5, <1>6, Regridded
<1>8. Fits(size, frameSize, r, cut')
  BY <1>1, <1>2, <1>4, <1>5, <1>7 DEF Fits
<1>9. draws' \in 0..MaxDraws
  BY <1>1, GpuAssumption DEF Draw, GpuIsSound
<1> QED
  BY <1>1, <1>2, <1>8, <1>9 DEF GpuIsSound

LEMMA WinchedKeeps == ASSUME GpuIsSound, NEW size \in FrameSizes, Winched(size) PROVE GpuIsSound'
<1> DEFINE term == [p \in Grid(size) |-> IF p \in DOMAIN view.term THEN view.term[p] ELSE Blank]
           s == [view EXCEPT !.term = term]
           r == IF size = <<_width, _height>> THEN s ELSE Resized(s, size)
           T == Grid(size)
<1>1. /\ Draw(r) /\ view' = r /\ frameSize' = size /\ cut \in BOOLEAN /\ cut' = (cut \/ ~Paired(view'.cells))
  BY DEF Winched, Draw, GpuIsSound
<1>2. cut' \in BOOLEAN /\ (~cut' => ~cut /\ Paired(r.cells))
  BY <1>1
<1>3. PICK old \in FrameSizes : Fits(old, frameSize, view, cut)
  BY DEF GpuIsSound
<1> DEFINE T0 == Grid(frameSize)
<1>4. /\ Grid(old) \in SUBSET Pos /\ T0 \in SUBSET Pos /\ Grid(old) \subseteq T0 /\ T \in SUBSET Pos
      /\ (\A p \in Grid(old) : p[1] >= 1) /\ (\A p \in T0 : p[1] >= 1)
      /\ size \in Nat \X Nat /\ size[1] <= size[1] /\ size[2] <= size[2]
      /\ view \in Views(Grid(old), T0)
  BY <1>3, SizeFacts DEF Fits
<1>5. term \in [T -> Char \cup {Half}] /\ DOMAIN view.term = T0 /\ DOMAIN view.cells = Grid(old)
  BY <1>4, CharFacts DEF Views
<1>6. s \in Views(Grid(old), T) /\ s.term = term /\ s.cells = view.cells /\ s.on = view.on /\ s.stale = view.stale
  <2> HIDE DEF term
  <2> QED
    BY <1>4, <1>5 DEF Views
<1> HIDE DEF s
<1>7. r \in Views(T, T) /\ Regrids(r, view, T, T)
  <2>1. CASE size = <<_width, _height>>
    <3>1. _width = old[1] /\ _height = old[2]
      BY <1>5, SizeFacts, SizeIs
    <3>2. size = old
      BY <2>1, <3>1, SizeFacts
    <3>3. view.cells = [p \in T |-> IF p \in DOMAIN view.cells THEN view.cells[p] ELSE Cell(Blank)]
      BY <1>4, <3>2 DEF Views
    <3>4. view.stale = (view.stale \cup (T \ DOMAIN view.cells)) \cap T
      BY <1>4, <1>5, <3>2 DEF Views
    <3>5. r = s
      BY <2>1
    <3> HIDE DEF r
    <3> QED
      BY <1>6, <3>2, <3>3, <3>4, <3>5 DEF Regrids
  <2>2. CASE size # <<_width, _height>>
    <3>1. r = Resized(s, size)
      BY <2>2
    <3> HIDE DEF r, T
    <3>2. r \in Views(T, T) /\ Regrids(r, s, T, T)
      BY <1>4, <1>6, <3>1, ResizedType DEF T
    <3>3. [p \in T |-> IF p \in DOMAIN s.term THEN s.term[p] ELSE Blank] = term
      BY <1>5, <1>6 DEF T
    <3> HIDE DEF term
    <3> QED
      BY <1>6, <3>2, <3>3 DEF Regrids, term, T
  <2> QED
    BY <2>1, <2>2
<1> HIDE DEF r
<1>8. ~cut => view \in Sound(Grid(old), T0)
  BY <1>3 DEF Fits
<1>9. ~cut => r \in Sound(T, T)
  BY <1>4, <1>7, <1>8, Regridded
<1>10. Fits(size, size, r, cut')
  BY <1>2, <1>4, <1>7, <1>9 DEF Fits
<1>11. draws' \in 0..MaxDraws
  BY <1>1, GpuAssumption DEF Draw, GpuIsSound
<1> QED
  BY <1>1, <1>2, <1>10, <1>11 DEF GpuIsSound

\* Everything is drawn anew, for a terminal that is on or off.
LEMMA RedrawFits ==
  ASSUME NEW size \in FrameSizes, cut \in BOOLEAN, Fits(size, frameSize, view, cut),
         NEW s \in Views(Grid(size), Grid(frameSize)), s.cells = view.cells
  PROVE  Fits(size, frameSize, invalidate(s), cut)
<1> DEFINE T == Grid(frameSize)
<1>1. T \in SUBSET Pos /\ Grid(size) \subseteq T /\ view \in Views(Grid(size), T)
  BY SizeFacts DEF Fits
<1>2. PICK w \in Nat \ {0}, h \in Nat \ {0} : size = <<w, h>>
  BY SizeFacts
<1>3. DOMAIN view.cells = Grid(<<w, h>>) /\ s \in Views(Grid(<<w, h>>), T)
  BY <1>1, <1>2 DEF Views
<1> HIDE DEF T
<1>4. /\ invalidate(s) \in Views(Grid(<<w, h>>), T)
      /\ Grid(<<w, h>>) \subseteq T /\ BlankLocks(s) /\ Paired(s.cells) =>
           invalidate(s) \in Sound(Grid(<<w, h>>), T) /\ invalidate(s).cells = s.cells
  BY <1>1, <1>3, InvalidateFacts
<1>5. ~cut => BlankLocks(s) /\ Paired(s.cells)
  BY DEF Fits, Sound, BlankLocks
<1>6. ~cut => invalidate(s) \in Sound(Grid(size), T) /\ Paired(invalidate(s).cells)
  BY <1>1, <1>2, <1>4, <1>5
<1> QED
  BY <1>2, <1>4, <1>6 DEF Fits, T

LEMMA TurnOnKeeps == ASSUME GpuIsSound, TurnOn PROVE GpuIsSound'
<1> DEFINE s == [view EXCEPT !.on = TRUE]
<1>1. Draw(invalidate(s)) /\ UNCHANGED <<frameSize, cut>> /\ cut \in BOOLEAN
  BY DEF TurnOn, GpuIsSound
<1>2. ASSUME NEW size \in FrameSizes, Fits(size, frameSize, view, cut)
      PROVE  Fits(size, frameSize, invalidate(s), cut)
  <2>1. s \in Views(Grid(size), Grid(frameSize)) /\ s.cells = view.cells
    BY <1>2 DEF Fits, Views
  <2> HIDE DEF s
  <2> QED
    BY <1>1, <1>2, <2>1, RedrawFits
<1> HIDE DEF s
<1> QED
  BY <1>1, <1>2, SameSizes

LEMMA RepaintKeeps == ASSUME GpuIsSound, Repaint PROVE GpuIsSound'
<1>1. Draw(invalidate(view)) /\ UNCHANGED <<frameSize, cut>> /\ cut \in BOOLEAN
  BY DEF Repaint, GpuIsSound
<1>2. ASSUME NEW size \in FrameSizes, Fits(size, frameSize, view, cut)
      PROVE  Fits(size, frameSize, invalidate(view), cut)
  <2>1. view \in Views(Grid(size), Grid(frameSize))
    BY <1>2 DEF Fits
  <2> QED
    BY <1>1, <1>2, <2>1, RedrawFits
<1> QED
  BY <1>1, <1>2, SameSizes

LEMMA TurnOffKeeps == ASSUME GpuIsSound, TurnOff PROVE GpuIsSound'
<1> DEFINE s == [view EXCEPT !.on = FALSE]
<1>1. Draw(clear(s)) /\ UNCHANGED <<frameSize, cut>> /\ cut \in BOOLEAN
  BY DEF TurnOff, GpuIsSound
<1>2. ASSUME NEW size \in FrameSizes, Fits(size, frameSize, view, cut)
      PROVE  Fits(size, frameSize, clear(s), cut)
  <2> DEFINE D == Grid(size)
             T == Grid(frameSize)
             r == clear(s)
  <2>1. s \in Views(D, T) /\ s.cells = view.cells /\ s.on = FALSE
    BY <1>2 DEF Fits, Views
  <2>2. D \in SUBSET Pos /\ T \in SUBSET Pos
    BY <1>2, SizeFacts DEF Fits
  <2> HIDE DEF s, D, T
  <2>3. r \in Views(D, T) /\ r.cells = view.cells /\ r.on = FALSE /\ r.term = [p \in T |-> Blank]
    BY <2>1, <2>2, Cleared
  <2> HIDE DEF r
  <2>4. HalfHasWhole(r)
    BY <2>3, CharFacts DEF HalfHasWhole
  <2>5. ~cut => BlankLocks(r) /\ Paired(r.cells)
    BY <1>2, <2>3 DEF Fits, Sound, BlankLocks
  <2>6. ~cut => r \in Sound(D, T)
    BY <2>3, <2>4, <2>5 DEF Sound
  <2> QED
    BY <1>2, <2>3, <2>5, <2>6 DEF Fits, D, T, r
<1> HIDE DEF s
<1> QED
  BY <1>1, <1>2, SameSizes

-----------------------------------------------------------------------------
(* What holds of a gpu *)

\* All together.
LEMMA GpuStepKeeps == ASSUME GpuIsSound, [GpuCellsNext]_gpuCellVars PROVE GpuIsSound'
<1>1. CASE UNCHANGED gpuCellVars
  BY <1>1 DEF gpuCellVars, GpuIsSound
<1>2. ASSUME NEW t \in Texts, SetText(t) PROVE GpuIsSound'
  BY <1>2, SetTextSound
<1>3. ASSUME NEW f \in Fills, Fill(f) PROVE GpuIsSound'
  BY <1>3, FillSound
<1>4. ASSUME NEW a \in Copies, Copy(a) PROVE GpuIsSound'
  BY <1>4, CopyKeeps
<1>5. ASSUME NEW size \in FrameSizes, SetResolution(size) PROVE GpuIsSound'
  BY <1>5, SetResolutionKeeps
<1>6. ASSUME NEW size \in FrameSizes, Winched(size) PROVE GpuIsSound'
  BY <1>6, WinchedKeeps
<1>7. CASE TurnOn \/ TurnOff \/ Repaint
  BY <1>7, TurnOnKeeps, TurnOffKeeps, RepaintKeeps
<1> QED
  BY <1>1, <1>2, <1>3, <1>4, <1>5, <1>6, <1>7 DEF GpuCellsNext

\* With every character whole, what Local leaves open is settled.
LEMMA SoundIsShown == ASSUME GpuIsSound PROVE GpuTypeOK /\ ShownAsRead
<1>1. PICK size \in FrameSizes : Fits(size, frameSize, view, cut)
  BY DEF GpuIsSound
<1>2. GpuTypeOK
  BY <1>1 DEF GpuIsSound, GpuTypeOK, Fits
<1>3. ASSUME view.on, ~cut, NEW p \in DOMAIN view.cells \ view.stale
      PROVE  view.term[p] = IF view.cells[p].locked THEN Half ELSE view.cells[p].value
  <2> DEFINE D == Grid(size)
             T == Grid(frameSize)
  <2>1. Paired(view.cells) /\ view \in Sound(D, T) /\ D \subseteq T /\ D \in SUBSET Pos
    BY <1>1, <1>3, SizeFacts DEF Fits
  <2> HIDE DEF D, T
  <2>2. /\ BlankLocks(view) /\ HalfHasWhole(view) /\ Local(view) /\ DOMAIN view.cells = D /\ DOMAIN view.term = T
    BY <1>3, <2>1 DEF Sound, Views
  <2>3. p \in D /\ p \in T /\ p \in Pos /\ Left(p) \in Pos /\ Right(p) \in Pos /\ Left(Right(p)) = p /\ Right(Left(p)) = p
    BY <1>3, <2>1, <2>2, Beside
  <2>4. IF view.cells[p].locked THEN LockShown(view, p) ELSE FreeShown(view, p)
    BY <1>3, <2>2 DEF Local
  <2>5. view.cells[p].locked => IsWide(view, Left(p))
    BY <2>1, <2>2, <2>3 DEF Paired, IsWide
  <2>6. IsWide(view, p) => IsLocked(view, Right(p))
    BY <2>1, <2>2, <2>3 DEF Paired, IsWide, IsLocked
  <2>7. IsLocked(view, Left(p)) => IsWide(view, Left(Left(p)))
    BY <2>1, <2>2 DEF Paired, IsWide, IsLocked
  <2> QED
    BY <2>4, <2>5, <2>6, <2>7 DEF LockShown, FreeShown
<1> QED
  BY <1>2, <1>3 DEF ShownAsRead

\* The cells and the terminal keep their types and their sizes: the resolution is one
\* of those set, and never beyond the window, whatever is drawn and copied.
THEOREM GpuTypes == GpuCellsSpec => []GpuTypeOK
<1>1. GpuCellsInit => GpuIsSound
  BY InitSound
<1>2. GpuIsSound /\ [GpuCellsNext]_gpuCellVars => GpuIsSound'
  BY GpuStepKeeps
<1>3. GpuIsSound => GpuTypeOK
  BY SoundIsShown
<1> QED
  BY <1>1, <1>2, <1>3, PTL DEF GpuCellsSpec

\* What a program reads back is what the screen shows, wide characters and the cells
\* behind them included, for every text, rectangle, size and turning on and off.
THEOREM ScreenIsShown == GpuCellsSpec => []ShownAsRead
<1>1. GpuCellsInit => GpuIsSound
  BY InitSound
<1>2. GpuIsSound /\ [GpuCellsNext]_gpuCellVars => GpuIsSound'
  BY GpuStepKeeps
<1>3. GpuIsSound => ShownAsRead
  BY SoundIsShown
<1> QED
  BY <1>1, <1>2, <1>3, PTL DEF GpuCellsSpec

-----------------------------------------------------------------------------
(* What a copy moves *)

\* What a forced set does to the cells around its place: the one behind a wide character
\* is overwritten or set free, and no other is touched.
Effect(r, s, p, cell, D) ==
  \A o \in D :
    /\ o = p => r.cells[o] = cell
    /\ o # p => r.cells[o].value = s.cells[o].value \/ (o = Right(p) /\ r.cells[o].value = Blank)
    /\ o # p => \/ r.cells[o] = s.cells[o]
                \/ o = Right(p) /\ cell.value \in WideChar
                \/ IsWide(s, Left(o)) /\ Left(o) \in {p, Right(p)}
SetEffect(r, s, p, cell, D) == IF p \in D THEN Effect(r, s, p, cell, D) ELSE r = s

LEMMA ForcedEffect ==
  ASSUME NEW D \in SUBSET Pos, NEW T \in SUBSET Pos, NEW s \in Views(D, T), NEW p \in Pos, NEW cell \in ACell
  PROVE  SetEffect(set(s, p, cell, TRUE), s, p, cell, D)
<1> DEFINE r == set(s, p, cell, TRUE)
<1>0. DOMAIN s.cells = D /\ (Free(s, p, TRUE) <=> p \in D) /\ TRUE \in BOOLEAN
  BY DEF Views, Free
<1>1. CASE p \notin D
  BY <1>0, <1>1 DEF set, setNarrow, setWide, SetEffect
<1>2. CASE p \in D
  <2>0. \A o \in D : o \in Pos /\ Left(Right(p)) = p /\ Left(Right(Right(p))) = Right(p)
                    /\ Right(p) # p /\ Right(Right(p)) # p /\ Right(Right(p)) # Right(p)
    BY Around
  <2>1. CASE cell.value \notin WideChar
    <3>1. r = setNarrow(s, p, cell, TRUE)
      BY <2>1 DEF set, Columns
    <3>2. Outcome(setNarrow(s, p, cell, TRUE), s, p, cell, NarrowCells(s, p, cell))
      BY <1>0, <1>2, NarrowFacts
    <3> HIDE DEF r
    <3>3. \A o \in D : r.cells[o] = NarrowCell(s, p, cell, o)
      BY <1>0, <3>1, <3>2 DEF Outcome, NarrowCells
    <3>4. ASSUME NEW o \in D
          PROVE  /\ o = p => r.cells[o] = cell
                 /\ o # p => r.cells[o].value = s.cells[o].value
                 /\ o # p => \/ r.cells[o] = s.cells[o]
                             \/ IsWide(s, Left(o)) /\ Left(o) = p
      <4>1. r.cells[o] = NarrowCell(s, p, cell, o) /\ o \in Pos
        BY <2>0, <3>3
      <4>2. CASE o = Right(p) /\ s.cells[p].value \in WideChar
        <5>1. r.cells[o] = Freed(s.cells[o]) /\ Left(o) = p /\ o # p
          BY <2>0, <4>1, <4>2 DEF NarrowCell
        <5>2. r.cells[o].value = s.cells[o].value
          BY <5>1 DEF Freed
        <5> QED
          BY <1>0, <1>2, <4>2, <5>1, <5>2 DEF IsWide
      <4>3. CASE ~(o = Right(p) /\ s.cells[p].value \in WideChar)
        BY <4>1, <4>3 DEF NarrowCell
      <4> QED
        BY <4>2, <4>3
    <3>5. Effect(r, s, p, cell, D)
      BY <3>4 DEF Effect
    <3> QED
      BY <1>2, <3>5 DEF r, SetEffect
  <2>2. CASE cell.value \in WideChar
    <3>1. r = setWide(s, p, cell, TRUE)
      BY <2>2 DEF set, Columns
    <3>2. Outcome(setWide(s, p, cell, TRUE), s, p, cell, WideCells(s, p, cell, TRUE))
      BY <1>0, <1>2, WideFacts
    <3> HIDE DEF r
    <3>3. \A o \in D : r.cells[o] = WideCell(s, p, cell, TRUE, o)
      BY <1>0, <3>1, <3>2 DEF Outcome, WideCells
    <3>4. ASSUME NEW o \in D
          PROVE  /\ o = p => r.cells[o] = cell
                 /\ o # p => r.cells[o].value = s.cells[o].value \/ (o = Right(p) /\ r.cells[o].value = Blank)
                 /\ o # p => \/ r.cells[o] = s.cells[o] \/ o = Right(p)
                             \/ IsWide(s, Left(o)) /\ Left(o) = Right(p)
      <4>1. r.cells[o] = WideCell(s, p, cell, TRUE, o) /\ o \in Pos
        BY <2>0, <3>3
      <4>2. CASE o = Right(p)
        <5>1. r.cells[o] = Locked /\ o # p
          BY <1>0, <2>0, <4>1, <4>2 DEF WideCell, Free
        <5> QED
          BY <4>2, <5>1 DEF Locked
      <4>3. CASE o # Right(p) /\ r.cells[o] = s.cells[o]
        BY <2>0, <3>3, <4>3, <1>2 DEF WideCell
      <4>4. CASE o # Right(p) /\ r.cells[o] # s.cells[o] /\ o # p
        <5>1. /\ o = Right(Right(p)) /\ Right(p) \in D /\ s.cells[Right(p)].value \in WideChar
              /\ r.cells[o] = Freed(s.cells[o])
          BY <1>0, <4>1, <4>4 DEF WideCell, Free
        <5>2. r.cells[o].value = s.cells[o].value
          BY <5>1 DEF Freed
        <5>3. IsWide(s, Left(o)) /\ Left(o) = Right(p)
          BY <1>0, <2>0, <5>1 DEF IsWide
        <5> QED
          BY <4>4, <5>2, <5>3
      <4>5. CASE o = p
        BY <4>1, <4>5 DEF WideCell
      <4> QED
        BY <4>2, <4>3, <4>4, <4>5
    <3>5. Effect(r, s, p, cell, D)
      BY <2>2, <3>4 DEF Effect
    <3> QED
      BY <1>2, <3>5 DEF r, SetEffect
  <2> QED
    BY <2>1, <2>2
<1> QED
  BY <1>1, <1>2

\* Further on, row by row.
After(o, p) == o[2] > p[2] \/ (o[2] = p[2] /\ o[1] > p[1])

LEMMA AfterFacts ==
  ASSUME NEW o \in Pos, NEW p \in Pos, NEW q \in Pos
  PROVE  /\ After(o, p) /\ After(p, q) => After(o, q)
         /\ After(p, q) => After(Right(p), q) /\ p # q /\ Right(p) # q
         /\ After(Right(p), p)
BY DEF After, Right, Pos

\* After the first n sets: cells further on have at most been blanked; a character that
\* was set stays; and a cell is what was set there, or what it was, but behind a wide one.
Onward(at, n) == \A j \in 1..(n - 1) : After(at[n], at[j])
Ahead(v, s, at, n) ==
  \A o \in DOMAIN s.cells : n = 0 \/ After(o, at[n]) =>
    v.cells[o].value = s.cells[o].value \/ v.cells[o].value = Blank
Stays(v, s, at, ops, n) ==
  \A j \in 1..n : at[j] \in DOMAIN s.cells => v.cells[at[j]].value = ops[j].cell.value
Brought(v, s, at, ops, n, p) ==
  \/ \E j \in 1..n : at[j] = p /\ v.cells[p] = ops[j].cell
  \/ (\A j \in 1..n : at[j] # p) /\ v.cells[p] = s.cells[p]
Disturbed(s, at, ops, n, p) ==
  \/ IsWide(s, Left(p))
  \/ Left(p) \in DOMAIN s.cells /\ \E j \in 1..n : at[j] = Left(p) /\ ops[j].cell.value \in WideChar
Moved(v, s, at, ops, n) ==
  /\ n # 0 => Onward(at, n)
  /\ Ahead(v, s, at, n) /\ Stays(v, s, at, ops, n)
  /\ \A p \in DOMAIN s.cells : Brought(v, s, at, ops, n, p) \/ Disturbed(s, at, ops, n, p)

\* One more set.
LEMMA MovedStep ==
  ASSUME NEW D \in SUBSET Pos, NEW T \in SUBSET Pos, NEW s \in Views(D, T), NEW v \in Views(D, T),
         NEW N \in Nat, NEW at \in [1..N -> Pos], RowByRow(at, N), NEW ops, NEW n \in 1..N,
         ops[n].cell \in ACell, Moved(v, s, at, ops, n - 1)
  PROVE  Moved(set(v, at[n], ops[n].cell, TRUE), s, at, ops, n)
<1> DEFINE p == at[n]
           cell == ops[n].cell
           r == set(v, p, cell, TRUE)
<1>0. DOMAIN s.cells = D /\ DOMAIN v.cells = D /\ p \in Pos /\ \A j \in 1..N : at[j] \in Pos
  BY DEF Views
<1>1. IF p \in D THEN Effect(r, v, p, cell, D) ELSE r = v
  <2>1. SetEffect(r, v, p, cell, D)
    BY <1>0, ForcedEffect
  <2> QED
    BY <2>1 DEF SetEffect
<1> HIDE DEF r
<1>2. n = 1 \/ (n - 1 \in 1..N /\ After(p, at[n - 1]))
  <2>1. ASSUME n # 1 PROVE n - 1 \in 1..N /\ After(p, at[n - 1])
    <3>1. n \in 2..N /\ n - 1 \in 1..N
      BY <2>1
    <3>2. p[2] > at[n - 1][2] \/ p = Right(at[n - 1])
      BY <3>1 DEF RowByRow
    <3>3. at[n - 1] \in Pos
      BY <1>0, <3>1
    <3> QED
      BY <3>1, <3>2, <3>3, AfterFacts DEF After
  <2> QED
    BY <2>1
<1>3. Onward(at, n)
  <2> SUFFICES ASSUME NEW j \in 1..(n - 1) PROVE After(p, at[j])
    BY DEF Onward
  <2>1. n # 1 /\ j \in 1..N /\ (j = n - 1 \/ j \in 1..((n - 1) - 1)) /\ n - 1 # 0
    OBVIOUS
  <2>2. n - 1 \in 1..N /\ After(p, at[n - 1]) /\ at[n - 1] \in Pos /\ at[j] \in Pos
    BY <1>0, <1>2, <2>1
  <2>3. j = n - 1 \/ After(at[n - 1], at[j])
    BY <2>1 DEF Moved, Onward
  <2> QED
    BY <1>0, <2>2, <2>3, AfterFacts
<1>4. ASSUME NEW o \in D, n = 1 \/ After(o, at[n - 1])
      PROVE  v.cells[o].value = s.cells[o].value \/ v.cells[o].value = Blank
  BY <1>0, <1>4 DEF Moved, Ahead
<1>5. \A o \in Pos : o = p \/ After(o, p) => n = 1 \/ After(o, at[n - 1])
  <2> SUFFICES ASSUME NEW o \in Pos, o = p \/ After(o, p), n # 1 PROVE After(o, at[n - 1])
    OBVIOUS
  <2>1. at[n - 1] \in Pos /\ After(p, at[n - 1])
    BY <1>0, <1>2
  <2> QED
    BY <1>0, <2>1, AfterFacts
<1>6. Ahead(r, s, at, n)
  <2> SUFFICES ASSUME NEW o \in D, After(o, p)
               PROVE  r.cells[o].value = s.cells[o].value \/ r.cells[o].value = Blank
    BY <1>0 DEF Ahead
  <2>1. o \in Pos /\ o # p
    BY <1>0, AfterFacts
  <2>2. v.cells[o].value = s.cells[o].value \/ v.cells[o].value = Blank
    BY <1>4, <1>5, <2>1
  <2>3. r.cells[o].value = v.cells[o].value \/ r.cells[o].value = Blank
    BY <1>1, <2>1 DEF Effect
  <2> QED
    BY <2>2, <2>3
<1>7. Stays(r, s, at, ops, n)
  <2> SUFFICES ASSUME NEW j \in 1..n, at[j] \in D PROVE r.cells[at[j]].value = ops[j].cell.value
    BY <1>0 DEF Stays
  <2>1. CASE j = n
    BY <1>1, <2>1 DEF Effect
  <2>2. CASE j # n
    <3>1. j \in 1..(n - 1) /\ j \in 1..N
      BY <2>2
    <3>2. at[j] # p /\ at[j] # Right(p)
      BY <1>0, <1>3, <3>1, AfterFacts DEF Onward
    <3>3. v.cells[at[j]].value = ops[j].cell.value
      BY <1>0, <3>1 DEF Moved, Stays
    <3>4. r.cells[at[j]].value = v.cells[at[j]].value
      BY <1>1, <3>2 DEF Effect
    <3> QED
      BY <3>3, <3>4
  <2> QED
    BY <2>1, <2>2
<1>8. ASSUME NEW o \in D PROVE Brought(r, s, at, ops, n, o) \/ Disturbed(s, at, ops, n, o)
  <2>1. Brought(v, s, at, ops, n - 1, o) \/ Disturbed(s, at, ops, n - 1, o)
    BY <1>0 DEF Moved
  <2>2. ASSUME Disturbed(s, at, ops, n - 1, o) PROVE Disturbed(s, at, ops, n, o)
    BY <2>2 DEF Disturbed
  <2>3. ASSUME o # p, r.cells[o] = v.cells[o], Brought(v, s, at, ops, n - 1, o) PROVE Brought(r, s, at, ops, n, o)
    BY <2>3 DEF Brought
  <2>4. CASE p \notin D
    BY <1>1, <2>1, <2>2, <2>3, <2>4
  <2>5. CASE p \in D /\ o = p
    BY <1>1, <2>5 DEF Brought, Effect
  <2>6. CASE p \in D /\ o # p
    <3>1. CASE r.cells[o] = v.cells[o]
      BY <2>1, <2>2, <2>3, <2>6, <3>1
    <3>2. CASE o = Right(p) /\ cell.value \in WideChar
      <4>1. Left(o) = p
        BY <1>0, <3>2, Beside
      <4> QED
        BY <1>0, <2>6, <3>2, <4>1 DEF Disturbed
    <3>3. CASE IsWide(v, Left(o)) /\ Left(o) \in {p, Right(p)}
      <4>1. Left(o) \in D /\ v.cells[Left(o)].value \in WideChar /\ Left(o) \in Pos
        BY <1>0, <3>3 DEF IsWide
      <4>2. Left(o) = p \/ After(Left(o), p)
        BY <1>0, <3>3, AfterFacts
      <4>3. v.cells[Left(o)].value = s.cells[Left(o)].value
        BY <1>4, <1>5, <4>1, <4>2, CharFacts
      <4> QED
        BY <1>0, <4>1, <4>3 DEF Disturbed, IsWide
    <3> QED
      BY <1>1, <2>6, <3>1, <3>2, <3>3 DEF Effect
  <2> QED
    BY <2>4, <2>5, <2>6
<1>9. Moved(r, s, at, ops, n)
  BY <1>0, <1>3, <1>6, <1>7, <1>8 DEF Moved
<1> QED
  BY <1>9 DEF r

\* All of them.
Movable(D, T, s, at, ops, N) ==
  /\ D \in SUBSET Pos /\ T \in SUBSET Pos /\ s \in Views(D, T) /\ N \in Nat /\ N = Len(ops)
  /\ at \in [1..N -> Pos] /\ RowByRow(at, N) /\ \A n \in 1..N : ops[n].at = at[n] /\ ops[n].cell \in ACell

LEMMA MovedAll ==
  ASSUME NEW D, NEW T, NEW s, NEW at, NEW ops, NEW N, Movable(D, T, s, at, ops, N)
  PROVE  Moved(Painted(s, ops, TRUE), s, at, ops, N)
<1> USE DEF Movable
<1> DEFINE V == Views(D, T)
<1>1. Keeps(V, ops, N, TRUE)
  BY SetType DEF Keeps
<1> HIDE DEF V
<1>2. s \in V
  BY DEF V
<1>3. PICK f \in [0..N -> V] : Paints(f, s, ops, N, TRUE)
  BY <1>1, <1>2, PaintedSteps
<1>4. /\ f[0] = s /\ f[N] = Painted(s, ops, TRUE)
      /\ \A n \in 1..N : f[n] = set(f[n - 1], at[n], ops[n].cell, TRUE)
  BY <1>3 DEF Paints
<1> DEFINE Good == {n \in Nat : n \in 0..N => Moved(f[n], s, at, ops, n)}
<1>5. 0 \in Good
  BY <1>4 DEF Moved, Ahead, Stays, Brought
<1>6. ASSUME NEW n \in Nat, n \in Good PROVE n + 1 \in Good
  <2>1. ASSUME n + 1 \in 0..N PROVE Moved(f[n + 1], s, at, ops, n + 1)
    <3>1. n \in 0..N /\ n + 1 \in 1..N /\ (n + 1) - 1 = n
      BY <2>1
    <3>2. Moved(f[n], s, at, ops, n) /\ f[n] \in Views(D, T) /\ ops[n + 1].cell \in ACell
      BY <1>3, <1>6, <3>1 DEF V
    <3>3. Moved(f[n], s, at, ops, (n + 1) - 1)
      BY <3>1, <3>2
    <3>4. Moved(set(f[n], at[n + 1], ops[n + 1].cell, TRUE), s, at, ops, n + 1)
      BY <3>1, <3>2, <3>3, MovedStep
    <3>5. f[n + 1] = set(f[n], at[n + 1], ops[n + 1].cell, TRUE)
      BY <1>4, <3>1
    <3> QED
      BY <3>4, <3>5
  <2> QED
    BY <2>1
<1> HIDE DEF Good
<1>7. Nat \subseteq Good
  BY <1>5, <1>6, SetInduction
<1>8. N \in Good /\ N \in 0..N
  BY <1>7
<1> QED
  BY <1>4, <1>8 DEF Good

\* Along an axis, a rectangle within the ints goes where asked, as far as there are cells.
LEMMA SpanMoves ==
  ASSUME NEW from \in GpuInt, NEW count \in GpuInt, NEW by \in GpuInt, NEW n \in 1..GpuMaxInt,
         from >= 1, from + count <= GpuMaxInt, from + count + by <= GpuMaxInt
  PROVE  /\ Span(from, count, by, n).count \in Nat
         /\ Span(from, count, by, n).count > 0 =>
              Span(from, count, by, n).from = from /\ Span(from, count, by, n).to = from + by
         /\ \A o \in Int : o + by \in 1..n =>
              (o \in 1..n /\ o \in from..(from + count - 1)
                 <=> o \in from..(from + Span(from, count, by, n).count - 1))
<1>0. PICK M \in Nat \ {0} : M = GpuMaxInt
  BY WrapFacts
<1>a. from \in Int /\ count \in Int /\ by \in Int /\ n \in Int /\ by >= -M - 1 /\ by <= M /\ n <= M /\ n >= 1
      /\ count <= M /\ 0 \in GpuInt
  BY <1>0 DEF GpuInt
<1> DEFINE adj == GWrap((IF from > 1 THEN from ELSE 1) - from)
           f == GWrap(from + adj)
           c == GWrap(count - adj)
           to == GWrap(f + GWrap(by - adj))
           k == IF c <= 0 \/ to > n \/ GWrap(to + c) < 1 \/ f > n \/ GWrap(f + c) < 1 THEN 0
                 ELSE IF c < n - f + 1 THEN c ELSE n - f + 1
<1>1. Span(from, count, by, n) = [from |-> f, to |-> to, count |-> k]
  BY DEF Span
<1>2. adj = 0
  <2>1. (IF from > 1 THEN from ELSE 1) - from = 0
    BY <1>a
  <2> QED
    BY <2>1, <1>a, WrapFacts
<1>3. f = from /\ c = count /\ GWrap(by - adj) = by
  <2>1. from + adj = from /\ count - adj = count /\ by - adj = by
    BY <1>2, <1>a
  <2> QED
    BY <2>1, WrapFacts
<1>4. to = GWrap(from + by)
  BY <1>3
<1> HIDE DEF adj, f, c, to
<1>5. ASSUME count > 0
      PROVE  /\ to = from + by /\ GWrap(f + c) = from + count
             /\ to + c >= 1 => GWrap(to + c) = to + c
  <2>1. from + by \in GpuInt /\ from + count \in GpuInt
    BY <1>0, <1>a, <1>5 DEF GpuInt
  <2>2. to = from + by /\ GWrap(from + count) = from + count
    BY <1>4, <2>1, WrapFacts
  <2>3. to + c >= 1 => to + c \in GpuInt
    BY <1>0, <1>3, <1>a, <2>2 DEF GpuInt
  <2> QED
    BY <1>3, <2>2, <2>3, WrapFacts
<1>6. k \in Nat /\ (k > 0 => count > 0)
  BY <1>3, <1>a
<1>7. ASSUME NEW o \in Int, o + by \in 1..n, o \in 1..n, o \in from..(from + count - 1)
      PROVE  o \in from..(from + k - 1)
  <2>1. count > 0
    BY <1>7, <1>a
  <2>2. to = from + by /\ GWrap(to + c) = to + c /\ to + c >= 1 /\ GWrap(f + c) >= 1 /\ to <= n /\ f <= n
    BY <1>3, <1>5, <1>7, <1>a, <2>1
  <2>3. c = count /\ f = from
    BY <1>3
  <2>4. k = IF c < n - f + 1 THEN c ELSE n - f + 1
    <3>1. ~(c <= 0 \/ to > n \/ GWrap(to + c) < 1 \/ f > n \/ GWrap(f + c) < 1)
      BY <1>a, <1>3, <1>5, <2>1, <2>2, <2>3
    <3> QED
      BY <3>1
  <2> QED
    BY <1>7, <1>a, <2>3, <2>4
<1>8. ASSUME NEW o \in Int, o \in from..(from + k - 1)
      PROVE  o \in 1..n /\ o \in from..(from + count - 1)
  BY <1>3, <1>6, <1>8, <1>a
<1> HIDE DEF k
<1> QED
  BY <1>1, <1>3, <1>5, <1>6, <1>7, <1>8

\* The cells that are copied are those of the rectangle, all of them.
Copied(a) == ((SpanX(a).from)..(SpanX(a).from + SpanX(a).count - 1)) \X ((SpanY(a).from)..(SpanY(a).from + SpanY(a).count - 1))
GoesThrough(a) ==
  /\ \A i \in DOMAIN InOrder(a) : InOrder(a)[i] \in Copied(a)
  /\ \A o \in Copied(a) : \E i \in DOMAIN InOrder(a) : InOrder(a)[i] = o

LEMMA CopyOrder ==
  ASSUME NEW a, SpanX(a).from \in Nat \ {0}, SpanY(a).from \in Nat \ {0}, SpanX(a).count \in Nat, SpanY(a).count \in Nat
  PROVE  GoesThrough(a)
<1>0. PICK f \in Nat \ {0}, g \in Nat \ {0}, c \in Nat, d \in Nat :
        SpanX(a).from = f /\ SpanY(a).from = g /\ SpanX(a).count = c /\ SpanY(a).count = d
  OBVIOUS
<1> DEFINE all == Rows(<<c, d>>)
<1>1. PICK j \in Nat : j = c * d
  OBVIOUS
<1>2. /\ DOMAIN all = 1..j /\ \A i \in 1..j : all[i] \in Grid(<<c, d>>)
      /\ \A p \in Grid(<<c, d>>) : \E i \in 1..j : all[i] = p
  <2>1. /\ DOMAIN all = 1..(c * d) /\ \A i \in 1..(c * d) : all[i] \in Grid(<<c, d>>)
        /\ \A p \in Grid(<<c, d>>) : \E i \in 1..(c * d) : all[i] = p
    BY ONLY c \in Nat, d \in Nat, RowsGoThrough
  <2> HIDE DEF all
  <2> QED
    BY <1>1, <2>1
<1>3. InOrder(a) = [i \in DOMAIN all |-> <<f + all[i][1] - 1, g + all[i][2] - 1>>]
  BY <1>0 DEF InOrder
<1> HIDE DEF all
<1>4. DOMAIN InOrder(a) = 1..j /\ \A i \in 1..j : InOrder(a)[i] = <<f + all[i][1] - 1, g + all[i][2] - 1>>
  BY <1>2, <1>3
<1>5. ASSUME NEW i \in 1..j PROVE InOrder(a)[i] \in (f..(f + c - 1)) \X (g..(g + d - 1))
  <2>1. all[i] \in (1..c) \X (1..d)
    <3>1. Grid(<<c, d>>) = (1..c) \X (1..d)
      BY DEF Grid
    <3> QED
      BY <1>2, <3>1
  <2>2. PICK x \in 1..c, y \in 1..d : all[i] = <<x, y>>
    BY <2>1
  <2>3. InOrder(a)[i] = <<f + x - 1, g + y - 1>>
    BY <1>4, <2>2
  <2>4. f + x - 1 \in f..(f + c - 1) /\ g + y - 1 \in g..(g + d - 1)
    OBVIOUS
  <2> QED
    BY <2>3, <2>4
<1>6. ASSUME NEW x \in f..(f + c - 1), NEW y \in g..(g + d - 1)
      PROVE  \E i \in 1..j : InOrder(a)[i] = <<x, y>>
  <2>1. x - f + 1 \in 1..c /\ y - g + 1 \in 1..d
    OBVIOUS
  <2>2. <<x - f + 1, y - g + 1>> \in Grid(<<c, d>>)
    BY <2>1 DEF Grid
  <2>3. PICK i \in 1..j : all[i] = <<x - f + 1, y - g + 1>>
    BY <1>2, <2>2
  <2>4. all[i][1] = x - f + 1 /\ all[i][2] = y - g + 1
    BY <2>3
  <2>5. InOrder(a)[i] = <<f + all[i][1] - 1, g + all[i][2] - 1>>
    BY <1>4
  <2>6. f + all[i][1] - 1 = x /\ g + all[i][2] - 1 = y
    BY <2>4
  <2> QED
    BY <2>5, <2>6
<1>7. ASSUME NEW o \in (f..(f + c - 1)) \X (g..(g + d - 1)) PROVE \E i \in 1..j : InOrder(a)[i] = o
  <2>1. PICK x \in f..(f + c - 1), y \in g..(g + d - 1) : o = <<x, y>>
    OBVIOUS
  <2> QED
    BY <1>6, <2>1
<1>8. Copied(a) = (f..(f + c - 1)) \X (g..(g + d - 1))
  BY <1>0 DEF Copied
<1> QED
  BY <1>4, <1>5, <1>7, <1>8 DEF GoesThrough

\* Where a cell comes from, if the rectangle asked for has that place.
Origin(a, p) == <<p[1] - a.dx, p[2] - a.dy>>
Asked(a, o) == o[1] \in (a.x)..(a.x + a.width - 1) /\ o[2] \in (a.y)..(a.y + a.height - 1)
Result(a) == IF Moves(a) THEN copy(view, a) ELSE view

\* Unless it is behind a wide character, before or after the copy, a cell is the one that
\* was to come there, or what it was.
LEMMA CopyMoves ==
  ASSUME NEW w \in 1..GpuMaxInt, NEW h \in 1..GpuMaxInt, NEW T \in SUBSET Pos, NEW D, D = Grid(<<w, h>>),
         view \in Views(D, T), NEW a \in Copies, InInts(a), NEW p \in D,
         ~IsWide(view, Left(p)), ~IsWide(Result(a), Left(p))
  PROVE  Result(a).cells[p] = IF Asked(a, Origin(a, p)) /\ Origin(a, p) \in D
                                THEN view.cells[Origin(a, p)] ELSE view.cells[p]
<1> DEFINE o == Origin(a, p)
<1>0. /\ a.x \in GpuInt /\ a.y \in GpuInt /\ a.width \in GpuInt /\ a.height \in GpuInt /\ a.dx \in GpuInt /\ a.dy \in GpuInt
  BY GpuAssumption
<1>a. /\ a.x \in Int /\ a.y \in Int /\ a.width \in Int /\ a.height \in Int /\ a.dx \in Int /\ a.dy \in Int
      /\ a.x >= 1 /\ a.y >= 1
  <2>1. GpuInt \subseteq Int
    BY WrapFacts DEF GpuInt
  <2> QED
    BY <1>0, <2>1 DEF InInts
<1>1. D \in SUBSET Pos /\ DOMAIN view.cells = D /\ (\A q \in D : view.cells[q] \in ACell) /\ w \in Nat \ {0} /\ h \in Nat \ {0}
  BY GridPlaces, WrapFacts DEF Views
<1>2. _width = w /\ _height = h
  BY <1>1, SizeIs
<1>3. PICK x \in 1..w, y \in 1..h : p = <<x, y>>
  BY DEF Grid
<1>4. o = <<x - a.dx, y - a.dy>> /\ x - a.dx \in Int /\ y - a.dy \in Int
  BY <1>a, <1>3 DEF Origin
<1>5. PICK X, Y : X = SpanX(a) /\ Y = SpanY(a)
  OBVIOUS
<1>6. /\ X.count \in Nat /\ (X.count > 0 => X.from = a.x /\ X.to = a.x + a.dx)
      /\ \A i \in Int : i + a.dx \in 1..w =>
           (i \in 1..w /\ i \in (a.x)..(a.x + a.width - 1) <=> i \in (a.x)..(a.x + X.count - 1))
  <2>1. X = Span(a.x, a.width, a.dx, w)
    BY <1>2, <1>5 DEF SpanX
  <2>2. a.x >= 1 /\ a.x + a.width <= GpuMaxInt /\ a.x + a.width + a.dx <= GpuMaxInt
    BY DEF InInts
  <2> QED
    BY <1>0, <2>1, <2>2, SpanMoves
<1>7. /\ Y.count \in Nat /\ (Y.count > 0 => Y.from = a.y /\ Y.to = a.y + a.dy)
      /\ \A i \in Int : i + a.dy \in 1..h =>
           (i \in 1..h /\ i \in (a.y)..(a.y + a.height - 1) <=> i \in (a.y)..(a.y + Y.count - 1))
  <2>1. Y = Span(a.y, a.height, a.dy, h)
    BY <1>2, <1>5 DEF SpanY
  <2>2. a.y >= 1 /\ a.y + a.height <= GpuMaxInt /\ a.y + a.height + a.dy <= GpuMaxInt
    BY DEF InInts
  <2> QED
    BY <1>0, <2>1, <2>2, SpanMoves
<1> DEFINE R == ((a.x)..(a.x + X.count - 1)) \X ((a.y)..(a.y + Y.count - 1))
<1>8. Asked(a, o) /\ o \in D <=> o \in R
  <2>1. (x - a.dx) + a.dx \in 1..w /\ (y - a.dy) + a.dy \in 1..h
    BY <1>a
  <2>2. Asked(a, o) <=> x - a.dx \in (a.x)..(a.x + a.width - 1) /\ y - a.dy \in (a.y)..(a.y + a.height - 1)
    BY <1>4 DEF Asked
  <2>3. o \in D <=> x - a.dx \in 1..w /\ y - a.dy \in 1..h
    BY <1>4 DEF Grid
  <2>4. o \in R <=> x - a.dx \in (a.x)..(a.x + X.count - 1) /\ y - a.dy \in (a.y)..(a.y + Y.count - 1)
    BY <1>4
  <2> QED
    BY <1>4, <1>6, <1>7, <2>1, <2>2, <2>3, <2>4
<1> HIDE DEF R
<1>9. CASE ~Moves(a)
  <2>1. Result(a) = view
    BY <1>9 DEF Result
  <2>2. o \in R => o = p
    <3>1. ASSUME o \in R PROVE o = p
      <4>1. X.count > 0 /\ Y.count > 0
        BY <1>a, <1>4, <1>6, <1>7, <3>1 DEF R
      <4>2. X.from = X.to /\ Y.from = Y.to
        BY <1>5, <1>9, <4>1 DEF Moves
      <4>3. a.dx = 0 /\ a.dy = 0
        BY <1>a, <1>6, <1>7, <4>1, <4>2
      <4> QED
        BY <1>3, <1>4, <4>3
    <3> QED
      BY <3>1
  <2> QED
    BY <1>8, <2>1, <2>2
<1>10. CASE Moves(a)
  <2> DEFINE all == InOrder(a)
             ops == [i \in DOMAIN all |-> [at |-> Target(a, all[i]), cell |-> view.cells[all[i]]]]
  <2>1. PICK N \in Nat : \E at \in [1..N -> Pos] :
          /\ Len(all) = N /\ DOMAIN all = 1..N
          /\ \A i \in 1..N : all[i] \in D /\ Target(a, all[i]) = at[i]
          /\ RowByRow(at, N)
    BY <1>1, <1>10, CopyPlaces
  <2>2. PICK at \in [1..N -> Pos] :
          /\ Len(all) = N /\ DOMAIN all = 1..N
          /\ \A i \in 1..N : all[i] \in D /\ Target(a, all[i]) = at[i]
          /\ RowByRow(at, N)
    BY <2>1
  <2>3. Result(a) = Painted(view, ops, TRUE)
    BY <1>10 DEF Result, copy
  <2>4. X.count > 0 /\ Y.count > 0 /\ X.from = a.x /\ X.to = a.x + a.dx /\ Y.from = a.y /\ Y.to = a.y + a.dy
    BY <1>5, <1>6, <1>7, <1>10 DEF Moves
  <2>5. /\ \A i \in 1..N : all[i] \in R
        /\ \A q \in R : \E i \in 1..N : all[i] = q
    <3>1. SpanX(a).from \in Nat \ {0} /\ SpanY(a).from \in Nat \ {0} /\ SpanX(a).count \in Nat /\ SpanY(a).count \in Nat
      <4>1. PICK k \in Int, l \in Int : k = a.x /\ l = a.y /\ k >= 1 /\ l >= 1
        BY <1>a
      <4>2. X.from = k /\ Y.from = l /\ X.count \in Nat /\ Y.count \in Nat
        BY <1>6, <1>7, <2>4, <4>1
      <4> QED
        BY <1>5, <4>1, <4>2
    <3>2. GoesThrough(a)
      BY ONLY <3>1, CopyOrder
    <3>3. Copied(a) = R
      BY <1>5, <2>4 DEF Copied, R
    <3> QED
      BY <2>2, <3>2, <3>3 DEF GoesThrough
  <2>6. ASSUME NEW i \in 1..N PROVE at[i] = p <=> all[i] = o
    <3>1. PICK u \in Int, v \in Int : all[i] = <<u, v>>
      <4>1. all[i] \in Pos
        BY <1>1, <2>2
      <4>2. PICK r \in Pos : r = all[i]
        BY <4>1
      <4>3. PICK u \in Int, v \in Int : r = <<u, v>>
        BY ONLY r \in Pos DEF Pos
      <4> QED
        BY <4>2, <4>3
    <3>2. at[i] = <<u - X.from + X.to, v - Y.from + Y.to>>
      BY <1>5, <2>2, <3>1 DEF Target
    <3>3. PICK k, l, e, g \in Int : k = a.x /\ l = a.y /\ e = a.dx /\ g = a.dy
      BY <1>a
    <3>4. u - X.from + X.to = u + e /\ v - Y.from + Y.to = v + g
      <4>1. X.from = k /\ X.to = k + e /\ Y.from = l /\ Y.to = l + g
        BY <2>4, <3>3
      <4>2. u - k + (k + e) = u + e /\ v - l + (l + g) = v + g
        OBVIOUS
      <4> QED
        BY <4>1, <4>2
    <3>5. at[i] = <<u + e, v + g>> /\ o = <<x - e, y - g>>
      BY <1>4, <3>2, <3>3, <3>4
    <3>6. at[i] = p <=> u + e = x /\ v + g = y
      BY <1>3, <3>5
    <3>7. all[i] = o <=> u = x - e /\ v = y - g
      BY <3>1, <3>5
    <3>8. (u + e = x <=> u = x - e) /\ (v + g = y <=> v = y - g)
      BY ONLY x \in Int, y \in Int, u \in Int, v \in Int, e \in Int, g \in Int
    <3> QED
      BY <3>6, <3>7, <3>8
  <2> HIDE DEF all
  <2>7. N = Len(ops) /\ \A n \in 1..N : ops[n].at = at[n] /\ ops[n].cell = view.cells[all[n]]
    BY <2>2
  <2>8. \A n \in 1..N : ops[n].at = at[n] /\ ops[n].cell \in ACell
    BY <1>1, <2>2, <2>7
  <2> HIDE DEF ops
  <2>s. D \in SUBSET Pos /\ T \in SUBSET Pos /\ view \in Views(D, T) /\ N = Len(ops) /\ TRUE \in BOOLEAN /\ RowByRow(at, N)
    BY <1>1, <2>2, <2>7
  <2>9. Moved(Result(a), view, at, ops, N)
    <3>1. Movable(D, T, view, at, ops, N)
      BY ONLY N \in Nat, at \in [1..N -> Pos], <2>8, <2>s DEF Movable
    <3>2. Moved(Painted(view, ops, TRUE), view, at, ops, N)
      BY ONLY <3>1, MovedAll
    <3> QED
      BY <2>3, <3>2
  <2>a. Result(a) \in Views(D, T)
    <3>1. \A n \in 1..N : ops[n].cell \in ACell
      BY <2>8
    <3>2. Painted(view, ops, TRUE) \in Views(D, T)
      BY ONLY N \in Nat, <2>s, <3>1, PaintingType
    <3> QED
      BY <2>3, <3>2
  <2>b. ~Disturbed(view, at, ops, N, p)
    <3>1. ASSUME Left(p) \in D, NEW j \in 1..N, at[j] = Left(p), ops[j].cell.value \in WideChar PROVE FALSE
      <4>1. Result(a).cells[Left(p)].value = ops[j].cell.value
        BY <1>1, <2>9, <3>1 DEF Moved, Stays
      <4>2. Left(p) \in DOMAIN Result(a).cells
        BY <2>a, <3>1 DEF Views
      <4> QED
        BY <3>1, <4>1, <4>2 DEF IsWide
    <3> QED
      BY <1>1, <3>1 DEF Disturbed
  <2>c. Brought(Result(a), view, at, ops, N, p)
    BY <1>1, <2>9, <2>b DEF Moved
  <2>d. CASE o \in R
    <3>1. PICK i \in 1..N : all[i] = o
      BY <2>5, <2>d
    <3>2. PICK j \in 1..N : at[j] = p /\ Result(a).cells[p] = ops[j].cell
      BY <2>6, <2>c, <3>1 DEF Brought
    <3> QED
      BY <1>8, <2>6, <2>7, <2>d, <3>2
  <2>e. CASE o \notin R
    <3>1. \A j \in 1..N : at[j] # p
      BY <2>5, <2>6, <2>e
    <3> QED
      BY <1>8, <2>c, <2>e, <3>1 DEF Brought
  <2> QED
    BY <2>d, <2>e
<1> QED
  BY <1>9, <1>10

\* A copy of any rectangle within the ints, by any offset, onto itself or not, moves just
\* the cells asked for, on a screen of any size (gpu.cpp:225): no set undoes another.
THEOREM CopyMovesIt == GpuCellsSpec => CopyMovesRegion
<1> DEFINE Region(a) ==
      Copy(a) /\ InInts(a) =>
      \A p \in DOMAIN view.cells :
        LET from == <<p[1] - a.dx, p[2] - a.dy>>
            asked == from[1] \in (a.x)..(a.x + a.width - 1) /\ from[2] \in (a.y)..(a.y + a.height - 1)
            touched == \E q \in {Left(p), p, Right(p)} \cap DOMAIN view.cells :
                         {view.cells[q].value, view'.cells[q].value} \cap WideChar # {}
        IN  touched \/ view'.cells[p] = IF asked /\ from \in DOMAIN view.cells
                                          THEN view.cells[from] ELSE view.cells[p]
<1>1. GpuCellsInit => GpuIsSound
  BY InitSound
<1>2. GpuIsSound /\ [GpuCellsNext]_gpuCellVars => GpuIsSound'
  BY GpuStepKeeps
<1>3. ASSUME GpuIsSound, NEW a \in Copies PROVE Region(a)
  <2> SUFFICES ASSUME Copy(a), InInts(a), NEW p \in DOMAIN view.cells,
                      ~\E q \in {Left(p), p, Right(p)} \cap DOMAIN view.cells :
                          {view.cells[q].value, view'.cells[q].value} \cap WideChar # {}
               PROVE  view'.cells[p] = IF Asked(a, Origin(a, p)) /\ Origin(a, p) \in DOMAIN view.cells
                                         THEN view.cells[Origin(a, p)] ELSE view.cells[p]
    BY DEF Asked, Origin
  <2>1. PICK size \in FrameSizes : Fits(size, frameSize, view, cut)
    BY <1>3 DEF GpuIsSound
  <2>2. PICK w \in 1..GpuMaxInt, h \in 1..GpuMaxInt : size = <<w, h>>
    BY SizeFacts
  <2> DEFINE D == Grid(<<w, h>>)
             T == Grid(frameSize)
  <2>3. T \in SUBSET Pos /\ view \in Views(D, T)
    BY <1>3, <2>1, <2>2, SizeFacts DEF Fits, GpuIsSound
  <2>4. view' = Result(a)
    BY DEF Copy, Draw, Result
  <2> HIDE DEF T
  <2>5. DOMAIN view.cells = D
    BY <2>3 DEF Views
  <2>6. GpuIsSound'
    BY <1>3, CopyKeeps
  <2>7. DOMAIN view'.cells = D
    <3>1. Moves(a) => copy(view, a) \in Views(D, T)
      BY <2>3, CopyFacts
    <3> QED
      BY <2>3, <2>4, <3>1 DEF Result, Views
  <2>8. ~IsWide(view, Left(p)) /\ ~IsWide(Result(a), Left(p))
    BY <2>4, <2>5, <2>7 DEF IsWide
  <2> QED
    BY <2>3, <2>4, <2>5, <2>8, CopyMoves
<1>4. GpuIsSound => [\A a \in Copies : Region(a)]_gpuCellVars
  BY <1>3
<1> QED
  BY <1>1, <1>2, <1>4, PTL DEF GpuCellsSpec, CopyMovesRegion
-----------------------------------------------------------------------------
(* Colours: what a change of the palette leaves alone *)

Places == 0..(PALETTE_SIZE - 1)

ColorStates == [depth : {1, 4, 8}, palette : [Places -> Int]]

\* The colour of a cell of a screen of depth 4 is one of the palette; of any, a byte.
ColorsTypeOK ==
  /\ color \in ColorStates /\ ground \in [rgb : Int, paletted : BOOLEAN]
  /\ cellColor \in [rgb : 0..255, paletted : BOOLEAN]
  /\ color.depth = 4 => cellColor.rgb \in Places

\* A product with itself, however it is written.
LEMMA SquareIs ==
  ASSUME NEW w \in Nat, NEW r \in Int, NEW s \in Int
  PROVE  /\ w * (r - s) * (r - s) \in Nat
         /\ w * (r - s) * (r - s) = w * (s - r) * (s - r)
         /\ w * (r - r) * (r - r) = 0
<1>1. PICK x \in Int : x = r - s
  OBVIOUS
<1>2. PICK X \in Nat : X = x * x /\ X = (-x) * (-x)
  <2>1. x * x \in Nat /\ x * x = (-x) * (-x)
    OBVIOUS
  <2> QED
    BY <2>1
<1>3. w * x * x = w * X /\ w * (-x) * (-x) = w * X /\ w * X \in Nat
  BY <1>2
<1>4. s - r = -x /\ r - r = 0
  BY <1>1
<1>5. w * 0 * 0 = 0
  OBVIOUS
<1> QED
  BY <1>1, <1>3, <1>4, <1>5

LEMMA DeltaIs ==
  ASSUME NEW a \in Int, NEW b \in Int
  PROVE  delta(a, b) \in Nat /\ delta(a, a) = 0 /\ delta(a, b) = delta(b, a)
<1> DEFINE A(p, q) == 2126 * (Red(p) - Red(q)) * (Red(p) - Red(q))
           B(p, q) == 7152 * (Green(p) - Green(q)) * (Green(p) - Green(q))
           C(p, q) == 722 * (Blue(p) - Blue(q)) * (Blue(p) - Blue(q))
<1>1. \A c \in Int : Red(c) \in Int /\ Green(c) \in Int /\ Blue(c) \in Int
  BY DEF Red, Green, Blue
<1>2. A(a, b) \in Nat /\ A(a, b) = A(b, a) /\ A(a, a) = 0
  BY <1>1, SquareIs
<1>3. B(a, b) \in Nat /\ B(a, b) = B(b, a) /\ B(a, a) = 0
  BY <1>1, SquareIs
<1>4. C(a, b) \in Nat /\ C(a, b) = C(b, a) /\ C(a, a) = 0
  BY <1>1, SquareIs
<1> DEFINE S(p, q) == A(p, q) + B(p, q) + C(p, q)
           H(k) == k \div 10000
<1>5. \A p, q : delta(p, q) = H(S(p, q))
  BY DEF delta
<1>6. H(0) = 0 /\ \A k \in Nat : H(k) \in Nat
  OBVIOUS
<1> HIDE DEF A, B, C, H
<1>7. S(a, b) \in Nat /\ S(a, b) = S(b, a) /\ S(a, a) = 0
  BY <1>2, <1>3, <1>4
<1> HIDE DEF S
<1> QED
  BY <1>5, <1>6, <1>7

\* If an entry of the palette is a colour, or as good as it, so is the nearest.
LEMMA NearestIs ==
  ASSUME NEW s \in ColorStates, NEW c \in Int
  PROVE  /\ Nearest(s, c) \in Places
         /\ \A k \in Places : delta(s.palette[k], c) = 0 => delta(s.palette[Nearest(s, c)], c) = 0
<1> DEFINE T == {delta(s.palette[i], c) * PALETTE_SIZE + i : i \in Places}
<1>1. \A i \in Places : s.palette[i] \in Int /\ delta(s.palette[i], c) \in Nat
  BY DeltaIs DEF ColorStates
<1>2. T \in SUBSET Nat /\ T # {}
  BY <1>1 DEF Places, PALETTE_SIZE
<1>3. PICK x \in T : x = Min(T) /\ \A y \in T : x <= y
  <2> HIDE DEF T
  <2> QED
    BY <1>2, LeastExists
<1>4. PICK i \in Places : x = delta(s.palette[i], c) * PALETTE_SIZE + i
  BY <1>3
<1>5. Nearest(s, c) = x % PALETTE_SIZE
  BY <1>3 DEF Nearest, Places
<1>6. PICK d \in Nat : d = delta(s.palette[i], c)
  BY <1>1, <1>4
<1>7. i \in 0..15 /\ x = d * 16 + i /\ Nearest(s, c) = x % 16
  BY <1>4, <1>5, <1>6 DEF Places, PALETTE_SIZE
<1>8. Nearest(s, c) = i
  <2>1. (d * 16 + i) % 16 = i
    BY <1>7
  <2> QED
    BY <1>7, <2>1
<1>9. ASSUME NEW k \in Places, delta(s.palette[k], c) = 0 PROVE d = 0
  <2>1. delta(s.palette[k], c) * PALETTE_SIZE + k \in T
    OBVIOUS
  <2>2. k \in 0..15 /\ delta(s.palette[k], c) * PALETTE_SIZE + k = k
    BY <1>9 DEF Places, PALETTE_SIZE
  <2>3. x <= k
    BY <1>3, <2>1, <2>2
  <2> QED
    BY <1>7, <2>2, <2>3
<1> QED
  BY <1>6, <1>8, <1>9

\* The three parts of a colour.
LEMMA RgbParts ==
  ASSUME NEW r \in 0..255, NEW g \in 0..255, NEW b \in 0..255
  PROVE  /\ Rgb(r, g, b) \in Int
         /\ Red(Rgb(r, g, b)) = r /\ Green(Rgb(r, g, b)) = g /\ Blue(Rgb(r, g, b)) = b
<1>0. PICK c \in Int : c = r * 65536 + g * 256 + b /\ c = Rgb(r, g, b)
  BY DEF Rgb
<1> DEFINE d == g * 256 + b
<1>1. d \in Int /\ 0 <= d /\ d <= 65535
  OBVIOUS
<1>2. c = r * 65536 + d
  BY <1>0
<1>3. c \div 65536 = r
  <2> HIDE DEF d
  <2> QED
    BY <1>1, <1>2
<1>4. PICK h \in Int : h = r * 256 + g
  OBVIOUS
<1>5. c = h * 256 + b
  BY <1>0, <1>4
<1>6. c \div 256 = h /\ c % 256 = b
  BY <1>5
<1>7. h % 256 = g /\ r % 256 = r
  BY <1>4
<1> HIDE DEF d
<1>8. Red(c) = (c \div 65536) % 256 /\ Green(c) = (c \div 256) % 256 /\ Blue(c) = c % 256
  BY DEF Red, Green, Blue
<1>9. Red(c) = r /\ Green(c) = g /\ Blue(c) = b
  BY <1>3, <1>6, <1>7, <1>8
<1> QED
  BY <1>0, <1>9

\* The cube gives back the index that a colour was made of.
LEMMA CubeGivesBack ==
  ASSUME NEW v \in 17..255, NEW s, s.depth = 8
  PROVE  inflate(s, v) \in Int /\ deflateCube(inflate(s, v)) = v
<1>1. PICK x \in 1..239 : x = v - 16
  OBVIOUS
<1>2. PICK r \in 0..5, g \in 0..7, b \in 0..4 :
        r = (x \div 40) % 6 /\ g = (x \div 5) % 8 /\ b = x % 5 /\ x = r * 40 + g * 5 + b
  <2>1. PICK y \in Int, b \in 0..4 : y = x \div 5 /\ b = x % 5 /\ x = 5 * y + b
    OBVIOUS
  <2>2. PICK q \in Int, g \in 0..7 : q = y \div 8 /\ g = y % 8 /\ y = 8 * q + g
    OBVIOUS
  <2>3. x = 40 * q + (5 * g + b) /\ 5 * g + b \in 0..39
    BY <2>1, <2>2
  <2>4. q \in 0..5 /\ x \div 40 = q /\ q % 6 = q
    BY <2>3
  <2>5. (x \div 40) % 6 = q /\ (x \div 5) % 8 = g /\ x % 5 = b /\ x = q * 40 + g * 5 + b
    BY <2>1, <2>2, <2>3, <2>4
  <2> QED
    BY <2>4, <2>5
<1>3. PICK R \in 0..255, G \in 0..255, B \in 0..255 :
        /\ R = Level(r, 6) /\ G = Level(g, 8) /\ B = Level(b, 5)
        /\ StepOf(R, 6) = r /\ StepOf(G, 8) = g /\ StepOf(B, 5) = b
  <2>1. Level(r, 6) \in 0..255 /\ StepOf(Level(r, 6), 6) = r
    BY DEF Level, StepOf
  <2>2. Level(g, 8) \in 0..255 /\ StepOf(Level(g, 8), 8) = g
    BY DEF Level, StepOf
  <2>3. Level(b, 5) \in 0..255 /\ StepOf(Level(b, 5), 5) = b
    BY DEF Level, StepOf
  <2> QED
    BY <2>1, <2>2, <2>3
<1>4. inflate(s, v) = Rgb(R, G, B)
  <2>1. inflate(s, v) = inflate8(s, v)
    BY DEF inflate
  <2>2. ~isFromPalette(v)
    BY DEF isFromPalette, PALETTE_SIZE
  <2>3. inflate8(s, v) = Rgb(Level((x \div 40) % 6, 6), Level((x \div 5) % 8, 8), Level(x % 5, 5))
    BY <1>1, <2>2 DEF inflate8, PALETTE_SIZE, Reds, Greens, Blues
  <2> QED
    BY <1>2, <1>3, <2>1, <2>3
<1>5. PICK c : c = Rgb(R, G, B)
  OBVIOUS
<1>6. c \in Int /\ Red(c) = R /\ Green(c) = G /\ Blue(c) = B
  <2>1. /\ Rgb(R, G, B) \in Int
        /\ Red(Rgb(R, G, B)) = R /\ Green(Rgb(R, G, B)) = G /\ Blue(Rgb(R, G, B)) = B
    BY RgbParts
  <2> QED
    BY <1>5, <2>1
<1>7. deflateCube(c) = (16 + r * 8 * 5 + g * 5 + b) % 256
  BY <1>3, <1>6 DEF deflateCube, PALETTE_SIZE, Reds, Greens, Blues
<1>8. (16 + r * 8 * 5 + g * 5 + b) % 256 = v
  BY <1>1, <1>2
<1> QED
  BY <1>4, <1>5, <1>6, <1>7, <1>8

LEMMA DeflateCubeIs ==
  ASSUME NEW c \in Int
  PROVE  deflateCube(c) \in 0..255
<1>1. Red(c) \in Int /\ Green(c) \in Int /\ Blue(c) \in Int
  BY DEF Red, Green, Blue
<1>2. \A x \in Int : StepOf(x, 6) \in Int /\ StepOf(x, 8) \in Int /\ StepOf(x, 5) \in Int
  BY DEF StepOf
<1>3. PICK a \in Int, b \in Int, d \in Int :
        a = StepOf(Red(c), 6) /\ b = StepOf(Green(c), 8) /\ d = StepOf(Blue(c), 5)
  BY <1>1, <1>2
<1>4. deflateCube(c) = (16 + a * 8 * 5 + b * 5 + d) % 256
  BY <1>3 DEF deflateCube, PALETTE_SIZE, Reds, Greens, Blues
<1>5. (16 + a * 8 * 5 + b * 5 + d) % 256 \in 0..255
  OBVIOUS
<1> QED
  BY <1>4, <1>5

\* An index of the palette stands for its entry, and every index for a number.
LEMMA InflateIs ==
  ASSUME NEW s \in ColorStates, NEW v \in 0..255
  PROVE  inflate(s, v) \in Int /\ (v \in Places /\ s.depth # 1 => inflate(s, v) = s.palette[v])
<1>1. s.depth \in {1, 4, 8} /\ s.palette \in [Places -> Int]
  BY DEF ColorStates
<1>2. v \in Places => inflate4(s, v) = s.palette[v] /\ s.palette[v] \in Int
  BY <1>1 DEF inflate4, Entry, Places, PALETTE_SIZE
<1>3. v \notin Places => inflate4(s, v) = s.depth
  BY DEF inflate4, Entry, Places, PALETTE_SIZE
<1>4. CASE s.depth = 1
  <2>1. Monochrome \in Nat
    BY ColorAssumption, Zenon
  <2>2. inflate(s, v) = inflate1(v)
    BY <1>4 DEF inflate
  <2> QED
    BY <1>4, <2>1, <2>2 DEF inflate1
<1>5. CASE s.depth = 4
  BY <1>1, <1>2, <1>3, <1>5 DEF inflate
<1>6. CASE s.depth = 8
  <2>1. inflate(s, v) = inflate8(s, v)
    BY <1>6 DEF inflate
  <2>2. v \in Places => isFromPalette(v)
    BY DEF Places, isFromPalette, PALETTE_SIZE
  <2>3. isFromPalette(v) => inflate(s, v) = inflate4(s, v)
    BY <2>1 DEF inflate8
  <2>4. CASE isFromPalette(v)
    BY <1>1, <1>2, <1>3, <2>3, <2>4
  <2>5. CASE ~isFromPalette(v)
    <3>1. v \in 17..255
      BY <2>5 DEF isFromPalette, PALETTE_SIZE
    <3> QED
      BY <1>6, <2>2, <2>5, <3>1, CubeGivesBack
  <2> QED
    BY <2>4, <2>5
<1> QED
  BY <1>1, <1>4, <1>5, <1>6

LEMMA PlacesAre == Places = 0..15 /\ Places \subseteq 0..255
  BY DEF Places, PALETTE_SIZE

\* What a colour becomes is an index that the format has.
LEMMA DeflateIs ==
  ASSUME NEW s \in ColorStates, NEW c \in [rgb : Int, paletted : BOOLEAN]
  PROVE  /\ deflate(s, c) \in 0..255
         /\ s.depth = 4 => deflate(s, c) \in Places
         /\ deflate4(s, c) \in Places
<1>1. s.depth \in {1, 4, 8}
  BY DEF ColorStates
<1>2. deflate4(s, c) \in Places
  <2>1. CASE c.paletted
    <3>1. PICK x \in Nat : x = IF c.rgb > 0 THEN c.rgb ELSE 0
      OBVIOUS
    <3>2. deflate4(s, c) = x % 16
      BY <2>1, <3>1 DEF deflate4, PALETTE_SIZE
    <3> QED
      BY <3>2, PlacesAre
  <2>2. CASE ~c.paletted
    <3>1. deflate4(s, c) = Nearest(s, c.rgb)
      BY <2>2 DEF deflate4
    <3> QED
      BY <3>1, NearestIs
  <2> QED
    BY <2>1, <2>2
<1>3. deflate1(c) \in 0..255
  BY DEF deflate1
<1>4. deflate8(s, c) = deflate4(s, c) \/ deflate8(s, c) = deflateCube(c.rgb)
  BY DEF deflate8
<1>5. deflateCube(c.rgb) \in 0..255
  BY DeflateCubeIs
<1>6. CASE s.depth = 1
  BY <1>2, <1>3, <1>6 DEF deflate
<1>7. CASE s.depth = 4
  BY <1>2, <1>7, PlacesAre DEF deflate
<1>8. CASE s.depth = 8
  <2>1. deflate(s, c) = deflate8(s, c)
    BY <1>8 DEF deflate
  <2> QED
    BY <1>2, <1>4, <1>5, <1>8, <2>1, PlacesAre
<1> QED
  BY <1>1, <1>6, <1>7, <1>8

\* A colour that the palette or the cube has, or has as good as it, is read back so.
LEMMA DeflateKeeps ==
  ASSUME NEW s \in ColorStates, s.depth \in {4, 8},
         NEW c \in [rgb : Int, paletted : BOOLEAN], ~c.paletted,
         \/ \E k \in Places : s.palette[k] = c.rgb
         \/ s.depth = 8 /\ inflate(s, deflateCube(c.rgb)) = c.rgb
  PROVE  delta(c.rgb, inflate(s, deflate(s, c))) = 0
<1>1. c.rgb \in Int /\ \A k \in Places : s.palette[k] \in Int
  BY DEF ColorStates
<1>2. deflate4(s, c) = Nearest(s, c.rgb) /\ deflate4(s, c) \in Places
  BY DeflateIs DEF deflate4
<1>3. inflate(s, deflate4(s, c)) = s.palette[deflate4(s, c)]
  BY <1>2, InflateIs, PlacesAre
<1>4. ASSUME NEW k \in Places, s.palette[k] = c.rgb
      PROVE  delta(inflate(s, deflate4(s, c)), c.rgb) = 0
  <2>1. delta(s.palette[k], c.rgb) = 0
    BY <1>1, <1>4, DeltaIs
  <2> QED
    BY <1>1, <1>2, <1>3, <2>1, NearestIs
<1>5. ASSUME NEW v, inflate(s, v) \in Int, v = deflate(s, c), delta(inflate(s, v), c.rgb) = 0
      PROVE  delta(c.rgb, inflate(s, deflate(s, c))) = 0
  BY <1>1, <1>5, DeltaIs
<1>6. CASE s.depth = 4
  <2>1. deflate(s, c) = deflate4(s, c)
    BY <1>6 DEF deflate
  <2> QED
    BY <1>1, <1>2, <1>3, <1>4, <1>5, <1>6, <2>1
<1>7. CASE s.depth = 8
  <2> DEFINE best == deflate4(s, c)
             cube == deflateCube(c.rgb)
  <2>1. deflate(s, c) = IF delta(inflate(s, cube), c.rgb) > delta(inflate(s, best), c.rgb) THEN best ELSE cube
    BY <1>7 DEF deflate, deflate8
  <2>2. inflate(s, best) \in Int /\ inflate(s, cube) \in Int
    <3>1. best \in 0..255
      BY <1>2, PlacesAre
    <3>2. cube \in 0..255
      BY <1>1, DeflateCubeIs
    <3> HIDE DEF best, cube
    <3> QED
      BY <3>1, <3>2, InflateIs
  <2>3. PICK j \in Nat, n \in Nat : j = delta(inflate(s, cube), c.rgb) /\ n = delta(inflate(s, best), c.rgb)
    BY <1>1, <2>2, DeltaIs
  <2>4. n = 0 \/ j = 0
    <3>1. ASSUME inflate(s, cube) = c.rgb PROVE j = 0
      BY <1>1, <2>3, <3>1, DeltaIs
    <3> QED
      BY <1>4, <2>3, <3>1
  <2>5. j > n => n = 0
    BY <2>4
  <2>6. ~(j > n) => j = 0
    BY <2>4
  <2> HIDE DEF best, cube
  <2>7. (deflate(s, c) = best /\ n = 0) \/ (deflate(s, c) = cube /\ j = 0)
    BY <2>1, <2>3, <2>5, <2>6
  <2> QED
    BY <1>5, <2>2, <2>3, <2>7
<1> QED
  BY <1>6, <1>7

\* A new format keeps the invariant of the colour state: the greys and the sixteen
\* of the table are colours, and a screen of depth 1 keeps the palette it has.
LEMMA StateIs ==
  ASSUME NEW s, NEW d \in {1, 4, 8}, d = 8 \/ s \in ColorStates
  PROVE  initialize_color_state(s, d) \in ColorStates /\ initialize_color_state(s, d).depth = d
<1> DEFINE e == [i \in Places |-> CASE d = 4 -> Palette4[i + 1] [] d = 8 -> Grey(i) [] OTHER -> s.palette[i]]
<1>1. initialize_color_state(s, d) = [depth |-> d, palette |-> e]
  BY PlacesAre DEF initialize_color_state, Places
<1>2. \A r, g, b \in Int : Rgb(r, g, b) \in Int
  BY DEF Rgb
<1>3. ASSUME NEW i \in Places PROVE e[i] \in Int
  <2>1. CASE d = 4
    <3>1. Palette4 \in [1..16 -> Int]
      <4> DEFINE R(r, g, b) == Rgb(r, g, b)
      <4>1. \A r, g, b \in Int : R(r, g, b) \in Int
        BY <1>2
      <4>2. Palette4 = <<R(255, 255, 255), R(255, 204, 51), R(204, 102, 204), R(102, 153, 255),
              R(255, 255, 51), R(51, 204, 51), R(255, 102, 153), R(51, 51, 51),
              R(204, 204, 204), R(51, 102, 153), R(153, 51, 204), R(51, 51, 153),
              R(102, 51, 0), R(51, 102, 0), R(255, 51, 51), R(0, 0, 0)>>
        BY DEF Palette4
      <4> HIDE DEF R
      <4> QED
        BY <4>1, <4>2
    <3>2. i + 1 \in 1..16
      BY PlacesAre
    <3> QED
      BY <2>1, <3>1, <3>2
  <2>2. CASE d = 8
    <3>1. PICK h \in Int : h = (255 * (i + 1)) \div 17
      BY PlacesAre
    <3>2. Grey(i) = Rgb(h, h, h)
      BY <3>1 DEF Grey, PALETTE_SIZE
    <3> QED
      BY <1>2, <2>2, <3>1, <3>2
  <2>3. CASE d = 1
    BY <2>3 DEF ColorStates
  <2> QED
    BY <2>1, <2>2, <2>3
<1>4. e \in [Places -> Int]
  BY <1>3
<1> HIDE DEF e
<1> QED
  BY <1>1, <1>4 DEF ColorStates

LEMMA RecolouredIs ==
  ASSUME NEW c \in [rgb : 0..255, paletted : BOOLEAN], NEW s \in ColorStates, NEW t \in ColorStates
  PROVE  /\ Recoloured(c, s, t) \in [rgb : 0..255, paletted : BOOLEAN]
         /\ t.depth = 4 => Recoloured(c, s, t).rgb \in Places
         /\ Recoloured(c, s, t).paletted = c.paletted
         /\ Recoloured(c, s, t).rgb = deflate(t, [c EXCEPT !.rgb = inflate(s, c.rgb)])
         /\ [c EXCEPT !.rgb = inflate(s, c.rgb)] \in [rgb : Int, paletted : BOOLEAN]
         /\ [c EXCEPT !.rgb = inflate(s, c.rgb)].rgb = inflate(s, c.rgb)
         /\ [c EXCEPT !.rgb = inflate(s, c.rgb)].paletted = c.paletted
<1>1. PICK n \in Int : n = inflate(s, c.rgb)
  BY InflateIs
<1>2. PICK k : k = [c EXCEPT !.rgb = n]
  OBVIOUS
<1>3. k \in [rgb : Int, paletted : BOOLEAN] /\ k.rgb = n /\ k.paletted = c.paletted
  BY <1>2
<1>4. deflate(t, k) \in 0..255 /\ (t.depth = 4 => deflate(t, k) \in Places)
  BY <1>3, DeflateIs
<1>5. Recoloured(c, s, t) = [c EXCEPT !.rgb = deflate(t, k)]
  BY <1>1, <1>2 DEF Recoloured
<1> QED
  BY <1>1, <1>2, <1>3, <1>4, <1>5

ColorsSpec == ColorsInit /\ [][ColorsNext]_colorVars

LEMMA ColorsStart == ColorsInit => ColorsTypeOK
<1> SUFFICES ASSUME ColorsInit PROVE ColorsTypeOK
  OBVIOUS
<1>1. InitialColors \in ColorStates /\ InitialColors.depth = 8
  BY StateIs DEF InitialColors
<1>2. ground \in [rgb : Int, paletted : BOOLEAN]
  <2>1. Rgb(255, 255, 255) \in Int
    BY DEF Rgb
  <2> QED
    BY <2>1 DEF ColorsInit
<1>3. deflate(InitialColors, ground) \in 0..255
  BY <1>1, <1>2, DeflateIs
<1> QED
  BY <1>1, <1>2, <1>3 DEF ColorsInit, ColorsTypeOK

LEMMA ColorsKeep == ColorsTypeOK /\ [ColorsNext]_colorVars => ColorsTypeOK'
<1> SUFFICES ASSUME ColorsTypeOK, [ColorsNext]_colorVars PROVE ColorsTypeOK'
  OBVIOUS
<1>0. /\ color \in ColorStates /\ ground \in [rgb : Int, paletted : BOOLEAN]
      /\ cellColor \in [rgb : 0..255, paletted : BOOLEAN]
      /\ color.depth = 4 => cellColor.rgb \in Places
  BY DEF ColorsTypeOK
<1>1. Rgbs \subseteq Int /\ Indexes \subseteq Int
  <2>1. Rgb(255, 255, 255) \in Int
    BY DEF Rgb
  <2> QED
    BY <2>1, ColorAssumption
<1>2. ASSUME NEW i \in Int, NEW p \in BOOLEAN, SetGround(i, p) PROVE ColorsTypeOK'
  BY <1>0, <1>2 DEF SetGround, ColorsTypeOK
<1>3. ASSUME NEW i \in Indexes, NEW rgb \in Rgbs, SetPaletteColor(i, rgb) PROVE ColorsTypeOK'
  <2>1. i \in Places /\ color' = [color EXCEPT !.palette[i] = rgb]
    BY <1>3 DEF SetPaletteColor, Places
  <2>2. color \in ColorStates /\ rgb \in Int
    BY <1>0, <1>1 DEF ColorsTypeOK
  <2>3. color' \in ColorStates /\ color'.depth = color.depth
    BY ONLY <2>1, <2>2 DEF ColorStates
  <2>4. cellColor' = Recoloured(cellColor, color, color') /\ ground' = ground
    BY <1>3 DEF SetPaletteColor
  <2> QED
    BY <1>0, <2>3, <2>4, RecolouredIs DEF ColorsTypeOK
<1>4. ASSUME NEW bits \in {1, 4, 8}, SetDepth(bits) PROVE ColorsTypeOK'
  <2>1. color' \in ColorStates
    BY <1>0, <1>4, StateIs DEF SetDepth
  <2>2. cellColor' = Recoloured(cellColor, color, color') /\ ground' = ground
    BY <1>4 DEF SetDepth
  <2> QED
    BY <1>0, <2>1, <2>2, RecolouredIs DEF ColorsTypeOK
<1>5. CASE DrawCell
  <2>1. deflate(color, ground) \in 0..255 /\ (color.depth = 4 => deflate(color, ground) \in Places)
    BY <1>0, DeflateIs
  <2> QED
    BY <1>0, <1>5, <2>1 DEF DrawCell, ColorsTypeOK
<1>6. CASE Rebind
  <2>1. color' \in ColorStates /\ color'.depth = 8
    BY <1>6, StateIs DEF Rebind
  <2> QED
    BY <1>0, <1>6, <2>1 DEF Rebind, ColorsTypeOK
<1>7. CASE UNCHANGED colorVars
  BY <1>0, <1>7 DEF colorVars, ColorsTypeOK
<1> QED
  BY <1>1, <1>2, <1>3, <1>4, <1>5, <1>6, <1>7 DEF ColorsNext

\* A change of one entry of the palette is not seen in a cell that does not use it.
LEMMA PaletteStep ==
  ASSUME ColorsTypeOK, NEW i \in Indexes, NEW rgb \in Rgbs, SetPaletteColor(i, rgb),
         ~cellColor.paletted, cellColor.rgb # i
  PROVE  delta(ColorOf(color, cellColor), ColorOf(color', cellColor')) = 0
<1>0. color \in ColorStates /\ cellColor \in [rgb : 0..255, paletted : BOOLEAN]
  BY DEF ColorsTypeOK
<1>1. color' \in ColorStates /\ color'.depth = color.depth /\ color.depth \in {4, 8}
  <2>1. Rgbs \subseteq Int
    <3>1. Rgb(255, 255, 255) \in Int
      BY DEF Rgb
    <3> QED
      BY <3>1, ColorAssumption
  <2> QED
    BY <1>0, <2>1 DEF SetPaletteColor, ColorStates, Places
<1>2. \A k \in Places : k # i => color'.palette[k] = color.palette[k]
  BY <1>0 DEF SetPaletteColor, ColorStates
<1>3. cellColor' = Recoloured(cellColor, color, color')
  BY DEF SetPaletteColor
<1>4. PICK v \in 0..255 : v = cellColor.rgb
  BY <1>0
<1>5. PICK n \in Int : n = inflate(color, v)
  BY <1>0, InflateIs
<1>6. PICK c \in [rgb : Int, paletted : BOOLEAN] :
        c = [cellColor EXCEPT !.rgb = n] /\ c.rgb = n /\ ~c.paletted
  <2>1. /\ [cellColor EXCEPT !.rgb = n] \in [rgb : Int, paletted : BOOLEAN]
        /\ [cellColor EXCEPT !.rgb = n].rgb = n
        /\ [cellColor EXCEPT !.rgb = n].paletted = cellColor.paletted
    BY <1>0, <1>4, <1>5, RecolouredIs
  <2> QED
    BY <2>1, Zenon
<1>7. cellColor'.rgb = deflate(color', c) /\ ~cellColor'.paletted
  BY <1>0, <1>1, <1>3, <1>4, <1>5, <1>6, RecolouredIs
<1>8. ColorOf(color, cellColor) = n /\ ColorOf(color', cellColor') = inflate(color', deflate(color', c))
  BY <1>4, <1>5, <1>7 DEF ColorOf
<1>9. \/ \E k \in Places : color'.palette[k] = n
      \/ color'.depth = 8 /\ inflate(color', deflateCube(n)) = n
  <2>1. CASE v \in Places
    <3>1. n = color.palette[v]
      <4>1. color.depth # 1
        BY <1>1
      <4>2. inflate(color, v) = color.palette[v]
        BY <1>0, <2>1, <4>1, InflateIs
      <4> QED
        BY <1>5, <4>2
    <3>2. color'.palette[v] = n
      BY <1>2, <1>4, <2>1, <3>1
    <3> QED
      BY <2>1, <3>2
  <2>2. CASE v \notin Places
    <3>1. color.depth = 8
      BY <1>1, <1>4, <2>2 DEF ColorsTypeOK
    <3>2. CASE v = 16
      <4>1. n = 8
        BY <1>5, <3>1, <3>2 DEF inflate, inflate8, inflate4, Entry, isFromPalette, PALETTE_SIZE
      <4>2. deflateCube(8) = 16
        BY DEF deflateCube, Red, Green, Blue, StepOf, PALETTE_SIZE, Reds, Greens, Blues
      <4>3. inflate(color', 16) = 8
        BY <1>1, <3>1 DEF inflate, inflate8, inflate4, Entry, isFromPalette, PALETTE_SIZE
      <4> QED
        BY <1>1, <3>1, <4>1, <4>2, <4>3
    <3>3. CASE v \in 17..255
      <4>1. deflateCube(n) = v
        BY <1>5, <3>1, <3>3, CubeGivesBack
      <4>2. inflate(color', v) = inflate(color, v)
        BY <1>1, <3>1, <3>3 DEF inflate, inflate8, isFromPalette, PALETTE_SIZE
      <4> QED
        BY <1>1, <1>5, <3>1, <4>1, <4>2
    <3> QED
      BY <2>2, <3>2, <3>3, PlacesAre
  <2> QED
    BY <2>1, <2>2
<1> QED
  BY <1>1, <1>6, <1>8, <1>9, DeflateKeeps

\* The depth is one of the three, the palette holds numbers, and what a cell of a screen of
\* depth 4 holds is an index of the palette, of any screen a byte (color_map.cpp:42-219).
THEOREM ColorsTyped == ColorsSpec => []ColorsTypeOK
<1> QED
  BY ColorsStart, ColorsKeep, PTL DEF ColorsSpec

\* A change of one palette entry (gpu.cpp:441), which converts every cell on the screen to a
\* colour and back, leaves a cell that does not use the entry in a colour at no distance from
\* what it was, in either depth with a palette.
THEOREM OthersKeep == ColorsSpec => OthersKeepTheirColour
<1>1. ColorsTypeOK /\ [ColorsNext]_colorVars =>
        [\A i \in Indexes, rgb \in Rgbs :
           SetPaletteColor(i, rgb) /\ ~cellColor.paletted /\ cellColor.rgb # i =>
           delta(ColorOf(color, cellColor), ColorOf(color', cellColor')) = 0]_colorVars
  BY PaletteStep
<1> QED
  BY <1>1, ColorsTyped, PTL DEF ColorsSpec, OthersKeepTheirColour

-----------------------------------------------------------------------------
(* The thread of the reader *)

\* Numbers are given out in order and _pthread holds the last one.
Numbering ==
  /\ \A t \in Threads : tpc[t] = "unborn" <=> t > made
  /\ pthread # None => pthread = made

\* The thread in proc(), if there is one, is _pthread's, and _running says so.
Tracking ==
  /\ running => pthread # None
  /\ \A t \in Threads : Alive(t) => t = pthread /\ running
  /\ running => Alive(pthread)

\* _m is held across hooks and locked methods, and by nobody else.
Holding ==
  /\ \A t \in Threads : m = t <=> InHook(t)
  /\ m = Owner <=> opc = "using"

\* Where stop() has got to.  An onStart that is being called was not preceded
\* by a stop(), so its answer cannot bring back a _continue that stop() cleared.
Stopping ==
  /\ \A t \in Threads : tpc[t] = "onStart" => continue
  /\ opc \in {"join", "cleanup"} => ~continue
  /\ opc = "cleanup" /\ pthread # None => tpc[pthread] = "done"

WorkerInv == TypeOK /\ Numbering /\ Tracking /\ Holding /\ Stopping

\* The invariant implies every safety property a run of Worker checks.
THEOREM WorkerInvSafe ==
  WorkerInv => /\ OneRunAtATime /\ QuietWhenStopped /\ StopNotLost
          /\ RefusalIsHonest /\ LockedMethodsExcludeHooks
  BY DEF WorkerInv, TypeOK, Numbering, Tracking, Holding, Stopping, OneRunAtATime,
         QuietWhenStopped, StopNotLost, RefusalIsHonest,
         LockedMethodsExcludeHooks, Alive, InHook, None, Owner, Threads

\* A worker that was never started satisfies it.
LEMMA WorkerInvInit == Init => WorkerInv
  <1> SUFFICES ASSUME Init PROVE WorkerInv
    OBVIOUS
  <1> USE MaxStartsAssumption DEF Init, None, Owner, Threads
  <1>1. TypeOK
    <2>1. m \in Threads \cup {None, Owner} /\ made \in 0..MaxStarts
      OBVIOUS
    <2>2. pthread \in 0..MaxStarts
      OBVIOUS
    <2> QED
      BY <2>1, <2>2 DEF TypeOK
  <1>2. Numbering
    BY DEF Numbering
  <1>3. Tracking
    BY DEF Tracking, Alive
  <1>4. Holding
    BY DEF Holding, InHook
  <1>5. Stopping
    BY DEF Stopping
  <1> QED
    BY <1>1, <1>2, <1>3, <1>4, <1>5 DEF WorkerInv

\* The owner's steps preserve it.
LEMMA ControllerKeeps == WorkerInv /\ Controller => WorkerInv'
  <1> SUFFICES ASSUME WorkerInv, Controller PROVE WorkerInv'
    OBVIOUS
  <1> USE MaxStartsAssumption
      DEF WorkerInv, TypeOK, Numbering, Tracking, Holding, Stopping, Alive, InHook,
          None, Owner, Threads
  <1>1. CASE Call
    BY <1>1 DEF Call
  <1>2. CASE StartRefused
    BY <1>2 DEF StartRefused, isRunning
  <1>3. CASE StartAccepted
    <2>1. ~running
      BY <1>3 DEF StartAccepted, isRunning
    <2>2. \A t \in Threads : ~Alive(t)
      BY <2>1
    <2>3. made + 1 \in Threads /\ tpc[made + 1] = "unborn"
      BY <1>3 DEF StartAccepted
    <2>4. TypeOK'
      BY <1>3, <2>3 DEF StartAccepted
    <2>5. Numbering'
      BY <1>3, <2>3 DEF StartAccepted
    <2>6. Tracking'
      BY <1>3, <2>2, <2>3 DEF StartAccepted
    <2>7. Holding'
      BY <1>3, <2>3 DEF StartAccepted
    <2>8. Stopping'
      BY <1>3 DEF StartAccepted
    <2> QED
      BY <2>4, <2>5, <2>6, <2>7, <2>8
  <1>4. CASE StartExhausted
    BY <1>4 DEF StartExhausted, isRunning
  <1>5. CASE StopSignal
    BY <1>5 DEF StopSignal
  <1>6. CASE StopJoin
    BY <1>6 DEF StopJoin
  <1>7. CASE StopCleanup
    <2>1. TypeOK'
      <3>1. running' \in BOOLEAN
        BY <1>7 DEF StopCleanup
      <3>2. pthread' \in 0..MaxStarts
        BY <1>7 DEF StopCleanup
      <3> QED
        BY <1>7, <3>1, <3>2 DEF StopCleanup
    <2>2. Numbering' /\ Tracking'
      BY <1>7 DEF StopCleanup
    <2>3. Holding' /\ Stopping'
      BY <1>7 DEF StopCleanup
    <2> QED
      BY <2>1, <2>2, <2>3
  <1>8. CASE UseLock
    BY <1>8 DEF UseLock
  <1>9. CASE UseUnlock
    BY <1>9 DEF UseUnlock
  <1> QED
    BY <1>1, <1>2, <1>3, <1>4, <1>5, <1>6, <1>7, <1>8, <1>9 DEF Controller

\* So do the thread's: the only one that can move is _pthread's.
LEMMA ProcKeeps == ASSUME WorkerInv, NEW t \in Threads, Proc(t) PROVE WorkerInv'
  <1> USE DEF WorkerInv, TypeOK, Numbering, Tracking, Holding, Stopping, Alive,
              InHook, None, Owner, Threads, Goto, Lock, Unlock
  <1>1. CASE BootSkip(t)
    BY <1>1 DEF BootSkip
  <1>2. CASE OnStartBegin(t)
    BY <1>2 DEF OnStartBegin
  <1>3. CASE OnStartEnd(t)
    <2>1. TypeOK'
      BY <1>3 DEF OnStartEnd
    <2>2. Numbering' /\ Tracking'
      BY <1>3 DEF OnStartEnd
    <2>3. Holding'
      BY <1>3 DEF OnStartEnd
    <2>4. Stopping'
      BY <1>3 DEF OnStartEnd
    <2> QED
      BY <2>1, <2>2, <2>3, <2>4
  <1>4. CASE LoopTest(t)
    BY <1>4 DEF LoopTest
  <1>5. CASE RunOnceBegin(t)
    BY <1>5 DEF RunOnceBegin
  <1>6. CASE RunOnceEnd(t)
    <2>1. TypeOK'
      BY <1>6 DEF RunOnceEnd
    <2>2. Numbering' /\ Tracking'
      BY <1>6 DEF RunOnceEnd
    <2>3. Holding'
      <3>1. m = t /\ m' = None /\ opc' = opc
        BY <1>6 DEF RunOnceEnd
      <3>2. \A u \in Threads \ {t} : ~InHook(u) /\ tpc'[u] = tpc[u]
        BY <1>6, <3>1 DEF RunOnceEnd
      <3>3. tpc'[t] \in {"test", "final"}
        BY <1>6 DEF RunOnceEnd
      <3> QED
        BY <3>1, <3>2, <3>3
    <2>4. Stopping'
      BY <1>6 DEF RunOnceEnd
    <2> QED
      BY <2>1, <2>2, <2>3, <2>4
  <1>7. CASE OnStopBegin(t)
    BY <1>7 DEF OnStopBegin
  <1>8. CASE OnStopEnd(t)
    <2>1. TypeOK'
      BY <1>8 DEF OnStopEnd
    <2>2. Numbering' /\ Tracking'
      BY <1>8 DEF OnStopEnd
    <2>3. Holding'
      BY <1>8 DEF OnStopEnd
    <2>4. Stopping'
      BY <1>8 DEF OnStopEnd
    <2> QED
      BY <2>1, <2>2, <2>3, <2>4
  <1> QED
    BY <1>1, <1>2, <1>3, <1>4, <1>5, <1>6, <1>7, <1>8 DEF Proc

LEMMA WorkerInvNext == WorkerInv /\ [Next]_vars => WorkerInv'
  <1>1. ASSUME WorkerInv, UNCHANGED vars PROVE WorkerInv'
    BY <1>1 DEF vars, WorkerInv, TypeOK, Numbering, Tracking, Holding, Stopping,
                Alive, InHook
  <1> QED
    BY <1>1, ControllerKeeps, ProcKeeps DEF Next

\* WorkerInv holds throughout every behaviour of every worker.
THEOREM WorkerInvHolds == Spec => []WorkerInv
  BY WorkerInvInit, WorkerInvNext, PTL DEF Spec

\* The type invariant.
THEOREM WorkerTypes == Spec => []TypeOK
  BY WorkerInvHolds, PTL DEF WorkerInv

\* The hooks of a worker's runs never overlap.
THEOREM RunsDoNotOverlap == Spec => []OneRunAtATime
  BY WorkerInvHolds, WorkerInvSafe, PTL

\* After stop() nothing of the worker is left running.
THEOREM StopIsQuiet == Spec => []QuietWhenStopped
  BY WorkerInvHolds, WorkerInvSafe, PTL

\* A stop request is never overwritten by onStart's late answer.
THEOREM StopIsNotLost == Spec => []StopNotLost
  BY WorkerInvHolds, WorkerInvSafe, PTL

\* start() refuses only while the thread stop() would join is in proc().
THEOREM RefusalHonest == Spec => []RefusalIsHonest
  BY WorkerInvHolds, WorkerInvSafe, PTL

\* No hook runs while the owner is in a locked method.
THEOREM MethodsExcludeHooks == Spec => []LockedMethodsExcludeHooks
  BY WorkerInvHolds, WorkerInvSafe, PTL

-----------------------------------------------------------------------------
(* Refinement: every step of a worker is a step of its service or stutters. *)

LEMMA ControllerRefines ==
  WorkerInv /\ Controller => [Service!Next]_<<running, opc \in {"join", "cleanup"}>>
  <1> SUFFICES ASSUME WorkerInv, Controller
               PROVE  \/ Service!Next
                      \/ /\ running' = running
                         /\ (opc \in {"join", "cleanup"})'
                              = (opc \in {"join", "cleanup"})
    OBVIOUS
  <1> USE DEF Service!Next, WorkerInv, TypeOK
  <1>1. CASE StartAccepted
    <2>1. ~running
      BY <1>1 DEF StartAccepted, isRunning, Tracking
    <2>2. Service!Start
      BY <1>1, <2>1 DEF StartAccepted, Service!Start
    <2> QED
      BY <2>2
  <1>2. CASE StopSignal
    <2>1. Service!StopCall
      BY <1>2 DEF StopSignal, Service!StopCall
    <2> QED
      BY <2>1
  <1>3. CASE StopCleanup
    <2>1. ~running
      BY <1>3 DEF StopCleanup, Stopping, Tracking, Alive
    <2>2. running = FALSE
      BY <2>1
    <2>3. running' = running
      BY <1>3, <2>2 DEF StopCleanup
    <2>4. opc = "cleanup" /\ opc' = "idle"
      BY <1>3 DEF StopCleanup
    <2>5. Service!StopReturn
      BY <2>1, <2>3, <2>4 DEF Service!StopReturn
    <2> QED
      BY <2>5
  <1>4. CASE Call \/ StartRefused \/ StartExhausted \/ StopJoin \/ UseLock \/ UseUnlock
    BY <1>4 DEF Call, StartRefused, StartExhausted, StopJoin, UseLock, UseUnlock
  <1> QED
    BY <1>1, <1>2, <1>3, <1>4 DEF Controller

LEMMA ProcRefines ==
  ASSUME WorkerInv, NEW t \in Threads, Proc(t)
  PROVE  \/ Service!Next
         \/ running' = running /\ opc' = opc
  <1>1. CASE OnStopEnd(t)
    <2>1. running
      BY <1>1 DEF OnStopEnd, Goto, WorkerInv, Tracking, Alive
    <2>2. Service!End
      BY <1>1, <2>1 DEF OnStopEnd, Service!End
    <2> QED
      BY <2>2 DEF Service!Next
  <1>2. CASE ~OnStopEnd(t)
    BY <1>2 DEF Proc, BootSkip, OnStartBegin, OnStartEnd, LoopTest,
                RunOnceBegin, RunOnceEnd, OnStopBegin
  <1> QED
    BY <1>1, <1>2

\* A Worker is a WorkerService: an owner may treat its runs as a switch that is
\* on from start() to the end of onStop, and stop() as a wait for off.
THEOREM WorkerImplementsService == Spec => ServiceSpec
  <1>1. Init => Service!Init
    BY DEF Init, Service!Init
  <1>2. WorkerInv /\ [Next]_vars => [Service!Next]_(Service!svars)
    <2> SUFFICES ASSUME WorkerInv, [Next]_vars
                 PROVE  [Service!Next]_(Service!svars)
      OBVIOUS
    <2>1. CASE Controller
      BY <2>1, ControllerRefines DEF Service!svars
    <2>2. ASSUME NEW t \in Threads, Proc(t)
          PROVE  [Service!Next]_(Service!svars)
      BY <2>2, ProcRefines DEF Service!svars
    <2>3. CASE UNCHANGED vars
      BY <2>3 DEF vars, Service!svars
    <2> QED
      BY <2>1, <2>2, <2>3 DEF Next
  <1> QED
    BY <1>1, <1>2, WorkerInvHolds, PTL DEF Spec, ServiceSpec, Service!Spec
=============================================================================
