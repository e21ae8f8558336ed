----------------------------- MODULE GpuBinding -----------------------------
(***************************************************************************)
(* Which Gpu draws on which Screen.  Each side keeps a plain pointer to the    *)
(* other: Gpu::_screen (components/gpu.cpp) and Screen::_gpu                  *)
(* (components/screen.cpp).  Components come and go while a machine runs, and  *)
(* a call through a pointer to one that is gone is a fault.                   *)
(***************************************************************************)
CONSTANTS
  Gpus, Screens,   \* the components, each under its address
  NoPeer             \* the null pointer

ASSUME BindingAssumption == NoPeer \notin Gpus \cup Screens /\ Gpus \cap Screens = {}

VARIABLES
  plugged,   \* the components of the client
  screenOf,   \* Gpu::_screen
  gpuOf,      \* Screen::_gpu
  contested,  \* history: the screens two gpus had a pointer to at once
  fault       \* a call went to a component that is gone

bindingVars == <<plugged, screenOf, gpuOf, contested, fault>>

BindingInit ==
  /\ plugged = Gpus \cup Screens
  /\ screenOf = [g \in Gpus |-> NoPeer]
  /\ gpuOf = [s \in Screens |-> NoPeer]
  /\ contested = {} /\ fault = FALSE

BindingTypeOK ==
  /\ plugged \subseteq Gpus \cup Screens
  /\ screenOf \in [Gpus -> Screens \cup {NoPeer}]
  /\ gpuOf \in [Screens -> Gpus \cup {NoPeer}]
  /\ contested \subseteq Screens /\ fault \in BOOLEAN

Calls(c) == fault' = (c # NoPeer /\ c \notin plugged)

\* Mutant: the screen the gpu leaves is not told.
BindSilently(g, s) ==
  /\ ~fault /\ {g, s} \subseteq plugged /\ screenOf[g] # s
  /\ Calls(screenOf[g])
  /\ screenOf' = [screenOf EXCEPT ![g] = s]
  /\ gpuOf' = [gpuOf EXCEPT ![s] = g]
  /\ contested' = IF \E h \in Gpus \ {g} : screenOf[h] = s THEN contested \cup {s} ELSE contested
  /\ UNCHANGED plugged

\* The screen the gpu leaves, and any gpu it takes the new one from: only the first
\* is told.
Bind(g, s) ==
  /\ ~fault /\ {g, s} \subseteq plugged /\ screenOf[g] # s
  /\ Calls(screenOf[g])
  /\ screenOf' = [screenOf EXCEPT ![g] = s]
  /\ gpuOf' = [t \in Screens |-> IF t = s THEN g ELSE IF t = screenOf[g] THEN NoPeer ELSE gpuOf[t]]
  /\ contested' = IF \E h \in Gpus \ {g} : screenOf[h] = s THEN contested \cup {s} ELSE contested
  /\ UNCHANGED plugged

\* ~Gpu, which unbinds.
RemoveGpu(g) ==
  /\ ~fault /\ g \in plugged /\ plugged' = plugged \ {g}
  /\ Calls(screenOf[g])
  /\ gpuOf' = [t \in Screens |-> IF t = screenOf[g] THEN NoPeer ELSE gpuOf[t]]
  /\ screenOf' = [screenOf EXCEPT ![g] = NoPeer]
  /\ UNCHANGED contested

\* ~Screen, which unbinds the gpu it knows of, which tells the screen that it knows of.
RemoveScreen(s) ==
  /\ ~fault /\ s \in plugged /\ plugged' = plugged \ {s}
  /\ Calls(gpuOf[s])
  /\ gpuOf' = [t \in Screens |-> IF t = s \/ (gpuOf[s] # NoPeer /\ screenOf[gpuOf[s]] = t)
                                 THEN NoPeer ELSE gpuOf[t]]
  /\ screenOf' = [g \in Gpus |-> IF g = gpuOf[s] THEN NoPeer ELSE screenOf[g]]
  /\ UNCHANGED contested

\* A change of the window, or turning on, goes from the frame through the screen to
\* its gpu; a gpu's calls from Lua go to the frame of its screen.
ScreenCalls(s) == /\ ~fault /\ s \in plugged /\ Calls(gpuOf[s])
                  /\ UNCHANGED <<plugged, screenOf, gpuOf, contested>>
GpuCalls(g)    == /\ ~fault /\ g \in plugged /\ Calls(screenOf[g])
                  /\ UNCHANGED <<plugged, screenOf, gpuOf, contested>>

BindingNext ==
  \/ \E g \in Gpus : RemoveGpu(g) \/ GpuCalls(g) \/ \E s \in Screens : Bind(g, s)
  \/ \E s \in Screens : RemoveScreen(s) \/ ScreenCalls(s)

BindingSpec == BindingInit /\ [][BindingNext]_bindingVars

-----------------------------------------------------------------------------
\* A screen's gpu is there and draws on that screen.
ScreenKnowsItsGpu ==
  \A s \in plugged \cap Screens :
    gpuOf[s] # NoPeer => gpuOf[s] \in plugged /\ screenOf[gpuOf[s]] = s

\* A gpu's screen is there and knows the gpu, unless it was contested.
GpuKnowsItsScreen ==
  \A g \in plugged \cap Gpus :
    screenOf[g] \in Screens \ contested => screenOf[g] \in plugged /\ gpuOf[screenOf[g]] = g

\* Through every order of binding and removal no call goes to a component that is gone,
\* as long as no two gpus were bound to one screen.  (With two, the first keeps a
\* pointer that nobody clears when the screen goes: gpu.cpp:73.)
FaultOnlyIfContested == fault => contested # {}

\* What a screen calls is there in any case: it is the gpu's side that goes stale.
NoCallToTheDead == ScreenKnowsItsGpu /\ FaultOnlyIfContested
=============================================================================
