-------------------------- MODULE LinuxWindowProofs --------------------------
(***************************************************************************)
(* Proofs about LinuxWindow: immersive mode and the edit-focus question,   *)
(* for any nodes, clicks, focus moves and calls.                           *)
(***************************************************************************)
EXTENDS LinuxWindow, SequenceTheorems, TLAPS

----------------------------------------------------------------------------
(* The inductive invariant of immersive mode.                              *)

DesktopForm ==
  /\ view \in BOOLEAN /\ mapped \in BOOLEAN /\ active \in BOOLEAN /\ xfocus \in BOOLEAN
  /\ active => mapped /\ view

\* Only a window whose signals are connected is wanted, and no capture is made while
\* the round trip of a request is under way.
RequestForm ==
  /\ top \in BOOLEAN /\ wanted \in BOOLEAN /\ preparing \in BOOLEAN /\ registry \in BOOLEAN
  /\ manager \in BOOLEAN /\ dropped \in BOOLEAN
  /\ preparing => window = FALSE
  /\ wanted => top

\* Nothing is captured, or the active window is.
Free  == window = FALSE /\ own = FALSE /\ focus_watch = FALSE /\ held = 0
Taken ==
  /\ window = TRUE /\ own = TRUE /\ focus_watch = (backend = "x11") /\ held = 1
  /\ wanted /\ view /\ top /\ mapped /\ active
  /\ backend = "wayland" => manager

ImmersiveIInv == DesktopForm /\ RequestForm /\ (Free \/ Taken) /\ WantedIsCaptured

----------------------------------------------------------------------------
(* Immersive mode.                                                         *)

LEMMA FreeOrTaken ==
  ASSUME ImmersiveIInv
  PROVE  OneCapture /\ ImmersiveTypeOK
<1>1. CASE Free
  <2>1. OneCapture
    BY <1>1 DEF Free, OneCapture
  <2>2. window \in BOOLEAN /\ own \in BOOLEAN /\ focus_watch \in BOOLEAN /\ held \in 0 .. 1
    <3>1. held \in 0 .. 1
      BY <1>1 DEF Free
    <3> QED BY <1>1, <3>1, Zenon DEF Free
  <2> QED BY <2>1, <2>2 DEF ImmersiveIInv, DesktopForm, RequestForm, ImmersiveTypeOK
<1>2. CASE Taken
  <2>1. OneCapture
    BY <1>2 DEF Taken, OneCapture
  <2>2. window \in BOOLEAN /\ own \in BOOLEAN /\ focus_watch \in BOOLEAN /\ held \in 0 .. 1
    BY <1>2 DEF Taken
  <2> QED BY <2>1, <2>2 DEF ImmersiveIInv, DesktopForm, RequestForm, ImmersiveTypeOK
<1> QED BY <1>1, <1>2, Zenon DEF ImmersiveIInv

LEMMA ReleaseFrees ==
  ASSUME Free \/ Taken, release
  PROVE  Free'
<1>1. held' = 0
  BY DEF release, Free, Taken
<1> QED BY <1>1, Zenon DEF release, Free

LEMMA CaptureTakes ==
  ASSUME Free, Capture
  PROVE  window' = TRUE /\ own' = TRUE /\ focus_watch' = (backend = "x11") /\ held' = 1 /\ wanted' = TRUE
<1>1. held' = 1
  BY DEF Capture, Free
<1> QED BY <1>1, Zenon DEF Capture

\* What is left as it is.
LEMMA SameOwn ==
  ASSUME UNCHANGED ownVars
  PROVE  /\ Free => Free'
         /\ window' = window /\ own' = own /\ focus_watch' = focus_watch /\ held' = held
  BY Zenon DEF ownVars, Free

LEMMA SameTaken ==
  ASSUME UNCHANGED ownVars, UNCHANGED <<backend, manager>>, Taken,
         wanted', view', top', mapped', active'
  PROVE  Taken'
  BY SameOwn, Zenon DEF Taken

LEMMA InhibitKeeps ==
  ASSUME NEW w \in BOOLEAN, NEW a \in BOOLEAN, Free, Inhibit(w, a), UNCHANGED <<backend, view, mapped, manager>>,
         active' = a, a => view /\ mapped
  PROVE  /\ Free' \/ Taken'
         /\ wanted' \in BOOLEAN /\ (wanted' /\ active' => window') /\ (wanted' => top')
<1>1. CASE GiveUp
  <2>1. UNCHANGED ownVars /\ wanted' = FALSE
    BY <1>1, Zenon DEF GiveUp
  <2> QED BY <2>1, SameOwn, Zenon
<1>2. CASE w /\ manager /\ top' /\ view /\ mapped /\ a /\ Capture
  <2>1. window' = TRUE /\ own' = TRUE /\ focus_watch' = (backend = "x11") /\ held' = 1 /\ wanted' = TRUE
    BY <1>2, CaptureTakes, Zenon
  <2> QED BY <1>2, <2>1, Zenon DEF Taken
<1>3. CASE ~a /\ wanted' = w /\ UNCHANGED ownVars /\ top'
  BY <1>3, SameOwn, Zenon
<1> QED BY <1>1, <1>2, <1>3, Zenon DEF Inhibit

\* set_enabled(true), when a tells whether the window is active.
LEMMA EnableKeeps ==
  ASSUME DesktopForm, RequestForm, Free \/ Taken, WantedIsCaptured, NEW a \in BOOLEAN, Taken => a, a => view /\ mapped,
         active' = a, enable(a), preparing => wanted, UNCHANGED <<backend, view, mapped, manager>>
  PROVE  RequestForm' /\ (Free' \/ Taken') /\ WantedIsCaptured'
<1>0. active' <=> a
  OBVIOUS
<1>1. dropped' = FALSE /\ manager' = manager /\ backend' = backend /\ view' = view /\ mapped' = mapped
  BY Zenon DEF enable
<1>2. CASE preparing
  <2>1. wanted' = TRUE /\ UNCHANGED <<top, preparing, registry>> /\ UNCHANGED ownVars
    BY <1>2, Zenon DEF enable, IsPreparing
  <2>2. Free
    BY <1>2, Zenon DEF RequestForm, Taken
  <2>3. Free' /\ window' = window
    BY <2>1, <2>2, SameOwn, Zenon
  <2> QED BY <1>1, <1>2, <2>1, <2>3, Zenon DEF RequestForm, WantedIsCaptured
<1>3. CASE ~preparing /\ ~view /\ GiveUp /\ UNCHANGED <<top, preparing, registry>>
  <2>1. Free
    BY <1>3, Zenon DEF Taken
  <2>2. wanted' = FALSE /\ UNCHANGED ownVars
    BY <1>3, Zenon DEF GiveUp
  <2> QED BY <1>1, <1>3, <2>1, <2>2, SameOwn, Zenon DEF RequestForm, WantedIsCaptured
<1>4. CASE ~preparing /\ top' \in {top, TRUE} /\ wanted' = FALSE /\ release /\ UNCHANGED <<preparing, registry>>
  <2>1. Free'
    BY <1>4, ReleaseFrees, Zenon
  <2>2. top' \in BOOLEAN
    BY <1>4, Zenon DEF RequestForm
  <2> QED BY <1>1, <1>4, <2>1, <2>2, Zenon DEF RequestForm, WantedIsCaptured
<1>5. CASE ~preparing /\ ~a /\ top' = TRUE /\ wanted' = TRUE /\ release /\ UNCHANGED <<preparing, registry>>
  <2>1. Free'
    BY <1>5, ReleaseFrees, Zenon
  <2> QED BY <1>1, <1>5, <2>1, Zenon DEF RequestForm, WantedIsCaptured
<1>6. CASE ~preparing /\ a /\ view /\ mapped /\ top' = TRUE /\ window /\ wanted' = TRUE /\ UNCHANGED ownVars /\ UNCHANGED <<preparing, registry>>
  <2>1. Taken
    BY <1>6, Zenon DEF Free
  <2>2. Taken' /\ window'
    <3>1. wanted' /\ view' /\ top' /\ mapped' /\ active'
      <4>1. wanted' /\ top'
        BY <1>6
      <4>2. view' /\ mapped'
        BY <1>1, <1>6
      <4>3. active'
        BY <1>0, <1>6
      <4> QED BY <4>1, <4>2, <4>3
    <3>2. UNCHANGED ownVars /\ UNCHANGED <<backend, manager>>
      BY <1>1, <1>6, Zenon
    <3> QED BY <2>1, <3>1, <3>2, SameTaken, Zenon DEF Taken
  <2> QED BY <1>1, <1>6, <2>2, Zenon DEF RequestForm, WantedIsCaptured
<1>7. CASE ~preparing /\ a /\ view /\ mapped /\ top' = TRUE /\ ~window
  <2>1. Free
    BY <1>7, Zenon DEF Taken
  <2>2. CASE backend = "x11" /\ Capture /\ UNCHANGED <<preparing, registry>>
    <3>1. window' = TRUE /\ own' = TRUE /\ focus_watch' = (backend = "x11") /\ held' = 1 /\ wanted' = TRUE
      BY <2>1, <2>2, CaptureTakes, Zenon
    <3>2. backend # "wayland"
      BY <2>2
    <3>3. Taken'
      <4>1. wanted' /\ top'
        BY <1>7, <3>1
      <4>2. view' /\ mapped'
        BY <1>1, <1>7
      <4>3. active'
        BY <1>0, <1>7
      <4> QED BY <1>1, <3>1, <3>2, <4>1, <4>2, <4>3, Zenon DEF Taken
    <3>4. RequestForm'
      BY <1>1, <1>7, <2>2, <3>1, Zenon DEF RequestForm
    <3> QED BY <3>1, <3>3, <3>4, Zenon DEF WantedIsCaptured
  <2>3. CASE GiveUp /\ UNCHANGED <<preparing, registry>>
    <3>1. wanted' = FALSE /\ UNCHANGED ownVars
      BY <2>3, Zenon DEF GiveUp
    <3> QED BY <1>1, <1>7, <2>1, <2>3, <3>1, SameOwn, Zenon DEF RequestForm, WantedIsCaptured
  <2>4. CASE Inhibit(TRUE, a) /\ UNCHANGED <<preparing, registry>>
    <3>1. (Free' \/ Taken') /\ wanted' \in BOOLEAN /\ (wanted' /\ active' => window') /\ (wanted' => top')
      BY <1>1, <2>1, <2>4, InhibitKeeps, Zenon
    <3> QED BY <1>1, <1>7, <2>4, <3>1, Zenon DEF RequestForm, WantedIsCaptured
  <2>5. CASE registry' = TRUE /\ preparing' = TRUE /\ wanted' = TRUE /\ UNCHANGED ownVars
    <3>1. Free' /\ window' = FALSE
      BY <2>1, <2>5, SameOwn, Zenon DEF Free
    <3> QED BY <1>1, <1>7, <2>5, <3>1, Zenon DEF RequestForm, WantedIsCaptured
  <2> QED BY <1>7, <2>2, <2>3, <2>4, <2>5, Zenon DEF enable, IsPreparing
<1> QED BY <1>2, <1>3, <1>4, <1>5, <1>6, <1>7, Zenon DEF enable, IsPreparing

LEMMA SetEnabledKeeps ==
  ASSUME ImmersiveIInv, NEW e \in BOOLEAN, set_enabled(e)
  PROVE  ImmersiveIInv'
<1>1. /\ DesktopForm /\ RequestForm /\ (Free \/ Taken) /\ WantedIsCaptured
      /\ UNCHANGED <<backend, view, mapped, active, xfocus>> /\ manager' = manager
  BY Zenon DEF ImmersiveIInv, set_enabled, desktopVars
<1>2. DesktopForm'
  BY <1>1, Zenon DEF DesktopForm
<1>3. CASE e
  <2>1. enable(active) /\ active' = active /\ active \in BOOLEAN /\ (active => view /\ mapped)
        /\ UNCHANGED <<backend, view, mapped, manager>>
    BY <1>1, <1>3, Zenon DEF set_enabled, DesktopForm
  <2>2. (Taken => active) /\ (preparing => wanted)
    BY Zenon DEF Taken, set_enabled
  <2>3. RequestForm' /\ (Free' \/ Taken') /\ WantedIsCaptured'
    BY <1>1, <2>1, <2>2, EnableKeeps, Zenon
  <2> QED BY <1>2, <2>3, Zenon DEF ImmersiveIInv
<1>4. CASE ~e
  <2>1. wanted' = FALSE /\ release /\ dropped' = FALSE /\ UNCHANGED <<top, preparing, registry>>
    BY <1>4, Zenon DEF set_enabled, disable
  <2>2. Free' /\ window' = FALSE
    BY <1>1, <2>1, ReleaseFrees, Zenon DEF Free
  <2>3. RequestForm' /\ WantedIsCaptured'
    BY <1>1, <2>1, <2>2, Zenon DEF RequestForm, WantedIsCaptured
  <2> QED BY <1>2, <2>2, <2>3, Zenon DEF ImmersiveIInv
<1> QED BY <1>3, <1>4, Zenon

LEMMA RoundtripKeeps ==
  ASSUME ImmersiveIInv, RoundtripReturns
  PROVE  ImmersiveIInv'
<1>1. /\ DesktopForm /\ RequestForm /\ (Free \/ Taken) /\ preparing /\ preparing' = FALSE
      /\ UNCHANGED <<backend, view, mapped, active, xfocus, top, registry, manager, dropped>>
      /\ GiveUp \/ Inhibit(wanted, active)
  BY Zenon DEF ImmersiveIInv, RoundtripReturns, desktopVars
<1>2. Free
  BY <1>1, Zenon DEF RequestForm, Taken
<1>3. DesktopForm'
  BY <1>1, Zenon DEF DesktopForm
<1>4. Inhibit(wanted, active)
  BY <1>1, Zenon DEF Inhibit
<1>5. wanted \in BOOLEAN /\ active \in BOOLEAN /\ active' = active /\ (active => view /\ mapped)
      /\ UNCHANGED <<backend, view, mapped, manager>>
  BY <1>1, Zenon DEF DesktopForm, RequestForm
<1>6. (Free' \/ Taken') /\ wanted' \in BOOLEAN /\ (wanted' /\ active' => window') /\ (wanted' => top')
  BY <1>2, <1>4, <1>5, InhibitKeeps, Zenon
<1>7. RequestForm' /\ WantedIsCaptured'
  BY <1>1, <1>6, Zenon DEF RequestForm, WantedIsCaptured
<1> QED BY <1>3, <1>6, <1>7, Zenon DEF ImmersiveIInv

LEMMA ActiveKeeps ==
  ASSUME ImmersiveIInv, ActiveChanges
  PROVE  ImmersiveIInv'
<1>1. /\ DesktopForm /\ RequestForm /\ (Free \/ Taken) /\ WantedIsCaptured
      /\ view /\ mapped /\ active' = ~active /\ xfocus' = ~active
      /\ UNCHANGED <<backend, view, mapped, manager>>
  BY Zenon DEF ImmersiveIInv, ActiveChanges
<1>2. active \in BOOLEAN /\ active' \in BOOLEAN /\ xfocus' \in BOOLEAN /\ (active' <=> ~active)
  BY <1>1 DEF DesktopForm
<1>3. DesktopForm'
  BY <1>1, <1>2, Zenon DEF DesktopForm
<1>4. CASE UNCHANGED <<top, wanted, preparing, ownVars, registry, dropped>> /\ (~top \/ (~active /\ ~wanted))
  <2>1. Free
    BY <1>1, <1>4, Zenon DEF Taken
  <2>2. UNCHANGED ownVars /\ UNCHANGED <<top, wanted, preparing, registry, dropped>>
    BY <1>4, Zenon
  <2>3. Free' /\ window' = window
    BY <2>1, <2>2, SameOwn, Zenon
  <2>4. RequestForm'
    BY <1>1, <2>2, <2>3, Zenon DEF RequestForm
  <2>5. WantedIsCaptured'
    <3>1. ~wanted
      BY <1>1, <1>4, Zenon DEF RequestForm
    <3>2. ~wanted'
      BY <2>2, <3>1, Zenon
    <3> QED BY <3>2, Zenon DEF WantedIsCaptured
  <2> QED BY <1>3, <2>3, <2>4, <2>5, Zenon DEF ImmersiveIInv
<1>5. CASE active /\ release /\ UNCHANGED <<top, wanted, preparing, registry, dropped>>
  <2>1. Free' /\ window' = FALSE
    BY <1>1, <1>5, ReleaseFrees, Zenon DEF Free
  <2>2. RequestForm' /\ WantedIsCaptured'
    BY <1>1, <1>2, <1>5, <2>1, Zenon DEF RequestForm, WantedIsCaptured
  <2> QED BY <1>3, <2>1, <2>2, Zenon DEF ImmersiveIInv
<1>6. CASE ~active /\ enable(TRUE) /\ wanted
  <2>1. active' = TRUE
    BY <1>2, <1>6
  <2>2. (TRUE => view /\ mapped) /\ (Taken => TRUE) /\ TRUE \in BOOLEAN
    BY <1>1, Zenon
  <2>4. preparing => wanted
    BY <1>6
  <2>3. RequestForm' /\ (Free' \/ Taken') /\ WantedIsCaptured'
    BY <1>1, <1>6, <2>1, <2>2, <2>4, EnableKeeps, Zenon
  <2> QED BY <1>3, <2>3, Zenon DEF ImmersiveIInv
<1> QED BY <1>4, <1>5, <1>6, Zenon DEF ActiveChanges, OnActive

LEMMA XFocusKeeps ==
  ASSUME ImmersiveIInv, XFocusChanges
  PROVE  ImmersiveIInv'
<1>1. /\ DesktopForm /\ RequestForm /\ (Free \/ Taken) /\ WantedIsCaptured /\ xfocus' = ~xfocus
      /\ UNCHANGED <<backend, view, mapped, active, top, wanted, preparing, registry, manager, dropped>>
      /\ UNCHANGED ownVars
  BY Zenon DEF ImmersiveIInv, XFocusChanges
<1>2. DesktopForm'
  <2>1. xfocus' \in BOOLEAN
    BY <1>1
  <2> QED BY <1>1, <2>1, Zenon DEF DesktopForm
<1>3. RequestForm' /\ WantedIsCaptured'
  BY <1>1, SameOwn, Zenon DEF RequestForm, WantedIsCaptured
<1>4. Free' \/ Taken'
  BY <1>1, SameOwn, Zenon DEF Taken
<1> QED BY <1>2, <1>3, <1>4, Zenon DEF ImmersiveIInv

LEMMA WatchKeeps ==
  ASSUME ImmersiveIInv, check_focus
  PROVE  ImmersiveIInv'
<1>1. /\ DesktopForm /\ RequestForm /\ (Free \/ Taken) /\ release /\ dropped' = TRUE
      /\ UNCHANGED <<backend, view, mapped, active, xfocus, top, wanted, preparing, registry, manager>>
  BY Zenon DEF ImmersiveIInv, check_focus, desktopVars
<1>2. Free' /\ window' = FALSE
  BY <1>1, ReleaseFrees, Zenon DEF Free
<1>3. DesktopForm' /\ RequestForm' /\ WantedIsCaptured'
  BY <1>1, <1>2, Zenon DEF DesktopForm, RequestForm, WantedIsCaptured
<1> QED BY <1>2, <1>3, Zenon DEF ImmersiveIInv

LEMMA GoesKeeps ==
  ASSUME ImmersiveIInv, NEW d \in BOOLEAN, WindowGoes(d)
  PROVE  ImmersiveIInv'
<1>1. /\ DesktopForm /\ RequestForm /\ (Free \/ Taken)
      /\ mapped' = FALSE /\ active' = FALSE /\ xfocus' = FALSE /\ view' = ~d /\ top' = (top /\ ~d)
      /\ UNCHANGED <<backend, preparing, registry, manager>>
  BY Zenon DEF ImmersiveIInv, WindowGoes
<1>2. view' \in BOOLEAN /\ top' \in BOOLEAN
  BY <1>1
<1>3. DesktopForm' /\ WantedIsCaptured'
  BY <1>1, <1>2, Zenon DEF DesktopForm, WantedIsCaptured
<1>4. CASE top /\ wanted' = FALSE /\ release /\ dropped' = FALSE
  <2>1. Free' /\ window' = FALSE
    BY <1>1, <1>4, ReleaseFrees, Zenon DEF Free
  <2>2. RequestForm'
    BY <1>1, <1>2, <1>4, <2>1, Zenon DEF RequestForm
  <2> QED BY <1>3, <2>1, <2>2, Zenon DEF ImmersiveIInv
<1>5. CASE ~top /\ UNCHANGED <<wanted, ownVars, dropped>>
  <2>1. Free /\ UNCHANGED ownVars /\ wanted' = wanted /\ dropped' = dropped
    BY <1>1, <1>5, Zenon DEF Taken
  <2>2. Free' /\ window' = window
    BY <2>1, SameOwn, Zenon
  <2>3. RequestForm'
    <3>1. ~wanted
      BY <1>1, <1>5, Zenon DEF RequestForm
    <3>2. ~wanted'
      BY <2>1, <3>1, Zenon
    <3> QED BY <1>1, <1>2, <2>1, <2>2, <3>2, Zenon DEF RequestForm
  <2> QED BY <1>3, <2>2, <2>3, Zenon DEF ImmersiveIInv
<1> QED BY <1>4, <1>5, Zenon DEF WindowGoes

LEMMA ComesKeeps ==
  ASSUME ImmersiveIInv, WindowComes \/ global
  PROVE  ImmersiveIInv'
<1>1. /\ DesktopForm /\ RequestForm /\ (Free \/ Taken) /\ WantedIsCaptured
      /\ UNCHANGED <<backend, view, active, xfocus, top, wanted, preparing, registry, dropped>>
      /\ UNCHANGED ownVars
      /\ mapped' = mapped \/ mapped' = TRUE
      /\ manager' = manager \/ manager' = TRUE
  BY Zenon DEF ImmersiveIInv, WindowComes, global, desktopVars
<1>2. mapped' \in BOOLEAN /\ manager' \in BOOLEAN /\ (mapped => mapped') /\ (manager => manager')
  BY <1>1 DEF DesktopForm, RequestForm
<1>3. DesktopForm' /\ RequestForm' /\ WantedIsCaptured'
  BY <1>1, <1>2, SameOwn, Zenon DEF DesktopForm, RequestForm, WantedIsCaptured
<1>4. Free' \/ Taken'
  BY <1>1, <1>2, SameOwn, Zenon DEF Taken
<1> QED BY <1>3, <1>4, Zenon DEF ImmersiveIInv

LEMMA RemovedKeeps ==
  ASSUME ImmersiveIInv, removed
  PROVE  ImmersiveIInv'
<1>1. /\ DesktopForm /\ RequestForm /\ (Free \/ Taken) /\ WantedIsCaptured
      /\ release /\ dropped' = (dropped \/ window) /\ manager' = FALSE
      /\ UNCHANGED <<backend, view, mapped, active, xfocus, top, wanted, preparing, registry>>
  BY Zenon DEF ImmersiveIInv, removed, desktopVars
<1>2. Free' /\ window' = FALSE
  BY <1>1, ReleaseFrees, Zenon DEF Free
<1>3. dropped' \in BOOLEAN /\ (dropped' <=> dropped \/ window)
  BY <1>1 DEF RequestForm
<1>4. DesktopForm' /\ RequestForm'
  BY <1>1, <1>2, <1>3, Zenon DEF DesktopForm, RequestForm
<1>5. WantedIsCaptured'
  BY <1>1, <1>3, Zenon DEF WantedIsCaptured
<1> QED BY <1>2, <1>4, <1>5, Zenon DEF ImmersiveIInv

LEMMA DestroyKeeps ==
  ASSUME ImmersiveIInv, DestroyImpl
  PROVE  ImmersiveIInv' /\ Free'
<1>1. /\ DesktopForm /\ RequestForm /\ (Free \/ Taken)
      /\ release /\ top' = FALSE /\ registry' = FALSE /\ manager' = FALSE /\ wanted' = FALSE
      /\ UNCHANGED <<backend, view, mapped, active, xfocus, preparing, dropped>>
  BY Zenon DEF ImmersiveIInv, DestroyImpl, desktopVars
<1>2. Free' /\ window' = FALSE
  BY <1>1, ReleaseFrees, Zenon DEF Free
<1>3. DesktopForm' /\ RequestForm' /\ WantedIsCaptured'
  BY <1>1, <1>2, Zenon DEF DesktopForm, RequestForm, WantedIsCaptured
<1> QED BY <1>2, <1>3, Zenon DEF ImmersiveIInv

LEMMA SameImmersive ==
  ASSUME ImmersiveIInv, UNCHANGED immersiveVars
  PROVE  ImmersiveIInv'
<1>1. /\ UNCHANGED <<backend, view, mapped, active, xfocus, top, wanted, preparing, registry, manager, dropped>>
      /\ UNCHANGED ownVars
  BY Zenon DEF immersiveVars, desktopVars
<1>2. window' = window /\ own' = own /\ focus_watch' = focus_watch /\ held' = held
  BY <1>1, SameOwn, Zenon
<1> QED BY <1>1, <1>2, Zenon DEF ImmersiveIInv, DesktopForm, RequestForm, WantedIsCaptured, Free, Taken

LEMMA ImmersiveEventsKeep ==
  ASSUME ImmersiveIInv, ImmersiveEvents
  PROVE  ImmersiveIInv'
  BY RoundtripKeeps, ActiveKeeps, XFocusKeeps, WatchKeeps, GoesKeeps, ComesKeeps, RemovedKeeps, Zenon
  DEF ImmersiveEvents

LEMMA ImmersiveStarts == ImmersiveInit => ImmersiveIInv
<1>1. SUFFICES ASSUME ImmersiveInit PROVE ImmersiveIInv
  OBVIOUS
<1>2. /\ view = TRUE /\ mapped \in BOOLEAN /\ active \in {FALSE, mapped} /\ xfocus = active
      /\ top = FALSE /\ wanted = FALSE /\ preparing = FALSE /\ registry = FALSE /\ manager = FALSE
      /\ dropped = FALSE /\ Free
  BY <1>1, Zenon DEF ImmersiveInit, Free
<1>3. DesktopForm
  <2>1. active \in BOOLEAN /\ (active => mapped)
    <3>1. CASE active = FALSE
      BY <3>1, Zenon
    <3>2. CASE active = mapped
      BY <1>2, <3>2, Zenon
    <3> QED BY <1>2, <3>1, <3>2, Zenon
  <2> QED BY <1>2, <2>1, Zenon DEF DesktopForm
<1>4. RequestForm /\ WantedIsCaptured
  BY <1>2, Zenon DEF RequestForm, WantedIsCaptured, Free
<1> QED BY <1>2, <1>3, <1>4, Zenon DEF ImmersiveIInv

----------------------------------------------------------------------------
(* The inductive invariant of the edit-focus question.                     *)

Places      == Nodes \cup {NoNode}
FocusEvents == [node : Nodes, gained : BOOLEAN]
AnswerRecs  == [id : Nat, active : BOOLEAN, secure : BOOLEAN, truth : BOOLEAN, hidden : BOOLEAN,
                certain : BOOLEAN, waited : BOOLEAN, late : BOOLEAN]

\* What the cache holds, f before, after the event e.
Noting(f, e) == IF e.gained THEN e.node ELSE IF f = e.node THEN NoNode ELSE f

\* The cache, f now, will hold the node n once the events q were heard.
WillBe(f, q, n) ==
  \/ f = n /\ \A j \in 1 .. Len(q) : ~q[j].gained /\ q[j].node # n
  \/ \E j \in 1 .. Len(q) : /\ q[j].gained /\ q[j].node = n
                            /\ \A l \in j + 1 .. Len(q) : ~q[l].gained /\ q[l].node # n

\* Then it holds the focus r, or nothing, or, where nothing has the focus, a node that went away.
CacheOK(f, q, r, d) == \A n \in Nodes : WillBe(f, q, n) => n = r \/ (r = NoNode /\ n \in d)

EditForm ==
  /\ listener \in BOOLEAN /\ focused \in Places /\ realFocus \in Places
  /\ clicked \in Seq(Places) /\ events \in Seq(FocusEvents) /\ answers \in Seq(AnswerRecs)
  /\ request \in Nat /\ cancelled \in Nat /\ handled \in Nat
  /\ request <= Len(clicked) /\ cancelled <= Len(clicked) /\ handled <= Len(clicked)

\* The timer that runs belongs to the last request, which was made after the last stop.
TimerForm ==
  /\ timers \subseteq {request}
  /\ timers # {} => cancelled < request
  /\ callback = (timers # {})
  /\ ~listener => focused = NoNode /\ events = <<>> /\ timers = {}

\* An answer, as AnswersSound wants it, of a click that was made.
Right(a, c) ==
  /\ a.waited /\ ~a.late
  /\ a.active => a.truth
  /\ a.truth /\ a.certain => a.active \/ a.hidden
  /\ a.secure => a.active /\ c[a.id] \in Secure
  /\ a.id \in 1 .. Len(c)

AnswersOK(ans, c) ==
  /\ \A i \in 1 .. Len(ans) : Right(ans[i], c)
  /\ \A i, j \in 1 .. Len(ans) : i < j => ans[i].id < ans[j].id

Answered(ans, r, open) == \A i \in 1 .. Len(ans) : ans[i].id <= r /\ (open => ans[i].id < r)

EditIInv ==
  /\ EditForm /\ TimerForm /\ CacheOK(focused, events, realFocus, defunct)
  /\ AnswersOK(answers, clicked) /\ Answered(answers, request, callback)

----------------------------------------------------------------------------
(* The events on their way and the cache.                                  *)

LEMMA MoreEvents ==
  ASSUME NEW q \in Seq(FocusEvents), NEW e \in FocusEvents
  PROVE  /\ Append(q, e) \in Seq(FocusEvents) /\ Len(Append(q, e)) = Len(q) + 1 /\ Append(q, e)[Len(q) + 1] = e
         /\ \A n \in 1 .. Len(q) : Append(q, e)[n] = q[n]
         /\ Len(q) \in Nat
  BY AppendProperties

LEMMA WillBeMore ==
  ASSUME NEW q \in Seq(FocusEvents), NEW e \in FocusEvents, NEW f, NEW n, WillBe(f, Append(q, e), n)
  PROVE  /\ e.gained => n = e.node
         /\ ~e.gained => n # e.node /\ WillBe(f, q, n)
<1>1. PICK p, L : p = Append(q, e) /\ L = Len(q)
  BY Zenon
<1>2. L \in Nat /\ Len(p) = L + 1 /\ p[L + 1] = e /\ \A i \in 1 .. L : p[i] = q[i]
  BY <1>1, MoreEvents, Zenon
<1>3. L + 1 \in 1 .. L + 1 /\ \A i \in 1 .. L : i \in 1 .. L + 1
  BY <1>2
<1>4. CASE f = n /\ \A j \in 1 .. L + 1 : ~p[j].gained /\ p[j].node # n
  <2>1. ~e.gained /\ e.node # n
    BY <1>2, <1>3, <1>4, Zenon
  <2>2. \A j \in 1 .. L : ~q[j].gained /\ q[j].node # n
    BY <1>2, <1>3, <1>4, Zenon
  <2> QED BY <1>1, <1>4, <2>1, <2>2, Zenon DEF WillBe
<1>5. ASSUME NEW j \in 1 .. L + 1, p[j].gained, p[j].node = n,
             \A l \in j + 1 .. L + 1 : ~p[l].gained /\ p[l].node # n
      PROVE  /\ e.gained => n = e.node
             /\ ~e.gained => n # e.node /\ WillBe(f, q, n)
  <2>1. CASE j = L + 1
    BY <1>2, <1>5, <2>1, Zenon
  <2>2. CASE j # L + 1
    <3>1. j \in 1 .. L /\ L + 1 \in j + 1 .. L + 1 /\ \A l \in j + 1 .. L : l \in j + 1 .. L + 1 /\ l \in 1 .. L
      BY <1>2, <1>5, <2>2
    <3>2. ~e.gained /\ e.node # n
      BY <1>2, <1>5, <3>1, Zenon
    <3>3. q[j].gained /\ q[j].node = n /\ \A l \in j + 1 .. L : ~q[l].gained /\ q[l].node # n
      BY <1>2, <1>5, <3>1, Zenon
    <3> QED BY <1>1, <3>1, <3>2, <3>3, Zenon DEF WillBe
  <2> QED BY <2>1, <2>2
<1>6. Len(Append(q, e)) = L + 1
  BY <1>1, <1>2, Zenon
<1> QED BY <1>1, <1>4, <1>5, <1>6, Zenon DEF WillBe

LEMMA LessEvents ==
  ASSUME NEW q \in Seq(FocusEvents), q # <<>>
  PROVE  /\ Tail(q) \in Seq(FocusEvents) /\ Len(Tail(q)) \in Nat /\ Len(q) = Len(Tail(q)) + 1
         /\ \A n \in 1 .. Len(Tail(q)) : n + 1 \in 1 .. Len(q) /\ Tail(q)[n] = q[n + 1]
         /\ 1 \in 1 .. Len(q) /\ q[1] \in FocusEvents /\ Head(q) = q[1]
<1>1. Len(q) \in Nat /\ Len(q) # 0
  BY EmptySeq
<1>2. Tail(q) \in Seq(FocusEvents) /\ Len(Tail(q)) = Len(q) - 1 /\ \A i \in 1 .. Len(Tail(q)) : Tail(q)[i] = q[i + 1]
  BY HeadTailProperties
<1>3. PICK L \in Nat, M \in Nat : L = Len(q) /\ M = Len(Tail(q)) /\ M = L - 1 /\ L # 0
  <2>1. Len(q) - 1 \in Nat
    BY <1>1
  <2> QED BY <1>1, <1>2, <2>1, Zenon
<1>4. M + 1 = L /\ 1 \in 1 .. L /\ \A n \in 1 .. M : n + 1 \in 1 .. L
  BY <1>3
<1>5. q[1] \in FocusEvents
  BY <1>3, <1>4
<1> QED BY <1>2, <1>3, <1>4, <1>5

LEMMA WillBeLess ==
  ASSUME NEW q \in Seq(FocusEvents), q # <<>>, NEW f, NEW n, n # NoNode, WillBe(Noting(f, q[1]), Tail(q), n)
  PROVE  WillBe(f, q, n)
<1>1. PICK p, M : p = Tail(q) /\ M = Len(Tail(q))
  BY Zenon
<1>2. /\ M \in Nat /\ Len(q) = M + 1 /\ Len(p) = M /\ 1 \in 1 .. M + 1 /\ q[1] \in FocusEvents
      /\ \A i \in 1 .. M : i + 1 \in 1 .. M + 1 /\ p[i] = q[i + 1]
  BY <1>1, LessEvents, Zenon
<1>3. \A l \in 1 + 1 .. M + 1 : l - 1 \in 1 .. M /\ (l - 1) + 1 = l
  BY <1>2
<1>4. \A l \in 1 + 1 .. M + 1 : p[l - 1] = q[l]
  BY <1>2, <1>3, Zenon
<1>5. CASE Noting(f, q[1]) = n /\ \A j \in 1 .. M : ~p[j].gained /\ p[j].node # n
  <2>1. \A l \in 1 + 1 .. M + 1 : ~q[l].gained /\ q[l].node # n
    BY <1>3, <1>4, <1>5, Zenon
  <2>2. CASE q[1].gained
    <3>1. q[1].node = n
      BY <1>5, <2>2, Zenon DEF Noting
    <3> QED BY <1>2, <2>1, <2>2, <3>1, Zenon DEF WillBe
  <2>3. CASE ~q[1].gained
    <3>1. f = n /\ q[1].node # n
      BY <1>5, <2>3, Zenon DEF Noting
    <3>2. \A l \in 1 .. M + 1 : l = 1 \/ l \in 1 + 1 .. M + 1
      BY <1>2
    <3>3. \A l \in 1 .. M + 1 : ~q[l].gained /\ q[l].node # n
      BY <2>1, <2>3, <3>1, <3>2, Zenon
    <3> QED BY <1>2, <3>1, <3>3, Zenon DEF WillBe
  <2> QED BY <2>2, <2>3
<1>6. ASSUME NEW j \in 1 .. M, p[j].gained, p[j].node = n, \A l \in j + 1 .. M : ~p[l].gained /\ p[l].node # n
      PROVE  WillBe(f, q, n)
  <2>1. \A l \in (j + 1) + 1 .. M + 1 : l \in 1 + 1 .. M + 1 /\ l - 1 \in j + 1 .. M
    BY <1>2
  <2>2. \A l \in (j + 1) + 1 .. M + 1 : ~q[l].gained /\ q[l].node # n
    BY <1>4, <1>6, <2>1, Zenon
  <2>3. j + 1 \in 1 .. M + 1 /\ q[j + 1].gained /\ q[j + 1].node = n
    BY <1>2, <1>6, Zenon
  <2> QED BY <1>2, <2>2, <2>3, Zenon DEF WillBe
<1>7. Len(Tail(q)) = M
  BY <1>1, Zenon
<1> QED BY <1>1, <1>5, <1>6, <1>7, Zenon DEF WillBe

LEMMA WillBeNone ==
  ASSUME NEW n, WillBe(NoNode, <<>>, n)
  PROVE  n = NoNode
<1>1. \A j \in 1 .. Len(<<>>) : FALSE
  OBVIOUS
<1> QED BY <1>1, Zenon DEF WillBe

\* The empty cache of a listener that is not there.
LEMMA EmptyCache ==
  ASSUME NEW r, NEW d
  PROVE  CacheOK(NoNode, <<>>, r, d)
  BY WillBeNone, EditFocusAssumption, Zenon DEF CacheOK

\* The focus comes to n, and an event tells.
LEMMA GainKeeps ==
  ASSUME NEW q \in Seq(FocusEvents), NEW n \in Nodes, NEW f, NEW d
  PROVE  Append(q, Gained(n)) \in Seq(FocusEvents) /\ CacheOK(f, Append(q, Gained(n)), n, d)
<1>1. Gained(n) \in FocusEvents /\ Gained(n).gained /\ Gained(n).node = n
  BY DEF Gained, FocusEvents
<1>2. Append(q, Gained(n)) \in Seq(FocusEvents)
  BY <1>1, MoreEvents, Zenon
<1> QED BY <1>1, <1>2, WillBeMore, Zenon DEF CacheOK

\* The focus leaves r.
LEMMA LoseKeeps ==
  ASSUME NEW q \in Seq(FocusEvents), NEW r \in Nodes, NEW f, NEW s, NEW d,
         \A n \in Nodes : WillBe(f, q, n) => n \in {r, s}
  PROVE  Append(q, Lost(r)) \in Seq(FocusEvents) /\ CacheOK(f, Append(q, Lost(r)), s, d)
<1>1. Lost(r) \in FocusEvents /\ ~Lost(r).gained /\ Lost(r).node = r
  BY DEF Lost, FocusEvents
<1>2. Append(q, Lost(r)) \in Seq(FocusEvents)
  BY <1>1, MoreEvents, Zenon
<1> QED BY <1>1, <1>2, WillBeMore, Zenon DEF CacheOK

LEMMA FocusToKeeps ==
  ASSUME EditIInv, NEW n \in Places, FocusTo(n)
  PROVE  /\ realFocus' = n /\ events' \in Seq(FocusEvents)
         /\ CacheOK(focused, events', n, defunct)
         /\ ~listener => events' = <<>>
<1>1. /\ events \in Seq(FocusEvents) /\ realFocus \in Places /\ CacheOK(focused, events, realFocus, defunct)
      /\ ~listener => focused = NoNode /\ events = <<>>
      /\ realFocus' = n
  BY Zenon DEF EditIInv, EditForm, TimerForm, FocusTo
<1>2. CASE ~listener \/ n = realFocus
  <2>1. events' = events
    BY <1>2, Zenon DEF FocusTo
  <2>2. CASE ~listener
    <3>1. events' = <<>> /\ focused = NoNode
      BY <1>1, <2>1, <2>2, Zenon
    <3> QED BY <1>1, <2>1, <3>1, EmptyCache, Zenon
  <2>3. CASE listener /\ n = realFocus
    BY <1>1, <2>1, <2>3, Zenon
  <2> QED BY <1>2, <2>2, <2>3, Zenon
<1>3. CASE listener /\ n # realFocus
  <2>1. PICK was, now : /\ was = IF realFocus = NoNode THEN <<>> ELSE <<Lost(realFocus)>>
                        /\ now = IF n = NoNode THEN <<>> ELSE <<Gained(n)>>
                        /\ events' \in {events \o was \o now, events \o now \o was}
    BY <1>3, Zenon DEF FocusTo
  <2>2. CASE realFocus = NoNode
    <3>1. n \in Nodes /\ was = <<>> /\ now = <<Gained(n)>>
      BY <1>3, <2>1, <2>2, Zenon DEF Places
    <3>2. events' = Append(events, Gained(n))
      <4>1. Gained(n) \in FocusEvents
        BY <3>1 DEF Gained, FocusEvents
      <4>2. events \o <<>> = events /\ Append(events, Gained(n)) \o <<>> = Append(events, Gained(n))
        BY <1>1, <4>1, MoreEvents
      <4>3. events \o <<Gained(n)>> = Append(events, Gained(n))
        BY <1>1, <4>1
      <4> QED BY <2>1, <3>1, <4>2, <4>3, Zenon
    <3> QED BY <1>1, <1>3, <3>1, <3>2, GainKeeps, Zenon
  <2>3. CASE realFocus # NoNode /\ n = NoNode
    <3>1. realFocus \in Nodes /\ was = <<Lost(realFocus)>> /\ now = <<>>
      BY <1>1, <2>1, <2>3, Zenon DEF Places
    <3>2. events' = Append(events, Lost(realFocus))
      <4>1. Lost(realFocus) \in FocusEvents
        BY <3>1 DEF Lost, FocusEvents
      <4>2. events \o <<>> = events /\ Append(events, Lost(realFocus)) \o <<>> = Append(events, Lost(realFocus))
        BY <1>1, <4>1, MoreEvents
      <4>3. events \o <<Lost(realFocus)>> = Append(events, Lost(realFocus))
        BY <1>1, <4>1
      <4> QED BY <2>1, <3>1, <4>2, <4>3, Zenon
    <3>3. \A k \in Nodes : WillBe(focused, events, k) => k \in {realFocus, n}
      BY <1>1, <2>3, Zenon DEF CacheOK
    <3> QED BY <1>1, <1>3, <3>1, <3>2, <3>3, LoseKeeps, Zenon
  <2>4. CASE realFocus # NoNode /\ n # NoNode
    <3>1. n \in Nodes /\ realFocus \in Nodes /\ was = <<Lost(realFocus)>> /\ now = <<Gained(n)>>
      BY <1>1, <2>1, <2>4, Zenon DEF Places
    <3>2. Lost(realFocus) \in FocusEvents /\ Gained(n) \in FocusEvents
      BY <3>1 DEF Lost, Gained, FocusEvents
    <3>3. PICK q : q = Append(events, Lost(realFocus)) /\ q \in Seq(FocusEvents)
      BY <1>1, <3>2, MoreEvents, Zenon
    <3>4. PICK p : p = Append(events, Gained(n)) /\ p \in Seq(FocusEvents)
      BY <1>1, <3>2, MoreEvents, Zenon
    <3>5. events \o was = q /\ events \o now = p
      BY <1>1, <3>1, <3>2, <3>3, <3>4
    <3>6. q \o now = Append(q, Gained(n)) /\ p \o was = Append(p, Lost(realFocus))
      BY <3>1, <3>2, <3>3, <3>4
    <3>7. CASE events' = Append(q, Gained(n))
      BY <1>1, <1>3, <3>1, <3>3, <3>7, GainKeeps, Zenon
    <3>8. CASE events' = Append(p, Lost(realFocus))
      <4>1. CacheOK(focused, p, n, defunct)
        BY <1>1, <3>1, <3>4, GainKeeps, Zenon
      <4>2. \A k \in Nodes : WillBe(focused, p, k) => k \in {realFocus, n}
        BY <2>4, <4>1, Zenon DEF CacheOK
      <4> QED BY <1>1, <1>3, <3>1, <3>4, <3>8, <4>2, LoseKeeps, Zenon
    <3> QED BY <2>1, <3>5, <3>6, <3>7, <3>8, Zenon
  <2> QED BY <2>2, <2>3, <2>4, Zenon
<1> QED BY <1>2, <1>3, Zenon

\* The desktop changes, and the requests do not.
LEMMA ScreenKeeps ==
  ASSUME EditIInv, UNCHANGED requestVars, clicked' = clicked,
         handled' \in Nat, handled' <= Len(clicked), realFocus' \in Places, events' \in Seq(FocusEvents),
         CacheOK(focused, events', realFocus', defunct'), ~listener => events' = <<>>
  PROVE  EditIInv'
<1>1. UNCHANGED <<listener, focused, timers, request, callback, cancelled, answers, clicked>>
  BY Zenon DEF requestVars
<1>2. /\ EditForm /\ TimerForm /\ AnswersOK(answers, clicked) /\ Answered(answers, request, callback)
  BY Zenon DEF EditIInv
<1>3. EditForm'
  BY <1>1, <1>2, Zenon DEF EditForm
<1>4. TimerForm'
  BY <1>1, <1>2, Zenon DEF TimerForm
<1>5. CacheOK(focused', events', realFocus', defunct') /\ AnswersOK(answers', clicked') /\ Answered(answers', request', callback')
  BY <1>1, <1>2, Zenon
<1>6. CacheOK(focused, events, realFocus, defunct)' /\ AnswersOK(answers, clicked)' /\ Answered(answers, request, callback)'
  BY <1>5 DEF CacheOK, WillBe, AnswersOK, Right, Answered
<1> QED BY <1>3, <1>4, <1>6, Zenon DEF EditIInv

LEMMA AppHandlesKeeps ==
  ASSUME EditIInv, AppHandlesClick
  PROVE  EditIInv'
<1>1. /\ EditForm /\ CacheOK(focused, events, realFocus, defunct) /\ (~listener => events = <<>>)
      /\ handled < Len(clicked) /\ handled' = handled + 1
      /\ UNCHANGED requestVars /\ clicked' = clicked /\ defunct' = defunct
  BY Zenon DEF EditIInv, TimerForm, AppHandlesClick
<1>2. handled' \in Nat /\ handled' <= Len(clicked)
  BY <1>1 DEF EditForm
<1>3. CASE clicked[handled + 1] \in Focusable /\ FocusTo(clicked[handled + 1])
  <2>1. PICK n \in Places : n = clicked[handled + 1]
    BY <1>3, Zenon DEF Focusable, Places
  <2>2. FocusTo(n)
    BY <1>3, <2>1, Zenon
  <2>3. /\ realFocus' = n /\ events' \in Seq(FocusEvents) /\ CacheOK(focused, events', n, defunct)
        /\ ~listener => events' = <<>>
    BY <2>2, FocusToKeeps, Zenon
  <2> QED BY <1>1, <1>2, <2>3, ScreenKeeps, Zenon
<1>4. CASE UNCHANGED <<realFocus, events>>
  <2>1. realFocus' \in Places /\ events' \in Seq(FocusEvents) /\ (~listener => events' = <<>>)
        /\ CacheOK(focused, events', realFocus', defunct')
    BY <1>1, <1>4, Zenon DEF EditForm
  <2> QED BY <1>1, <1>2, <2>1, ScreenKeeps, Zenon
<1> QED BY <1>3, <1>4, Zenon DEF AppHandlesClick

LEMMA FocusMovesKeeps ==
  ASSUME EditIInv, FocusMoves
  PROVE  EditIInv'
<1>1. PICK n \in Focusable : FocusTo(n)
  BY Zenon DEF FocusMoves
<1>2. /\ EditForm /\ n \in Places /\ UNCHANGED requestVars /\ clicked' = clicked /\ defunct' = defunct /\ handled' = handled
  BY Zenon DEF EditIInv, FocusMoves, Focusable, Places
<1>3. /\ realFocus' = n /\ events' \in Seq(FocusEvents) /\ CacheOK(focused, events', n, defunct)
      /\ ~listener => events' = <<>>
  BY <1>1, <1>2, FocusToKeeps, Zenon
<1>4. handled' \in Nat /\ handled' <= Len(clicked) /\ realFocus' \in Places
  BY <1>2, <1>3, Zenon DEF EditForm
<1>5. CacheOK(focused, events', realFocus', defunct')
  BY <1>2, <1>3, Zenon
<1> QED BY <1>2, <1>3, <1>4, <1>5, ScreenKeeps, Zenon

LEMMA AppDiesKeeps ==
  ASSUME EditIInv, AppDies
  PROVE  EditIInv'
<1>1. PICK n \in Nodes \ defunct : defunct' = defunct \cup {n} /\ realFocus' = IF n = realFocus THEN NoNode ELSE realFocus
  BY Zenon DEF AppDies
<1>2. /\ EditForm /\ CacheOK(focused, events, realFocus, defunct) /\ (~listener => events = <<>>)
      /\ UNCHANGED requestVars /\ clicked' = clicked /\ handled' = handled /\ events' = events
  BY Zenon DEF EditIInv, TimerForm, AppDies
<1>3. handled' \in Nat /\ handled' <= Len(clicked) /\ realFocus' \in Places /\ events' \in Seq(FocusEvents)
  BY <1>1, <1>2, Zenon DEF EditForm, Places
<1>4. CacheOK(focused, events, realFocus', defunct')
  BY <1>1, <1>2, Zenon DEF CacheOK
<1>5. CacheOK(focused, events', realFocus', defunct') /\ (~listener => events' = <<>>)
  BY <1>2, <1>4, Zenon
<1> QED BY <1>2, <1>3, <1>5, ScreenKeeps, Zenon

\* The invariant of the next state, from its parts.
LEMMA EditPrimed ==
  ASSUME EditForm', TimerForm', CacheOK(focused', events', realFocus', defunct'),
         AnswersOK(answers', clicked'), Answered(answers', request', callback')
  PROVE  EditIInv'
<1>1. CacheOK(focused, events, realFocus, defunct)' /\ AnswersOK(answers, clicked)' /\ Answered(answers, request, callback)'
  BY DEF CacheOK, WillBe, AnswersOK, Right, Answered
<1> QED BY <1>1, Zenon DEF EditIInv

LEMMA EmptyEvents == <<>> \in Seq(FocusEvents) /\ NoNode \in Places
  BY DEF Places

LEMMA StopKeeps ==
  ASSUME EditIInv, Stopped
  PROVE  EditIInv' /\ ~listener'
<1>1. /\ EditForm /\ AnswersOK(answers, clicked) /\ Answered(answers, request, callback)
      /\ timers' = {} /\ callback' = FALSE /\ listener' = FALSE /\ focused' = NoNode
      /\ events' = <<>> /\ cancelled' = Len(clicked)
      /\ UNCHANGED <<request, clicked, answers, handled, realFocus, defunct>>
  BY Zenon DEF EditIInv, Stopped
<1>2. cancelled' \in Nat /\ cancelled' <= Len(clicked)
  BY <1>1 DEF EditForm
<1>3. EditForm'
  BY <1>1, <1>2, EmptyEvents, Zenon DEF EditForm
<1>4. TimerForm'
  <2>1. callback' = (timers' # {})
    BY <1>1
  <2> QED BY <1>1, <2>1, Zenon DEF TimerForm
<1>5. CacheOK(focused', events', realFocus', defunct')
  BY <1>1, EmptyCache, Zenon
<1>6. Answered(answers', request', callback')
  BY <1>1, Zenon DEF Answered
<1>7. AnswersOK(answers', clicked')
  BY <1>1, Zenon
<1> QED BY <1>1, <1>3, <1>4, <1>5, <1>6, <1>7, EditPrimed, Zenon

LEMMA SameEdit ==
  ASSUME EditIInv, UNCHANGED editFocusVars
  PROVE  EditIInv'
<1>1. /\ UNCHANGED requestVars /\ UNCHANGED <<clicked, handled, realFocus, defunct, events, focusMoves>>
  BY Zenon DEF editFocusVars, screenVars
<1>2. /\ EditForm /\ CacheOK(focused, events, realFocus, defunct) /\ (~listener => events = <<>>)
  BY Zenon DEF EditIInv, TimerForm
<1>3. /\ handled' \in Nat /\ handled' <= Len(clicked) /\ realFocus' \in Places /\ events' \in Seq(FocusEvents)
      /\ CacheOK(focused, events', realFocus', defunct') /\ (~listener => events' = <<>>)
  BY <1>1, <1>2, Zenon DEF EditForm
<1> QED BY <1>1, <1>3, ScreenKeeps, Zenon

LEMMA StartKeeps ==
  ASSUME EditIInv, start
  PROVE  EditIInv'
<1>1. CASE listener' = TRUE /\ UNCHANGED <<focused, timers, request, callback, cancelled, answers, clicked, screenVars>>
  <2>1. /\ EditForm /\ TimerForm /\ CacheOK(focused, events, realFocus, defunct)
        /\ AnswersOK(answers, clicked) /\ Answered(answers, request, callback)
        /\ UNCHANGED <<focused, timers, request, callback, cancelled, answers, clicked, handled, realFocus, defunct, events>>
    BY <1>1, Zenon DEF EditIInv, screenVars
  <2>2. EditForm'
    BY <1>1, <2>1, Zenon DEF EditForm
  <2>3. TimerForm'
    BY <1>1, <2>1, Zenon DEF TimerForm
  <2>4. /\ CacheOK(focused', events', realFocus', defunct')
        /\ AnswersOK(answers', clicked') /\ Answered(answers', request', callback')
    BY <2>1, Zenon
  <2> QED BY <2>2, <2>3, <2>4, EditPrimed, Zenon
<1> QED BY <1>1, StopKeeps, SameEdit, Zenon DEF start

LEMMA StaysRight ==
  ASSUME NEW c \in Seq(Places), NEW n \in Places, NEW ans, AnswersOK(ans, c)
  PROVE  AnswersOK(ans, Append(c, n))
<1>4. PICK p : p = Append(c, n)
  BY Zenon
<1>1. PICK L \in Nat : L = Len(c) /\ Len(p) = L + 1 /\ \A i \in 1 .. L : p[i] = c[i]
  <2>1. Len(c) \in Nat /\ Len(Append(c, n)) = Len(c) + 1 /\ \A i \in 1 .. Len(c) : Append(c, n)[i] = c[i]
    BY AppendProperties
  <2> QED BY <1>4, <2>1, Zenon
<1>2. \A i \in 1 .. L : i \in 1 .. L + 1
  BY <1>1
<1>3. ASSUME NEW a, Right(a, c) PROVE Right(a, p)
  <2>1. a.id \in 1 .. L
    BY <1>1, <1>3, Zenon DEF Right
  <2>2. c[a.id] = p[a.id] /\ a.id \in 1 .. Len(p)
    BY <1>1, <1>2, <2>1, Zenon
  <2> QED BY <1>3, <2>2, Zenon DEF Right
<1> QED BY <1>3, <1>4, Zenon DEF AnswersOK

LEMMA InspectKeeps ==
  ASSUME EditIInv, NEW n \in Places, inspect(n)
  PROVE  EditIInv'
<1>1. /\ EditForm /\ TimerForm /\ CacheOK(focused, events, realFocus, defunct)
      /\ AnswersOK(answers, clicked) /\ Answered(answers, request, callback)
      /\ clicked' = Append(clicked, n)
      /\ UNCHANGED <<listener, focused, cancelled, answers, handled, realFocus, defunct, events>>
  BY Zenon DEF EditIInv, inspect, screenVars
<1>2. PICK L \in Nat : L = Len(clicked) /\ Len(clicked') = L + 1 /\ clicked' \in Seq(Places)
  <2>1. Len(clicked) \in Nat /\ Len(clicked') = Len(clicked) + 1 /\ clicked' \in Seq(Places)
    BY <1>1, AppendProperties DEF EditForm
  <2> QED BY <2>1, Zenon
<1>3. AnswersOK(answers', clicked') /\ CacheOK(focused', events', realFocus', defunct')
  <2>1. clicked \in Seq(Places)
    BY <1>1, Zenon DEF EditForm
  <2> QED BY <1>1, <2>1, StaysRight, Zenon
<1>4. /\ cancelled <= L /\ handled <= L /\ request <= L
      /\ cancelled \in Nat /\ handled \in Nat /\ request \in Nat
  BY <1>1, <1>2, Zenon DEF EditForm
<1>5. cancelled <= L + 1 /\ handled <= L + 1 /\ request <= L + 1 /\ L + 1 <= L + 1 /\ L + 1 \in Nat /\ cancelled < L + 1
  BY <1>2, <1>4
<1>6. CASE listener /\ timers' = {L + 1} /\ request' = L + 1 /\ callback' = TRUE
  <2>1. EditForm'
    BY <1>1, <1>2, <1>4, <1>5, <1>6, Zenon DEF EditForm
  <2>2. TimerForm'
    <3>1. timers' # {}
      BY <1>6
    <3>2. callback' = (timers' # {})
      BY <1>6, <3>1
    <3> QED BY <1>1, <1>5, <1>6, <3>2, Zenon DEF TimerForm
  <2>3. Answered(answers', request', callback')
    <3>1. \A i \in 1 .. Len(answers) : answers[i].id \in 1 .. L
      BY <1>1, <1>2, Zenon DEF AnswersOK, Right
    <3>2. \A k \in 1 .. L : k <= L + 1 /\ k < L + 1
      BY <1>2
    <3> QED BY <1>1, <1>6, <3>1, <3>2, Zenon DEF Answered
  <2> QED BY <1>3, <2>1, <2>2, <2>3, EditPrimed, Zenon
<1>7. CASE ~listener /\ UNCHANGED <<timers, request, callback>>
  <2>1. EditForm'
    BY <1>1, <1>2, <1>4, <1>5, <1>7, Zenon DEF EditForm
  <2>2. TimerForm'
    BY <1>1, <1>7, Zenon DEF TimerForm
  <2>3. Answered(answers', request', callback')
    BY <1>1, <1>7, Zenon
  <2> QED BY <1>3, <2>1, <2>2, <2>3, EditPrimed, Zenon
<1>8. listener => timers' = {L + 1} /\ request' = L + 1 /\ callback' = TRUE
  BY <1>2, Zenon DEF inspect, Replaces
<1> QED BY <1>6, <1>7, <1>8, Zenon DEF inspect

LEMMA EventKeeps ==
  ASSUME EditIInv, event
  PROVE  EditIInv'
<1>1. /\ EditForm /\ TimerForm /\ CacheOK(focused, events, realFocus, defunct)
      /\ AnswersOK(answers, clicked) /\ Answered(answers, request, callback)
      /\ events # <<>> /\ events' = Tail(events) /\ focused' = Noticed(Head(events))
      /\ UNCHANGED <<listener, timers, request, callback, cancelled, answers, clicked, handled, realFocus, defunct>>
  BY Zenon DEF EditIInv, event
<1>2. /\ events \in Seq(FocusEvents) /\ events' \in Seq(FocusEvents) /\ Head(events) = events[1] /\ events[1] \in FocusEvents
  BY <1>1, LessEvents, Zenon DEF EditForm
<1>3. focused' = Noting(focused, events[1])
  BY <1>1, <1>2, Zenon DEF Noticed, Noting
<1>4. focused' \in Places
  <2>1. events[1].node \in Nodes
    BY <1>2 DEF FocusEvents
  <2> QED BY <1>1, <1>3, <2>1, Zenon DEF Noting, EditForm, Places
<1>5. EditForm'
  BY <1>1, <1>2, <1>4, Zenon DEF EditForm
<1>6. TimerForm'
  BY <1>1, Zenon DEF TimerForm
<1>7. CacheOK(focused', events', realFocus', defunct')
  <2>1. \A n \in Nodes : n # NoNode
    BY EditFocusAssumption, Zenon
  <2>2. \A n \in Nodes : WillBe(focused', events', n) => WillBe(focused, events, n)
    BY <1>1, <1>2, <1>3, <2>1, WillBeLess, Zenon
  <2> QED BY <1>1, <2>2, Zenon DEF CacheOK
<1>8. AnswersOK(answers', clicked') /\ Answered(answers', request', callback')
  BY <1>1, Zenon
<1> QED BY <1>5, <1>6, <1>7, <1>8, EditPrimed, Zenon

\* The field the timer looks at: the cached one, or the one that is found.
LEMMA TargetKeeps ==
  ASSUME EditIInv, NEW n, NEW reached, NEW t,
         t = IF focused # NoNode THEN focused ELSE find_focus(n, reached)
  PROVE  t \in Places /\ CacheOK(t, events, realFocus, defunct)
<1>1. EditForm /\ CacheOK(focused, events, realFocus, defunct)
  BY Zenon DEF EditIInv
<1>2. CASE t = focused
  BY <1>1, <1>2, Zenon DEF EditForm
<1>3. CASE t = realFocus
  <2>1. \A k \in Nodes : WillBe(realFocus, events, k) => k = realFocus \/ WillBe(focused, events, k)
    BY Zenon DEF WillBe
  <2> QED BY <1>1, <1>3, <2>1, Zenon DEF EditForm, CacheOK
<1> QED BY <1>2, <1>3, Zenon DEF find_focus

\* What the timer answers.
Answering(reached, replies, n, t, act, a) ==
  /\ n = clicked[request]
  /\ t = IF focused # NoNode THEN focused ELSE find_focus(n, reached)
  /\ act = (/\ t \in Editable \ defunct /\ replies
             /\ t = realFocus /\ Contains(n, t))
  /\ a = [id |-> request, active |-> act,
          secure |-> act /\ t \in Secure,
          truth  |-> n \in Editable \ defunct /\ n = realFocus,
          hidden |-> n \in Boundless,
          certain |-> reached /\ replies /\ events = <<>> /\ handled = Len(clicked),
          waited |-> handled >= request,
          late   |-> request <= cancelled]

LEMMA AnswerIsRight ==
  ASSUME EditIInv, NEW id, id \in timers, handled >= id, NEW reached \in BOOLEAN, NEW replies \in BOOLEAN,
         NEW n, NEW t, NEW act \in BOOLEAN, NEW a, Answering(reached, replies, n, t, act, a)
  PROVE  a \in AnswerRecs /\ Right(a, clicked) /\ a.id = request
<1>1. /\ EditForm /\ TimerForm /\ CacheOK(focused, events, realFocus, defunct)
      /\ n = clicked[request] /\ t = IF focused # NoNode THEN focused ELSE find_focus(n, reached)
  BY Zenon DEF EditIInv, Answering
<1>15. act <=> /\ t \in Editable \ defunct /\ replies
               /\ t = realFocus /\ Contains(n, t)
  BY Zenon DEF Answering
<1>2. id = request /\ cancelled < request /\ callback = TRUE
  BY <1>1 DEF TimerForm
<1>3. request \in Nat /\ cancelled \in Nat /\ handled \in Nat /\ request <= Len(clicked) /\ Len(clicked) \in Nat
  BY <1>1 DEF EditForm
<1>4. request \in 1 .. Len(clicked) /\ handled >= request /\ ~(request <= cancelled)
  BY <1>2, <1>3
<1>5. PICK sec \in BOOLEAN, tru \in BOOLEAN, hid \in BOOLEAN, cer \in BOOLEAN :
        /\ sec = (act /\ t \in Secure)
        /\ tru = (n \in Editable \ defunct /\ n = realFocus)
        /\ hid = (n \in Boundless)
        /\ cer = (reached /\ replies /\ events = <<>> /\ handled = Len(clicked))
  <2>1. (act /\ t \in Secure) \in BOOLEAN
    OBVIOUS
  <2>2. (n \in Editable \ defunct /\ n = realFocus) \in BOOLEAN
    OBVIOUS
  <2>3. (n \in Boundless) \in BOOLEAN
    OBVIOUS
  <2>4. (reached /\ replies /\ events = <<>> /\ handled = Len(clicked)) \in BOOLEAN
    OBVIOUS
  <2> QED BY <2>1, <2>2, <2>3, <2>4, Zenon
<1>16. (handled >= request) = TRUE /\ (request <= cancelled) = FALSE
  BY <1>4
<1>6. a = [id |-> request, active |-> act, secure |-> sec, truth |-> tru, hidden |-> hid, certain |-> cer,
           waited |-> TRUE, late |-> FALSE]
  BY <1>5, <1>16, Zenon DEF Answering
<1>7. /\ a.id = request /\ a.active = act /\ a.secure = sec /\ a.truth = tru /\ a.hidden = hid /\ a.certain = cer
      /\ a.waited = TRUE /\ a.late = FALSE
  BY <1>6
<1>8. a \in AnswerRecs
  BY <1>3, <1>5, <1>6 DEF AnswerRecs
<1>10. act => n = t /\ t \in Editable \ defunct /\ t = realFocus
  BY <1>15, Zenon DEF Contains
<1>11. act => tru
  <2>1. tru <=> (n \in Editable \ defunct /\ n = realFocus)
    BY <1>5
  <2> QED BY <1>10, <2>1, Zenon
<1>12. sec => act /\ n \in Secure
  BY <1>5, <1>10, Zenon
<1>13. tru /\ cer => act \/ hid
  <2>1. SUFFICES ASSUME tru, cer, n \notin Boundless PROVE act
    BY <1>5, Zenon
  <2>2. n \in Editable \ defunct /\ n = realFocus /\ reached /\ replies /\ events = <<>>
    BY <1>5, <2>1, Zenon
  <2>3. n \in Nodes /\ n # NoNode
    BY <2>2, EditFocusAssumption, Zenon
  <2>4. focused = NoNode \/ focused = n
    <3>1. \A j \in 1 .. Len(events) : FALSE
      BY <2>2
    <3>2. WillBe(focused, events, focused)
      BY <3>1, Zenon DEF WillBe
    <3> QED BY <1>1, <2>2, <2>3, <3>2, Zenon DEF CacheOK, EditForm, Places
  <2>5. t = n
    BY <1>1, <2>2, <2>3, <2>4, Zenon DEF find_focus
  <2> QED BY <1>15, <2>1, <2>2, <2>5, Zenon DEF Contains
<1>14. Right(a, clicked)
  BY <1>1, <1>4, <1>7, <1>11, <1>12, <1>13, Zenon DEF Right
<1> QED BY <1>7, <1>8, <1>14

\* The answers before a are of earlier requests.
Before(ans, a) == \A i \in 1 .. Len(ans) : ans[i].id <= a.id /\ ans[i].id < a.id
UpTo(ans, a)   == \A i \in 1 .. Len(ans) : ans[i].id <= a.id

LEMMA OneMoreAnswer ==
  ASSUME NEW ans \in Seq(AnswerRecs), NEW a \in AnswerRecs, NEW c, AnswersOK(ans, c), Right(a, c), Before(ans, a)
  PROVE  Append(ans, a) \in Seq(AnswerRecs) /\ AnswersOK(Append(ans, a), c) /\ UpTo(Append(ans, a), a)
<1>1. PICK p : p = Append(ans, a)
  BY Zenon
<1>2. p \in Seq(AnswerRecs) /\ Len(p) = Len(ans) + 1 /\ p[Len(ans) + 1] = a /\ (\A i \in 1 .. Len(ans) : p[i] = ans[i]) /\ Len(ans) \in Nat
  BY <1>1, AppendProperties
<1>3. PICK L \in Nat : L = Len(ans) /\ Len(p) = L + 1
  BY <1>2, Zenon
<1>4. \A i \in 1 .. L + 1 : i = L + 1 \/ i \in 1 .. L
  BY <1>3
<1>5. \A i \in 1 .. L + 1 : Right(p[i], c)
  BY <1>2, <1>3, <1>4, Zenon DEF AnswersOK
<1>6. \A i, j \in 1 .. L + 1 : i < j => p[i].id < p[j].id
  <2>1. SUFFICES ASSUME NEW i \in 1 .. L + 1, NEW j \in 1 .. L + 1, i < j PROVE p[i].id < p[j].id
    BY Zenon
  <2>2. i \in 1 .. L
    BY <1>3, <2>1
  <2>3. CASE j = L + 1
    BY <1>2, <1>3, <2>2, <2>3, Zenon DEF Before
  <2>4. CASE j \in 1 .. L
    BY <1>2, <1>3, <2>1, <2>2, <2>4, Zenon DEF AnswersOK
  <2> QED BY <1>4, <2>3, <2>4, Zenon
<1>7. \A i \in 1 .. L + 1 : p[i].id <= a.id
  <2>1. a.id <= a.id
    BY DEF AnswerRecs
  <2> QED BY <1>2, <1>3, <1>4, <2>1, Zenon DEF Before
<1> QED BY <1>1, <1>2, <1>3, <1>5, <1>6, <1>7, Zenon DEF AnswersOK, UpTo

LEMMA TimerKeeps ==
  ASSUME EditIInv, NEW id \in timers, Timer(id)
  PROVE  EditIInv'
<1>1. /\ EditForm /\ TimerForm /\ CacheOK(focused, events, realFocus, defunct)
      /\ AnswersOK(answers, clicked) /\ Answered(answers, request, callback)
      /\ handled >= id /\ timers' = timers \ {id} /\ callback' = FALSE
      /\ UNCHANGED <<listener, request, cancelled, clicked, handled, realFocus, defunct, events>>
  BY Zenon DEF EditIInv, Timer, screenVars
<1>2. timers = {request} /\ id = request /\ callback = TRUE /\ timers' = {} /\ listener = TRUE
  BY <1>1 DEF TimerForm, EditForm
<1>3. PICK reached, replies, n, t, act, a :
        /\ reached \in BOOLEAN /\ replies \in BOOLEAN
        /\ Answering(reached, replies, n, t, act, a) /\ act \in BOOLEAN
        /\ focused' = t
        /\ answers' = Append(answers, a)
  <2>1. PICK n : n = clicked[request]
    BY Zenon
  <2>2. PICK reached \in BOOLEAN, replies \in BOOLEAN :
          LET m      == clicked[request]
              target == IF focused # NoNode THEN focused ELSE find_focus(m, reached)
              field  == /\ target \in Editable \ defunct /\ replies
                        /\ target = realFocus /\ Contains(m, target)
          IN  /\ focused' = target
              /\ answers' = IF ~callback THEN answers
                   ELSE Append(answers,
                          [id |-> request, active |-> field,
                           secure |-> field /\ target \in Secure,
                           truth  |-> m \in Editable \ defunct /\ m = realFocus,
                           hidden |-> m \in Boundless,
                           certain |-> reached /\ replies /\ events = <<>> /\ handled = Len(clicked),
                           waited |-> handled >= request,
                           late   |-> request <= cancelled])
    BY Zenon DEF Timer
  <2>3. PICK t : t = IF focused # NoNode THEN focused ELSE find_focus(n, reached)
    BY Zenon
  <2>4. PICK act \in BOOLEAN : act = (/\ t \in Editable \ defunct /\ replies
                                      /\ t = realFocus /\ Contains(n, t))
    BY Zenon
  <2>5. PICK a : a = [id |-> request, active |-> act,
                      secure |-> act /\ t \in Secure,
                      truth  |-> n \in Editable \ defunct /\ n = realFocus,
                      hidden |-> n \in Boundless,
                      certain |-> reached /\ replies /\ events = <<>> /\ handled = Len(clicked),
                      waited |-> handled >= request,
                      late   |-> request <= cancelled]
    BY Zenon
  <2>6. answers' = Append(answers, a) /\ focused' = t
    BY <1>2, <2>1, <2>2, <2>3, <2>4, <2>5, Zenon
  <2>7. Answering(reached, replies, n, t, act, a)
    BY <2>1, <2>2, <2>3, <2>4, <2>5, Zenon DEF Answering
  <2> QED BY <2>6, <2>7, Zenon
<1>4. t \in Places /\ CacheOK(t, events, realFocus, defunct)
  <2>1. t = IF focused # NoNode THEN focused ELSE find_focus(n, reached)
    BY <1>3, Zenon DEF Answering
  <2> QED BY <2>1, TargetKeeps, Zenon
<1>5. a \in AnswerRecs /\ Right(a, clicked) /\ a.id = request
  BY <1>1, <1>3, AnswerIsRight, ZenonT(60)
<1>6. answers \in Seq(AnswerRecs) /\ Before(answers, a)
  BY <1>1, <1>2, <1>5, Zenon DEF EditForm, Answered, Before
<1>7. answers' \in Seq(AnswerRecs) /\ AnswersOK(answers', clicked) /\ Answered(answers', request, FALSE)
  <2>1. answers' \in Seq(AnswerRecs) /\ AnswersOK(answers', clicked) /\ UpTo(answers', a)
    BY <1>1, <1>3, <1>5, <1>6, OneMoreAnswer, Zenon
  <2> QED BY <1>5, <2>1, Zenon DEF Answered, UpTo
<1>8. EditForm'
  BY <1>1, <1>3, <1>4, <1>7, Zenon DEF EditForm
<1>9. TimerForm'
  <2>1. callback' = (timers' # {})
    BY <1>1, <1>2
  <2> QED BY <1>1, <1>2, <2>1, Zenon DEF TimerForm
<1>10. /\ CacheOK(focused', events', realFocus', defunct')
       /\ AnswersOK(answers', clicked') /\ Answered(answers', request', callback')
  BY <1>1, <1>3, <1>4, <1>7, Zenon
<1> QED BY <1>8, <1>9, <1>10, EditPrimed, Zenon

LEMMA EditEventsKeep ==
  ASSUME EditIInv, EditFocusEvents
  PROVE  EditIInv'
  BY AppHandlesKeeps, FocusMovesKeeps, AppDiesKeeps, EventKeeps, TimerKeeps, Zenon DEF EditFocusEvents

LEMMA EditCallsKeep ==
  ASSUME EditIInv, EditFocusCalls
  PROVE  EditIInv'
  BY StartKeeps, StopKeeps, InspectKeeps, Zenon DEF EditFocusCalls, stop, Places

LEMMA EditStarts == EditFocusInit => EditIInv
<1>1. SUFFICES ASSUME EditFocusInit PROVE EditIInv
  OBVIOUS
<1>2. /\ listener = FALSE /\ focused = NoNode /\ timers = {} /\ request = 0 /\ callback = FALSE
      /\ clicked = <<>> /\ handled = 0 /\ realFocus \in Nodes \cup {NoNode}
      /\ events = <<>> /\ cancelled = 0 /\ answers = <<>>
  BY <1>1, Zenon DEF EditFocusInit
<1>3. clicked \in Seq(Places) /\ events \in Seq(FocusEvents) /\ answers \in Seq(AnswerRecs) /\ Len(clicked) = 0 /\ Len(answers) = 0
  BY <1>2
<1>4. request \in Nat /\ cancelled \in Nat /\ handled \in Nat /\ request <= Len(clicked) /\ cancelled <= Len(clicked) /\ handled <= Len(clicked)
  BY <1>2, <1>3
<1>5. EditForm
  BY <1>2, <1>3, <1>4, Zenon DEF EditForm, Places
<1>6. TimerForm
  <2>1. callback = (timers # {})
    BY <1>2
  <2> QED BY <1>2, <2>1, Zenon DEF TimerForm
<1>7. CacheOK(focused, events, realFocus, defunct)
  BY <1>2, EmptyCache, Zenon
<1>8. \A i \in 1 .. Len(answers) : FALSE
  BY <1>3
<1>9. AnswersOK(answers, clicked) /\ Answered(answers, request, callback)
  BY <1>8, Zenon DEF AnswersOK, Answered
<1> QED BY <1>5, <1>6, <1>7, <1>9, Zenon DEF EditIInv

----------------------------------------------------------------------------
(* The two together, and the plugin that is disposed.                      *)

\* What a disposed plugin is left with, whatever the desktop does.
Gone == Free /\ ~top /\ ~registry /\ ~preparing /\ ~wanted /\ ~listener

WindowIInv == ImmersiveIInv /\ EditIInv /\ alive \in BOOLEAN /\ (~alive => Gone)

LEMMA StaysGone ==
  ASSUME Gone, Events
  PROVE  Gone'
<1>1. Free /\ ~top /\ ~registry /\ ~preparing /\ ~wanted /\ ~listener
  BY Zenon DEF Gone
<1>2. focus_watch = FALSE
  BY <1>1, Zenon DEF Free
<1>3. CASE ImmersiveEvents /\ UNCHANGED editFocusVars
  <2>1. listener' = listener
    BY <1>3, Zenon DEF editFocusVars, requestVars
  <2>2. ~check_focus /\ ~RoundtripReturns /\ ~global /\ ~removed
    BY <1>1, <1>2, Zenon DEF check_focus, RoundtripReturns, global, removed
  <2>3. UNCHANGED ownVars /\ UNCHANGED <<wanted, preparing, registry>> /\ ~top'
    <3>1. CASE ActiveChanges
      BY <1>1, <3>1, Zenon DEF ActiveChanges
    <3>2. CASE XFocusChanges \/ WindowComes
      <4>1. UNCHANGED ownVars /\ UNCHANGED <<wanted, preparing, registry>> /\ top' = top
        BY <3>2, Zenon DEF XFocusChanges, WindowComes
      <4> QED BY <1>1, <4>1, Zenon
    <3>3. ASSUME NEW d \in BOOLEAN, WindowGoes(d)
          PROVE  UNCHANGED ownVars /\ UNCHANGED <<wanted, preparing, registry>> /\ ~top'
      <4>1. UNCHANGED ownVars /\ UNCHANGED <<wanted, preparing, registry>> /\ top' = (top /\ ~d)
        BY <1>1, <3>3, Zenon DEF WindowGoes
      <4>2. ~top'
        BY <1>1, <4>1
      <4> QED BY <4>1, <4>2
    <3> QED BY <1>3, <2>2, <3>1, <3>2, <3>3, Zenon DEF ImmersiveEvents
  <2>4. Free'
    BY <1>1, <2>3, SameOwn, Zenon
  <2> QED BY <1>1, <2>1, <2>3, <2>4, Zenon DEF Gone
<1>4. CASE EditFocusEvents /\ UNCHANGED immersiveVars
  <2>1. UNCHANGED ownVars /\ UNCHANGED <<top, wanted, preparing, registry>>
    BY <1>4, Zenon DEF immersiveVars
  <2>2. listener' = listener
    BY <1>4, Zenon DEF EditFocusEvents, AppHandlesClick, FocusMoves, AppDies, event, Timer, requestVars
  <2>3. Free'
    BY <1>1, <2>1, SameOwn, Zenon
  <2> QED BY <1>1, <2>1, <2>2, <2>3, Zenon DEF Gone
<1> QED BY <1>3, <1>4, Zenon DEF Events

LEMMA DisposeKeeps ==
  ASSUME WindowIInv, dispose
  PROVE  WindowIInv'
<1>1. /\ ImmersiveIInv /\ EditIInv /\ alive' = FALSE /\ DestroyImpl /\ Stopped
  BY Zenon DEF WindowIInv, dispose, DisposeParts, stop
<1>2. ImmersiveIInv' /\ Free' /\ EditIInv' /\ ~listener'
  BY <1>1, DestroyKeeps, StopKeeps, Zenon
<1>3. ~top' /\ ~registry' /\ ~wanted' /\ ~preparing'
  BY <1>1, Zenon DEF DestroyImpl
<1> QED BY <1>1, <1>2, <1>3, Zenon DEF WindowIInv, Gone

LEMMA WindowKeeps == WindowIInv /\ [Next]_vars => WindowIInv'
<1>1. SUFFICES ASSUME WindowIInv, [Next]_vars PROVE WindowIInv'
  OBVIOUS
<1>2. ImmersiveIInv /\ EditIInv /\ alive \in BOOLEAN /\ (~alive => Gone)
  BY <1>1, Zenon DEF WindowIInv
<1>3. CASE HandleMethodCall
  <2>1. alive /\ alive' = alive
    BY <1>3, Zenon DEF HandleMethodCall
  <2>2. ImmersiveIInv' /\ EditIInv'
    BY <1>2, <1>3, SetEnabledKeeps, SameEdit, EditCallsKeep, SameImmersive, Zenon DEF HandleMethodCall
  <2> QED BY <1>2, <2>1, <2>2, Zenon DEF WindowIInv
<1>4. CASE Events
  <2>1. alive' = alive
    BY <1>4, Zenon DEF Events
  <2>2. ImmersiveIInv' /\ EditIInv'
    BY <1>2, <1>4, ImmersiveEventsKeep, SameEdit, EditEventsKeep, SameImmersive, Zenon DEF Events
  <2>3. ~alive => Gone'
    BY <1>2, <1>4, StaysGone, Zenon
  <2> QED BY <1>2, <2>1, <2>2, <2>3, Zenon DEF WindowIInv
<1>5. CASE dispose
  BY <1>1, <1>5, DisposeKeeps, Zenon
<1>6. CASE UNCHANGED vars
  <2>1. UNCHANGED immersiveVars /\ UNCHANGED editFocusVars /\ alive' = alive
    BY <1>6, Zenon DEF vars
  <2>2. ImmersiveIInv' /\ EditIInv'
    BY <1>2, <2>1, SameImmersive, SameEdit, Zenon
  <2>3. UNCHANGED ownVars /\ UNCHANGED <<top, wanted, preparing, registry>> /\ listener' = listener
    BY <2>1, Zenon DEF immersiveVars, editFocusVars, requestVars
  <2>4. Gone => Gone'
    BY <2>3, SameOwn, Zenon DEF Gone
  <2> QED BY <1>2, <2>1, <2>2, <2>4, Zenon DEF WindowIInv
<1> QED BY <1>1, <1>3, <1>4, <1>5, <1>6, Zenon DEF Next

LEMMA WindowStarts == Init => WindowIInv
<1>1. SUFFICES ASSUME Init PROVE WindowIInv
  OBVIOUS
<1>2. ImmersiveInit /\ EditFocusInit /\ alive = TRUE
  BY <1>1, Zenon DEF Init
<1> QED BY <1>2, ImmersiveStarts, EditStarts, Zenon DEF WindowIInv

\* Type correctness of immersive mode and the edit-focus question: one capture at most,
\* and the timer that runs is that of the last request.
THEOREM TypeCorrect == Spec => []TypeOK
<1>1. WindowIInv => TypeOK
  <2>1. SUFFICES ASSUME WindowIInv PROVE TypeOK
    OBVIOUS
  <2>2. ImmersiveTypeOK /\ EditForm /\ TimerForm /\ alive \in BOOLEAN
    BY <2>1, FreeOrTaken, Zenon DEF WindowIInv, EditIInv
  <2>3. callback \in BOOLEAN
    BY <2>2 DEF TimerForm
  <2>4. {listener, callback} \subseteq BOOLEAN
    BY <2>2, <2>3, Zenon DEF EditForm
  <2>5. EditFocusTypeOK
    BY <2>2, <2>4, Zenon DEF EditFocusTypeOK, EditForm, TimerForm, Places
  <2> QED BY <2>2, <2>5, Zenon DEF TypeOK
<1> QED BY <1>1, WindowStarts, WindowKeeps, PTL DEF Spec

\* The keyboard capture and the edit-focus answers of the Linux plugin, however requests,
\* signals, round trips, clicks and focus events interleave: one grab or inhibitor at
\* most, and just while it is wanted of an active window; a click is only answered as
\* one into a text field when it was; a disposed plugin holds nothing.
THEOREM WindowsAreSound == Spec => []WindowSound
<1>1. WindowIInv => WindowSound
  <2>1. SUFFICES ASSUME WindowIInv PROVE WindowSound
    OBVIOUS
  <2>2. /\ OneCapture /\ WantedIsCaptured /\ EditForm /\ TimerForm /\ CacheOK(focused, events, realFocus, defunct)
        /\ AnswersOK(answers, clicked) /\ (~alive => Gone)
    BY <2>1, FreeOrTaken, Zenon DEF WindowIInv, EditIInv, ImmersiveIInv
  <2>3. CacheIsCurrent
    <3>1. SUFFICES ASSUME events = <<>>, focused # NoNode PROVE focused = realFocus \/ focused \in defunct
      BY Zenon DEF CacheIsCurrent
    <3>2. \A j \in 1 .. Len(events) : FALSE
      BY <3>1
    <3>3. WillBe(focused, events, focused)
      BY <3>2, Zenon DEF WillBe
    <3> QED BY <2>2, <3>1, <3>3, Zenon DEF CacheOK, EditForm, Places
  <2>4. AnswersSound
    <3>1. DOMAIN answers = 1 .. Len(answers)
      BY <2>2 DEF EditForm
    <3>2. \A i, j \in DOMAIN answers : i < j => answers[i].id < answers[j].id
      BY <2>2, <3>1, Zenon DEF AnswersOK
    <3>3. \A i \in DOMAIN answers : Right(answers[i], clicked)
      BY <2>2, <3>1, Zenon DEF AnswersOK
    <3> QED BY <3>2, <3>3, Zenon DEF AnswersSound, Right
  <2>5. ~alive => held = 0 /\ timers = {} /\ ~callback /\ ~focus_watch
    <3>1. SUFFICES ASSUME ~alive PROVE held = 0 /\ timers = {} /\ ~callback /\ ~focus_watch
      OBVIOUS
    <3>2. Free /\ ~listener
      BY <2>2, <3>1, Zenon DEF Gone
    <3>3. timers = {}
      BY <2>2, <3>2, Zenon DEF TimerForm
    <3>4. ~callback
      BY <2>2, <3>3 DEF TimerForm
    <3> QED BY <3>2, <3>3, <3>4, Zenon DEF Free
  <2> QED BY <2>2, <2>3, <2>4, <2>5, Zenon DEF WindowSound
<1> QED BY <1>1, WindowStarts, WindowKeeps, PTL DEF Spec

=============================================================================
