------------------------- MODULE LinuxImmersiveInput -------------------------
(***************************************************************************)
(* Immersive mode on Linux (linux/linux_immersive_input.cc): the keyboard  *)
(* is captured by a grab (X11) or by a shortcuts inhibitor (Wayland) while *)
(* it is wanted and the window is active.  All runs on the GTK main thread, *)
(* but the first Wayland request makes a round trip that dispatches other  *)
(* events in the middle of set_enabled.  On X11 the input focus may leave  *)
(* without GTK's is-active following, which a 50 ms timer looks for.       *)
(***************************************************************************)
EXTENDS Naturals

VARIABLES
  backend,               \* "x11", "wayland", or "other"
  view, mapped, active,  \* the view lives; it is mapped; its window is active
  xfocus,                \* the X input focus is in the window
  top,                   \* the toplevel's signals are connected
  wanted, preparing,
  window,                \* the captured window is set
  own,                   \* grabbed, or inhibitor is set
  focus_watch,
  registry, manager,
  held,                  \* grabs and inhibitors that the display server holds for us
  dropped                \* a capture was dropped with neither side asking, and not retried

desktopVars   == <<backend, view, mapped, active, xfocus>>
ownVars       == <<window, own, focus_watch, held>>
immersiveVars == <<desktopVars, top, wanted, preparing, ownVars, registry, manager, dropped>>

ImmersiveInit ==
  /\ backend \in {"x11", "wayland", "other"}
  /\ view = TRUE /\ mapped \in BOOLEAN /\ active \in {FALSE, mapped} /\ xfocus = active
  /\ top = FALSE /\ wanted = FALSE /\ preparing = FALSE
  /\ window = FALSE /\ own = FALSE /\ focus_watch = FALSE /\ held = 0
  /\ registry = FALSE /\ manager = FALSE /\ dropped = FALSE

release ==
  /\ window' = FALSE /\ own' = FALSE /\ focus_watch' = FALSE
  /\ held' = IF own THEN held - 1 ELSE held

Capture ==
  /\ wanted' = TRUE /\ window' = TRUE /\ own' = TRUE /\ held' = held + 1
  /\ focus_watch' = (backend = "x11")

GiveUp == wanted' = FALSE /\ UNCHANGED ownVars

\* The end of set_enabled on Wayland, when the registry is there: seat or surface may
\* be missing, and what the round trip dispatched is looked at again.
Inhibit(w, a) ==
  \/ GiveUp
  \/ /\ w /\ manager /\ top' /\ view /\ mapped
     /\ IF a THEN Capture ELSE wanted' = w /\ UNCHANGED ownVars

\* Mutant: a request made inside a request is carried out.
NeverBusy  == FALSE
IsPreparing == preparing

\* set_enabled(true), when the window's activity is a.
enable(a) ==
  /\ dropped' = FALSE
  /\ IF IsPreparing THEN wanted' = TRUE /\ UNCHANGED <<top, preparing, ownVars, registry>>
     ELSE
     \/ ~view /\ GiveUp /\ UNCHANGED <<top, preparing, registry>>
     \/ /\ view /\ ~mapped /\ top' \in {top, TRUE}
        /\ wanted' = FALSE /\ release /\ UNCHANGED <<preparing, registry>>
     \/ /\ view /\ mapped /\ top' = TRUE
        /\ \/ ~a /\ wanted' = TRUE /\ release /\ UNCHANGED <<preparing, registry>>
           \/ a /\ window /\ wanted' = TRUE /\ UNCHANGED <<ownVars, preparing, registry>>
           \/ /\ a /\ ~window
              /\ \/ backend = "x11" /\ (Capture \/ GiveUp) /\ UNCHANGED <<preparing, registry>>
                 \/ backend = "other" /\ GiveUp /\ UNCHANGED <<preparing, registry>>
                 \/ /\ backend = "wayland" /\ registry /\ Inhibit(TRUE, a)
                    /\ UNCHANGED <<preparing, registry>>
                 \/ /\ backend = "wayland" /\ ~registry
                    /\ registry' = TRUE /\ preparing' = TRUE /\ wanted' = TRUE
                    /\ UNCHANGED ownVars

\* set_enabled(false).
disable ==
  /\ wanted' = FALSE /\ release /\ dropped' = FALSE
  /\ UNCHANGED <<top, preparing, registry>>

set_enabled(enabled) ==
  /\ ~preparing
  /\ IF enabled THEN enable(active) ELSE disable
  /\ UNCHANGED <<desktopVars, manager>>

\* The round trip returns, or fails.
RoundtripReturns ==
  /\ preparing /\ preparing' = FALSE
  /\ UNCHANGED <<desktopVars, top, registry, manager, dropped>>
  /\ GiveUp \/ Inhibit(wanted, active)

----------------------------------------------------------------------------
(* Signals and registry events; they also come within the round trip.       *)

\* Mutant: a window that becomes active is left alone.
OnActiveIgnored == UNCHANGED <<top, wanted, preparing, ownVars, registry, dropped>>
OnActive == IF wanted THEN enable(TRUE)
            ELSE UNCHANGED <<top, wanted, preparing, ownVars, registry, dropped>>

\* notify::is-active.
ActiveChanges ==
  /\ view /\ mapped
  /\ active' = ~active /\ xfocus' = ~active
  /\ IF ~top THEN UNCHANGED <<top, wanted, preparing, ownVars, registry, dropped>>
     ELSE IF active THEN release /\ UNCHANGED <<top, wanted, preparing, registry, dropped>>
     ELSE OnActive
  /\ UNCHANGED <<backend, view, mapped, manager>>

\* The X input focus moves and is-active does not follow.
XFocusChanges ==
  /\ backend = "x11" /\ active
  /\ xfocus' = ~xfocus
  /\ UNCHANGED <<backend, view, mapped, active, top, wanted, preparing, ownVars, registry,
                 manager, dropped>>

\* Mutant: the watch trusts is-active.
WatchTrustsGtk == ~active
FocusIsGone    == ~xfocus

check_focus ==
  /\ focus_watch /\ FocusIsGone
  /\ release /\ dropped' = TRUE
  /\ UNCHANGED <<desktopVars, top, wanted, preparing, registry, manager>>

\* unmap and destroy; a destroyed window takes its view along.
WindowGoes(destroyed) ==
  /\ view /\ (mapped \/ destroyed)
  /\ mapped' = FALSE /\ active' = FALSE /\ xfocus' = FALSE
  /\ view' = ~destroyed
  /\ IF top THEN wanted' = FALSE /\ release /\ dropped' = FALSE
            ELSE UNCHANGED <<wanted, ownVars, dropped>>
  /\ top' = (top /\ ~destroyed)
  /\ UNCHANGED <<backend, preparing, registry, manager>>

WindowComes ==
  /\ view /\ ~mapped /\ mapped' = TRUE
  /\ UNCHANGED <<backend, view, active, xfocus, top, wanted, preparing, ownVars, registry,
                 manager, dropped>>

global ==
  /\ registry /\ ~manager /\ manager' = TRUE
  /\ UNCHANGED <<desktopVars, top, wanted, preparing, ownVars, registry, dropped>>

removed ==
  /\ registry /\ manager /\ manager' = FALSE
  /\ release /\ dropped' = (dropped \/ window)
  /\ UNCHANGED <<desktopVars, top, wanted, preparing, registry>>

ImmersiveEvents ==
  \/ RoundtripReturns \/ ActiveChanges \/ XFocusChanges \/ check_focus
  \/ \E d \in BOOLEAN : WindowGoes(d)
  \/ WindowComes \/ global \/ removed

\* ~Impl; what is wanted goes with the object.
DestroyImpl ==
  /\ ~preparing
  /\ release /\ top' = FALSE /\ registry' = FALSE /\ manager' = FALSE /\ wanted' = FALSE
  /\ UNCHANGED <<desktopVars, preparing, dropped>>

----------------------------------------------------------------------------
\* The display server holds one grab or inhibitor for us at most, and just while
\* there is a captured window: a wanted, mapped and active one.  A grab is watched.
OneCapture ==
  /\ held = IF own THEN 1 ELSE 0
  /\ window = own
  /\ focus_watch = (window /\ backend = "x11")
  /\ window => wanted /\ view /\ top /\ mapped /\ active
  /\ window /\ backend = "wayland" => manager

\* What is wanted is captured once the window is active, whatever came between the
\* request and then: unless a capture was dropped because the X focus went or the
\* Wayland manager was removed, which the code does not retry by itself.
WantedIsCaptured == wanted /\ active /\ ~preparing => window \/ dropped

ImmersiveTypeOK ==
  /\ {view, mapped, active, xfocus, top, wanted, preparing, window, own, focus_watch,
      registry, manager, dropped} \subseteq BOOLEAN
  /\ held \in 0 .. 1
=============================================================================
