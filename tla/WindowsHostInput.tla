------------------------- MODULE WindowsHostInput -------------------------
(***************************************************************************)
(* Host-side input of windows/hardware_simulator_plugin.cpp: the platform  *)
(* thread runs performKeyEvent, performTouch*, performPen*,                *)
(* performMouseButton and clearAllPressedEvents, one call at a time, while *)
(* EventMonitorThread re-sends what is held down.  Both send input; only   *)
(* the tables of held keys and touches, and the pen, are protected by      *)
(* g_event_mutex.                                                          *)
(*                                                                         *)
(* Coordinates, scan codes, pressure and tilt are left out; a screen id is *)
(* kept because an input on an unknown screen is dropped half-way.  What   *)
(* the plugin last asked the system to do is recorded per key, per touch   *)
(* and for the pen (askedKey, askedTouch, askedPen).                       *)
(***************************************************************************)
EXTENDS Naturals, Sequences, FiniteSets, SequencesExt

CONSTANTS
  Keys, TouchIds, NSlots, Screens, Buttons,
  Workloads,     \* what an application may use: "keys" (buttons and pen too), "touch"
  HoverIdle,     \* PEN_HOVER_IDLE_TIMEOUT in iterations of the monitor loop
  MaxEvents,     \* bound on the calls made by the application
  MaxWire        \* bound on button events under way to the desktop service

NoKey    == 0    \* initial g_last_known_key_down; 0 is not a virtual key
NoScreen == 0

ASSUME HostAssumption ==
  /\ NoKey \notin Keys /\ NoScreen \notin Screens
  /\ TouchIds \subseteq Nat
  /\ NSlots \in Nat \ {0} /\ HoverIdle \in Nat \ {0}
  /\ MaxEvents \in Nat /\ MaxWire \in Nat
  /\ Workloads \subseteq {"keys", "touch"}
  /\ IsFiniteSet(Buttons)

VARIABLES
  g_key_states, g_last_known_key_down, askedKey,
  g_touchInfo, g_activeTouchSlots,
  g_touch_states,  \* the screen of every held touch, NoScreen if not held
  askedTouch,
  g_penInfo,       \* the pointer flags of the pen
  askedPen,        \* the flags of the last frame sent for the pen
  penIdle,         \* time since g_last_pen_input_time, saturating
  seenIdle,        \* the same at the monitor's `now', taken before the lock
  osButton, wire,  \* buttons down in the system; events the service still holds
  static_monitors_,
  plat,            \* what the platform thread is in the middle of
  mon, monTodo,    \* where EventMonitorThread is; touches it has yet to visit
  g_thread_running, life,
  cleared,         \* a clearAllPressedEvents returned and nothing was pressed since
  settled,         \* ... and no button event was under way when it ran
  workload,        \* which of Workloads this application uses
  events

keyVars    == <<g_key_states, g_last_known_key_down, askedKey>>
touchVars  == <<g_touchInfo, g_activeTouchSlots, g_touch_states, askedTouch>>
penVars    == <<g_penInfo, askedPen, penIdle, seenIdle>>
buttonVars == <<osButton, wire>>
monVars    == <<mon, monTodo>>
lifeVars   == <<g_thread_running, life>>
ghosts     == <<cleared, settled>>
vars == <<keyVars, touchVars, penVars, buttonVars, static_monitors_, plat,
          monVars, lifeVars, ghosts, workload, events>>

Slots     == 1 .. NSlots
Slot      == [id : TouchIds \cup {0}, flags : {"none", "contact", "up"}]
EdgeFlags == {"down", "up", "update"}
PenFlags  == EdgeFlags \cup {"inrange", "incontact"}
Idle      == [op |-> "idle"]

\* g_event_mutex is held by the monitor between its key check and its pen check.
MutexFree == mon \notin {"touch", "touchSend", "pen"}

Init ==
  /\ g_key_states = {} /\ g_last_known_key_down = NoKey
  /\ askedKey = [k \in Keys |-> "none"]
  /\ g_touchInfo = [i \in Slots |-> [id |-> 0, flags |-> "none"]]
  /\ g_activeTouchSlots = 0
  /\ g_touch_states = [t \in TouchIds |-> NoScreen]
  /\ askedTouch = [t \in TouchIds |-> "none"]
  /\ g_penInfo = {} /\ askedPen = {} /\ penIdle = 0 /\ seenIdle = 0
  /\ osButton = [b \in Buttons |-> FALSE] /\ wire = <<>>
  /\ static_monitors_ = Screens
  /\ plat = Idle
  /\ mon = "top" /\ monTodo = {}
  /\ g_thread_running = TRUE /\ life = "alive"
  /\ cleared = FALSE /\ settled = FALSE /\ events = 0
  /\ workload \in Workloads

\* A call of the application: the platform thread is idle and still serving.
Call ==
  /\ life = "alive" /\ plat = Idle
  /\ events < MaxEvents
  /\ events' = events + 1

----------------------------------------------------------------------------
(* Keyboard.                                                               *)

\* performKeyEvent up to its send; g_key_states is updated after it.
PressKey(k, isDown) ==
  /\ Call
  /\ askedKey' = [askedKey EXCEPT ![k] = IF isDown THEN "down" ELSE "up"]
  /\ plat' = [op |-> "key", key |-> k, isDown |-> isDown]
  /\ cleared' = (cleared /\ ~isDown)
  /\ UNCHANGED <<g_key_states, g_last_known_key_down, touchVars, penVars,
                 buttonVars, static_monitors_, monVars, lifeVars, settled>>

\* Mutant: the released key stays in the table.
TrackKeyForgetsErase ==
  /\ plat.op = "key" /\ MutexFree
  /\ g_key_states' = IF plat.isDown THEN g_key_states \cup {plat.key} ELSE g_key_states
  /\ g_last_known_key_down' = IF plat.isDown THEN plat.key ELSE g_last_known_key_down
  /\ plat' = Idle
  /\ UNCHANGED <<askedKey, touchVars, penVars, buttonVars, static_monitors_,
                 monVars, lifeVars, ghosts, events>>

\* performKeyEvent after its send.
TrackKey ==
  /\ plat.op = "key" /\ MutexFree
  /\ g_key_states' = IF plat.isDown THEN g_key_states \cup {plat.key}
                                    ELSE g_key_states \ {plat.key}
  /\ g_last_known_key_down' = IF plat.isDown THEN plat.key ELSE g_last_known_key_down
  /\ plat' = Idle
  /\ UNCHANGED <<askedKey, touchVars, penVars, buttonVars, static_monitors_,
                 monVars, lifeVars, ghosts, events>>

----------------------------------------------------------------------------
(* Touch.  g_touchInfo is written and sent without the mutex.              *)

\* Mutant: a slot whose touch was lifted is given to the next touch.
SlotOfRecycled(t) ==
  LET own  == {i \in Slots : g_touchInfo[i].id = t}
      free == {i \in Slots : g_touchInfo[i].flags # "contact"}
  IN  IF own # {} THEN Min(own) ELSE IF free # {} THEN Min(free) ELSE 0

\* The slot performTouchEvent uses: the first that carries the id, or else the
\* first whose flags are still POINTER_FLAG_NONE, or none (0).
SlotOf(t) ==
  LET own  == {i \in Slots : g_touchInfo[i].id = t}
      free == {i \in Slots : g_touchInfo[i].flags = "none"}
  IN  IF own # {} THEN Min(own) ELSE IF free # {} THEN Min(free) ELSE 0

\* Mutant: the count of active slots is not raised.
ClaimSlotOnly(t, i, flags) ==
  /\ g_touchInfo' = [g_touchInfo EXCEPT ![i] = [id |-> t, flags |-> flags]]
  /\ UNCHANGED g_activeTouchSlots

\* Claiming that slot: only a slot found free raises g_activeTouchSlots.
ClaimSlot(t, i, flags) ==
  /\ g_touchInfo' = [g_touchInfo EXCEPT ![i] = [id |-> t, flags |-> flags]]
  /\ g_activeTouchSlots' = IF g_touchInfo[i].id = t \/ g_activeTouchSlots > i
                             THEN g_activeTouchSlots ELSE i

\* performTouchEvent up to its send.  On an unknown screen it returns after the
\* slot was claimed and before its flags are written.
WriteTouch(t, s, isDown) ==
  LET i == SlotOf(t) IN
  IF i = 0 THEN UNCHANGED <<g_touchInfo, g_activeTouchSlots>>
  ELSE ClaimSlot(t, i, IF s \notin static_monitors_ THEN g_touchInfo[i].flags
                       ELSE IF isDown THEN "contact" ELSE "up")

\* A frame carries the first g_activeTouchSlots slots.
Frame(info, n, asked) ==
  [t \in TouchIds |->
    LET mine == {i \in 1 .. n : info[i].id = t /\ info[i].flags # "none"}
    IN  IF mine = {} THEN asked[t] ELSE info[Min(mine)].flags]

TouchEvent(t, s, isDown) ==
  /\ Call
  /\ WriteTouch(t, s, isDown)
  /\ plat' = IF SlotOf(t) = 0 \/ s \notin static_monitors_ THEN Idle
             ELSE [op |-> "touchSend", id |-> t, screen |-> s, isDown |-> isDown]
  /\ cleared' = (cleared /\ ~isDown)
  /\ UNCHANGED <<keyVars, g_touch_states, askedTouch, penVars, buttonVars,
                 static_monitors_, monVars, lifeVars, settled>>

SendTouch ==
  /\ plat.op \in {"touchSend", "moveSend"}
  /\ askedTouch' = Frame(g_touchInfo, g_activeTouchSlots, askedTouch)
  /\ plat' = IF plat.op = "moveSend" THEN Idle ELSE [plat EXCEPT !.op = "touchTrack"]
  /\ UNCHANGED <<keyVars, g_touchInfo, g_activeTouchSlots, g_touch_states, penVars,
                 buttonVars, static_monitors_, monVars, lifeVars, ghosts, events>>

\* Mutant: a lifted touch stays in the table.
TrackTouchForgetsErase ==
  /\ plat.op = "touchTrack" /\ MutexFree
  /\ g_touch_states' = [g_touch_states EXCEPT ![plat.id] = plat.screen]
  /\ plat' = Idle
  /\ UNCHANGED <<keyVars, g_touchInfo, g_activeTouchSlots, askedTouch, penVars,
                 buttonVars, static_monitors_, monVars, lifeVars, ghosts, events>>

TrackTouch ==
  /\ plat.op = "touchTrack" /\ MutexFree
  /\ g_touch_states' = [g_touch_states EXCEPT
                          ![plat.id] = IF plat.isDown THEN plat.screen ELSE NoScreen]
  /\ plat' = Idle
  /\ UNCHANGED <<keyVars, g_touchInfo, g_activeTouchSlots, askedTouch, penVars,
                 buttonVars, static_monitors_, monVars, lifeVars, ghosts, events>>

\* performTouchMove: the slot must carry the id already (unused slots carry 0).
TouchMove(t, s) ==
  LET own == {i \in Slots : g_touchInfo[i].id = t} IN
  /\ Call
  /\ own # {} /\ s \in static_monitors_
  /\ g_touchInfo' = [g_touchInfo EXCEPT ![Min(own)].flags = "contact"]
  /\ plat' = [op |-> "moveTrack", id |-> t, screen |-> s]
  /\ cleared' = FALSE
  /\ UNCHANGED <<keyVars, g_activeTouchSlots, g_touch_states, askedTouch, penVars,
                 buttonVars, static_monitors_, monVars, lifeVars, settled>>

TrackMove ==
  /\ plat.op = "moveTrack" /\ MutexFree
  /\ g_touch_states' = [g_touch_states EXCEPT
                          ![plat.id] = IF @ = NoScreen THEN NoScreen ELSE plat.screen]
  /\ plat' = [op |-> "moveSend"]
  /\ UNCHANGED <<keyVars, g_touchInfo, g_activeTouchSlots, askedTouch, penVars,
                 buttonVars, static_monitors_, monVars, lifeVars, ghosts, events>>

----------------------------------------------------------------------------
(* Pen: every call holds g_event_mutex from its first to its last access.  *)

keepPenEdgeTriggeredFlags(flags)  == flags   \* mutant
clearPenEdgeTriggeredFlags(flags) == flags \ EdgeFlags

hasActivePenPointer    == g_penInfo # {}
hasHoverOnlyPenPointer == "inrange" \in g_penInfo /\ "incontact" \notin g_penInfo

\* send_pen_input, then clearPenEdgeTriggeredFlags and recordPenInputAfterSend.
SendPen(flags) ==
  /\ askedPen' = flags
  /\ g_penInfo' = clearPenEdgeTriggeredFlags(flags)
  /\ penIdle' = 0 /\ seenIdle' = 0

PenCall(s) == Call /\ MutexFree /\ s \in static_monitors_

PenDown == SendPen({"inrange", "incontact", "down"})
PenUp   == SendPen((g_penInfo \ {"inrange", "incontact"}) \cup {"up"})
PenMove == hasActivePenPointer /\ SendPen({"inrange", "incontact", "update"})
PenHover == SendPen({"inrange", "update"})

Pen(s) ==
  /\ PenCall(s)
  /\ PenDown \/ PenUp \/ PenMove \/ PenHover
  /\ cleared' = FALSE
  /\ UNCHANGED <<keyVars, touchVars, buttonVars, static_monitors_, plat, monVars,
                 lifeVars, settled>>

\* The frame clearActivePenPointer sends: an in-contact pen goes up, a hovering
\* one merely leaves the range.
LeaveFlags ==
  (g_penInfo \ {"inrange", "incontact"})
    \cup (IF "incontact" \in g_penInfo THEN {"up"} ELSE {"update"})

clearActivePenPointer ==
  IF hasActivePenPointer THEN SendPen(LeaveFlags) ELSE UNCHANGED penVars

----------------------------------------------------------------------------
(* Mouse buttons are not tracked.  An event is either accepted by the      *)
(* desktop service, which injects it later, or injected at once.           *)

\* send_input for the button events es, of different buttons: each is accepted
\* by the service or, while there is no connection, injected locally.
performMouseButton(es) ==
  \E accepted \in SUBSET es :
    /\ Len(wire) + Cardinality(accepted) <= MaxWire
    /\ wire' = wire \o SetToSeq(accepted)
    /\ osButton' = [b \in Buttons |->
         IF [b |-> b, down |-> TRUE] \in es \ accepted THEN TRUE
         ELSE IF [b |-> b, down |-> FALSE] \in es \ accepted THEN FALSE
         ELSE osButton[b]]

PressButton(b, isDown) ==
  /\ Call
  /\ performMouseButton({[b |-> b, down |-> isDown]})
  /\ cleared' = (cleared /\ ~isDown)
  /\ UNCHANGED <<keyVars, touchVars, penVars, static_monitors_, plat, monVars,
                 lifeVars, settled>>

\* The service injects the oldest event it holds.
ServiceInjects ==
  /\ wire # <<>>
  /\ osButton' = [osButton EXCEPT ![Head(wire).b] = Head(wire).down]
  /\ wire' = Tail(wire)
  /\ UNCHANGED <<keyVars, touchVars, penVars, static_monitors_, plat, monVars,
                 lifeVars, ghosts, events>>

----------------------------------------------------------------------------
(* clearAllPressedEvents, and the screens.                                 *)

\* Releasing an element erases it from the table that the range-for walks: the
\* next increment reads a freed node.  The walk may still visit every element,
\* or stop early, or fault (ClearFaults).  The first element is always visited.
Visits(S) == {V \in SUBSET S : S # {} => V # {}}

HeldTouches == {t \in TouchIds : g_touch_states[t] # NoScreen}

\* Mutant: the button state is tested the wrong way round.
ReleasesOfUp   == {[b |-> b, down |-> FALSE] : b \in {c \in Buttons : ~osButton[c]}}
\* A release for every button GetAsyncKeyState reports down.
ButtonReleases == {[b |-> b, down |-> FALSE] : b \in {c \in Buttons : osButton[c]}}

ClearKeys(visited) ==
  /\ askedKey' = [k \in Keys |-> IF k \in visited THEN "up" ELSE askedKey[k]]
  /\ g_key_states' = {} /\ g_last_known_key_down' = NoKey

\* Every visited touch that is on a known screen goes up and one frame is sent.
ClearTouches(visited) ==
  LET up   == {t \in visited : g_touch_states[t] \in static_monitors_}
      info == [i \in Slots |-> IF \E t \in up : SlotOf(t) = i
                                 THEN [g_touchInfo[i] EXCEPT !.flags = "up"]
                                 ELSE g_touchInfo[i]]
  IN  /\ g_touchInfo' = info
      /\ askedTouch' = IF up = {} THEN askedTouch
                       ELSE Frame(info, g_activeTouchSlots, askedTouch)
      /\ g_touch_states' = [t \in TouchIds |-> NoScreen]
      /\ UNCHANGED g_activeTouchSlots

clearAllPressedEvents ==
  /\ Call /\ MutexFree
  /\ \E V \in Visits(g_key_states) : ClearKeys(V)
  /\ \E V \in Visits(HeldTouches) : ClearTouches(V)
  /\ clearActivePenPointer
  /\ performMouseButton(ButtonReleases)
  /\ cleared' = TRUE
  /\ settled' = (wire = <<>>)
  /\ UNCHANGED <<static_monitors_, plat, monVars, lifeVars>>

ClearFaults ==
  /\ Call /\ MutexFree
  /\ g_key_states # {} \/ HeldTouches # {}
  /\ life' = "crashed"
  /\ UNCHANGED <<keyVars, touchVars, penVars, buttonVars, static_monitors_, plat,
                 monVars, g_thread_running, ghosts>>

\* WM_DISPLAYCHANGE: a display appears or disappears.
UpdateStaticMonitors ==
  /\ Call
  /\ static_monitors_' \in SUBSET Screens \ {static_monitors_}
  /\ UNCHANGED <<keyVars, touchVars, penVars, buttonVars, plat, monVars, lifeVars, ghosts>>

----------------------------------------------------------------------------
(* EventMonitorThread.  now is taken before the mutex.                     *)

\* Mutant: the loop does not look at g_thread_running.
MonTopForever ==
  /\ mon = "top" /\ life # "crashed"
  /\ mon' = "lock"
  /\ seenIdle' = penIdle
  /\ UNCHANGED <<keyVars, touchVars, g_penInfo, askedPen, penIdle, buttonVars,
                 static_monitors_, plat, monTodo, lifeVars, ghosts, events>>

MonTop ==
  /\ mon = "top" /\ life # "crashed"
  /\ mon' = IF g_thread_running THEN "lock" ELSE "exit"
  /\ seenIdle' = penIdle
  /\ UNCHANGED <<keyVars, touchVars, g_penInfo, askedPen, penIdle, buttonVars,
                 static_monitors_, plat, monTodo, lifeVars, ghosts, events>>

\* Mutant: g_key_states[g_last_known_key_down] without the find inserts the key.
MonKeysInserts ==
  /\ mon = "lock" /\ life # "crashed"
  /\ g_key_states' = g_key_states \cup {g_last_known_key_down}
  /\ mon' = "touch"
  /\ monTodo' = HeldTouches
  /\ UNCHANGED <<askedKey, g_last_known_key_down, touchVars, penVars, buttonVars,
                 static_monitors_, plat, lifeVars, ghosts, events>>

\* Lock; repeat the last key if it is held (and 500 ms old, or not yet).
MonKeys ==
  /\ mon = "lock" /\ life # "crashed"
  /\ \/ /\ g_last_known_key_down \in g_key_states
        /\ askedKey' = [askedKey EXCEPT ![g_last_known_key_down] = "down"]
     \/ UNCHANGED askedKey
  /\ mon' = "touch"
  /\ monTodo' = HeldTouches
  /\ UNCHANGED <<g_key_states, g_last_known_key_down, touchVars, penVars, buttonVars,
                 static_monitors_, plat, lifeVars, ghosts, events>>

\* Visit one held touch; when it is 300 ms old its slot goes down again.
MonTouch ==
  /\ mon = "touch" /\ life # "crashed"
  /\ \E t \in monTodo :
       /\ monTodo' = monTodo \ {t}
       /\ \/ /\ WriteTouch(t, g_touch_states[t], TRUE)
             /\ mon' = IF SlotOf(t) = 0 \/ g_touch_states[t] \notin static_monitors_
                         THEN "touch" ELSE "touchSend"
          \/ UNCHANGED <<g_touchInfo, g_activeTouchSlots, mon>>
  /\ UNCHANGED <<keyVars, g_touch_states, askedTouch, penVars, buttonVars,
                 static_monitors_, plat, lifeVars, ghosts, events>>

MonTouchSend ==
  /\ mon = "touchSend" /\ life # "crashed"
  /\ askedTouch' = Frame(g_touchInfo, g_activeTouchSlots, askedTouch)
  /\ mon' = "touch"
  /\ UNCHANGED <<keyVars, g_touchInfo, g_activeTouchSlots, g_touch_states, penVars,
                 buttonVars, static_monitors_, plat, monTodo, lifeVars, ghosts, events>>

MonTouchDone ==
  /\ mon = "touch" /\ monTodo = {} /\ life # "crashed"
  /\ mon' = "pen"
  /\ UNCHANGED <<keyVars, touchVars, penVars, buttonVars, static_monitors_, plat,
                 monTodo, lifeVars, ghosts, events>>

PenExpired == hasHoverOnlyPenPointer /\ seenIdle >= HoverIdle

\* The pen check, unlock and sleep: an idle hover is taken out of range, any
\* other active pen is refreshed (when 50 ms old).  At least 50 ms pass.
MonPen ==
  /\ mon = "pen" /\ life # "crashed"
  /\ \/ PenExpired /\ clearActivePenPointer
     \/ /\ ~PenExpired
        /\ askedPen' \in IF hasActivePenPointer THEN {askedPen, g_penInfo} ELSE {askedPen}
        /\ penIdle' \in IF penIdle < HoverIdle THEN penIdle + 1 .. HoverIdle ELSE {HoverIdle}
        /\ UNCHANGED <<g_penInfo, seenIdle>>
  /\ mon' = "top"
  /\ UNCHANGED <<keyVars, touchVars, buttonVars, static_monitors_, plat, monTodo,
                 lifeVars, ghosts, events>>

EventMonitorThread ==
  MonTop \/ MonKeys \/ MonTouch \/ MonTouchSend \/ MonTouchDone \/ MonPen

----------------------------------------------------------------------------
(* Destructor: StopMonitorThread, join, destroyTouchDevice, destroyPenDevice. *)

StopMonitorThread ==
  /\ life = "alive" /\ plat = Idle
  /\ life' = "stopping" /\ g_thread_running' = FALSE
  /\ UNCHANGED <<keyVars, touchVars, penVars, buttonVars, static_monitors_, plat,
                 monVars, ghosts, events>>

Destroyed ==
  /\ life' = "dead"
  /\ g_penInfo' = {} /\ penIdle' = 0 /\ seenIdle' = 0
  /\ UNCHANGED <<keyVars, touchVars, askedPen, buttonVars, static_monitors_, plat,
                 monVars, g_thread_running, ghosts, events>>

Join == life = "stopping" /\ mon = "exit" /\ Destroyed

----------------------------------------------------------------------------
Keyboard == \/ \E k \in Keys, d \in BOOLEAN : PressKey(k, d)
            \/ \E s \in Screens : Pen(s)
            \/ \E b \in Buttons, d \in BOOLEAN : PressButton(b, d)

Touch == \E t \in TouchIds, s \in Screens :
           (\E d \in BOOLEAN : TouchEvent(t, s, d)) \/ TouchMove(t, s)

InCall == TrackKey \/ SendTouch \/ TrackTouch \/ TrackMove \/ Join

Next ==
  /\ \/ workload = "keys" /\ Keyboard
     \/ workload = "touch" /\ Touch
     \/ InCall \/ clearAllPressedEvents \/ ClearFaults
     \/ UpdateStaticMonitors \/ StopMonitorThread
     \/ EventMonitorThread \/ ServiceInjects
  /\ UNCHANGED workload

Spec == Init /\ [][Next]_vars

\* The operating system schedules both threads, and a call already begun
\* finishes; the application need not make another call.
FairSpec == Spec /\ WF_vars(EventMonitorThread /\ UNCHANGED workload)
                 /\ WF_vars(InCall /\ UNCHANGED workload)

----------------------------------------------------------------------------
(* Properties.                                                             *)

\* Type correctness.
TypeOK ==
  /\ g_key_states \subseteq Keys /\ g_last_known_key_down \in Keys \cup {NoKey}
  /\ askedKey \in [Keys -> {"none", "down", "up"}]
  /\ g_touchInfo \in [Slots -> Slot] /\ g_activeTouchSlots \in 0 .. NSlots
  /\ g_touch_states \in [TouchIds -> Screens \cup {NoScreen}]
  /\ askedTouch \in [TouchIds -> {"none", "contact", "up"}]
  /\ g_penInfo \subseteq PenFlags /\ askedPen \subseteq PenFlags
  /\ penIdle \in 0 .. HoverIdle /\ seenIdle \in 0 .. HoverIdle
  /\ osButton \in [Buttons -> BOOLEAN]
  /\ wire \in Seq([b : Buttons, down : BOOLEAN]) /\ Len(wire) <= MaxWire
  /\ static_monitors_ \subseteq Screens
  /\ mon \in {"top", "lock", "touch", "touchSend", "pen", "exit"}
  /\ monTodo \subseteq TouchIds
  /\ life \in {"alive", "stopping", "dead", "crashed"}
  /\ {g_thread_running, cleared, settled} \subseteq BOOLEAN

Releasing(k) == plat.op = "key" /\ plat.key = k /\ ~plat.isDown
Lifting(t)   == plat.op \in {"touchSend", "touchTrack"} /\ plat.id = t /\ ~plat.isDown

\* A key in g_key_states is down as far as the plugin asked, unless
\* performKeyEvent sent its key-up and has not erased it yet.  So auto-repeat
\* (EventMonitorThread) never repeats a key that was released long ago.
HeldKeyIsDown == \A k \in g_key_states : askedKey[k] = "down" \/ Releasing(k)

\* The monitor presses a released key again only inside the window that
\* performKeyEvent leaves between its send and the erase: that window is the
\* one way to a key that stays down without being tracked.
KeyRevivedOnlyInWindow ==
  [][\A k \in Keys : askedKey[k] = "up" /\ askedKey'[k] = "down" /\ mon' # mon => Releasing(k)]_vars

\* A held touch owns a slot that is or was in contact, and performTouchEvent's
\* count covers that slot (touch 0 excepted: it matches a zero-initialised slot
\* and does not raise the count).
HeldTouchIsSent ==
  \A t \in HeldTouches :
    \E i \in Slots : /\ g_touchInfo[i].id = t /\ g_touchInfo[i].flags # "none"
                     /\ t # 0 => i <= g_activeTouchSlots

\* performTouchEvent never moves a pointer: once a slot has carried a touch it
\* carries that touch for ever (so NSlots different touches use up the slots).
SlotIdentityIsStable ==
  [][\A i \in Slots : g_touchInfo[i].flags # "none" => g_touchInfo'[i].id = g_touchInfo[i].id]_vars

\* A frame of send_touch_input never shows a pointer id twice.
OneSlotPerTouch ==
  \A i, j \in Slots :
    g_touchInfo[i].id = g_touchInfo[j].id /\ g_touchInfo[i].id # 0 => i = j

\* A lifted slot comes back into contact through a call of the application, or
\* through the monitor while performTouchEvent is still lifting that touch.
TouchRevivedOnlyInWindow ==
  [][\A i \in Slots :
       /\ g_touchInfo[i].flags = "up" /\ g_touchInfo'[i].flags = "contact"
       /\ events' = events
       => Lifting(g_touchInfo[i].id)]_vars

\* Between calls the system's view of the pen is the plugin's: the monitor's
\* refresh repeats the state and never an edge (a second pen-down).
PenSynced ==
  /\ g_penInfo \cap EdgeFlags = {}
  /\ life # "dead" => g_penInfo = askedPen \ EdgeFlags

\* clearAllPressedEvents releases every mouse button when no button event was
\* under way to the service: nothing is down once its releases are injected.
SettledClearReleasesButtons ==
  cleared /\ settled /\ wire = <<>> => \A b \in Buttons : ~osButton[b]

\* A hover that gets no further input goes out of range (with finitely many
\* calls), while the plugin lives.
HoverExpires == hasHoverOnlyPenPointer ~> (~hasHoverOnlyPenPointer \/ life # "alive")

\* The destructor's join returns.
DestructorReturns == life = "stopping" ~> life = "dead"

(* What the runs check, grouped.                                           *)

\* Between calls the plugin's tables and the state it asked the system for agree,
\* so the monitor repeats only what is really held: keys, pen and touches, every
\* held touch being in the frame and no pointer twice; and a clear that no button
\* event was racing leaves no button down.
BelievedIsAsked ==
  HeldKeyIsDown /\ PenSynced /\ OneSlotPerTouch /\ HeldTouchIsSent /\ SettledClearReleasesButtons

\* What was released comes back by itself only inside the window that the release
\* leaves between its send and the erase, and as the same pointer.
RevivedOnlyInWindow ==
  KeyRevivedOnlyInWindow /\ TouchRevivedOnlyInWindow /\ SlotIdentityIsStable

\* EventMonitorThread keeps doing its work and stops when asked: an idle hover
\* ends, and the destructor's join returns.
MonitorProgress == HoverExpires /\ DestructorReturns

=============================================================================
