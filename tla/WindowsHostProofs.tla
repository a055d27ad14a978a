------------------------- MODULE WindowsHostProofs --------------------------
(***************************************************************************)
(* Proofs about the Windows host's input (WindowsHostInput, part one) and  *)
(* the cursor monitor (WindowsCursorMonitor, part two), for every value of *)
(* their constants.  The two parts share nothing but the library.          *)
(*                                                                         *)
(* Neither property of part one is inductive: what the platform thread is  *)
(* in the middle of (plat) says which promise of a call is still open, and *)
(* what the monitor still has to visit (monTodo) is only right because it  *)
(* holds g_event_mutex.  HostInv states both.                              *)
(***************************************************************************)
EXTENDS WindowsHostInput, WindowsCursorMonitor,
        FiniteSetTheorems, SequenceTheorems, WellFoundedInduction, TLAPS

----------------------------------------------------------------------------
(* The inductive invariant.                                                *)

\* What the platform thread may be in the middle of.
PlatForm ==
  {Idle} \cup [op : {"key"}, key : Keys, isDown : BOOLEAN]
         \cup [op : {"touchSend", "touchTrack"}, id : TouchIds, screen : Screens,
               isDown : BOOLEAN]
         \cup [op : {"moveTrack"}, id : TouchIds, screen : Screens]
         \cup [op : {"moveSend"}]

PlatOK == plat \in PlatForm /\ events \in Nat

\* performKeyEvent has sent the key-down it is about to record.
KeyPromise == plat.op = "key" /\ plat.isDown => askedKey[plat.key] = "down"

KeyInv == HeldKeyIsDown /\ KeyPromise

\* Every claimed slot is counted, and the slot of a touch that was ever sent is
\* the first that carries its id, the one SlotOf finds.
SlotInv ==
  /\ \A i \in Slots : g_touchInfo[i].id # 0 => i <= g_activeTouchSlots
  /\ \A i, j \in Slots :
       j < i /\ g_touchInfo[i].id = g_touchInfo[j].id => g_touchInfo[i].flags = "none"

InTouch == plat.op \in {"touchSend", "touchTrack"}

\* performTouchEvent has written the slot it is about to record.
TouchPromise ==
  InTouch => /\ \E i \in Slots : /\ g_touchInfo[i].id = plat.id
                                 /\ g_touchInfo[i].flags # "none"
             /\ plat.isDown => \A i \in Slots : g_touchInfo[i].id = plat.id =>
                                 g_touchInfo[i].flags # "up"

\* A held touch is lifted in its slot only while performTouchEvent is lifting it.
UpIsLifting ==
  \A t \in HeldTouches, i \in Slots :
    g_touchInfo[i].id = t /\ g_touchInfo[i].flags = "up" => Lifting(t)

\* Under the mutex the touches the monitor has yet to visit stay held.
TodoIsHeld == mon \in {"touch", "touchSend"} => monTodo \subseteq HeldTouches

TouchInv == SlotInv /\ OneSlotPerTouch /\ HeldTouchIsSent /\ TouchPromise /\ UpIsLifting /\ TodoIsHeld

\* After a settled clear only releases are under way, one for every button that
\* is still down.
ButtonInv ==
  cleared /\ settled =>
    /\ \A i \in 1 .. Len(wire) : ~wire[i].down
    /\ \A b \in Buttons : osButton[b] => \E i \in 1 .. Len(wire) : wire[i].b = b

HostInv == KeyInv /\ PenSynced /\ TouchInv /\ ButtonInv

----------------------------------------------------------------------------
(* Lemmas about the operators.                                             *)

\* A set of naturals that is not empty has a least element.
LEMMA MinFacts ==
  ASSUME NEW S \in SUBSET Nat, S # {}
  PROVE  Min(S) \in S /\ \A y \in S : Min(S) <= y
<1> DEFINE R == {ss \in Nat \X Nat : ss[1] < ss[2]}
<1>1. IsWellFoundedOn(R, Nat)
  BY NatLessThanWellFounded, Zenon DEF OpToRel
<1>2. PICK x \in S : \A y \in S : <<y, x>> \notin R
  <2> HIDE DEF R
  <2> QED BY <1>1, WFMin, Zenon
<1>3. ASSUME NEW y \in S PROVE x <= y
  <2>1. ~(<<y, x>> \in Nat \X Nat /\ <<y, x>>[1] < <<y, x>>[2])
    BY <1>2, Zenon
  <2> QED BY <2>1
<1> QED BY <1>3, Zenon DEF Min

\* The slot a touch is given: its first own slot, else the first unused one.
LEMMA SlotOfFacts ==
  ASSUME NEW t
  PROVE  LET own == {i \in Slots : g_touchInfo[i].id = t} IN
         /\ own # {} => /\ SlotOf(t) \in own
                        /\ \A j \in own : SlotOf(t) <= j
         /\ own = {} /\ SlotOf(t) # 0 => /\ SlotOf(t) \in Slots
                                         /\ g_touchInfo[SlotOf(t)].flags = "none"
         /\ SlotOf(t) \in Nat
<1> DEFINE own == {i \in Slots : g_touchInfo[i].id = t}
           free == {i \in Slots : g_touchInfo[i].flags = "none"}
<1>1. own \in SUBSET Nat /\ free \in SUBSET Nat
  BY HostAssumption DEF Slots
<1>2. own # {} => Min(own) \in own /\ \A j \in own : Min(own) <= j
  BY <1>1, MinFacts
<1>3. free # {} => Min(free) \in free
  BY <1>1, MinFacts
<1>4. SlotOf(t) = IF own # {} THEN Min(own) ELSE IF free # {} THEN Min(free) ELSE 0
  BY DEF SlotOf
<1> HIDE DEF own
<1>5. CASE own # {}
  BY <1>5, <1>1, <1>2, <1>4 DEF own
<1>6. CASE own = {} /\ free # {}
  BY <1>6, <1>1, <1>3, <1>4 DEF own, Slots
<1>7. CASE own = {} /\ free = {}
  BY <1>7, <1>4 DEF own
<1> QED BY <1>5, <1>6, <1>7

\* A frame shows the flags of slots.
LEMMA FrameType ==
  ASSUME NEW info \in [Slots -> Slot], NEW n \in 0 .. NSlots,
         NEW asked \in [TouchIds -> {"none", "contact", "up"}]
  PROVE  Frame(info, n, asked) \in [TouchIds -> {"none", "contact", "up"}]
<1>1. ASSUME NEW t \in TouchIds
      PROVE  Frame(info, n, asked)[t] \in {"none", "contact", "up"}
  <2> DEFINE mine == {i \in 1 .. n : info[i].id = t /\ info[i].flags # "none"}
  <2>1. mine \in SUBSET Nat /\ mine \subseteq Slots
    BY HostAssumption DEF Slots
  <2>2. mine # {} => Min(mine) \in Slots
    BY <2>1, MinFacts
  <2>3. Frame(info, n, asked)[t] = IF mine = {} THEN asked[t] ELSE info[Min(mine)].flags
    BY DEF Frame
  <2> HIDE DEF mine
  <2> QED BY <2>2, <2>3 DEF Slot
<1> QED BY <1>1 DEF Frame

\* A finite set as a sequence: every element, once.
LEMMA SetToSeqFacts ==
  ASSUME NEW S, IsFiniteSet(S)
  PROVE  /\ SetToSeq(S) \in Seq(S) /\ Len(SetToSeq(S)) = Cardinality(S)
         /\ Cardinality(S) \in Nat
         /\ \A x \in S : \E i \in 1 .. Cardinality(S) : SetToSeq(S)[i] = x
<1>1. Cardinality(S) \in Nat
  BY FS_CardinalityType
<1>2. PICK f \in Bijection(1 .. Cardinality(S), S) : TRUE
  BY FS_CardinalityType, Zenon DEF ExistsBijection
<1>3. f \in [1 .. Cardinality(S) -> S] /\ IsInjective(f)
  BY <1>2 DEF Bijection, Injection, Surjection, IsInjective
<1>4. /\ SetToSeq(S) \in [1 .. Cardinality(S) -> S]
      /\ IsInjective(SetToSeq(S))
  BY <1>3 DEF SetToSeq
<1>5. SetToSeq(S) \in Injection(1 .. Cardinality(S), S)
  BY <1>4 DEF Injection
<1>6. SetToSeq(S) \in Surjection(1 .. Cardinality(S), S)
  <2>1. Cardinality(1 .. Cardinality(S)) = Cardinality(S)
    BY <1>1, FS_Interval
  <2> QED BY <1>5, <2>1, FS_Injection
<1>7. SetToSeq(S) \in Seq(S) /\ Len(SetToSeq(S)) = Cardinality(S)
  BY <1>1, <1>4
<1> QED BY <1>1, <1>6, <1>7 DEF Surjection

ButtonEvent == [b : Buttons, down : BOOLEAN]

\* send_input for button events: the accepted ones join the wire, behind what is
\* on it; the others take effect at once.
LEMMA ButtonFacts ==
  ASSUME wire \in Seq(ButtonEvent), NEW es \in SUBSET ButtonEvent, IsFiniteSet(es),
         performMouseButton(es)
  PROVE  /\ wire' \in Seq(ButtonEvent) /\ Len(wire') <= MaxWire
         /\ Len(wire) \in Nat /\ Len(wire') \in Nat /\ Len(wire) <= Len(wire')
         /\ \A i \in 1 .. Len(wire) : wire'[i] = wire[i]
         /\ \A i \in Len(wire) + 1 .. Len(wire') : wire'[i] \in es
         /\ \E accepted \in SUBSET es :
              /\ \A x \in accepted : \E i \in 1 .. Len(wire') : wire'[i] = x
              /\ osButton' = [b \in Buttons |->
                   IF [b |-> b, down |-> TRUE] \in es \ accepted THEN TRUE
                   ELSE IF [b |-> b, down |-> FALSE] \in es \ accepted THEN FALSE
                   ELSE osButton[b]]
<1>1. PICK accepted \in SUBSET es :
        /\ Len(wire) + Cardinality(accepted) <= MaxWire
        /\ wire' = wire \o SetToSeq(accepted)
        /\ osButton' = [b \in Buttons |->
             IF [b |-> b, down |-> TRUE] \in es \ accepted THEN TRUE
             ELSE IF [b |-> b, down |-> FALSE] \in es \ accepted THEN FALSE
             ELSE osButton[b]]
  BY Zenon DEF performMouseButton
<1> DEFINE a == SetToSeq(accepted)
           n == Cardinality(accepted)
<1>2. IsFiniteSet(accepted)
  BY FS_Subset
<1>3. /\ a \in Seq(accepted) /\ Len(a) = n /\ n \in Nat
      /\ \A x \in accepted : \E i \in 1 .. n : a[i] = x
  BY <1>2, SetToSeqFacts
<1>4. a \in Seq(ButtonEvent)
  BY <1>3, SeqMonotonic
<1>5. \A i \in 1 .. n : a[i] \in accepted
  BY <1>3, ElementOfSeq
<1> HIDE DEF a, n
<1>6. Len(wire) \in Nat
  BY LenProperties
<1>7. /\ wire' = wire \o a /\ wire' \in Seq(ButtonEvent) /\ Len(wire') = Len(wire) + n
      /\ \A i \in 1 .. Len(wire) + n :
           wire'[i] = IF i <= Len(wire) THEN wire[i] ELSE a[i - Len(wire)]
  <2>1. wire' = wire \o a
    BY <1>1 DEF a
  <2> QED BY <1>3, <1>4, <2>1, ConcatProperties, ZenonT(60)
<1>8. \A i \in Len(wire) + 1 .. Len(wire') : wire'[i] \in accepted
  BY <1>3, <1>5, <1>6, <1>7
<1>9. ASSUME NEW x \in accepted PROVE \E i \in 1 .. Len(wire') : wire'[i] = x
  <2>1. PICK i \in 1 .. n : a[i] = x
    BY <1>3
  <2>2. Len(wire) + i \in 1 .. Len(wire') /\ wire'[Len(wire) + i] = a[i]
    BY <1>3, <1>6, <1>7
  <2> QED BY <2>1, <2>2
<1>10. Len(wire') <= MaxWire /\ \A i \in 1 .. Len(wire) : wire'[i] = wire[i]
  BY <1>1, <1>3, <1>6, <1>7 DEF n
<1>11. \E acc \in SUBSET es :
              /\ \A x \in acc : \E i \in 1 .. Len(wire') : wire'[i] = x
              /\ osButton' = [b \in Buttons |->
                   IF [b |-> b, down |-> TRUE] \in es \ acc THEN TRUE
                   ELSE IF [b |-> b, down |-> FALSE] \in es \ acc THEN FALSE
                   ELSE osButton[b]]
  BY <1>1, <1>9, Zenon
<1>12. /\ Len(wire') \in Nat /\ Len(wire) <= Len(wire')
       /\ \A i \in Len(wire) + 1 .. Len(wire') : wire'[i] \in es
  BY <1>3, <1>6, <1>7, <1>8
<1> QED BY <1>6, <1>7, <1>10, <1>11, <1>12, Zenon

\* The releases a clear sends are finitely many button events.
LEMMA ReleasesFacts == ButtonReleases \in SUBSET ButtonEvent /\ IsFiniteSet(ButtonReleases)
<1> DEFINE down == {c \in Buttons : osButton[c]}
           f == [b \in down |-> [b |-> b, down |-> FALSE]]
<1>1. IsFiniteSet(down)
  BY HostAssumption, FS_Subset
<1>2. f \in Surjection(down, ButtonReleases)
  BY DEF Surjection, ButtonReleases
<1>3. IsFiniteSet(ButtonReleases)
  BY <1>1, <1>2, FS_Surjection
<1>4. FALSE \in BOOLEAN
  BY Zenon
<1>5. ASSUME NEW e \in ButtonReleases PROVE e \in ButtonEvent
  <2>1. PICK b \in Buttons : e = [b |-> b, down |-> FALSE]
    BY DEF ButtonReleases
  <2>2. [b |-> b, down |-> FALSE] \in [b : Buttons, down : BOOLEAN]
    BY <1>4
  <2> QED BY <2>1, <2>2 DEF ButtonEvent
<1> QED BY <1>3, <1>5, Zenon

----------------------------------------------------------------------------
(* Types.                                                                  *)

TypeKeys ==
  /\ g_key_states \subseteq Keys /\ g_last_known_key_down \in Keys \cup {NoKey}
  /\ askedKey \in [Keys -> {"none", "down", "up"}]

TypeTouch ==
  /\ g_touchInfo \in [Slots -> Slot] /\ g_activeTouchSlots \in 0 .. NSlots
  /\ g_touch_states \in [TouchIds -> Screens \cup {NoScreen}]
  /\ askedTouch \in [TouchIds -> {"none", "contact", "up"}]
  /\ monTodo \subseteq TouchIds

TypePen ==
  /\ g_penInfo \subseteq PenFlags /\ askedPen \subseteq PenFlags
  /\ penIdle \in 0 .. HoverIdle /\ seenIdle \in 0 .. HoverIdle

TypeWire == wire \in Seq(ButtonEvent) /\ Len(wire) <= MaxWire

TypeModes ==
  /\ static_monitors_ \subseteq Screens
  /\ mon \in {"top", "lock", "touch", "touchSend", "pen", "exit"}
  /\ life \in {"alive", "stopping", "dead", "crashed"}

TypeFlags ==
  /\ osButton \in [Buttons -> BOOLEAN]
  /\ {g_thread_running, cleared, settled} \subseteq BOOLEAN

LEMMA TypeParts ==
  TypeOK <=> TypeKeys /\ TypeTouch /\ TypePen /\ TypeWire /\ TypeModes /\ TypeFlags
BY DEF TypeOK, TypeKeys, TypeTouch, TypePen, TypeWire, TypeModes, TypeFlags, ButtonEvent

\* The steps of the two threads, of the service and of the application.
LEMMA Steps ==
  ASSUME [Next]_vars
  PROVE  \/ \E k \in Keys, d \in BOOLEAN : PressKey(k, d)
         \/ \E s \in Screens : Pen(s)
         \/ \E b \in Buttons, d \in BOOLEAN : PressButton(b, d)
         \/ \E t \in TouchIds, s \in Screens, d \in BOOLEAN : TouchEvent(t, s, d)
         \/ \E t \in TouchIds, s \in Screens : TouchMove(t, s)
         \/ TrackKey \/ SendTouch \/ TrackTouch \/ TrackMove \/ Join
         \/ clearAllPressedEvents \/ ClearFaults \/ UpdateStaticMonitors
         \/ StopMonitorThread \/ MonTop \/ MonKeys \/ MonTouch \/ MonTouchSend
         \/ MonTouchDone \/ MonPen \/ ServiceInjects \/ UNCHANGED vars
BY Zenon DEF Next, Keyboard, Touch, InCall, EventMonitorThread

\* What a call is in the middle of stays well formed, and calls are counted.
LEMMA PlatStep == PlatOK /\ [Next]_vars => PlatOK'
<1> SUFFICES ASSUME PlatOK, [Next]_vars PROVE PlatOK'
  OBVIOUS
<1> USE DEF PlatOK, PlatForm, Idle, Call, buttonVars, monVars, lifeVars, ghosts
<1>1. ASSUME NEW k \in Keys, NEW d \in BOOLEAN, PressKey(k, d) PROVE PlatOK'
  BY <1>1 DEF PressKey
<1>2. ASSUME NEW t \in TouchIds, NEW s \in Screens, NEW d \in BOOLEAN, TouchEvent(t, s, d)
      PROVE  PlatOK'
  BY <1>2 DEF TouchEvent
<1>3. ASSUME NEW t \in TouchIds, NEW s \in Screens, TouchMove(t, s) PROVE PlatOK'
  BY <1>3 DEF TouchMove
<1>4. CASE TrackKey \/ TrackTouch \/ TrackMove
  BY <1>4 DEF TrackKey, TrackTouch, TrackMove
<1>5. CASE SendTouch
  BY <1>5 DEF SendTouch
<1>6. ASSUME NEW s \in Screens, Pen(s) PROVE PlatOK'
  BY <1>6 DEF Pen, PenCall
<1>7. ASSUME NEW b \in Buttons, NEW d \in BOOLEAN, PressButton(b, d) PROVE PlatOK'
  BY <1>7 DEF PressButton
<1>8. CASE clearAllPressedEvents \/ ClearFaults \/ UpdateStaticMonitors
  BY <1>8 DEF clearAllPressedEvents, ClearFaults, UpdateStaticMonitors
<1>9. CASE StopMonitorThread \/ Join \/ ServiceInjects
  BY <1>9 DEF StopMonitorThread, Join, Destroyed, ServiceInjects
<1>10. CASE MonTop \/ MonKeys \/ MonTouch \/ MonTouchSend \/ MonTouchDone \/ MonPen
  BY <1>10 DEF MonTop, MonKeys, MonTouch, MonTouchSend, MonTouchDone, MonPen
<1>11. CASE UNCHANGED vars
  BY <1>11 DEF vars
<1> QED
  BY <1>1, <1>2, <1>3, <1>4, <1>5, <1>6, <1>7, <1>8, <1>9, <1>10, <1>11, Steps, Zenon

\* Which steps touch the keys, the touches, the pen and the buttons.
LEMMA KeyFrame ==
  ASSUME [Next]_vars
  PROVE  \/ \E k \in Keys, d \in BOOLEAN : PressKey(k, d)
         \/ TrackKey \/ MonKeys \/ clearAllPressedEvents
         \/ UNCHANGED keyVars
BY Steps, Zenon DEF vars, Pen, PressButton, TouchEvent, TouchMove, SendTouch, TrackTouch,
   TrackMove, Join, Destroyed, ClearFaults, UpdateStaticMonitors, StopMonitorThread,
   MonTop, MonTouch, MonTouchSend, MonTouchDone, MonPen, ServiceInjects

LEMMA TouchFrame ==
  ASSUME [Next]_vars
  PROVE  \/ \E t \in TouchIds, s \in Screens, d \in BOOLEAN : TouchEvent(t, s, d)
         \/ \E t \in TouchIds, s \in Screens : TouchMove(t, s)
         \/ SendTouch \/ TrackTouch \/ TrackMove \/ clearAllPressedEvents
         \/ MonTouch \/ MonTouchSend
         \/ UNCHANGED touchVars
BY Steps, Zenon DEF vars, PressKey, Pen, PressButton, TrackKey, Join, Destroyed,
   ClearFaults, UpdateStaticMonitors, StopMonitorThread, MonTop, MonKeys,
   MonTouchDone, MonPen, ServiceInjects

LEMMA PenFrame ==
  ASSUME [Next]_vars
  PROVE  \/ \E s \in Screens : Pen(s)
         \/ clearAllPressedEvents \/ MonTop \/ MonPen \/ Join
         \/ UNCHANGED penVars
BY Steps, Zenon DEF vars, PressKey, PressButton, TouchEvent, TouchMove, TrackKey,
   SendTouch, TrackTouch, TrackMove, ClearFaults, UpdateStaticMonitors,
   StopMonitorThread, MonKeys, MonTouch, MonTouchSend, MonTouchDone, ServiceInjects

LEMMA ButtonFrame ==
  ASSUME [Next]_vars
  PROVE  \/ \E b \in Buttons, d \in BOOLEAN : PressButton(b, d)
         \/ clearAllPressedEvents \/ ServiceInjects
         \/ UNCHANGED buttonVars
BY Steps, Zenon DEF vars, PressKey, Pen, TouchEvent, TouchMove, TrackKey, SendTouch,
   TrackTouch, TrackMove, Join, Destroyed, ClearFaults, UpdateStaticMonitors,
   StopMonitorThread, MonTop, MonKeys, MonTouch, MonTouchSend, MonTouchDone, MonPen

LEMMA TypeKeysStep == TypeKeys /\ PlatOK /\ [Next]_vars => TypeKeys'
<1> SUFFICES ASSUME TypeKeys, PlatOK, [Next]_vars PROVE TypeKeys'
  OBVIOUS
<1> USE DEF TypeKeys
<1>1. ASSUME NEW k \in Keys, NEW d \in BOOLEAN, PressKey(k, d) PROVE TypeKeys'
  BY <1>1 DEF PressKey
<1>2. CASE TrackKey
  BY <1>2 DEF TrackKey, PlatOK, PlatForm, Idle
<1>3. CASE MonKeys
  BY <1>3 DEF MonKeys
<1>4. CASE clearAllPressedEvents
  BY <1>4 DEF clearAllPressedEvents, ClearKeys, Visits
<1>5. CASE UNCHANGED keyVars
  BY <1>5 DEF keyVars
<1> QED BY <1>1, <1>2, <1>3, <1>4, <1>5, KeyFrame, Zenon

\* Claiming a slot for a touch on some screen keeps the slots well formed.
LEMMA WriteTouchType ==
  ASSUME TypeTouch, NEW t \in TouchIds, NEW s, NEW d, WriteTouch(t, s, d)
  PROVE  g_touchInfo' \in [Slots -> Slot] /\ g_activeTouchSlots' \in 0 .. NSlots
<1>1. SlotOf(t) # 0 => SlotOf(t) \in Slots
  BY SlotOfFacts
<1>2. CASE SlotOf(t) = 0
  BY <1>2 DEF WriteTouch, TypeTouch
<1>3. CASE SlotOf(t) # 0
  <2>1. PICK f \in {"none", "contact", "up"} : ClaimSlot(t, SlotOf(t), f)
    BY <1>1, <1>3 DEF WriteTouch, TypeTouch, Slot
  <2>2. [id |-> t, flags |-> f] \in Slot
    BY DEF Slot
  <2> QED BY <1>1, <1>3, <2>1, <2>2, HostAssumption DEF ClaimSlot, TypeTouch, Slots
<1> QED BY <1>2, <1>3

LEMMA TypeTouchStep == TypeTouch /\ PlatOK /\ [Next]_vars => TypeTouch'
<1> SUFFICES ASSUME TypeTouch, PlatOK, [Next]_vars PROVE TypeTouch'
  OBVIOUS
<1>0. monTodo' = monTodo \/ monTodo' = HeldTouches \/ monTodo' \subseteq monTodo
  BY Steps, Zenon DEF vars, monVars, PressKey, Pen, PressButton, TouchEvent, TouchMove,
     TrackKey, SendTouch, TrackTouch, TrackMove, Join, Destroyed, ClearFaults,
     UpdateStaticMonitors, StopMonitorThread, MonTop, MonKeys, MonTouch, MonTouchSend,
     MonTouchDone, MonPen, ServiceInjects, clearAllPressedEvents
<1>00. monTodo' \subseteq TouchIds
  BY <1>0 DEF TypeTouch, HeldTouches
<1>1. ASSUME NEW t \in TouchIds, NEW s \in Screens, NEW d \in BOOLEAN, TouchEvent(t, s, d)
      PROVE  TypeTouch'
  BY <1>00, <1>1, WriteTouchType DEF TouchEvent, TypeTouch
<1>2. ASSUME NEW t \in TouchIds, NEW s \in Screens, TouchMove(t, s) PROVE TypeTouch'
  <2> DEFINE own == {i \in Slots : g_touchInfo[i].id = t}
  <2>1. own # {} => Min(own) \in Slots
    BY HostAssumption, MinFacts DEF Slots
  <2> QED BY <1>00, <1>2, <2>1 DEF TouchMove, TypeTouch, Slot
<1>3. CASE SendTouch \/ MonTouchSend
  BY <1>00, <1>3, FrameType DEF SendTouch, MonTouchSend, TypeTouch
<1>4. CASE TrackTouch \/ TrackMove
  BY <1>00, <1>4 DEF TrackTouch, TrackMove, TypeTouch, PlatOK, PlatForm, Idle
<1>5. CASE clearAllPressedEvents
  <2>1. PICK V \in Visits(HeldTouches) : ClearTouches(V)
    BY <1>5 DEF clearAllPressedEvents
  <2> DEFINE up   == {t \in V : g_touch_states[t] \in static_monitors_}
             info == [i \in Slots |-> IF \E t \in up : SlotOf(t) = i
                                        THEN [g_touchInfo[i] EXCEPT !.flags = "up"]
                                        ELSE g_touchInfo[i]]
  <2>2. info \in [Slots -> Slot]
    BY DEF TypeTouch, Slot
  <2>3. /\ g_touchInfo' = info
        /\ askedTouch' = IF up = {} THEN askedTouch
                         ELSE Frame(info, g_activeTouchSlots, askedTouch)
        /\ g_touch_states' = [t \in TouchIds |-> NoScreen]
        /\ g_activeTouchSlots' = g_activeTouchSlots
    BY <2>1 DEF ClearTouches
  <2> HIDE DEF info, up
  <2> QED BY <1>00, <2>2, <2>3, FrameType DEF TypeTouch
<1>6. CASE MonTouch
  <2>1. PICK t \in monTodo : \/ WriteTouch(t, g_touch_states[t], TRUE)
                             \/ UNCHANGED <<g_touchInfo, g_activeTouchSlots>>
    BY <1>6 DEF MonTouch
  <2>2. g_touchInfo' \in [Slots -> Slot] /\ g_activeTouchSlots' \in 0 .. NSlots
    BY <2>1, WriteTouchType DEF TypeTouch
  <2> QED BY <1>00, <1>6, <2>2 DEF MonTouch, TypeTouch
<1>7. CASE UNCHANGED touchVars
  BY <1>00, <1>7 DEF touchVars, TypeTouch
<1> QED BY <1>1, <1>2, <1>3, <1>4, <1>5, <1>6, <1>7, TouchFrame, Zenon

LEMMA TypePenStep == TypePen /\ [Next]_vars => TypePen'
<1> SUFFICES ASSUME TypePen, [Next]_vars PROVE TypePen'
  OBVIOUS
<1>0. ASSUME NEW flags, flags \subseteq PenFlags, SendPen(flags) PROVE TypePen'
  BY <1>0, HostAssumption DEF TypePen, SendPen, clearPenEdgeTriggeredFlags
<1>01. ASSUME clearActivePenPointer PROVE TypePen'
  <2>1. LeaveFlags \subseteq PenFlags
    BY DEF LeaveFlags, TypePen, PenFlags, EdgeFlags
  <2> QED BY <1>0, <1>01, <2>1 DEF clearActivePenPointer, penVars, TypePen
<1> USE HostAssumption DEF TypePen
<1>1. ASSUME NEW s \in Screens, Pen(s) PROVE TypePen'
  <2>1. /\ {"inrange", "incontact", "down"} \subseteq PenFlags
        /\ ((g_penInfo \ {"inrange", "incontact"}) \cup {"up"}) \subseteq PenFlags
        /\ {"inrange", "incontact", "update"} \subseteq PenFlags
        /\ {"inrange", "update"} \subseteq PenFlags
    BY DEF PenFlags, EdgeFlags
  <2>2. \E flags \in SUBSET PenFlags : SendPen(flags)
    BY <1>1, <2>1, Zenon DEF Pen, PenDown, PenUp, PenMove, PenHover
  <2> QED BY <1>0, <2>2
<1>2. CASE clearAllPressedEvents
  BY <1>2, <1>01 DEF clearAllPressedEvents
<1>3. CASE MonTop
  BY <1>3 DEF MonTop
<1>4. CASE MonPen
  <2>1. CASE clearActivePenPointer
    BY <2>1, <1>01
  <2>2. CASE ~clearActivePenPointer
    BY <1>4, <2>2 DEF MonPen
  <2> QED BY <2>1, <2>2
<1>5. CASE Join
  BY <1>5 DEF Join, Destroyed
<1>6. CASE UNCHANGED penVars
  BY <1>6 DEF penVars
<1> QED BY <1>1, <1>2, <1>3, <1>4, <1>5, <1>6, PenFrame, Zenon

\* One button event is a finite set of button events.
LEMMA OneEvent ==
  ASSUME NEW b \in Buttons, NEW d \in BOOLEAN
  PROVE  /\ {[b |-> b, down |-> d]} \in SUBSET ButtonEvent
         /\ IsFiniteSet({[b |-> b, down |-> d]})
<1>1. [b |-> b, down |-> d] \in ButtonEvent
  BY Zenon DEF ButtonEvent
<1>2. IsFiniteSet({[b |-> b, down |-> d]})
  BY FS_Singleton, Zenon
<1> QED BY <1>1, <1>2, Zenon

LEMMA TypeWireStep == TypeWire /\ [Next]_vars => TypeWire'
<1> SUFFICES ASSUME TypeWire, [Next]_vars PROVE TypeWire'
  OBVIOUS
<1>1. ASSUME NEW b \in Buttons, NEW d \in BOOLEAN, PressButton(b, d) PROVE TypeWire'
  <2>1. performMouseButton({[b |-> b, down |-> d]})
    BY <1>1, Zenon DEF PressButton
  <2> QED BY <2>1, OneEvent, ButtonFacts, Zenon DEF TypeWire
<1>2. CASE clearAllPressedEvents
  BY <1>2, ReleasesFacts, ButtonFacts, Zenon DEF clearAllPressedEvents, TypeWire
<1>3. CASE ServiceInjects
  <2>1. Tail(wire) \in Seq(ButtonEvent) /\ Len(Tail(wire)) = Len(wire) - 1 /\ Len(wire) \in Nat
    BY <1>3, HeadTailProperties, LenProperties DEF ServiceInjects, TypeWire
  <2> QED BY <1>3, <2>1, HostAssumption DEF ServiceInjects, TypeWire
<1>4. CASE UNCHANGED buttonVars
  BY <1>4 DEF buttonVars, TypeWire
<1> QED BY <1>1, <1>2, <1>3, <1>4, ButtonFrame, Zenon

LEMMA TypeModesStep == TypeModes /\ [Next]_vars => TypeModes'
<1> SUFFICES ASSUME TypeModes, [Next]_vars PROVE TypeModes'
  OBVIOUS
<1> USE DEF TypeModes, monVars, lifeVars
<1>1. CASE \E k \in Keys, d \in BOOLEAN : PressKey(k, d)
  BY <1>1 DEF PressKey
<1>2. CASE \E s \in Screens : Pen(s)
  BY <1>2 DEF Pen
<1>3. CASE \E b \in Buttons, d \in BOOLEAN : PressButton(b, d)
  BY <1>3 DEF PressButton
<1>4. CASE \E t \in TouchIds, s \in Screens, d \in BOOLEAN : TouchEvent(t, s, d)
  BY <1>4 DEF TouchEvent
<1>5. CASE \E t \in TouchIds, s \in Screens : TouchMove(t, s)
  BY <1>5 DEF TouchMove
<1>6. CASE TrackKey \/ SendTouch \/ TrackTouch \/ TrackMove \/ ServiceInjects
  BY <1>6 DEF TrackKey, SendTouch, TrackTouch, TrackMove, ServiceInjects
<1>7. CASE clearAllPressedEvents \/ ClearFaults \/ UpdateStaticMonitors
  BY <1>7 DEF clearAllPressedEvents, ClearFaults, UpdateStaticMonitors
<1>8. CASE StopMonitorThread \/ Join
  BY <1>8 DEF StopMonitorThread, Join, Destroyed
<1>9. CASE MonTop \/ MonKeys \/ MonTouch \/ MonTouchSend \/ MonTouchDone \/ MonPen
  BY <1>9 DEF MonTop, MonKeys, MonTouch, MonTouchSend, MonTouchDone, MonPen
<1>10. CASE UNCHANGED vars
  BY <1>10 DEF vars
<1> QED BY <1>1, <1>2, <1>3, <1>4, <1>5, <1>6, <1>7, <1>8, <1>9, <1>10, Steps

LEMMA TypeFlagsStep == TypeFlags /\ TypeWire /\ [Next]_vars => TypeFlags'
<1> SUFFICES ASSUME TypeFlags, TypeWire, [Next]_vars PROVE TypeFlags'
  OBVIOUS
<1>1. osButton' \in [Buttons -> BOOLEAN]
  <2>1. ASSUME NEW es, performMouseButton(es) PROVE osButton' \in [Buttons -> BOOLEAN]
    BY <2>1, Zenon DEF performMouseButton, TypeFlags
  <2>2. CASE ServiceInjects
    <3>1. Head(wire) \in ButtonEvent
      BY <2>2, HeadTailProperties DEF ServiceInjects, TypeWire
    <3>2. Head(wire).down \in BOOLEAN
      BY <3>1, Zenon DEF ButtonEvent
    <3> QED BY <2>2, <3>2, Zenon DEF ServiceInjects, TypeFlags
  <2> QED BY <2>1, <2>2, ButtonFrame, Zenon
       DEF PressButton, clearAllPressedEvents, buttonVars, TypeFlags
<1>2. {g_thread_running, cleared, settled}' \subseteq BOOLEAN
  <2> USE DEF TypeFlags, lifeVars, ghosts
  <2>1. CASE \E k \in Keys, d \in BOOLEAN : PressKey(k, d)
    BY <2>1, Zenon DEF PressKey
  <2>2. CASE \E s \in Screens : Pen(s)
    BY <2>2, Zenon DEF Pen
  <2>3. CASE \E b \in Buttons, d \in BOOLEAN : PressButton(b, d)
    BY <2>3, Zenon DEF PressButton
  <2>4. CASE \E t \in TouchIds, s \in Screens, d \in BOOLEAN : TouchEvent(t, s, d)
    BY <2>4, Zenon DEF TouchEvent
  <2>5. CASE \E t \in TouchIds, s \in Screens : TouchMove(t, s)
    BY <2>5, Zenon DEF TouchMove
  <2>6. CASE TrackKey \/ SendTouch \/ TrackTouch \/ TrackMove \/ ServiceInjects
    BY <2>6, Zenon DEF TrackKey, SendTouch, TrackTouch, TrackMove, ServiceInjects
  <2>7. CASE clearAllPressedEvents \/ ClearFaults \/ UpdateStaticMonitors
    BY <2>7, Zenon DEF clearAllPressedEvents, ClearFaults, UpdateStaticMonitors
  <2>8. CASE StopMonitorThread \/ Join
    BY <2>8, Zenon DEF StopMonitorThread, Join, Destroyed
  <2>9. CASE MonTop \/ MonKeys \/ MonTouch \/ MonTouchSend \/ MonTouchDone \/ MonPen
    BY <2>9, Zenon DEF MonTop, MonKeys, MonTouch, MonTouchSend, MonTouchDone, MonPen
  <2>10. CASE UNCHANGED vars
    BY <2>10, Zenon DEF vars
  <2> QED BY <2>1, <2>2, <2>3, <2>4, <2>5, <2>6, <2>7, <2>8, <2>9, <2>10, Steps, Zenon
<1> QED BY <1>1, <1>2, Zenon DEF TypeFlags

LEMMA TypeInit == Init => TypeOK /\ PlatOK
<1> SUFFICES ASSUME Init PROVE TypeOK /\ PlatOK
  OBVIOUS
<1>1. TypeFlags
  BY Zenon DEF Init, TypeFlags
<1>2. TypeKeys /\ TypePen /\ TypeModes /\ PlatOK
  BY HostAssumption DEF Init, TypeKeys, TypePen, TypeModes, PlatOK, PlatForm
<1>3. TypeTouch /\ TypeWire
  BY HostAssumption, EmptySeq DEF Init, TypeTouch, TypeWire, Slot, Slots
<1> QED BY <1>1, <1>2, <1>3, TypeParts

LEMMA TypeStep == TypeOK /\ PlatOK /\ [Next]_vars => TypeOK' /\ PlatOK'
<1> SUFFICES ASSUME TypeOK, PlatOK, [Next]_vars PROVE TypeOK' /\ PlatOK'
  OBVIOUS
<1>1. TypeKeys /\ TypeTouch /\ TypePen /\ TypeWire /\ TypeModes /\ TypeFlags
  BY TypeParts
<1>2. TypeKeys' /\ TypeTouch' /\ TypePen' /\ TypeWire' /\ TypeModes' /\ TypeFlags'
  BY <1>1, TypeKeysStep, TypeTouchStep, TypePenStep, TypeWireStep, TypeModesStep,
     TypeFlagsStep, Zenon
<1>3. TypeOK'
  BY <1>2, Zenon DEF TypeOK, TypeKeys, TypeTouch, TypePen, TypeWire, TypeModes,
     TypeFlags, ButtonEvent
<1> QED BY <1>3, PlatStep

\* Every variable of the host input keeps its type: in particular the wire never
\* carries more than MaxWire events and a slot always holds a touch id.
THEOREM TypeCorrect == Spec => []TypeOK
<1>1. Init => TypeOK /\ PlatOK
  BY TypeInit
<1>2. TypeOK /\ PlatOK /\ [Next]_vars => (TypeOK /\ PlatOK)'
  BY TypeStep
<1> QED BY <1>1, <1>2, PTL DEF Spec

----------------------------------------------------------------------------
(* Keys and pen.                                                           *)

LEMMA KeyInvStep == TypeKeys /\ PlatOK /\ KeyInv /\ [Next]_vars => KeyInv'
<1> SUFFICES ASSUME TypeKeys, PlatOK, KeyInv, [Next]_vars PROVE KeyInv'
  OBVIOUS
<1> USE DEF TypeKeys, KeyInv, HeldKeyIsDown, KeyPromise, Releasing, Idle
<1>1. ASSUME NEW k \in Keys, NEW d \in BOOLEAN, PressKey(k, d) PROVE KeyInv'
  BY <1>1 DEF PressKey, Call
<1>2. CASE TrackKey
  BY <1>2 DEF TrackKey, PlatOK, PlatForm
<1>3. CASE MonKeys
  BY <1>3 DEF MonKeys
<1>4. CASE clearAllPressedEvents
  BY <1>4 DEF clearAllPressedEvents, ClearKeys, Call
<1>5. CASE UNCHANGED keyVars
  <2>1. CASE plat.op = "key" /\ ~TrackKey
    <3>0. /\ plat # Idle /\ plat.op \notin {"touchSend", "moveSend"}
          /\ plat.op # "touchTrack" /\ plat.op # "moveTrack"
      BY <2>1
    <3>1. plat' = plat
      BY <2>1, <3>0, Steps, Zenon DEF vars, PressKey, Pen, PressButton, TouchEvent, TouchMove,
         SendTouch, TrackTouch, TrackMove, Join, Destroyed, ClearFaults, Call, PenCall, Idle,
         UpdateStaticMonitors, StopMonitorThread, MonTop, MonKeys, MonTouch, MonTouchSend,
         MonTouchDone, MonPen, ServiceInjects, clearAllPressedEvents
    <3> QED BY <1>5, <3>1 DEF keyVars
  <2>2. CASE plat.op # "key"
    <3>1. plat'.op # "key" \/ \E k \in Keys, d \in BOOLEAN : PressKey(k, d)
      <4>1. CASE \E t \in TouchIds, s \in Screens, d \in BOOLEAN : TouchEvent(t, s, d)
        BY <4>1 DEF TouchEvent
      <4>2. CASE \E t \in TouchIds, s \in Screens : TouchMove(t, s)
        BY <4>2 DEF TouchMove
      <4>3. CASE SendTouch \/ TrackTouch \/ TrackMove
        BY <4>3, <2>2 DEF SendTouch, TrackTouch, TrackMove, PlatOK, PlatForm
      <4>4. CASE plat' = plat
        BY <2>2, <4>4
      <4> QED
        BY <2>2, <4>1, <4>2, <4>3, <4>4, Steps, Zenon DEF vars, Pen, PressButton, TrackKey,
           Join, Destroyed, ClearFaults, UpdateStaticMonitors, StopMonitorThread, MonTop,
           MonKeys, MonTouch, MonTouchSend, MonTouchDone, MonPen, ServiceInjects,
           clearAllPressedEvents
    <3> QED BY <1>1, <1>5, <2>2, <3>1 DEF keyVars
  <2> QED BY <1>2, <2>1, <2>2
<1> QED BY <1>1, <1>2, <1>3, <1>4, <1>5, KeyFrame, Zenon

LEMMA PenStep == PenSynced /\ [Next]_vars => PenSynced'
<1> SUFFICES ASSUME PenSynced, [Next]_vars PROVE PenSynced'
  OBVIOUS
<1>0. ASSUME NEW flags, SendPen(flags) PROVE PenSynced'
  BY <1>0 DEF PenSynced, SendPen, clearPenEdgeTriggeredFlags
<1>00. life = "dead" => life' = "dead"
  BY Steps, Zenon DEF vars, lifeVars, PressKey, Pen, PressButton, TouchEvent, TouchMove,
     TrackKey, SendTouch, TrackTouch, TrackMove, Join, Destroyed, ClearFaults, Call,
     PenCall, UpdateStaticMonitors, StopMonitorThread, MonTop, MonKeys, MonTouch,
     MonTouchSend, MonTouchDone, MonPen, ServiceInjects, clearAllPressedEvents
<1>000. ASSUME clearActivePenPointer PROVE PenSynced'
  BY <1>000, <1>0, <1>00 DEF clearActivePenPointer, penVars, PenSynced
<1>1. ASSUME NEW s \in Screens, Pen(s) PROVE PenSynced'
  BY <1>0, <1>1, Zenon DEF Pen, PenDown, PenUp, PenMove, PenHover
<1>2. CASE clearAllPressedEvents
  BY <1>2, <1>000, Zenon DEF clearAllPressedEvents
<1>3. CASE MonTop
  BY <1>3, <1>00 DEF MonTop, PenSynced
<1>4. CASE MonPen
  <2>1. CASE PenExpired /\ clearActivePenPointer
    BY <2>1, <1>000
  <2>2. CASE /\ askedPen' \in IF hasActivePenPointer THEN {askedPen, g_penInfo} ELSE {askedPen}
             /\ UNCHANGED <<g_penInfo, seenIdle>>
    BY <1>00, <2>2 DEF PenSynced
  <2> QED BY <1>4, <2>1, <2>2, Zenon DEF MonPen
<1>5. CASE Join
  BY <1>5 DEF Join, Destroyed, PenSynced
<1>6. CASE UNCHANGED penVars
  BY <1>6, <1>00 DEF penVars, PenSynced
<1> QED BY <1>1, <1>2, <1>3, <1>4, <1>5, <1>6, PenFrame, Zenon

----------------------------------------------------------------------------
(* Buttons.                                                                *)

\* A clear, or a press, ends the claim of an earlier clear.
LEMMA ClearFrame ==
  ASSUME [Next]_vars, cleared', settled'
  PROVE  clearAllPressedEvents \/ (cleared /\ settled)
BY Steps, Zenon DEF vars, ghosts, PressKey, Pen, PressButton, TouchEvent, TouchMove,
   TrackKey, SendTouch, TrackTouch, TrackMove, Join, Destroyed, ClearFaults,
   UpdateStaticMonitors, StopMonitorThread, MonTop, MonKeys, MonTouch, MonTouchSend,
   MonTouchDone, MonPen, ServiceInjects

LEMMA ButtonStep == TypeWire /\ TypeFlags /\ ButtonInv /\ [Next]_vars => ButtonInv'
<1> SUFFICES ASSUME TypeWire, TypeFlags, ButtonInv, [Next]_vars, cleared', settled'
             PROVE  /\ \A i \in 1 .. Len(wire') : ~wire'[i].down
                    /\ \A b \in Buttons : osButton'[b] =>
                         \E i \in 1 .. Len(wire') : wire'[i].b = b
  BY DEF ButtonInv
<1>1. CASE clearAllPressedEvents
  <2>1. wire = <<>> /\ performMouseButton(ButtonReleases)
    BY <1>1, Zenon DEF clearAllPressedEvents
  <2>2. /\ Len(wire) = 0 /\ Len(wire') \in Nat
        /\ \A i \in Len(wire) + 1 .. Len(wire') : wire'[i] \in ButtonReleases
    BY <2>1, ReleasesFacts, ButtonFacts, EmptySeq DEF TypeWire
  <2>3. \A i \in 1 .. Len(wire') : ~wire'[i].down
    BY <2>2 DEF ButtonReleases
  <2>4. ASSUME NEW b \in Buttons, osButton'[b] PROVE \E i \in 1 .. Len(wire') : wire'[i].b = b
    <3>1. PICK accepted \in SUBSET ButtonReleases :
            /\ \A x \in accepted : \E i \in 1 .. Len(wire') : wire'[i] = x
            /\ osButton' = [c \in Buttons |->
                   IF [b |-> c, down |-> TRUE] \in ButtonReleases \ accepted THEN TRUE
                   ELSE IF [b |-> c, down |-> FALSE] \in ButtonReleases \ accepted THEN FALSE
                   ELSE osButton[c]]
      BY <2>1, ReleasesFacts, ButtonFacts, Zenon DEF TypeWire
    <3>2. [b |-> b, down |-> TRUE] \notin ButtonReleases
      BY DEF ButtonReleases
    <3>3. [b |-> b, down |-> FALSE] \notin ButtonReleases \ accepted /\ osButton[b]
      BY <3>1, <3>2, <2>4, Zenon
    <3>4. [b |-> b, down |-> FALSE] \in accepted
      BY <3>3 DEF ButtonReleases
    <3>5. PICK i \in 1 .. Len(wire') : wire'[i] = [b |-> b, down |-> FALSE]
      BY <3>1, <3>4, Zenon
    <3> QED BY <3>5
  <2> QED BY <2>3, <2>4, Zenon
<1>2. CASE ~clearAllPressedEvents /\ cleared /\ settled
  <2>0. /\ \A i \in 1 .. Len(wire) : ~wire[i].down
        /\ \A b \in Buttons : osButton[b] => \E i \in 1 .. Len(wire) : wire[i].b = b
    BY <1>2, Zenon DEF ButtonInv
  <2>1. ASSUME NEW c \in Buttons, NEW d \in BOOLEAN, PressButton(c, d)
        PROVE  /\ \A i \in 1 .. Len(wire') : ~wire'[i].down
               /\ \A b \in Buttons : osButton'[b] =>
                    \E i \in 1 .. Len(wire') : wire'[i].b = b
    <3> DEFINE es == {[b |-> c, down |-> d]}
    <3>1. ~d /\ performMouseButton(es)
      BY <2>1, Zenon DEF PressButton
    <3>2. /\ Len(wire) \in Nat /\ Len(wire') \in Nat /\ Len(wire) <= Len(wire')
          /\ \A i \in 1 .. Len(wire) : wire'[i] = wire[i]
          /\ \A i \in Len(wire) + 1 .. Len(wire') : wire'[i] \in es
      <4> HIDE DEF es
      <4>1. es \in SUBSET ButtonEvent /\ IsFiniteSet(es)
        BY OneEvent DEF es
      <4> QED BY <3>1, <4>1, ButtonFacts, Zenon DEF TypeWire
    <3>3. \A i \in 1 .. Len(wire') : ~wire'[i].down
      BY <2>0, <3>1, <3>2
    <3>4. ASSUME NEW b \in Buttons, osButton'[b] PROVE osButton[b]
      <4>1. d = FALSE
        BY <3>1, Zenon
      <4>2. PICK accepted \in SUBSET es :
              osButton' = [e \in Buttons |->
                   IF [b |-> e, down |-> TRUE] \in es \ accepted THEN TRUE
                   ELSE IF [b |-> e, down |-> FALSE] \in es \ accepted THEN FALSE
                   ELSE osButton[e]]
        BY <3>1, Zenon DEF performMouseButton
      <4>3. [b |-> b, down |-> TRUE] \notin es
        BY <4>1
      <4> HIDE DEF es
      <4> QED BY <3>4, <4>2, <4>3, Zenon
    <3>5. ASSUME NEW b \in Buttons, osButton'[b] PROVE \E i \in 1 .. Len(wire') : wire'[i].b = b
      <4>1. PICK i \in 1 .. Len(wire) : wire[i].b = b
        BY <3>4, <3>5, <2>0, Zenon
      <4> QED BY <3>2, <4>1
    <3> QED BY <3>3, <3>5, Zenon
  <2>2. CASE ServiceInjects
    <3>1. /\ wire # <<>> /\ wire' = Tail(wire)
          /\ osButton' = [osButton EXCEPT ![Head(wire).b] = Head(wire).down]
      BY <2>2, Zenon DEF ServiceInjects
    <3>2. /\ Len(wire) \in Nat \ {0} /\ Len(wire') = Len(wire) - 1 /\ Head(wire) = wire[1]
          /\ \A i \in 1 .. Len(wire) - 1 : wire'[i] = wire[i + 1]
          /\ Head(wire) \in ButtonEvent
      BY <3>1, HeadTailProperties, EmptySeq DEF TypeWire
    <3>3. \A i \in 1 .. Len(wire') : ~wire'[i].down
      BY <2>0, <3>2
    <3>4. ~Head(wire).down
      BY <2>0, <3>2
    <3>5. ASSUME NEW b \in Buttons, osButton'[b] PROVE osButton[b] /\ b # Head(wire).b
      BY <3>1, <3>4, <3>5, Zenon DEF TypeFlags
    <3>6. ASSUME NEW b \in Buttons, osButton'[b] PROVE \E i \in 1 .. Len(wire') : wire'[i].b = b
      <4>1. PICK i \in 1 .. Len(wire) : wire[i].b = b
        BY <3>5, <3>6, <2>0, Zenon
      <4>2. i # 1
        BY <3>2, <3>5, <3>6, <4>1
      <4>3. i - 1 \in 1 .. Len(wire') /\ wire'[i - 1] = wire[i]
        BY <3>2, <4>2
      <4> QED BY <4>1, <4>3
    <3> QED BY <3>3, <3>6, Zenon
  <2>3. CASE UNCHANGED buttonVars
    BY <2>0, <2>3, Zenon DEF buttonVars
  <2> QED BY <1>2, <2>1, <2>2, <2>3, ButtonFrame, Zenon
<1> QED BY <1>1, <1>2, ClearFrame, Zenon

----------------------------------------------------------------------------
(* Touches.                                                                *)

\* What performTouchEvent does to the slots: one slot at most is written, and a
\* slot in use keeps its touch.
LEMMA WriteTouchFacts ==
  ASSUME TypeTouch, SlotInv, OneSlotPerTouch,
         NEW t \in TouchIds, NEW s, NEW d \in BOOLEAN, WriteTouch(t, s, d)
  PROVE  /\ SlotInv' /\ OneSlotPerTouch'
         /\ g_activeTouchSlots <= g_activeTouchSlots'
         /\ \A i \in Slots : g_touchInfo[i].flags # "none" =>
              g_touchInfo'[i].id = g_touchInfo[i].id /\ g_touchInfo'[i].flags # "none"
         /\ \A i \in Slots : g_touchInfo'[i].flags # g_touchInfo[i].flags =>
              /\ i = SlotOf(t) /\ s \in static_monitors_
              /\ g_touchInfo'[i].id = t
              /\ g_touchInfo'[i].flags = IF d THEN "contact" ELSE "up"
         /\ SlotOf(t) # 0 /\ s \in static_monitors_ =>
              /\ SlotOf(t) \in Slots /\ g_touchInfo'[SlotOf(t)].id = t
              /\ g_touchInfo'[SlotOf(t)].flags = IF d THEN "contact" ELSE "up"
<1>1. CASE SlotOf(t) = 0
  <2>1. g_touchInfo' = g_touchInfo /\ g_activeTouchSlots' = g_activeTouchSlots
    BY <1>1 DEF WriteTouch
  <2> QED BY <1>1, <2>1 DEF TypeTouch, SlotInv, OneSlotPerTouch
<1>2. CASE SlotOf(t) # 0
  <2> DEFINE k == SlotOf(t)
             f == IF s \notin static_monitors_ THEN g_touchInfo[k].flags
                  ELSE IF d THEN "contact" ELSE "up"
  <2>1. /\ k \in Slots
        /\ g_touchInfo[k].id = t \/ g_touchInfo[k].flags = "none"
        /\ \A j \in Slots : g_touchInfo[j].id = t => g_touchInfo[k].id = t /\ k <= j
    BY <1>2, SlotOfFacts
  <2>2. /\ g_touchInfo' = [g_touchInfo EXCEPT ![k] = [id |-> t, flags |-> f]]
        /\ g_activeTouchSlots' = IF g_touchInfo[k].id = t \/ g_activeTouchSlots > k
                                   THEN g_activeTouchSlots ELSE k
    BY <1>2 DEF WriteTouch, ClaimSlot
  <2>3. f \in {"none", "contact", "up"} /\ (s \in static_monitors_ => f # "none")
    BY <2>1 DEF TypeTouch, Slot
  <2> HIDE DEF k
  <2>4. /\ g_touchInfo'[k] = [id |-> t, flags |-> f]
        /\ \A i \in Slots \ {k} : g_touchInfo'[i] = g_touchInfo[i]
    BY <2>1, <2>2 DEF TypeTouch
  <2>5. SlotInv' /\ OneSlotPerTouch' /\ g_activeTouchSlots <= g_activeTouchSlots'
    <3> HIDE DEF f
    <3>1. g_activeTouchSlots <= g_activeTouchSlots'
      BY <2>1, <2>2, HostAssumption DEF TypeTouch, Slots
    <3>2. \A i \in Slots : g_touchInfo'[i].id # 0 => i <= g_activeTouchSlots'
      BY <2>1, <2>2, <2>4, HostAssumption DEF TypeTouch, Slots, SlotInv
    <3>3. OneSlotPerTouch'
      BY <2>1, <2>4 DEF OneSlotPerTouch
    <3>4. ASSUME NEW i \in Slots, NEW j \in Slots, j < i, g_touchInfo'[i].id = g_touchInfo'[j].id
          PROVE  g_touchInfo'[i].flags = "none"
      <4>1. CASE i = k
        BY <2>1, <2>4, <3>4, <4>1 DEF Slots
      <4>2. CASE i # k /\ j = k
        BY <2>1, <2>4, <3>4, <4>2 DEF SlotInv
      <4>3. CASE i # k /\ j # k
        BY <2>4, <3>4, <4>3 DEF SlotInv
      <4> QED BY <4>1, <4>2, <4>3
    <3> QED BY <3>1, <3>2, <3>3, <3>4 DEF SlotInv
  <2>6. \A i \in Slots : g_touchInfo[i].flags # "none" =>
              g_touchInfo'[i].id = g_touchInfo[i].id /\ g_touchInfo'[i].flags # "none"
    BY <2>1, <2>3, <2>4
  <2> QED BY <1>2, <2>1, <2>4, <2>5, <2>6 DEF k
<1> QED BY <1>1, <1>2

\* A touch that was sent keeps its slot when another slot, or its own, is written.
LEMMA SentIsStable ==
  ASSUME TypeTouch, TypeTouch',
         g_activeTouchSlots <= g_activeTouchSlots',
         \A i \in Slots : g_touchInfo[i].flags # "none" =>
              g_touchInfo'[i].id = g_touchInfo[i].id /\ g_touchInfo'[i].flags # "none",
         g_touch_states' = g_touch_states, HeldTouchIsSent
  PROVE  HeldTouchIsSent'
<1> SUFFICES ASSUME NEW t \in HeldTouches
             PROVE  \E i \in Slots : /\ g_touchInfo'[i].id = t /\ g_touchInfo'[i].flags # "none"
                                     /\ t # 0 => i <= g_activeTouchSlots'
  BY DEF HeldTouchIsSent, HeldTouches
<1>1. PICK i \in Slots : /\ g_touchInfo[i].id = t /\ g_touchInfo[i].flags # "none"
                         /\ t # 0 => i <= g_activeTouchSlots
  BY DEF HeldTouchIsSent
<1>2. /\ g_touchInfo'[i].id = t /\ g_touchInfo'[i].flags # "none"
      /\ t # 0 => i <= g_activeTouchSlots'
  BY <1>1, HostAssumption DEF TypeTouch, Slots
<1> QED BY <1>2

\* Steps that leave the touches alone do not make or break a promise.
LEMMA TouchQuiet ==
  ASSUME [Next]_vars, TypeTouch, PlatOK, TouchInv, UNCHANGED touchVars,
         ~SendTouch, ~TrackTouch, ~TrackMove, ~clearAllPressedEvents, ~MonTouch,
         ~\E t \in TouchIds, s \in Screens, d \in BOOLEAN : TouchEvent(t, s, d),
         ~\E t \in TouchIds, s \in Screens : TouchMove(t, s)
  PROVE  TouchInv'
<1>1. plat' = plat \/ (~InTouch /\ ~InTouch')
  <2>1. CASE \E k \in Keys, d \in BOOLEAN : PressKey(k, d)
    BY <2>1 DEF PressKey, Call, InTouch, Idle
  <2>2. CASE TrackKey
    BY <2>2 DEF TrackKey, InTouch, Idle
  <2> QED
    BY <2>1, <2>2, Steps, Zenon DEF vars, Pen, PressButton, Join, Destroyed, ClearFaults,
       UpdateStaticMonitors, StopMonitorThread, MonTop, MonKeys, MonTouchSend,
       MonTouchDone, MonPen, ServiceInjects
<1>2. \/ mon' = mon /\ monTodo' = monTodo
      \/ monTodo' = HeldTouches
      \/ monTodo' = monTodo /\ mon = "touchSend"
      \/ mon' \notin {"touch", "touchSend"}
  <2>1. CASE MonTop \/ MonKeys \/ MonTouchSend \/ MonTouchDone \/ MonPen
    BY <2>1 DEF MonTop, MonKeys, MonTouchSend, MonTouchDone, MonPen
  <2> QED BY <2>1, Steps, Zenon DEF vars, monVars, PressKey, Pen, PressButton, TrackKey,
         Join, Destroyed, ClearFaults, UpdateStaticMonitors, StopMonitorThread, ServiceInjects
<1>3. HeldTouches' = HeldTouches
  BY DEF HeldTouches, touchVars
<1>4. TodoIsHeld'
  BY <1>2, <1>3 DEF TouchInv, TodoIsHeld
<1>5. SlotInv' /\ OneSlotPerTouch' /\ HeldTouchIsSent'
  BY <1>3 DEF TouchInv, SlotInv, OneSlotPerTouch, HeldTouchIsSent, touchVars
<1>6. UpIsLifting' /\ TouchPromise'
  BY <1>1, <1>3 DEF TouchInv, UpIsLifting, Lifting, TouchPromise, InTouch, touchVars
<1> QED BY <1>4, <1>5, <1>6 DEF TouchInv

LEMMA TouchStep == TypeTouch /\ PlatOK /\ TouchInv /\ [Next]_vars => TouchInv'
<1> SUFFICES ASSUME TypeTouch, PlatOK, TouchInv, [Next]_vars PROVE TouchInv'
  OBVIOUS
<1>0. TypeTouch'
  BY TypeTouchStep
<1>1. ASSUME NEW t \in TouchIds, NEW s \in Screens, NEW d \in BOOLEAN, TouchEvent(t, s, d)
      PROVE  TouchInv'
  <2>1. /\ WriteTouch(t, s, d) /\ plat = Idle
        /\ plat' = IF SlotOf(t) = 0 \/ s \notin static_monitors_ THEN Idle
                   ELSE [op |-> "touchSend", id |-> t, screen |-> s, isDown |-> d]
        /\ g_touch_states' = g_touch_states /\ mon' = mon /\ monTodo' = monTodo
    BY <1>1 DEF TouchEvent, Call, monVars
  <2> DEFINE k == SlotOf(t)
  <2>2. /\ SlotInv' /\ OneSlotPerTouch'
        /\ g_activeTouchSlots <= g_activeTouchSlots'
        /\ \A i \in Slots : g_touchInfo[i].flags # "none" =>
              g_touchInfo'[i].id = g_touchInfo[i].id /\ g_touchInfo'[i].flags # "none"
        /\ \A i \in Slots : g_touchInfo'[i].flags # g_touchInfo[i].flags =>
              /\ i = k /\ s \in static_monitors_
              /\ g_touchInfo'[i].id = t
              /\ g_touchInfo'[i].flags = IF d THEN "contact" ELSE "up"
        /\ k # 0 /\ s \in static_monitors_ =>
              /\ k \in Slots /\ g_touchInfo'[k].id = t
              /\ g_touchInfo'[k].flags = IF d THEN "contact" ELSE "up"
    BY <2>1, WriteTouchFacts DEF TouchInv
  <2> HIDE DEF k
  <2>3. HeldTouchIsSent'
    BY <1>0, <2>1, <2>2, SentIsStable DEF TouchInv
  <2>4. TouchPromise'
    <3>1. CASE k = 0 \/ s \notin static_monitors_
      BY <2>1, <3>1 DEF TouchPromise, InTouch, Idle, k
    <3>2. CASE k # 0 /\ s \in static_monitors_
      <4>1. /\ plat'.op = "touchSend" /\ plat'.id = t /\ plat'.isDown = d
            /\ k \in Slots /\ g_touchInfo'[k].id = t /\ g_touchInfo'[k].flags # "none"
            /\ d => g_touchInfo'[k].flags = "contact"
        BY <2>1, <2>2, <3>2 DEF k
      <4>2. ASSUME d, NEW i \in Slots, g_touchInfo'[i].id = t PROVE g_touchInfo'[i].flags # "up"
        BY <2>2, <4>1, <4>2, HostAssumption DEF SlotInv, Slots
      <4> QED BY <4>1, <4>2 DEF TouchPromise
    <3> QED BY <3>1, <3>2
  <2>5. UpIsLifting'
    <3> SUFFICES ASSUME NEW u \in HeldTouches, NEW i \in Slots,
                        g_touchInfo'[i].id = u, g_touchInfo'[i].flags = "up"
                 PROVE  Lifting(u)'
      BY <2>1 DEF UpIsLifting, HeldTouches
    <3>1. g_touchInfo[i].flags # "up"
      BY <2>1, <2>2 DEF TouchInv, UpIsLifting, Lifting, Idle
    <3>2. /\ i = k /\ k # 0 /\ s \in static_monitors_ /\ u = t /\ ~d
      BY <2>2, <3>1, HostAssumption DEF Slots
    <3> QED BY <2>1, <3>2 DEF Lifting, k
  <2>6. TodoIsHeld'
    BY <2>1 DEF TouchInv, TodoIsHeld, HeldTouches
  <2> QED BY <2>2, <2>3, <2>4, <2>5, <2>6 DEF TouchInv
<1>2. ASSUME NEW t \in TouchIds, NEW s \in Screens, TouchMove(t, s) PROVE TouchInv'
  <2> DEFINE own == {i \in Slots : g_touchInfo[i].id = t}
             k == Min(own)
  <2>1. /\ own # {} /\ plat = Idle /\ plat'.op = "moveTrack"
        /\ g_touchInfo' = [g_touchInfo EXCEPT ![k].flags = "contact"]
        /\ g_activeTouchSlots' = g_activeTouchSlots
        /\ g_touch_states' = g_touch_states /\ mon' = mon /\ monTodo' = monTodo
    BY <1>2 DEF TouchMove, Call, monVars
  <2>2. k \in own /\ \A j \in own : k <= j
    BY <2>1, MinFacts, HostAssumption DEF Slots
  <2> HIDE DEF k
  <2>3. /\ g_touchInfo'[k].id = t /\ g_touchInfo'[k].flags = "contact"
        /\ \A i \in Slots \ {k} : g_touchInfo'[i] = g_touchInfo[i]
    BY <2>1, <2>2 DEF TypeTouch, Slot
  <2>4. SlotInv'
    BY <2>1, <2>2, <2>3, HostAssumption DEF TouchInv, SlotInv, Slots
  <2>5. OneSlotPerTouch'
    BY <2>2, <2>3 DEF TouchInv, OneSlotPerTouch
  <2>6. HeldTouchIsSent'
    <3>1. g_activeTouchSlots <= g_activeTouchSlots'
      BY <2>1 DEF TypeTouch
    <3>2. \A i \in Slots : g_touchInfo[i].flags # "none" =>
              g_touchInfo'[i].id = g_touchInfo[i].id /\ g_touchInfo'[i].flags # "none"
      BY <2>2, <2>3
    <3> QED BY <1>0, <2>1, <3>1, <3>2, SentIsStable DEF TouchInv
  <2>7. UpIsLifting'
    BY <2>1, <2>2, <2>3 DEF TouchInv, UpIsLifting, HeldTouches, Lifting, Idle
  <2>8. TouchPromise' /\ TodoIsHeld'
    BY <2>1 DEF TouchInv, TouchPromise, InTouch, TodoIsHeld, HeldTouches
  <2> QED BY <2>4, <2>5, <2>6, <2>7, <2>8 DEF TouchInv
<1>3. CASE SendTouch
  <2>1. /\ UNCHANGED <<g_touchInfo, g_activeTouchSlots, g_touch_states, mon, monTodo>>
        /\ \/ plat.op = "moveSend" /\ plat' = Idle
           \/ plat.op = "touchSend" /\ plat' = [plat EXCEPT !.op = "touchTrack"]
    BY <1>3 DEF SendTouch, monVars
  <2>2. \A t : Lifting(t) => Lifting(t)'
    BY <2>1 DEF Lifting, PlatOK, PlatForm, Idle
  <2>3. InTouch' => InTouch /\ plat'.id = plat.id /\ plat'.isDown = plat.isDown
    BY <2>1 DEF InTouch, PlatOK, PlatForm, Idle
  <2> QED BY <2>1, <2>2, <2>3 DEF TouchInv, SlotInv, OneSlotPerTouch, HeldTouchIsSent,
             TouchPromise, UpIsLifting, TodoIsHeld, HeldTouches
<1>4. CASE TrackTouch
  <2>1. /\ UNCHANGED <<g_touchInfo, g_activeTouchSlots, mon, monTodo>>
        /\ plat.op = "touchTrack" /\ plat' = Idle /\ MutexFree
        /\ g_touch_states' = [g_touch_states EXCEPT
                               ![plat.id] = IF plat.isDown THEN plat.screen ELSE NoScreen]
    BY <1>4 DEF TrackTouch, monVars
  <2>2. plat.id \in TouchIds
    BY <2>1 DEF PlatOK, PlatForm, Idle
  <2>3. \A t \in HeldTouches' : t \in HeldTouches \/ (t = plat.id /\ plat.isDown)
    BY <2>1, <2>2 DEF HeldTouches, TypeTouch
  <2>4. ~plat.isDown => plat.id \notin HeldTouches'
    BY <2>1, <2>2 DEF HeldTouches, TypeTouch
  <2>5. HeldTouchIsSent'
    <3> SUFFICES ASSUME NEW t \in HeldTouches'
                 PROVE  \E i \in Slots : /\ g_touchInfo[i].id = t /\ g_touchInfo[i].flags # "none"
                                         /\ t # 0 => i <= g_activeTouchSlots
      BY <2>1 DEF HeldTouchIsSent
    <3>1. CASE t \in HeldTouches
      BY <3>1 DEF TouchInv, HeldTouchIsSent
    <3>2. CASE t = plat.id
      BY <2>1, <3>2 DEF TouchInv, TouchPromise, InTouch, SlotInv
    <3> QED BY <2>3, <3>1, <3>2
  <2>6. UpIsLifting'
    BY <2>1, <2>3, <2>4 DEF TouchInv, UpIsLifting, Lifting, TouchPromise, InTouch
  <2>7. SlotInv' /\ OneSlotPerTouch' /\ TouchPromise' /\ TodoIsHeld'
    BY <2>1 DEF TouchInv, SlotInv, OneSlotPerTouch, TouchPromise, InTouch, Idle,
                TodoIsHeld, MutexFree
  <2> QED BY <2>5, <2>6, <2>7 DEF TouchInv
<1>5. CASE TrackMove
  <2>1. /\ UNCHANGED <<g_touchInfo, g_activeTouchSlots, mon, monTodo>>
        /\ plat.op = "moveTrack" /\ plat'.op = "moveSend"
        /\ g_touch_states' = [g_touch_states EXCEPT
                               ![plat.id] = IF @ = NoScreen THEN NoScreen ELSE plat.screen]
    BY <1>5 DEF TrackMove, monVars
  <2>2. HeldTouches' = HeldTouches
    <3>1. plat.id \in TouchIds /\ plat.screen \in Screens
      BY <2>1 DEF PlatOK, PlatForm, Idle
    <3> QED BY <2>1, <3>1, HostAssumption DEF HeldTouches, TypeTouch
  <2>3. HeldTouchIsSent' /\ TodoIsHeld'
    BY <2>1, <2>2 DEF TouchInv, HeldTouchIsSent, TodoIsHeld
  <2>4. UpIsLifting'
    BY <2>1, <2>2 DEF TouchInv, UpIsLifting, Lifting
  <2> QED BY <2>1, <2>3, <2>4 DEF TouchInv, SlotInv, OneSlotPerTouch, TouchPromise, InTouch
<1>6. CASE clearAllPressedEvents
  <2>1. PICK V \in Visits(HeldTouches) : ClearTouches(V)
    BY <1>6 DEF clearAllPressedEvents
  <2> DEFINE up == {t \in V : g_touch_states[t] \in static_monitors_}
  <2>2. /\ g_touchInfo' = [i \in Slots |-> IF \E t \in up : SlotOf(t) = i
                                        THEN [g_touchInfo[i] EXCEPT !.flags = "up"]
                                        ELSE g_touchInfo[i]]
        /\ g_activeTouchSlots' = g_activeTouchSlots
        /\ g_touch_states' = [t \in TouchIds |-> NoScreen]
        /\ plat = Idle /\ plat' = Idle /\ MutexFree /\ mon' = mon /\ monTodo' = monTodo
    BY <1>6, <2>1 DEF ClearTouches, clearAllPressedEvents, Call, monVars
  <2>3. HeldTouches' = {}
    BY <2>2 DEF HeldTouches
  <2>4. ASSUME NEW t \in up PROVE /\ SlotOf(t) \in Slots /\ g_touchInfo[SlotOf(t)].id = t
                                  /\ \A j \in Slots : g_touchInfo[j].id = t => SlotOf(t) <= j
    <3>1. t \in HeldTouches
      BY DEF Visits
    <3> QED BY <3>1, SlotOfFacts DEF TouchInv, HeldTouchIsSent
  <2> HIDE DEF up
  <2>5. \A i \in Slots : /\ g_touchInfo'[i].id = g_touchInfo[i].id
                         /\ \/ g_touchInfo'[i].flags = g_touchInfo[i].flags
                            \/ \E t \in up : SlotOf(t) = i
    BY <2>2 DEF TypeTouch, Slot
  <2>6. SlotInv'
    BY <2>2, <2>4, <2>5, HostAssumption DEF TouchInv, SlotInv, Slots
  <2>7. OneSlotPerTouch'
    BY <2>5 DEF TouchInv, OneSlotPerTouch
  <2> QED BY <2>2, <2>3, <2>6, <2>7 DEF TouchInv, HeldTouchIsSent, TouchPromise, InTouch,
             UpIsLifting, TodoIsHeld, MutexFree, Idle
<1>7. CASE MonTouch
  <2>1. PICK t \in monTodo :
          /\ monTodo' = monTodo \ {t}
          /\ \/ WriteTouch(t, g_touch_states[t], TRUE)
             \/ UNCHANGED <<g_touchInfo, g_activeTouchSlots>>
    BY <1>7 DEF MonTouch
  <2>2. /\ plat' = plat /\ g_touch_states' = g_touch_states /\ mon = "touch"
    BY <1>7 DEF MonTouch
  <2>3. t \in TouchIds /\ TRUE \in BOOLEAN
    BY DEF TypeTouch
  <2>4. /\ SlotInv' /\ OneSlotPerTouch'
        /\ g_activeTouchSlots <= g_activeTouchSlots'
        /\ \A i \in Slots : g_touchInfo[i].flags # "none" =>
              g_touchInfo'[i].id = g_touchInfo[i].id /\ g_touchInfo'[i].flags # "none"
        /\ \A i \in Slots : g_touchInfo'[i].flags # g_touchInfo[i].flags =>
              g_touchInfo'[i].flags = "contact"
    <3>1. CASE WriteTouch(t, g_touch_states[t], TRUE)
      BY <2>3, <3>1, WriteTouchFacts, ZenonT(60) DEF TouchInv
    <3>2. CASE UNCHANGED <<g_touchInfo, g_activeTouchSlots>>
      BY <3>2, HostAssumption DEF TouchInv, SlotInv, OneSlotPerTouch, TypeTouch
    <3> QED BY <2>1, <3>1, <3>2
  <2>5. HeldTouchIsSent'
    BY <1>0, <2>2, <2>4, SentIsStable DEF TouchInv
  <2>6. TouchPromise'
    BY <2>2, <2>4 DEF TouchInv, TouchPromise, InTouch
  <2>7. UpIsLifting'
    BY <2>2, <2>4 DEF TouchInv, UpIsLifting, Lifting, HeldTouches
  <2>8. TodoIsHeld'
    BY <2>1, <2>2 DEF TouchInv, TodoIsHeld, HeldTouches
  <2> QED BY <2>4, <2>5, <2>6, <2>7, <2>8 DEF TouchInv
<1>8. CASE MonTouchSend
  BY <1>8 DEF MonTouchSend, TouchInv, SlotInv, OneSlotPerTouch, HeldTouchIsSent,
             TouchPromise, InTouch, UpIsLifting, Lifting, TodoIsHeld, HeldTouches
<1>9. CASE UNCHANGED touchVars
  BY <1>1, <1>2, <1>3, <1>4, <1>5, <1>6, <1>7, <1>9, TouchQuiet, Zenon
<1> QED BY <1>1, <1>2, <1>3, <1>4, <1>5, <1>6, <1>7, <1>8, <1>9, TouchFrame, Zenon

----------------------------------------------------------------------------
(* The results.                                                            *)

HostIInv == TypeOK /\ PlatOK /\ HostInv

LEMMA HostInit == Init => HostIInv
<1> SUFFICES ASSUME Init PROVE HostIInv
  OBVIOUS
<1>1. KeyInv /\ PenSynced
  BY DEF Init, KeyInv, HeldKeyIsDown, KeyPromise, PenSynced, Idle, EdgeFlags
<1>2. TouchInv
  BY HostAssumption DEF Init, TouchInv, SlotInv, OneSlotPerTouch, HeldTouchIsSent, HeldTouches,
     TouchPromise, InTouch, UpIsLifting, TodoIsHeld, Idle, Slots
<1>3. ButtonInv
  BY Zenon DEF Init, ButtonInv
<1> QED BY <1>1, <1>2, <1>3, TypeInit DEF HostIInv, HostInv

LEMMA HostStep == HostIInv /\ [Next]_vars => HostIInv'
<1> SUFFICES ASSUME HostIInv, [Next]_vars PROVE HostIInv'
  OBVIOUS
<1>1. TypeKeys /\ TypeTouch /\ TypeWire /\ TypeFlags
  BY TypeParts, Zenon DEF HostIInv
<1>2. TypeOK' /\ PlatOK'
  BY TypeStep, Zenon DEF HostIInv
<1>3. KeyInv' /\ PenSynced' /\ TouchInv' /\ ButtonInv'
  BY <1>1, KeyInvStep, PenStep, TouchStep, ButtonStep, Zenon DEF HostIInv, HostInv
<1> QED BY <1>2, <1>3, Zenon DEF HostIInv, HostInv

LEMMA HostAlways == Spec => []HostIInv
BY HostInit, HostStep, PTL DEF Spec

\* Once nothing is under way, no button is down after a settled clear.
LEMMA SettledFromInv == HostIInv => SettledClearReleasesButtons
<1> SUFFICES ASSUME HostIInv, cleared, settled, wire = <<>>, NEW b \in Buttons, osButton[b]
             PROVE  FALSE
  BY Zenon DEF SettledClearReleasesButtons
<1>1. \E i \in 1 .. Len(wire) : wire[i].b = b
  BY Zenon DEF HostIInv, HostInv, ButtonInv
<1>2. Len(wire) = 0
  BY EmptySeq
<1> QED BY <1>1, <1>2

\* The tables of EventMonitorThread and what the plugin asked the system to do
\* agree between calls, whatever the threads' interleaving: the auto-repeat
\* repeats only what is held.
THEOREM TablesAgree == Spec => []BelievedIsAsked
<1>1. HostIInv => BelievedIsAsked
  BY SettledFromInv, Zenon DEF HostIInv, HostInv, KeyInv, TouchInv, BelievedIsAsked
<1> QED BY <1>1, HostAlways, PTL

\* A step lets a slot keep its touch, and revives a touch only in the window.
TouchKept ==
  \A i \in Slots :
    /\ g_touchInfo[i].flags # "none" => g_touchInfo'[i].id = g_touchInfo[i].id
    /\ /\ g_touchInfo[i].flags = "up" /\ g_touchInfo'[i].flags = "contact"
       /\ events' = events
       => Lifting(g_touchInfo[i].id)

\* A released key, or a lifted touch, is pressed again by the monitor only inside
\* the window between its release and its erasure, and a slot keeps its touch.
THEOREM RevivedInWindow == Spec => RevivedOnlyInWindow
<1>1. ASSUME HostIInv, [Next]_vars
      PROVE  \A k \in Keys : askedKey[k] = "up" /\ askedKey'[k] = "down" /\ mon' # mon
                               => Releasing(k)
  <2>0. TypeKeys /\ KeyInv /\ PlatOK
    BY <1>1, TypeParts, Zenon DEF HostIInv, HostInv
  <2>1. CASE \E k \in Keys, d \in BOOLEAN : PressKey(k, d)
    BY <2>1 DEF PressKey, monVars
  <2>2. CASE TrackKey
    BY <2>2 DEF TrackKey, monVars
  <2>3. CASE MonKeys
    BY <2>0, <2>3 DEF MonKeys, TypeKeys, KeyInv, HeldKeyIsDown
  <2>4. CASE clearAllPressedEvents
    BY <2>4 DEF clearAllPressedEvents, monVars
  <2>5. CASE UNCHANGED keyVars
    BY <2>5 DEF keyVars
  <2> QED BY <1>1, <2>1, <2>2, <2>3, <2>4, <2>5, KeyFrame, Zenon
<1>2. ASSUME HostIInv, [Next]_vars PROVE TouchKept
  <2>0. TypeTouch /\ TouchInv /\ events \in Nat
    BY <1>2, TypeParts, Zenon DEF HostIInv, HostInv, PlatOK
  <2> USE DEF TouchKept
  <2>1. ASSUME NEW t \in TouchIds, NEW s \in Screens, NEW d \in BOOLEAN, TouchEvent(t, s, d)
        PROVE  TouchKept
    <3>1. WriteTouch(t, s, d) /\ events' = events + 1
      BY <2>1 DEF TouchEvent, Call
    <3>2. \A i \in Slots : g_touchInfo[i].flags # "none" => g_touchInfo'[i].id = g_touchInfo[i].id
      BY <2>0, <3>1, WriteTouchFacts DEF TouchInv
    <3> QED BY <2>0, <3>1, <3>2
  <2>2. ASSUME NEW t \in TouchIds, NEW s \in Screens, TouchMove(t, s) PROVE TouchKept
    <3>1. /\ events' = events + 1
          /\ g_touchInfo' = [g_touchInfo EXCEPT
               ![Min({i \in Slots : g_touchInfo[i].id = t})].flags = "contact"]
      BY <2>2 DEF TouchMove, Call
    <3>2. \A i \in Slots : g_touchInfo'[i].id = g_touchInfo[i].id
      BY <2>0, <3>1 DEF TypeTouch, Slot
    <3> QED BY <2>0, <3>1, <3>2
  <2>3. CASE SendTouch \/ MonTouchSend \/ TrackTouch \/ TrackMove
    BY <2>3 DEF SendTouch, MonTouchSend, TrackTouch, TrackMove
  <2>4. CASE clearAllPressedEvents
    <3>1. PICK V \in Visits(HeldTouches) : ClearTouches(V)
      BY <2>4 DEF clearAllPressedEvents
    <3>2. \A i \in Slots : g_touchInfo'[i].id = g_touchInfo[i].id
      BY <2>0, <3>1 DEF ClearTouches, TypeTouch, Slot
    <3>3. events' = events + 1
      BY <2>4 DEF clearAllPressedEvents, Call
    <3> QED BY <2>0, <3>2, <3>3
  <2>5. CASE MonTouch
    <3>1. PICK t \in monTodo : \/ WriteTouch(t, g_touch_states[t], TRUE)
                               \/ UNCHANGED <<g_touchInfo, g_activeTouchSlots>>
      BY <2>5 DEF MonTouch
    <3>2. t \in HeldTouches /\ t \in TouchIds /\ TRUE \in BOOLEAN
      BY <2>0, <2>5 DEF MonTouch, TouchInv, TodoIsHeld, HeldTouches
    <3>3. CASE WriteTouch(t, g_touch_states[t], TRUE)
      <4>1. /\ \A i \in Slots : g_touchInfo[i].flags # "none" =>
                 g_touchInfo'[i].id = g_touchInfo[i].id
            /\ \A i \in Slots : g_touchInfo'[i].flags # g_touchInfo[i].flags =>
                 g_touchInfo'[i].id = t
        BY <2>0, <3>2, <3>3, WriteTouchFacts, ZenonT(60) DEF TouchInv
      <4>2. ASSUME NEW i \in Slots, g_touchInfo[i].flags = "up", g_touchInfo'[i].flags = "contact"
            PROVE  Lifting(g_touchInfo[i].id)
        BY <2>0, <3>2, <4>1, <4>2 DEF TouchInv, UpIsLifting
      <4> QED BY <4>1, <4>2
    <3>4. CASE UNCHANGED <<g_touchInfo, g_activeTouchSlots>>
      BY <3>4
    <3> QED BY <3>1, <3>3, <3>4
  <2>6. CASE UNCHANGED touchVars
    BY <2>6 DEF touchVars
  <2> QED BY <1>2, <2>1, <2>2, <2>3, <2>4, <2>5, <2>6, TouchFrame, Zenon
<1>3. HostIInv /\ [Next]_vars =>
        [\A k \in Keys : askedKey[k] = "up" /\ askedKey'[k] = "down" /\ mon' # mon
                           => Releasing(k)]_vars
  BY <1>1
<1>4. HostIInv /\ [Next]_vars =>
        [\A i \in Slots : /\ g_touchInfo[i].flags = "up" /\ g_touchInfo'[i].flags = "contact"
                          /\ events' = events
                          => Lifting(g_touchInfo[i].id)]_vars
  BY <1>2 DEF TouchKept
<1>5. HostIInv /\ [Next]_vars =>
        [\A i \in Slots : g_touchInfo[i].flags # "none" =>
                            g_touchInfo'[i].id = g_touchInfo[i].id]_vars
  BY <1>2 DEF TouchKept
<1> QED BY <1>3, <1>4, <1>5, HostAlways, PTL
        DEF Spec, RevivedOnlyInWindow, KeyRevivedOnlyInWindow, TouchRevivedOnlyInWindow,
            SlotIdentityIsStable

----------------------------------------------------------------------------
(***************************************************************************)
(* Part two: WindowsCursorMonitor.                                         *)
(*                                                                         *)
(* ViewsSettle speaks of the moment when nothing is under way.  CursorInv  *)
(* says at every moment what a subscriber will have once the messages are  *)
(* handled (WillHave): what lastHCursor and lastCursorPos say, which is    *)
(* what lets a synchronisation leave it out (ImageCommon, PlaceCommon),    *)
(* and, if no event about it is waiting, what the host's cursor is         *)
(* (SightSettles, ImageSettles, PlaceSettles).                             *)
(***************************************************************************)

----------------------------------------------------------------------------
(* The inductive invariant.                                                *)

ImageKinds == {"default", "image", "cached"}
SightKinds == {"visible", "invisible"}
PlaceKinds == {"position"}

\* What Dart's callback keeps of a message.
Val(m) == IF m.kind = "position" THEN m.what[1]
          ELSE IF m.kind \in SightKinds THEN m.kind ELSE m.what

Of(m, i, K) == m.to = i /\ m.kind \in K

LastOf(q, i, K, n) == Of(q[n], i, K) /\ \A m \in DOMAIN q : m > n => ~Of(q[m], i, K)

\* Once the messages q are handled i has x, given that it has cur now.
WillHave(q, i, K, cur, x) ==
  /\ \A n \in DOMAIN q : LastOf(q, i, K, n) => Val(q[n]) = x
  /\ (\A n \in DOMAIN q : ~Of(q[n], i, K)) => cur = x

Sendable == {m \in Messages : Len(m.what) \in {1, 2}}
Views == [img : Seq(Nat), have : SUBSET Seq(Nat), vis : {"none"} \cup SightKinds, pos : Nat]
Excuses == SUBSET {"vis", "img", "seeded", "pos", "seededPos"}
Events == {"show", "hide", "name", "location"}

CursorTypes ==
  /\ os \in [cursor : Cursors, visible : BOOLEAN, pos : Positions, readable : BOOLEAN]
  /\ posted \in Seq(Events)
  /\ callbacks \in SUBSET Ids /\ IsFiniteSet(callbacks)
  /\ positionCallbacks \in SUBSET Ids /\ IsFiniteSet(positionCallbacks)
  /\ cachedcursors \in [Ids -> SUBSET Seq(Nat)]
  /\ lastHCursor \in Cursors \cup {NoCursor} /\ lastCursorPos \in Positions \cup {NoPos}
  /\ lastCursorVisible \in BOOLEAN /\ hasLastCursorVisible \in BOOLEAN
  /\ toDart \in Seq(Sendable)
  /\ view \in [Ids -> Views]
  /\ excuse \in [Ids -> Excuses] /\ late \in SUBSET Ids

HookOK ==
  /\ Global_HOOK \in BOOLEAN
  /\ Global_HOOK => callbacks # {} \/ positionCallbacks # {}
  /\ posted # <<>> => Global_HOOK

Live == callbacks \ late

\* A bitmap that is sent by its hash was sent in full before.
Sent(q, i, n, f) == \E k \in DOMAIN q : k < n /\ q[k].to = i /\ q[k].kind = "image" /\ q[k].what = f

CacheOf(q, i, cache, have) ==
  /\ \A f \in cache : f \in have \/ Sent(q, i, Len(q) + 1, f)
  /\ \A n \in DOMAIN q : q[n].to = i /\ q[n].kind = "cached" =>
       q[n].what \in have \/ Sent(q, i, n, q[n].what)

CacheOK == \A i \in Live : CacheOf(toDart, i, cachedcursors[i], view[i].have)

Posted(E) == \E n \in DOMAIN posted : posted[n] \in E

Sight(v) == IF v THEN "visible" ELSE "invisible"
Picture(i, c) == IF ByName(i, c) THEN <<c>> ELSE FrameOf(c, TRUE)

WillSee(i, v)   == WillHave(toDart, i, SightKinds, view[i].vis, Sight(v))
WillShow(i, c)  == WillHave(toDart, i, ImageKinds, view[i].img, Picture(i, c))
WillPoint(i, p) == WillHave(toDart, i, PlaceKinds, view[i].pos, p)

\* The last of the events about it tells whether the cursor is visible.
EventsOK ==
  \A n \in DOMAIN posted :
    posted[n] \in {"show", "hide"} /\ (\A m \in DOMAIN posted : m > n => posted[m] \notin {"show", "hide"})
      => (posted[n] = "show" <=> os.visible)

SightSettles == \A i \in Live : "vis" \in excuse[i] \/ WillSee(i, os.visible)

ImageSettles == \A i \in Live : \/ WillShow(i, os.cursor)
                                \/ "img" \in excuse[i]
                                \/ "seeded" \in excuse[i] /\ os.cursor = lastHCursor
ImageCommon == \A i \in Live : \/ "img" \in excuse[i] \/ "seeded" \in excuse[i]
                               \/ WillShow(i, lastHCursor)

PlaceSettles == \A i \in positionCallbacks :
                  \/ WillPoint(i, os.pos)
                  \/ "pos" \in excuse[i]
                  \/ "seededPos" \in excuse[i] /\ os.pos = lastCursorPos
PlaceCommon == \A i \in positionCallbacks :
                  \/ WillPoint(i, lastCursorPos)
                  \/ "pos" \in excuse[i] \/ "seededPos" \in excuse[i]

SightInv == EventsOK /\ (~Posted({"show", "hide"}) => SightSettles)
ImageInv == ImageCommon /\ (~Posted({"name"}) => ImageSettles)
PlaceInv == PlaceCommon /\ (~Posted({"location"}) => PlaceSettles)

CursorInv == /\ CursorTypes /\ HookOK /\ CachedIsKnown /\ CacheOK
             /\ SightInv /\ ImageInv /\ PlaceInv

----------------------------------------------------------------------------
(* Sequences of messages.                                                  *)

\* Messages to others leave what i will have.
LEMMA WillHaveKept ==
  ASSUME NEW M, NEW q \in Seq(M), NEW r \in Seq(M), NEW i, NEW K, NEW cur, NEW x,
         WillHave(q, i, K, cur, x), \A n \in DOMAIN r : ~Of(r[n], i, K)
  PROVE  WillHave(q \o r, i, K, cur, x)
<1> DEFINE s == q \o r
<1>1. /\ DOMAIN q = 1 .. Len(q) /\ DOMAIN r = 1 .. Len(r) /\ DOMAIN s = 1 .. (Len(q) + Len(r))
      /\ Len(q) \in Nat /\ Len(r) \in Nat
  BY ConcatProperties, LenProperties
<1>2. \A n \in DOMAIN q : n \in DOMAIN s /\ s[n] = q[n]
  BY <1>1
<1>3. \A n \in DOMAIN s : n \notin DOMAIN q => n - Len(q) \in DOMAIN r /\ s[n] = r[n - Len(q)]
  BY <1>1
<1> HIDE DEF s
<1>4. \A n \in DOMAIN s : Of(s[n], i, K) => n \in DOMAIN q
  BY <1>3
<1>5. \A n \in DOMAIN s : LastOf(s, i, K, n) => n \in DOMAIN q /\ LastOf(q, i, K, n)
  BY <1>2, <1>4 DEF LastOf
<1>6. \A n \in DOMAIN s : LastOf(s, i, K, n) => Val(s[n]) = x
  BY <1>2, <1>5 DEF WillHave
<1>7. (\A n \in DOMAIN s : ~Of(s[n], i, K)) => cur = x
  BY <1>2 DEF WillHave
<1> QED BY <1>6, <1>7 DEF WillHave, s

\* It will have what the last messages all say.
LEMMA WillHaveSent ==
  ASSUME NEW M, NEW q \in Seq(M), NEW r \in Seq(M), NEW i, NEW K, NEW cur, NEW x,
         \E n \in DOMAIN r : Of(r[n], i, K),
         \A n \in DOMAIN r : Of(r[n], i, K) => Val(r[n]) = x
  PROVE  WillHave(q \o r, i, K, cur, x)
<1> DEFINE s == q \o r
<1>1. /\ DOMAIN q = 1 .. Len(q) /\ DOMAIN r = 1 .. Len(r) /\ DOMAIN s = 1 .. (Len(q) + Len(r))
      /\ Len(q) \in Nat /\ Len(r) \in Nat
  BY ConcatProperties, LenProperties
<1>2. \A n \in DOMAIN r : Len(q) + n \in DOMAIN s /\ s[Len(q) + n] = r[n]
  BY <1>1
<1>3. \A n \in DOMAIN s : n \notin DOMAIN q => n - Len(q) \in DOMAIN r /\ s[n] = r[n - Len(q)]
  BY <1>1
<1>4. PICK k \in DOMAIN r : Of(r[k], i, K)
  OBVIOUS
<1> HIDE DEF s
<1>5. Len(q) + k \in DOMAIN s /\ Of(s[Len(q) + k], i, K)
  BY <1>2, <1>4
<1>6. \A n \in DOMAIN q : Len(q) + k > n
  BY <1>1, <1>4
<1>7. \A n \in DOMAIN s : LastOf(s, i, K, n) => n \notin DOMAIN q
  BY <1>5, <1>6 DEF LastOf
<1>8. \A n \in DOMAIN s : LastOf(s, i, K, n) => Val(s[n]) = x
  BY <1>3, <1>7 DEF LastOf
<1>9. (\A n \in DOMAIN s : ~Of(s[n], i, K)) => cur = x
  BY <1>5
<1> QED BY <1>8, <1>9 DEF WillHave, s

\* The first message is handled.
LEMMA WillHaveNext ==
  ASSUME NEW M, NEW q \in Seq(M), q # <<>>, NEW i, NEW K, NEW cur, NEW new, NEW x,
         WillHave(q, i, K, cur, x),
         Of(Head(q), i, K) => new = Val(Head(q)), ~Of(Head(q), i, K) => new = cur
  PROVE  WillHave(Tail(q), i, K, new, x)
<1> DEFINE s == Tail(q)
<1>1. /\ DOMAIN q = 1 .. Len(q) /\ Len(q) \in Nat \ {0} /\ Head(q) = q[1]
      /\ DOMAIN s = 1 .. (Len(q) - 1) /\ \A n \in DOMAIN s : s[n] = q[n + 1]
  BY EmptySeq, LenProperties, HeadTailProperties
<1> HIDE DEF s
<1>2. \A n \in DOMAIN s : n + 1 \in DOMAIN q /\ s[n] = q[n + 1] /\ n \in Nat
  BY <1>1
<1>3. \A n \in DOMAIN q : n # 1 => n - 1 \in DOMAIN s /\ q[n] = s[n - 1]
  BY <1>1
<1>4. \A n \in DOMAIN s : LastOf(s, i, K, n) => LastOf(q, i, K, n + 1)
  <2> SUFFICES ASSUME NEW n \in DOMAIN s, LastOf(s, i, K, n),
                      NEW m \in DOMAIN q, m > n + 1
               PROVE  ~Of(q[m], i, K)
    BY <1>2 DEF LastOf
  <2>1. m # 1 /\ m - 1 > n /\ m \in Nat /\ n \in Nat
    BY <1>1, <1>2
  <2> QED BY <1>3, <2>1 DEF LastOf
<1>5. \A n \in DOMAIN s : LastOf(s, i, K, n) => Val(s[n]) = x
  BY <1>2, <1>4 DEF WillHave
<1>6. (\A n \in DOMAIN s : ~Of(s[n], i, K)) => new = x
  <2> SUFFICES ASSUME \A n \in DOMAIN s : ~Of(s[n], i, K) PROVE new = x
    OBVIOUS
  <2>1. \A n \in DOMAIN q : n # 1 => ~Of(q[n], i, K)
    BY <1>3
  <2>2. CASE Of(q[1], i, K)
    <3>1. LastOf(q, i, K, 1) /\ 1 \in DOMAIN q
      BY <1>1, <2>1, <2>2 DEF LastOf
    <3> QED BY <1>1, <2>2, <3>1 DEF WillHave
  <2>3. CASE ~Of(q[1], i, K)
    BY <1>1, <2>1, <2>3 DEF WillHave
  <2> QED BY <2>2, <2>3
<1> QED BY <1>5, <1>6 DEF WillHave, s

LEMMA WillHaveAtEnd ==
  ASSUME NEW i, NEW K, NEW cur, NEW x, WillHave(<<>>, i, K, cur, x)
  PROVE  cur = x
BY DEF WillHave

\* s is q followed by r.
Extends(q, r, s, i) ==
  /\ \A n \in DOMAIN q : n \in DOMAIN s /\ s[n] = q[n]
  /\ \A n \in DOMAIN r : Len(q) + n \in DOMAIN s /\ s[Len(q) + n] = r[n]
  /\ \A n \in DOMAIN s :
       n \in DOMAIN q \/ (n - Len(q) \in DOMAIN r /\ s[n] = r[n - Len(q)] /\ n > Len(q))
  /\ \A f : \A n \in DOMAIN q : Sent(q, i, n, f) => Sent(s, i, n, f)
  /\ \A f : Sent(q, i, Len(q) + 1, f) => \A n \in Nat : n > Len(q) => Sent(s, i, n, f)
  /\ Len(s) = Len(q) + Len(r) /\ Len(q) \in Nat /\ Len(r) \in Nat

\* A picture that was sent stays sent, or has arrived.
LEMMA SentKept ==
  ASSUME NEW M, NEW q \in Seq(M), NEW r \in Seq(M), NEW i
  PROVE  Extends(q, r, q \o r, i)
<1> DEFINE s == q \o r
<1>1. /\ DOMAIN q = 1 .. Len(q) /\ DOMAIN r = 1 .. Len(r) /\ DOMAIN s = 1 .. (Len(q) + Len(r))
      /\ Len(q) \in Nat /\ Len(r) \in Nat /\ Len(s) = Len(q) + Len(r)
  BY ConcatProperties, LenProperties
<1>2. \A n \in DOMAIN q : n \in DOMAIN s /\ s[n] = q[n]
  BY <1>1
<1>3. \A n \in DOMAIN r : Len(q) + n \in DOMAIN s /\ s[Len(q) + n] = r[n]
  BY <1>1
<1>4. \A n \in DOMAIN s :
        n \in DOMAIN q \/ (n - Len(q) \in DOMAIN r /\ s[n] = r[n - Len(q)] /\ n > Len(q))
  BY <1>1
<1> HIDE DEF s
<1>5. \A f : \A n \in DOMAIN q : Sent(q, i, n, f) => Sent(s, i, n, f)
  BY <1>2 DEF Sent
<1>6. \A f : Sent(q, i, Len(q) + 1, f) => \A n \in Nat : n > Len(q) => Sent(s, i, n, f)
  <2> SUFFICES ASSUME NEW f, Sent(q, i, Len(q) + 1, f), NEW n \in Nat, n > Len(q)
               PROVE  Sent(s, i, n, f)
    OBVIOUS
  <2>1. PICK k \in DOMAIN q : q[k].to = i /\ q[k].kind = "image" /\ q[k].what = f
    BY DEF Sent
  <2>2. k < n
    BY <1>1
  <2> QED BY <1>2, <2>1, <2>2 DEF Sent
<1> QED BY <1>1, <1>2, <1>3, <1>4, <1>5, <1>6 DEF s, Extends

----------------------------------------------------------------------------
(* The messages of a handler.                                              *)

\* Every id has its turn.
LEMMA InMapOrderFacts ==
  ASSUME NEW S, IsFiniteSet(S), S \subseteq Nat, NEW ids \in InMapOrder(S)
  PROVE  /\ DOMAIN ids = 1 .. Cardinality(S) /\ Cardinality(S) \in Nat
         /\ \A n \in DOMAIN ids : ids[n] \in S
         /\ \A i \in S : \E n \in DOMAIN ids : ids[n] = i
<1> DEFINE n == Cardinality(S)
<1>1. n \in Nat
  BY FS_CardinalityType
<1>2. ids \in [1 .. n -> S] /\ \A i, j \in DOMAIN ids : i < j => ids[i] < ids[j]
  BY DEF InMapOrder
<1> HIDE DEF n
<1>3. \A i, j \in 1 .. n : ids[i] = ids[j] => i = j
  <2> SUFFICES ASSUME NEW i \in 1 .. n, NEW j \in 1 .. n, i # j PROVE ids[i] # ids[j]
    OBVIOUS
  <2>1. i < j \/ j < i
    BY <1>1
  <2>2. ids[i] < ids[j] \/ ids[j] < ids[i]
    BY <1>2, <2>1
  <2>3. ids[i] \in Nat /\ ids[j] \in Nat
    BY <1>2
  <2> QED BY <2>2, <2>3
<1>4. ids \in Injection(1 .. n, S)
  BY <1>2, <1>3 DEF Injection, IsInjective
<1>5. Cardinality(1 .. n) = n
  <2>1. Cardinality(1 .. n) = IF 1 > n THEN 0 ELSE n - 1 + 1
    BY <1>1, FS_Interval
  <2> QED BY <1>1, <2>1
<1>6. ids \in Surjection(1 .. n, S)
  <2>1. Cardinality(1 .. n) = Cardinality(S) <=> ids \in Surjection(1 .. n, S)
    BY <1>4, FS_Injection
  <2> QED BY <1>5, <2>1 DEF n
<1>7. DOMAIN ids = 1 .. n
  BY <1>2
<1>8. \A i \in S : \E m \in DOMAIN ids : ids[m] = i
  BY <1>6, <1>7 DEF Surjection
<1> QED BY <1>1, <1>2, <1>7, <1>8 DEF n

LEMMA FrameIsSeq ==
  ASSUME NEW c \in Cursors, NEW ok \in BOOLEAN
  PROVE  /\ FrameOf(c, ok) \in Seq(Nat) /\ Len(FrameOf(c, ok)) = 2
         /\ <<c>> \in Seq(Nat) /\ Len(<<c>>) = 1
<1>1. Bitmap[c] \in Nat /\ c \in Nat
  BY CursorAssumption
<1>2. CreateMouseCursorFromHCursor(c, ok) \in Nat /\ GetCursorHandle(c) \in Nat
  BY <1>1 DEF CreateMouseCursorFromHCursor, GetCursorHandle, NoCursor
<1> QED BY <1>1, <1>2 DEF FrameOf, CursorBitmapHash

\* The message about the shape c says what i is to have, if c could be drawn.
LEMMA CursorMessageFacts ==
  ASSUME NEW i \in Ids, NEW c \in Cursors, NEW ok \in BOOLEAN, NEW cache
  PROVE  LET m == CursorMessage(i, c, FrameOf(c, ok), cache) IN
         /\ m \in Sendable /\ m.to = i /\ m.kind \in ImageKinds
         /\ ByName(i, c) \/ ok => Val(m) = Picture(i, c)
         /\ m.kind = "cached" => m.what \in cache /\ ~ByName(i, c)
         /\ ~ByName(i, c) => m.what = FrameOf(c, ok)
         /\ ~ByName(i, c) /\ m.kind # "cached" => m.kind = "image"
<1> DEFINE f == FrameOf(c, ok)
           m == CursorMessage(i, c, f, cache)
<1>1. /\ f \in Seq(Nat) /\ Len(f) = 2 /\ <<c>> \in Seq(Nat) /\ Len(<<c>>) = 1
  BY FrameIsSeq
<1>2. ok => f = FrameOf(c, TRUE)
  OBVIOUS
<1>3. CASE ByName(i, c)
  <2>1. m = [to |-> i, kind |-> "default", what |-> <<c>>]
    BY <1>3 DEF CursorMessage
  <2>2. m.to = i /\ m.kind = "default" /\ m.what = <<c>>
    BY <2>1
  <2>3. m \in Sendable
    BY <1>1, <2>1 DEF Sendable, Messages
  <2> HIDE DEF m
  <2>4. Val(m) = <<c>>
    BY <2>2 DEF Val, SightKinds
  <2> QED BY <1>3, <2>2, <2>3, <2>4 DEF ImageKinds, Picture, m
<1>4. CASE ~ByName(i, c)
  <2>1. m = [to |-> i, kind |-> IF f \in cache THEN "cached" ELSE "image", what |-> f]
    BY <1>4 DEF CursorMessage, ImageMessage
  <2>2. m.kind \in {"cached", "image"} /\ m.to = i /\ m.what = f /\ (m.kind = "cached" => f \in cache)
    BY <2>1
  <2>3. m \in Sendable
    BY <1>1, <2>1 DEF Sendable, Messages
  <2> HIDE DEF m, f
  <2>4. Val(m) = f
    BY <2>2 DEF Val, SightKinds
  <2> QED BY <1>2, <1>4, <2>2, <2>3, <2>4 DEF ImageKinds, Picture, m, f
<1> QED BY <1>3, <1>4

\* Messages made for each of some ids, in order.
LEMMA SequenceOf ==
  ASSUME NEW S, IsFiniteSet(S), S \subseteq Nat, NEW ids \in InMapOrder(S), NEW M, NEW r,
         r \in [DOMAIN ids -> M], \A n \in DOMAIN ids : r[n].to = ids[n]
  PROVE  /\ r \in Seq(M)
         /\ \A n \in DOMAIN r : r[n].to \in S
         /\ \A i \in S : \E n \in DOMAIN r : r[n].to = i
<1>1. /\ DOMAIN ids = 1 .. Cardinality(S) /\ Cardinality(S) \in Nat
      /\ \A n \in DOMAIN ids : ids[n] \in S
      /\ \A i \in S : \E n \in DOMAIN ids : ids[n] = i
  BY InMapOrderFacts
<1>2. r \in [1 .. Cardinality(S) -> M]
  BY <1>1
<1>3. r \in Seq(M)
  BY <1>1, <1>2, SeqDef
<1> QED BY <1>1, <1>3

SightsTo(ids, v) == [n \in DOMAIN ids |-> VisibilityMessage(ids[n], v)]
PlacesTo(ids) == [n \in DOMAIN ids |-> PositionMessage(ids[n])]
ShapesTo(ids, frame) ==
  [n \in DOMAIN ids |-> CursorMessage(ids[n], os.cursor, frame, cachedcursors[ids[n]])]

LEMMA OtherMessages ==
  ASSUME CursorTypes, NEW i \in Ids, NEW v \in BOOLEAN
  PROVE  /\ VisibilityMessage(i, v) \in Sendable /\ VisibilityMessage(i, v).to = i
         /\ VisibilityMessage(i, v).kind = Sight(v) /\ Val(VisibilityMessage(i, v)) = Sight(v)
         /\ PositionMessage(i) \in Sendable /\ PositionMessage(i).to = i
         /\ PositionMessage(i).kind = "position" /\ Val(PositionMessage(i)) = os.pos
<1>1. os.pos \in Nat
  BY CursorAssumption DEF CursorTypes
<1>2. <<os.pos>> \in Seq(Nat) /\ Len(<<os.pos>>) = 1 /\ <<os.pos>>[1] = os.pos
  BY <1>1
<1>3. VisibilityMessage(i, v) = [to |-> i, kind |-> Sight(v), what |-> <<os.pos>>]
  BY DEF VisibilityMessage, Sight
<1>4. Sight(v) \in SightKinds
  BY DEF Sight, SightKinds
<1>5. VisibilityMessage(i, v) \in Sendable
  BY <1>2, <1>3, <1>4 DEF Sendable, Messages, SightKinds
<1>6. PositionMessage(i) \in Sendable
  BY <1>2 DEF Sendable, Messages, PositionMessage
<1>7. Val(VisibilityMessage(i, v)) = Sight(v)
  BY <1>3, <1>4 DEF Val, SightKinds
<1>8. Val(PositionMessage(i)) = os.pos
  BY <1>2 DEF Val, PositionMessage
<1>9. VisibilityMessage(i, v).to = i /\ VisibilityMessage(i, v).kind = Sight(v)
  BY <1>3
<1>10. PositionMessage(i).to = i /\ PositionMessage(i).kind = "position"
  BY DEF PositionMessage
<1> QED BY <1>5, <1>6, <1>7, <1>8, <1>9, <1>10

LEMMA SightsFacts ==
  ASSUME CursorTypes, NEW ids \in InMapOrder(callbacks), NEW v \in BOOLEAN
  PROVE  LET r == SightsTo(ids, v) IN
         /\ r \in Seq(Sendable)
         /\ \A n \in DOMAIN r : r[n].to \in callbacks /\ r[n].kind = Sight(v) /\ Val(r[n]) = Sight(v)
         /\ \A i \in callbacks : \E n \in DOMAIN r : r[n].to = i
<1> DEFINE r == SightsTo(ids, v)
<1>1. callbacks \subseteq Nat /\ IsFiniteSet(callbacks) /\ callbacks \subseteq Ids
  BY CursorAssumption DEF CursorTypes
<1>2. \A n \in DOMAIN ids : ids[n] \in callbacks
  BY <1>1, InMapOrderFacts
<1>3. DOMAIN r = DOMAIN ids /\ r = [n \in DOMAIN r |-> r[n]]
      /\ \A n \in DOMAIN ids : r[n] = VisibilityMessage(ids[n], v)
  BY DEF SightsTo
<1> HIDE DEF r
<1>4. \A n \in DOMAIN ids : /\ r[n] \in Sendable /\ r[n].to = ids[n] /\ r[n].kind = Sight(v)
                            /\ Val(r[n]) = Sight(v)
  BY <1>1, <1>2, <1>3, OtherMessages
<1>5. /\ r \in Seq(Sendable)
      /\ \A n \in DOMAIN r : r[n].to \in callbacks
      /\ \A i \in callbacks : \E n \in DOMAIN r : r[n].to = i
  <2>1. r \in [DOMAIN ids -> Sendable] /\ \A n \in DOMAIN ids : r[n].to = ids[n]
    BY <1>3, <1>4
  <2> QED BY <1>1, <2>1, SequenceOf
<1> QED BY <1>3, <1>4, <1>5 DEF r

LEMMA PlacesFacts ==
  ASSUME CursorTypes, NEW ids \in InMapOrder(positionCallbacks)
  PROVE  LET r == PlacesTo(ids) IN
         /\ r \in Seq(Sendable)
         /\ \A n \in DOMAIN r : r[n].to \in positionCallbacks /\ r[n].kind = "position" /\ Val(r[n]) = os.pos
         /\ \A i \in positionCallbacks : \E n \in DOMAIN r : r[n].to = i
<1> DEFINE r == PlacesTo(ids)
<1>1. /\ positionCallbacks \subseteq Nat /\ IsFiniteSet(positionCallbacks)
      /\ positionCallbacks \subseteq Ids
  BY CursorAssumption DEF CursorTypes
<1>2. \A n \in DOMAIN ids : ids[n] \in positionCallbacks
  BY <1>1, InMapOrderFacts
<1>3. DOMAIN r = DOMAIN ids /\ r = [n \in DOMAIN r |-> r[n]]
      /\ \A n \in DOMAIN ids : r[n] = PositionMessage(ids[n])
  BY DEF PlacesTo
<1> HIDE DEF r
<1>4. \A n \in DOMAIN ids : /\ r[n] \in Sendable /\ r[n].to = ids[n] /\ r[n].kind = "position"
                            /\ Val(r[n]) = os.pos
  <2> SUFFICES ASSUME NEW n \in DOMAIN ids
               PROVE  /\ r[n] \in Sendable /\ r[n].to = ids[n] /\ r[n].kind = "position"
                      /\ Val(r[n]) = os.pos
    OBVIOUS
  <2>1. ids[n] \in Ids /\ TRUE \in BOOLEAN
    BY <1>1, <1>2
  <2>2. /\ PositionMessage(ids[n]) \in Sendable /\ PositionMessage(ids[n]).to = ids[n]
        /\ PositionMessage(ids[n]).kind = "position" /\ Val(PositionMessage(ids[n])) = os.pos
    BY <2>1, OtherMessages
  <2> QED BY <1>3, <2>2
<1>5. /\ r \in Seq(Sendable)
      /\ \A n \in DOMAIN r : r[n].to \in positionCallbacks
      /\ \A i \in positionCallbacks : \E n \in DOMAIN r : r[n].to = i
  <2>1. r \in [DOMAIN ids -> Sendable] /\ \A n \in DOMAIN ids : r[n].to = ids[n]
    BY <1>3, <1>4
  <2> QED BY <1>1, <2>1, SequenceOf
<1> QED BY <1>3, <1>4, <1>5 DEF r

LEMMA ShapesFacts ==
  ASSUME CursorTypes, NEW ids \in InMapOrder(callbacks), NEW ok \in BOOLEAN
  PROVE  LET r == ShapesTo(ids, FrameOf(os.cursor, ok)) IN
         /\ r \in Seq(Sendable)
         /\ \A n \in DOMAIN r :
              /\ r[n].to \in callbacks /\ r[n].kind \in ImageKinds
              /\ ByName(r[n].to, os.cursor) \/ ok => Val(r[n]) = Picture(r[n].to, os.cursor)
              /\ r[n].kind = "cached" => r[n].what \in cachedcursors[r[n].to]
              /\ ~ByName(r[n].to, os.cursor) => /\ r[n].what = FrameOf(os.cursor, ok)
                                                /\ r[n].kind # "cached" => r[n].kind = "image"
         /\ \A i \in callbacks : \E n \in DOMAIN r : r[n].to = i
<1> DEFINE f == FrameOf(os.cursor, ok)
           r == ShapesTo(ids, f)
<1>1. /\ callbacks \subseteq Nat /\ IsFiniteSet(callbacks) /\ callbacks \subseteq Ids
      /\ os.cursor \in Cursors
  BY CursorAssumption DEF CursorTypes
<1>2. \A n \in DOMAIN ids : ids[n] \in callbacks
  BY <1>1, InMapOrderFacts
<1>3. DOMAIN r = DOMAIN ids /\ r = [n \in DOMAIN r |-> r[n]]
      /\ \A n \in DOMAIN ids : r[n] = CursorMessage(ids[n], os.cursor, f, cachedcursors[ids[n]])
  BY DEF ShapesTo
<1> HIDE DEF r
<1>4. \A n \in DOMAIN ids :
         /\ r[n] \in Sendable /\ r[n].to = ids[n] /\ r[n].kind \in ImageKinds
         /\ ByName(ids[n], os.cursor) \/ ok => Val(r[n]) = Picture(ids[n], os.cursor)
         /\ r[n].kind = "cached" => r[n].what \in cachedcursors[ids[n]]
         /\ ~ByName(ids[n], os.cursor) => r[n].what = f /\ (r[n].kind # "cached" => r[n].kind = "image")
  BY <1>1, <1>2, <1>3, CursorMessageFacts
<1>5. /\ r \in Seq(Sendable)
      /\ \A n \in DOMAIN r : r[n].to \in callbacks
      /\ \A i \in callbacks : \E n \in DOMAIN r : r[n].to = i
  <2>1. r \in [DOMAIN ids -> Sendable] /\ \A n \in DOMAIN ids : r[n].to = ids[n]
    BY <1>3, <1>4
  <2> QED BY <1>1, <2>1, SequenceOf
<1> QED BY <1>3, <1>4, <1>5 DEF r

----------------------------------------------------------------------------
(* The shape.                                                              *)

\* More messages are sent: a bitmap goes by its hash only if it is in the cache,
\* and what is new in the cache was sent in full.
LEMMA CacheOfAppend ==
  ASSUME NEW M, NEW q \in Seq(M), NEW r \in Seq(M), NEW i, NEW cache, NEW new, NEW have,
         CacheOf(q, i, cache, have),
         \A n \in DOMAIN r : r[n].to = i /\ r[n].kind = "cached" => r[n].what \in cache,
         \A f \in new : \/ f \in cache
                        \/ \E n \in DOMAIN r : r[n].to = i /\ r[n].kind = "image" /\ r[n].what = f
  PROVE  CacheOf(q \o r, i, new, have)
<1> DEFINE s == q \o r
<1>3. /\ \A n \in DOMAIN q : n \in DOMAIN s /\ s[n] = q[n]
      /\ \A n \in DOMAIN r : Len(q) + n \in DOMAIN s /\ s[Len(q) + n] = r[n]
      /\ \A n \in DOMAIN s :
           n \in DOMAIN q \/ (n - Len(q) \in DOMAIN r /\ s[n] = r[n - Len(q)] /\ n > Len(q))
      /\ \A f : \A n \in DOMAIN q : Sent(q, i, n, f) => Sent(s, i, n, f)
      /\ \A f : Sent(q, i, Len(q) + 1, f) => \A n \in Nat : n > Len(q) => Sent(s, i, n, f)
      /\ Len(s) = Len(q) + Len(r) /\ Len(q) \in Nat /\ Len(r) \in Nat
  <2>1. Extends(q, r, s, i)
    BY SentKept
  <2> HIDE DEF s
  <2> QED BY <2>1 DEF Extends
<1>4. DOMAIN r = 1 .. Len(r) /\ DOMAIN s \subseteq Nat
  <2>1. s \in Seq(M) /\ DOMAIN s = 1 .. Len(s) /\ DOMAIN r = 1 .. Len(r)
    BY ConcatProperties, LenProperties
  <2> QED BY <1>3, <2>1
<1>5. /\ \A f \in cache : f \in have \/ Sent(q, i, Len(q) + 1, f)
      /\ \A n \in DOMAIN q : q[n].to = i /\ q[n].kind = "cached" =>
           q[n].what \in have \/ Sent(q, i, n, q[n].what)
  BY DEF CacheOf
<1> HIDE DEF s
<1>6. ASSUME NEW f \in new PROVE f \in have \/ Sent(s, i, Len(s) + 1, f)
  <2>1. CASE f \in cache
    <3>1. Len(s) + 1 \in Nat /\ Len(s) + 1 > Len(q)
      BY <1>3
    <3> QED BY <1>3, <1>5, <2>1, <3>1
  <2>2. CASE \E n \in DOMAIN r : r[n].to = i /\ r[n].kind = "image" /\ r[n].what = f
    <3>1. PICK n \in DOMAIN r : r[n].to = i /\ r[n].kind = "image" /\ r[n].what = f
      BY <2>2
    <3>2. Len(q) + n < Len(s) + 1
      BY <1>3, <1>4
    <3> QED BY <1>3, <3>1, <3>2 DEF Sent
  <2> QED BY <2>1, <2>2
<1>7. ASSUME NEW n \in DOMAIN s, s[n].to = i, s[n].kind = "cached"
      PROVE  s[n].what \in have \/ Sent(s, i, n, s[n].what)
  <2>1. CASE n \in DOMAIN q
    BY <1>3, <1>5, <1>7, <2>1
  <2>2. CASE n - Len(q) \in DOMAIN r /\ s[n] = r[n - Len(q)] /\ n > Len(q)
    <3>1. s[n].what \in cache
      BY <1>7, <2>2
    <3>2. n \in Nat
      BY <1>4
    <3> QED BY <1>3, <1>5, <2>2, <3>1, <3>2
  <2> QED BY <1>3, <2>1, <2>2
<1> QED BY <1>6, <1>7 DEF CacheOf, s

LEMMA CacheAppend ==
  ASSUME CursorTypes, CacheOK, NEW r \in Seq(Sendable), toDart' = toDart \o r,
         \A i \in Ids : view'[i].have = view[i].have, Live' \subseteq Live,
         \A i \in Live' : \A n \in DOMAIN r :
           r[n].to = i /\ r[n].kind = "cached" => r[n].what \in cachedcursors[i],
         \A i \in Live' : \A f \in cachedcursors'[i] :
           \/ f \in cachedcursors[i]
           \/ \E n \in DOMAIN r : r[n].to = i /\ r[n].kind = "image" /\ r[n].what = f
  PROVE  CacheOK'
<1> SUFFICES ASSUME NEW i \in Live'
             PROVE  CacheOf(toDart', i, cachedcursors'[i], view'[i].have)
  BY DEF CacheOK
<1>1. toDart \in Seq(Sendable)
  BY DEF CursorTypes
<1>2. CacheOf(toDart, i, cachedcursors[i], view[i].have)
  BY DEF CacheOK
<1>3. view'[i].have = view[i].have
  BY DEF Live, CursorTypes
<1> QED BY <1>1, <1>2, <1>3, CacheOfAppend

Synced(sent, e, ok, ids) ==
  LET frame == FrameOf(os.cursor, ok)
      drawn == {i \in callbacks : ~ByName(i, os.cursor)}
  IN  /\ os.readable
      /\ lastHCursor' = os.cursor
      /\ cachedcursors' = [i \in Ids |-> cachedcursors[i] \cup
                             (IF i \in drawn THEN {frame} ELSE {})]
      /\ toDart' = (toDart \o sent) \o ShapesTo(ids, frame)
      /\ excuse' = IF ok THEN Unexcused(callbacks, {"img", "seeded"}, e)
                   ELSE Excused(drawn, {"img"}, Unexcused(callbacks, {"img", "seeded"}, e))

Skipped(sent, e) ==
  /\ toDart' = toDart \o sent
  /\ lastHCursor' = lastHCursor /\ cachedcursors' = cachedcursors
  /\ excuse' = IF os.readable THEN e ELSE Excused(callbacks, {"img"}, e)
  /\ callbacks = {} \/ ~os.readable \/ os.cursor = lastHCursor

LEMMA SyncCases ==
  ASSUME CursorTypes, NEW sent, NEW e, SyncCursorImage(sent, e)
  PROVE  \/ \E ok \in BOOLEAN, ids \in InMapOrder(callbacks) : Synced(sent, e, ok, ids)
         \/ Skipped(sent, e)
<1>1. CASE callbacks # {} /\ os.readable /\ os.cursor # lastHCursor
  <2>1. PICK ok \in MayFail, ids \in InMapOrder(callbacks) :
               /\ lastHCursor' = os.cursor
               /\ cachedcursors' = [i \in Ids |-> cachedcursors[i] \cup
                     (IF i \in {j \in callbacks : ~ByName(j, os.cursor)}
                        THEN {FrameOf(os.cursor, ok)} ELSE {})]
               /\ toDart' = toDart \o sent \o ShapesTo(ids, FrameOf(os.cursor, ok))
               /\ excuse' = IF ok THEN Unexcused(callbacks, {"img", "seeded"}, e)
                            ELSE Excused({j \in callbacks : ~ByName(j, os.cursor)}, {"img"},
                                         Unexcused(callbacks, {"img", "seeded"}, e))
    BY <1>1 DEF SyncCursorImage, ShouldSyncCursorImage, ShapesTo
  <2>2. ok \in BOOLEAN
    BY DEF MayFail
  <2> QED BY <1>1, <2>1, <2>2 DEF Synced
<1>2. CASE ~(callbacks # {} /\ os.readable /\ os.cursor # lastHCursor)
  BY <1>2 DEF SyncCursorImage, ShouldSyncCursorImage, Skipped
<1> QED BY <1>1, <1>2

Whats == {"vis", "img", "seeded", "pos", "seededPos"}

LEMMA ExcusedFacts ==
  ASSUME NEW S \in SUBSET Ids, NEW what \in SUBSET Whats, NEW e \in [Ids -> Excuses]
  PROVE  /\ Excused(S, what, e) \in [Ids -> Excuses]
         /\ Unexcused(S, what, e) \in [Ids -> Excuses]
         /\ \A i \in Ids : Excused(S, what, e)[i] = IF i \in S THEN e[i] \cup what ELSE e[i]
         /\ \A i \in Ids : Unexcused(S, what, e)[i] = IF i \in S THEN e[i] \ what ELSE e[i]
BY DEF Excused, Unexcused, Excuses, Whats

\* Of the excuses, those in W are the same.
SameExcuses(e, f, W) == \A i \in Ids : \A w \in W : w \in e[i] <=> w \in f[i]

\* What a synchronisation of the shape does, whatever was sent before it.
LEMMA SyncedExcuses ==
  ASSUME CursorTypes, NEW sent, NEW e \in [Ids -> Excuses], NEW ok \in BOOLEAN,
         NEW ids, Synced(sent, e, ok, ids)
  PROVE  /\ excuse' \in [Ids -> Excuses]
         /\ SameExcuses(excuse', e, {"vis", "pos", "seededPos"})
         /\ \A i \in callbacks : /\ ~ok /\ ~ByName(i, os.cursor) => "img" \in excuse'[i]
<1> DEFINE drawn == {i \in callbacks : ~ByName(i, os.cursor)}
           u == Unexcused(callbacks, {"img", "seeded"}, e)
           x == Excused(drawn, {"img"}, u)
<1>1. excuse' = IF ok THEN u ELSE x
  BY DEF Synced
<1>2. callbacks \in SUBSET Ids /\ drawn \in SUBSET Ids
  BY DEF CursorTypes
<1>3. {"img", "seeded"} \in SUBSET Whats /\ {"img"} \in SUBSET Whats
  BY DEF Whats
<1>4. /\ u \in [Ids -> Excuses]
      /\ \A i \in Ids : u[i] = IF i \in callbacks THEN e[i] \ {"img", "seeded"} ELSE e[i]
  BY <1>2 DEF Unexcused, Excuses
<1> HIDE DEF u
<1>5. drawn = {i \in callbacks : ~ByName(i, os.cursor)}
  OBVIOUS
<1> HIDE DEF drawn
<1>6. /\ x \in [Ids -> Excuses]
      /\ \A i \in Ids : x[i] = IF i \in drawn THEN u[i] \cup {"img"} ELSE u[i]
  BY <1>2, <1>4 DEF Excused, Excuses
<1> HIDE DEF x
<1>7. SameExcuses(u, e, {"vis", "pos", "seededPos"})
  BY <1>4 DEF SameExcuses
<1>8. SameExcuses(x, e, {"vis", "pos", "seededPos"})
  BY <1>4, <1>6 DEF SameExcuses
<1> QED BY <1>1, <1>2, <1>4, <1>5, <1>6, <1>7, <1>8

LEMMA SyncStep ==
  ASSUME CursorTypes, CacheOK, ImageCommon, NEW sent \in Seq(Sendable),
         \A n \in DOMAIN sent : sent[n].kind \notin ImageKinds,
         NEW e \in [Ids -> Excuses], SameExcuses(e, excuse, {"img", "seeded"}),
         SyncCursorImage(sent, e), os' = os, callbacks' = callbacks, late' = late, view' = view
  PROVE  /\ toDart' \in Seq(Sendable) /\ lastHCursor' \in Cursors \cup {NoCursor}
         /\ cachedcursors' \in [Ids -> SUBSET Seq(Nat)] /\ excuse' \in [Ids -> Excuses]
         /\ CacheOK' /\ ImageCommon' /\ ImageSettles'
         /\ SameExcuses(excuse', e, {"vis", "pos", "seededPos"})
         /\ \E shape \in Seq(Sendable) : /\ toDart' = (toDart \o sent) \o shape
                                         /\ \A n \in DOMAIN shape : shape[n].kind \in ImageKinds
<1> DEFINE q == toDart \o sent
<1>0. toDart \in Seq(Sendable) /\ q \in Seq(Sendable)
  BY ConcatProperties DEF CursorTypes
<1>1. CASE Skipped(sent, e)
  <2>1. toDart' = toDart \o sent /\ lastHCursor' = lastHCursor /\ cachedcursors' = cachedcursors
    BY <1>1 DEF Skipped
  <2>2. Live' = Live /\ Live \subseteq Ids /\ Live \subseteq callbacks
    BY DEF Live, CursorTypes
  <2>3. CacheOK'
    <3>1. \A n \in DOMAIN sent : sent[n].kind # "cached"
      BY DEF ImageKinds
    <3> QED BY <2>1, <2>2, <3>1, CacheAppend
  <2>4. {"img"} \in SUBSET Whats /\ callbacks \in SUBSET Ids
    BY DEF Whats, CursorTypes
  <2>5. excuse' \in [Ids -> Excuses]
    BY <1>1, <2>4, ExcusedFacts DEF Skipped
  <2>6. SameExcuses(excuse', e, {"vis", "pos", "seededPos"})
    <3>1. CASE os.readable
      BY <1>1, <3>1 DEF Skipped, SameExcuses
    <3>2. CASE ~os.readable
      <4>1. \A i \in Ids : excuse'[i] = IF i \in callbacks THEN e[i] \cup {"img"} ELSE e[i]
        BY <1>1, <3>2 DEF Skipped, Excused
      <4> QED BY <4>1 DEF SameExcuses
    <3> QED BY <3>1, <3>2
  <2>7. ASSUME NEW i \in Live, NEW c, WillShow(i, c) PROVE WillShow(i, c)'
    <3>1. WillHave(toDart, i, ImageKinds, view[i].img, Picture(i, c))
      BY <2>7 DEF WillShow
    <3>2. \A n \in DOMAIN sent : ~Of(sent[n], i, ImageKinds)
      BY DEF Of
    <3>3. WillHave(toDart \o sent, i, ImageKinds, view[i].img, Picture(i, c))
      BY <1>0, <3>1, <3>2, WillHaveKept
    <3> QED BY <2>1, <3>3 DEF WillShow
  <2>8. \A i \in Live : \/ "img" \in excuse'[i]
                        \/ /\ "img" \in excuse'[i] <=> "img" \in excuse[i]
                           /\ "seeded" \in excuse'[i] <=> "seeded" \in excuse[i]
                           /\ os.cursor = lastHCursor
    <3>1. CASE os.readable
      <4>1. excuse' = e /\ (Live # {} => os.cursor = lastHCursor)
        BY <1>1, <2>2, <3>1 DEF Skipped
      <4> QED BY <2>2, <4>1 DEF SameExcuses
    <3>2. CASE ~os.readable
      <4>1. \A i \in Ids : excuse'[i] = IF i \in callbacks THEN e[i] \cup {"img"} ELSE e[i]
        BY <1>1, <3>2 DEF Skipped, Excused
      <4> QED BY <2>2, <4>1
    <3> QED BY <3>1, <3>2
  <2>9. ASSUME NEW i \in Live
        PROVE  \/ "img" \in excuse'[i]
               \/ "seeded" \in excuse'[i] /\ os.cursor = lastHCursor
               \/ WillShow(i, lastHCursor) /\ os.cursor = lastHCursor
    BY <2>8 DEF ImageCommon
  <2>10. ImageCommon'
    BY <2>1, <2>2, <2>7, <2>9 DEF ImageCommon
  <2>11. ImageSettles'
    BY <2>1, <2>2, <2>7, <2>9 DEF ImageSettles
  <2>12. /\ <<>> \in Seq(Sendable) /\ toDart' = (toDart \o sent) \o <<>>
         /\ \A n \in DOMAIN <<>> : <<>>[n].kind \in ImageKinds
    BY <1>0, <2>1
  <2> QED BY <1>0, <2>1, <2>3, <2>5, <2>6, <2>10, <2>11, <2>12 DEF CursorTypes
<1>2. ASSUME NEW ok \in BOOLEAN, NEW ids \in InMapOrder(callbacks), Synced(sent, e, ok, ids)
      PROVE  /\ toDart' \in Seq(Sendable) /\ lastHCursor' \in Cursors \cup {NoCursor}
             /\ cachedcursors' \in [Ids -> SUBSET Seq(Nat)] /\ excuse' \in [Ids -> Excuses]
             /\ CacheOK' /\ ImageCommon' /\ ImageSettles'
             /\ SameExcuses(excuse', e, {"vis", "pos", "seededPos"})
             /\ \E shape \in Seq(Sendable) :
                  /\ toDart' = (toDart \o sent) \o shape
                  /\ \A n \in DOMAIN shape : shape[n].kind \in ImageKinds
  <2> DEFINE f == FrameOf(os.cursor, ok)
             r == ShapesTo(ids, f)
  <2>1. /\ r \in Seq(Sendable)
        /\ \A n \in DOMAIN r :
             /\ r[n].to \in callbacks /\ r[n].kind \in ImageKinds
             /\ ByName(r[n].to, os.cursor) \/ ok => Val(r[n]) = Picture(r[n].to, os.cursor)
             /\ r[n].kind = "cached" => r[n].what \in cachedcursors[r[n].to]
             /\ ~ByName(r[n].to, os.cursor) => /\ r[n].what = f
                                               /\ r[n].kind # "cached" => r[n].kind = "image"
        /\ \A i \in callbacks : \E n \in DOMAIN r : r[n].to = i
    BY ShapesFacts
  <2>2. toDart' = q \o r /\ lastHCursor' = os.cursor /\ os.cursor \in Cursors
    BY <1>2 DEF Synced, CursorTypes
  <2>3. /\ excuse' \in [Ids -> Excuses]
        /\ SameExcuses(excuse', e, {"vis", "pos", "seededPos"})
        /\ \A i \in callbacks : ~ok /\ ~ByName(i, os.cursor) => "img" \in excuse'[i]
    BY <1>2, SyncedExcuses
  <2>4. Live' = Live /\ Live \subseteq Ids /\ Live \subseteq callbacks
    BY DEF Live, CursorTypes
  <2>5. f \in Seq(Nat)
    BY <2>2, FrameIsSeq
  <2>6. cachedcursors' = [i \in Ids |-> cachedcursors[i] \cup
           (IF i \in {j \in callbacks : ~ByName(j, os.cursor)} THEN {f} ELSE {})]
    BY <1>2 DEF Synced
  <2> HIDE DEF r, f, q
  <2>7. cachedcursors' \in [Ids -> SUBSET Seq(Nat)]
    BY <2>5, <2>6 DEF CursorTypes
  <2>8. toDart' \in Seq(Sendable)
    BY <1>0, <2>1, <2>2, ConcatProperties
  <2>9. CacheOK'
    <3> DEFINE t == sent \o r
    <3>1. t \in Seq(Sendable) /\ toDart' = toDart \o t
      <4>1. q \o r = toDart \o t
        BY <1>0, <2>1, ConcatAssociative DEF q
      <4> QED BY <2>1, <2>2, <4>1, ConcatProperties
    <3>2. /\ \A n \in DOMAIN r : Len(sent) + n \in DOMAIN t /\ t[Len(sent) + n] = r[n]
          /\ \A n \in DOMAIN t : \/ n \in DOMAIN sent /\ t[n] = sent[n]
                                 \/ n - Len(sent) \in DOMAIN r /\ t[n] = r[n - Len(sent)]
      <4>1. Extends(sent, r, sent \o r, 0)
        BY <2>1, SentKept
      <4> QED BY <4>1 DEF Extends
    <3> HIDE DEF t
    <3>3. ASSUME NEW i \in Live', NEW n \in DOMAIN t, t[n].to = i, t[n].kind = "cached"
          PROVE  t[n].what \in cachedcursors[i]
      BY <2>1, <3>2, <3>3 DEF ImageKinds
    <3>4. ASSUME NEW i \in Live', NEW g \in cachedcursors'[i]
          PROVE  \/ g \in cachedcursors[i]
                 \/ \E n \in DOMAIN t : t[n].to = i /\ t[n].kind = "image" /\ t[n].what = g
      <4>1. i \in Ids /\ i \in callbacks
        BY <2>4
      <4>2. CASE g \notin cachedcursors[i]
        <5>1. g = f /\ ~ByName(i, os.cursor)
          BY <2>6, <4>1, <4>2
        <5>2. PICK n \in DOMAIN r : r[n].to = i
          BY <2>1, <4>1
        <5>3. r[n].what = f /\ r[n].kind = "image"
          BY <2>1, <4>2, <5>1, <5>2
        <5> QED BY <3>2, <5>1, <5>2, <5>3
      <4> QED BY <4>2
    <3> QED BY <2>4, <3>1, <3>3, <3>4, CacheAppend
  <2>10. ASSUME NEW i \in Live PROVE WillShow(i, os.cursor)' \/ "img" \in excuse'[i]
    <3>1. CASE ok \/ ByName(i, os.cursor)
      <4>1. \E n \in DOMAIN r : Of(r[n], i, ImageKinds)
        BY <2>1, <2>4 DEF Of
      <4>2. \A n \in DOMAIN r : Of(r[n], i, ImageKinds) => Val(r[n]) = Picture(i, os.cursor)
        BY <2>1, <3>1 DEF Of
      <4>3. WillHave(q \o r, i, ImageKinds, view[i].img, Picture(i, os.cursor))
        BY <1>0, <2>1, <4>1, <4>2, WillHaveSent
      <4> QED BY <2>2, <4>3 DEF WillShow
    <3>2. CASE ~ok /\ ~ByName(i, os.cursor)
      BY <2>3, <2>4, <3>2
    <3> QED BY <3>1, <3>2
  <2>11. ImageCommon' /\ ImageSettles'
    BY <2>2, <2>4, <2>10 DEF ImageCommon, ImageSettles
  <2> QED BY <2>1, <2>2, <2>3, <2>7, <2>8, <2>9, <2>11 DEF q
<1> QED BY <1>1, <1>2, SyncCases

----------------------------------------------------------------------------
(* Parts of the invariant that a step leaves alone.                        *)

Without(r, K) == \A n \in DOMAIN r : r[n].kind \notin K

\* Messages of other kinds leave what everyone will have.
LEMMA KeptByOthers ==
  ASSUME CursorTypes, NEW r \in Seq(Sendable), toDart' = toDart \o r, NEW i \in Ids
  PROVE  /\ \A v : Without(r, SightKinds) /\ view'[i].vis = view[i].vis /\ WillSee(i, v)
                     => WillSee(i, v)'
         /\ \A c : Without(r, ImageKinds) /\ view'[i].img = view[i].img /\ WillShow(i, c)
                     => WillShow(i, c)'
         /\ \A p : Without(r, PlaceKinds) /\ view'[i].pos = view[i].pos /\ WillPoint(i, p)
                     => WillPoint(i, p)'
<1>0. toDart \in Seq(Sendable)
  BY DEF CursorTypes
<1>1. ASSUME NEW K, Without(r, K), NEW cur, NEW x, WillHave(toDart, i, K, cur, x)
      PROVE  WillHave(toDart', i, K, cur, x)
  <2>1. \A n \in DOMAIN r : ~Of(r[n], i, K)
    BY <1>1 DEF Without, Of
  <2> QED BY <1>0, <1>1, <2>1, WillHaveKept
<1>2. ASSUME NEW v, Without(r, SightKinds), view'[i].vis = view[i].vis, WillSee(i, v)
      PROVE  WillSee(i, v)'
  BY <1>1, <1>2 DEF WillSee
<1>3. ASSUME NEW c, Without(r, ImageKinds), view'[i].img = view[i].img, WillShow(i, c)
      PROVE  WillShow(i, c)'
  BY <1>1, <1>3 DEF WillShow
<1>4. ASSUME NEW p, Without(r, PlaceKinds), view'[i].pos = view[i].pos, WillPoint(i, p)
      PROVE  WillPoint(i, p)'
  BY <1>1, <1>4 DEF WillPoint
<1> QED BY <1>2, <1>3, <1>4

LEMMA SightKept ==
  ASSUME CursorTypes, NEW r \in Seq(Sendable), toDart' = toDart \o r, Without(r, SightKinds),
         \A i \in Ids : view'[i].vis = view[i].vis, os'.visible = os.visible, Live' \subseteq Live,
         SameExcuses(excuse', excuse, {"vis"}), SightSettles
  PROVE  SightSettles'
<1> SUFFICES ASSUME NEW i \in Live' PROVE "vis" \in excuse'[i] \/ WillSee(i, os.visible)'
  BY DEF SightSettles
<1>1. i \in Live /\ i \in Ids
  BY DEF Live, CursorTypes
<1>2. "vis" \in excuse[i] \/ WillSee(i, os.visible)
  BY <1>1 DEF SightSettles
<1>3. WillSee(i, os.visible) => WillHave(toDart', i, SightKinds, view'[i].vis, Sight(os.visible))
  BY <1>1, KeptByOthers DEF WillSee
<1> QED BY <1>1, <1>2, <1>3 DEF SameExcuses, WillSee

LEMMA PlaceKept ==
  ASSUME CursorTypes, NEW r \in Seq(Sendable), toDart' = toDart \o r, Without(r, PlaceKinds),
         \A i \in Ids : view'[i].pos = view[i].pos, os'.pos = os.pos, lastCursorPos' = lastCursorPos,
         positionCallbacks' \subseteq positionCallbacks,
         SameExcuses(excuse', excuse, {"pos", "seededPos"})
  PROVE  /\ PlaceCommon => PlaceCommon'
         /\ PlaceSettles => PlaceSettles'
<1>1. ASSUME NEW i \in positionCallbacks'
      PROVE  /\ i \in positionCallbacks /\ i \in Ids
             /\ "pos" \in excuse'[i] <=> "pos" \in excuse[i]
             /\ "seededPos" \in excuse'[i] <=> "seededPos" \in excuse[i]
             /\ \A p : WillPoint(i, p) => WillPoint(i, p)'
  <2>1. i \in positionCallbacks /\ i \in Ids
    BY DEF CursorTypes
  <2>2. \A p : WillPoint(i, p) => WillPoint(i, p)'
    BY <2>1, KeptByOthers
  <2> QED BY <2>1, <2>2 DEF SameExcuses
<1>2. PlaceCommon => PlaceCommon'
  BY <1>1 DEF PlaceCommon, WillPoint
<1>3. PlaceSettles => PlaceSettles'
  BY <1>1 DEF PlaceSettles, WillPoint
<1> QED BY <1>2, <1>3

LEMMA ImageKept ==
  ASSUME CursorTypes, NEW r \in Seq(Sendable), toDart' = toDart \o r, Without(r, ImageKinds),
         \A i \in Ids : view'[i].img = view[i].img, os'.cursor = os.cursor, lastHCursor' = lastHCursor, Live' \subseteq Live,
         SameExcuses(excuse', excuse, {"img", "seeded"})
  PROVE  /\ ImageCommon => ImageCommon'
         /\ ImageSettles => ImageSettles'
<1>1. ASSUME NEW i \in Live'
      PROVE  /\ i \in Live /\ i \in Ids
             /\ "img" \in excuse'[i] <=> "img" \in excuse[i]
             /\ "seeded" \in excuse'[i] <=> "seeded" \in excuse[i]
             /\ \A c : WillShow(i, c) => WillShow(i, c)'
  <2>1. i \in Live /\ i \in Ids
    BY DEF CursorTypes, Live
  <2>2. \A c : WillShow(i, c) => WillShow(i, c)'
    BY <2>1, KeptByOthers
  <2> QED BY <2>1, <2>2 DEF SameExcuses
<1>2. ImageCommon => ImageCommon'
  BY <1>1 DEF ImageCommon, WillShow
<1>3. ImageSettles => ImageSettles'
  BY <1>1 DEF ImageSettles, WillShow
<1> QED BY <1>2, <1>3

\* The first event is handled.
LEMMA EventHandled ==
  ASSUME CursorTypes, posted # <<>>, posted' = Tail(posted)
  PROVE  /\ posted' \in Seq(Events) /\ Head(posted) \in Events
         /\ \A E : Head(posted) \notin E /\ ~Posted(E)' => ~Posted(E)
         /\ EventsOK /\ os'.visible = os.visible => EventsOK'
         /\ EventsOK /\ ~Posted({"show", "hide"})' /\ Head(posted) \in {"show", "hide"}
              => (Head(posted) = "show" <=> os.visible)
<1> DEFINE q == posted
           s == Tail(posted)
<1>0. q \in Seq(Events) /\ q # <<>>
  BY DEF CursorTypes
<1>1. /\ DOMAIN q = 1 .. Len(q) /\ Len(q) \in Nat \ {0} /\ Head(q) = q[1]
      /\ DOMAIN s = 1 .. (Len(q) - 1) /\ \A n \in DOMAIN s : s[n] = q[n + 1]
      /\ s \in Seq(Events)
  BY <1>0, EmptySeq, LenProperties, HeadTailProperties
<1> HIDE DEF s, q
<1>2. \A n \in DOMAIN s : n + 1 \in DOMAIN q /\ s[n] = q[n + 1] /\ n \in Nat
  BY <1>1
<1>3. \A n \in DOMAIN q : n = 1 \/ (n - 1 \in DOMAIN s /\ q[n] = s[n - 1])
  BY <1>1
<1>4. 1 \in DOMAIN q /\ q[1] \in Events
  BY <1>0, <1>1
<1>5. ASSUME NEW E, Head(q) \notin E, \A n \in DOMAIN s : s[n] \notin E
      PROVE  \A n \in DOMAIN q : q[n] \notin E
  BY <1>1, <1>3, <1>5
<1>6. ASSUME EventsOK, os'.visible = os.visible PROVE EventsOK'
  <2> DEFINE V == {"show", "hide"}
  <2>1. \A n \in DOMAIN q : q[n] \in V /\ (\A m \in DOMAIN q : m > n => q[m] \notin V)
           => (q[n] = "show" <=> os.visible)
    BY <1>6 DEF EventsOK, q
  <2>2. ASSUME NEW n \in DOMAIN s, s[n] \in V, \A m \in DOMAIN s : m > n => s[m] \notin V
        PROVE  s[n] = "show" <=> os.visible
    <3> HIDE DEF V
    <3>1. ASSUME NEW m \in DOMAIN q, m > n + 1 PROVE q[m] \notin V
      <4>1. n \in Nat /\ m \in Nat /\ m # 1 /\ m - 1 > n
        BY <1>1, <1>2, <3>1
      <4> QED BY <1>3, <2>2, <4>1
    <3> QED BY <1>2, <2>1, <2>2, <3>1
  <2> QED BY <1>6, <2>2 DEF EventsOK, s
<1>7. ASSUME EventsOK, \A n \in DOMAIN s : s[n] \notin {"show", "hide"}, q[1] \in {"show", "hide"}
      PROVE  q[1] = "show" <=> os.visible
  <2>1. \A m \in DOMAIN q : m > 1 => q[m] \notin {"show", "hide"}
    BY <1>3, <1>7
  <2> QED BY <1>4, <1>7, <2>1 DEF EventsOK, q
<1> QED BY <1>1, <1>4, <1>5, <1>6, <1>7 DEF Posted, s, q

----------------------------------------------------------------------------
(* The handlers.                                                           *)

\* A synchronisation on its own.
LEMMA PlainSync ==
  ASSUME CursorTypes, CacheOK, ImageCommon, SyncCursorImage(<<>>, excuse),
         os' = os, callbacks' = callbacks, late' = late, view' = view
  PROVE  /\ toDart' \in Seq(Sendable) /\ lastHCursor' \in Cursors \cup {NoCursor}
         /\ cachedcursors' \in [Ids -> SUBSET Seq(Nat)] /\ excuse' \in [Ids -> Excuses]
         /\ CacheOK' /\ ImageCommon' /\ ImageSettles'
         /\ SameExcuses(excuse', excuse, {"vis", "pos", "seededPos"})
         /\ \E r \in Seq(Sendable) : /\ toDart' = toDart \o r
                                     /\ Without(r, SightKinds) /\ Without(r, PlaceKinds)
<1> DEFINE sent == <<>>
<1>1. /\ sent \in Seq(Sendable) /\ toDart \o sent = toDart
      /\ \A n \in DOMAIN sent : sent[n].kind \notin ImageKinds
  BY DEF CursorTypes
<1>2. excuse \in [Ids -> Excuses] /\ SameExcuses(excuse, excuse, {"img", "seeded"})
  BY DEF CursorTypes, SameExcuses
<1>3. SyncCursorImage(sent, excuse)
  OBVIOUS
<1> HIDE DEF sent
<1>4. /\ toDart' \in Seq(Sendable) /\ lastHCursor' \in Cursors \cup {NoCursor}
      /\ cachedcursors' \in [Ids -> SUBSET Seq(Nat)] /\ excuse' \in [Ids -> Excuses]
      /\ CacheOK' /\ ImageCommon' /\ ImageSettles'
      /\ SameExcuses(excuse', excuse, {"vis", "pos", "seededPos"})
      /\ \E shape \in Seq(Sendable) : /\ toDart' = (toDart \o sent) \o shape
                                      /\ \A n \in DOMAIN shape : shape[n].kind \in ImageKinds
  BY <1>1, <1>2, <1>3, SyncStep
<1>5. PICK r \in Seq(Sendable) : toDart' = toDart \o r /\ \A n \in DOMAIN r : r[n].kind \in ImageKinds
  BY <1>1, <1>4
<1>6. Without(r, SightKinds) /\ Without(r, PlaceKinds)
  BY <1>5 DEF Without, ImageKinds, SightKinds, PlaceKinds
<1> QED BY <1>4, <1>5, <1>6

\* Everyone is told that the cursor is visible (v), or that it is not.
LEMMA TellStep ==
  ASSUME CursorTypes, CacheOK, ImageCommon, NEW v \in BOOLEAN, TellVisibility(v),
         os' = os, callbacks' = callbacks, late' = late, view' = view
  PROVE  /\ toDart' \in Seq(Sendable) /\ lastHCursor' \in Cursors \cup {NoCursor}
         /\ cachedcursors' \in [Ids -> SUBSET Seq(Nat)] /\ excuse' \in [Ids -> Excuses]
         /\ lastCursorVisible' \in BOOLEAN /\ hasLastCursorVisible' \in BOOLEAN
         /\ CacheOK' /\ ImageCommon' /\ (ImageSettles => ImageSettles')
         /\ \A i \in Live : WillSee(i, v)'
         /\ SameExcuses(excuse', excuse, {"pos", "seededPos"})
         /\ \E r \in Seq(Sendable) : toDart' = toDart \o r /\ Without(r, PlaceKinds)
<1> DEFINE e == Unexcused(callbacks, {"vis"}, excuse)
<1>1. PICK ids \in InMapOrder(callbacks) :
         /\ hasLastCursorVisible' = TRUE /\ lastCursorVisible' = v
         /\ IF v THEN SyncCursorImage(SightsTo(ids, v), e)
            ELSE /\ toDart' = toDart \o SightsTo(ids, v) /\ excuse' = e
                 /\ UNCHANGED <<lastHCursor, cachedcursors, faults>>
  BY DEF TellVisibility, SightsTo
<1> DEFINE s == SightsTo(ids, v)
<1>2. /\ s \in Seq(Sendable)
      /\ \A n \in DOMAIN s : s[n].to \in callbacks /\ s[n].kind = Sight(v) /\ Val(s[n]) = Sight(v)
      /\ \A i \in callbacks : \E n \in DOMAIN s : s[n].to = i
  BY SightsFacts
<1>3. /\ e \in [Ids -> Excuses]
      /\ SameExcuses(e, excuse, {"img", "seeded"}) /\ SameExcuses(e, excuse, {"pos", "seededPos"})
  BY DEF Unexcused, CursorTypes, Excuses, SameExcuses
<1>4. toDart \in Seq(Sendable)
  BY DEF CursorTypes
<1>5. Sight(v) \in SightKinds /\ Sight(v) \notin ImageKinds /\ Sight(v) \notin PlaceKinds
  BY DEF Sight, SightKinds, ImageKinds, PlaceKinds
<1> HIDE DEF s, e
<1>6. Without(s, ImageKinds) /\ Without(s, PlaceKinds)
  BY <1>2, <1>5 DEF Without
<1>7. ASSUME NEW i \in Live, NEW cur PROVE WillHave(toDart \o s, i, SightKinds, cur, Sight(v))
  <2>1. \E n \in DOMAIN s : Of(s[n], i, SightKinds)
    BY <1>2, <1>5 DEF Of, Live
  <2>2. \A n \in DOMAIN s : Of(s[n], i, SightKinds) => Val(s[n]) = Sight(v)
    BY <1>2
  <2> QED BY <1>2, <1>4, <2>1, <2>2, WillHaveSent
<1>8. Live' = Live
  BY DEF Live
<1>9. CASE v
  <2>1. SyncCursorImage(s, e)
    BY <1>1, <1>9 DEF s
  <2>2. /\ toDart' \in Seq(Sendable) /\ lastHCursor' \in Cursors \cup {NoCursor}
        /\ cachedcursors' \in [Ids -> SUBSET Seq(Nat)] /\ excuse' \in [Ids -> Excuses]
        /\ CacheOK' /\ ImageCommon' /\ ImageSettles'
        /\ SameExcuses(excuse', e, {"vis", "pos", "seededPos"})
        /\ \E shape \in Seq(Sendable) : /\ toDart' = (toDart \o s) \o shape
                                        /\ \A n \in DOMAIN shape : shape[n].kind \in ImageKinds
    BY <1>2, <1>3, <1>6, <2>1, SyncStep DEF Without
  <2>3. PICK shape \in Seq(Sendable) : /\ toDart' = (toDart \o s) \o shape
                                       /\ \A n \in DOMAIN shape : shape[n].kind \in ImageKinds
    BY <2>2
  <2>4. ASSUME NEW i \in Live PROVE WillSee(i, v)'
    <3>1. WillHave(toDart \o s, i, SightKinds, view'[i].vis, Sight(v))
      BY <1>7
    <3>2. \A n \in DOMAIN shape : ~Of(shape[n], i, SightKinds)
      BY <2>3 DEF Of, ImageKinds, SightKinds
    <3>3. toDart \o s \in Seq(Sendable)
      BY <1>2, <1>4, ConcatProperties
    <3>4. WillHave((toDart \o s) \o shape, i, SightKinds, view'[i].vis, Sight(v))
      BY <3>1, <3>2, <3>3, WillHaveKept
    <3> QED BY <2>3, <3>4 DEF WillSee
  <2>5. SameExcuses(excuse', excuse, {"pos", "seededPos"})
    BY <1>3, <2>2 DEF SameExcuses
  <2>6. \E r \in Seq(Sendable) : toDart' = toDart \o r /\ Without(r, PlaceKinds)
    <3> DEFINE t == s \o shape
    <3>1. t \in Seq(Sendable) /\ toDart' = toDart \o t
      BY <1>2, <1>4, <2>3, ConcatAssociative, ConcatProperties
    <3>2. Extends(s, shape, t, 0)
      BY <1>2, SentKept
    <3> HIDE DEF t
    <3>3. Without(t, PlaceKinds)
      BY <1>6, <2>3, <3>2 DEF Extends, Without, ImageKinds, PlaceKinds
    <3> QED BY <3>1, <3>3
  <2> QED BY <1>1, <1>9, <2>2, <2>4, <2>5, <2>6
<1>10. CASE ~v
  <2>1. /\ toDart' = toDart \o s /\ excuse' = e /\ lastHCursor' = lastHCursor
        /\ cachedcursors' = cachedcursors
    BY <1>1, <1>10 DEF s
  <2>2. toDart' \in Seq(Sendable)
    BY <1>2, <1>4, <2>1, ConcatProperties
  <2>3. CacheOK'
    <3>1. \A n \in DOMAIN s : s[n].kind # "cached"
      BY <1>6 DEF Without, ImageKinds
    <3> QED BY <1>2, <1>8, <2>1, <3>1, CacheAppend
  <2>4. ImageCommon' /\ (ImageSettles => ImageSettles')
    BY <1>2, <1>3, <1>6, <1>8, <2>1, ImageKept
  <2>5. \A i \in Live : WillSee(i, v)'
    BY <1>7, <2>1 DEF WillSee
  <2> QED BY <1>1, <1>2, <1>3, <1>6, <1>10, <2>1, <2>2, <2>3, <2>4, <2>5 DEF CursorTypes
<1> QED BY <1>9, <1>10

\* What no handler of an event or a call touches.
Around == /\ os' = os /\ callbacks' = callbacks /\ positionCallbacks' = positionCallbacks
          /\ late' = late /\ view' = view

LEMMA SyncNowStep ==
  ASSUME CursorInv, syncNow
  PROVE  CursorInv'
<1> USE DEF CursorInv
<1>0. Around /\ posted' = posted /\ Global_HOOK' = Global_HOOK /\ lastCursorPos' = lastCursorPos
  BY DEF syncNow, Around, hookVars
<1>1. HookOK' /\ CachedIsKnown' /\ Live' = Live /\ EventsOK'
      /\ (\A E : Posted(E)' <=> Posted(E))
  <2>1. HookOK' /\ CachedIsKnown' /\ Live' = Live
    BY <1>0 DEF Around, HookOK, CachedIsKnown, Live
  <2>2. EventsOK'
    BY <1>0 DEF Around, SightInv, EventsOK
  <2>3. \A E : Posted(E)' <=> Posted(E)
    BY <1>0 DEF Posted
  <2> QED BY <2>1, <2>2, <2>3
<1>2. CASE os.readable /\ (hasLastCursorVisible => os.visible # lastCursorVisible)
  <2>1. TellVisibility(os.visible) /\ os.visible \in BOOLEAN
    BY <1>2 DEF syncNow, CursorTypes
  <2>2. /\ toDart' \in Seq(Sendable) /\ lastHCursor' \in Cursors \cup {NoCursor}
        /\ cachedcursors' \in [Ids -> SUBSET Seq(Nat)] /\ excuse' \in [Ids -> Excuses]
        /\ lastCursorVisible' \in BOOLEAN /\ hasLastCursorVisible' \in BOOLEAN
        /\ CacheOK' /\ ImageCommon' /\ (ImageSettles => ImageSettles')
        /\ \A i \in Live : WillHave(toDart', i, SightKinds, view'[i].vis, Sight(os.visible))
        /\ SameExcuses(excuse', excuse, {"pos", "seededPos"})
        /\ \E r \in Seq(Sendable) : toDart' = toDart \o r /\ Without(r, PlaceKinds)
    <3>1. PICK v \in BOOLEAN : v = os.visible /\ TellVisibility(v)
      BY <2>1
    <3>2. \A i \in Live : WillSee(i, v)'
      BY <1>0, <3>1, TellStep DEF Around, ImageInv
    <3>3. \A i \in Live : WillHave(toDart', i, SightKinds, view'[i].vis, Sight(os.visible))
      BY <3>1, <3>2 DEF WillSee
    <3> QED BY <1>0, <3>1, <3>3, TellStep DEF Around, ImageInv
  <2>3. (PlaceCommon => PlaceCommon') /\ (PlaceSettles => PlaceSettles')
    BY <1>0, <2>2, PlaceKept DEF Around
  <2>4. SightSettles'
    BY <1>0, <1>1, <2>2 DEF SightSettles, Around, WillSee
  <2> QED BY <1>0, <1>1, <2>2, <2>3, <2>4 DEF Around, CursorTypes, SightInv, ImageInv, PlaceInv
<1>3. CASE ~(os.readable /\ (hasLastCursorVisible => os.visible # lastCursorVisible))
  <2>0. lastCursorVisible' = lastCursorVisible /\ hasLastCursorVisible' = hasLastCursorVisible
    BY <1>3 DEF syncNow
  <2>1. CASE lastCursorVisible
    <3>1. SyncCursorImage(<<>>, excuse)
      BY <1>3, <2>1 DEF syncNow
    <3>2. /\ toDart' \in Seq(Sendable) /\ lastHCursor' \in Cursors \cup {NoCursor}
          /\ cachedcursors' \in [Ids -> SUBSET Seq(Nat)] /\ excuse' \in [Ids -> Excuses]
          /\ CacheOK' /\ ImageCommon' /\ ImageSettles'
          /\ SameExcuses(excuse', excuse, {"vis", "pos", "seededPos"})
          /\ \E r \in Seq(Sendable) : /\ toDart' = toDart \o r
                                      /\ Without(r, SightKinds) /\ Without(r, PlaceKinds)
      BY <1>0, <3>1, PlainSync DEF Around, ImageInv
    <3>3. SameExcuses(excuse', excuse, {"vis"}) /\ SameExcuses(excuse', excuse, {"pos", "seededPos"})
      BY <3>2 DEF SameExcuses
    <3>4. (PlaceCommon => PlaceCommon') /\ (PlaceSettles => PlaceSettles')
      BY <1>0, <3>2, <3>3, PlaceKept DEF Around
    <3>5. SightSettles => SightSettles'
      BY <1>0, <1>1, <3>2, <3>3, SightKept DEF Around
    <3> QED BY <1>0, <1>1, <2>0, <3>2, <3>4, <3>5 DEF Around, CursorTypes, SightInv, ImageInv, PlaceInv
  <2>2. CASE ~lastCursorVisible
    <3>1. /\ toDart' = toDart /\ excuse' = excuse /\ lastHCursor' = lastHCursor
          /\ cachedcursors' = cachedcursors
      BY <1>3, <2>2 DEF syncNow
    <3>2. CacheOK' /\ ImageCommon' /\ (ImageSettles => ImageSettles')
      BY <1>0, <1>1, <3>1 DEF Around, CacheOK, ImageInv, ImageCommon, ImageSettles, WillShow
    <3>3. (PlaceCommon => PlaceCommon') /\ (PlaceSettles => PlaceSettles')
      BY <1>0, <3>1 DEF Around, PlaceCommon, PlaceSettles, WillPoint
    <3>4. SightSettles => SightSettles'
      BY <1>0, <1>1, <3>1 DEF Around, SightSettles, WillSee
    <3> QED BY <1>0, <1>1, <2>0, <3>1, <3>2, <3>3, <3>4
         DEF Around, CursorTypes, SightInv, ImageInv, PlaceInv
  <2> QED BY <2>1, <2>2
<1> QED BY <1>2, <1>3

\* What every event handler does.
LEMMA EventStep ==
  ASSUME CursorInv, CursorChangedEventProc
  PROVE  /\ Around /\ posted # <<>> /\ posted' = Tail(posted) /\ posted' \in Seq(Events)
         /\ HookOK' /\ CachedIsKnown' /\ Live' = Live /\ EventsOK'
         /\ \A E : Head(posted) \notin E /\ ~Posted(E)' => ~Posted(E)
<1> USE DEF CursorInv
<1>1. /\ Around /\ posted # <<>> /\ posted' = Tail(posted) /\ Global_HOOK' = Global_HOOK
  BY DEF CursorChangedEventProc, Around
<1>2. /\ posted' \in Seq(Events) /\ EventsOK'
      /\ \A E : Head(posted) \notin E /\ ~Posted(E)' => ~Posted(E)
  BY <1>1, EventHandled DEF Around, SightInv
<1>3. HookOK' /\ CachedIsKnown' /\ Live' = Live
  BY <1>1 DEF Around, HookOK, CachedIsKnown, Live
<1> QED BY <1>1, <1>2, <1>3

LEMMA VisibilityEvent ==
  ASSUME CursorInv, CursorChangedEventProc, Head(posted) \in {"show", "hide"}
  PROVE  CursorInv'
<1> USE DEF CursorInv
<1>0. /\ Around /\ posted # <<>> /\ posted' = Tail(posted) /\ posted' \in Seq(Events)
      /\ HookOK' /\ CachedIsKnown' /\ Live' = Live /\ EventsOK'
      /\ \A E : Head(posted) \notin E /\ ~Posted(E)' => ~Posted(E)
  BY EventStep
<1>1. PICK v \in BOOLEAN : OnVisibility(v) /\ (v <=> Head(posted) = "show")
  <2> DEFINE b == Head(posted) = "show"
  <2>1. OnVisibility(b)
    BY DEF CursorChangedEventProc
  <2>2. b \in BOOLEAN /\ (b <=> Head(posted) = "show")
    OBVIOUS
  <2> HIDE DEF b
  <2> QED BY <2>1, <2>2
<1>2. lastCursorPos' = lastCursorPos
  BY DEF CursorChangedEventProc
<1>3. /\ Head(posted) \notin {"name"} /\ Head(posted) \notin {"location"}
  OBVIOUS
<1>4. ~Posted({"show", "hide"})' => (v <=> os.visible)
  BY <1>0, <1>1, EventHandled DEF SightInv
<1>5. CASE os.readable
  <2>1. TellVisibility(v)
    BY <1>1, <1>5 DEF OnVisibility
  <2>2. /\ toDart' \in Seq(Sendable) /\ lastHCursor' \in Cursors \cup {NoCursor}
        /\ cachedcursors' \in [Ids -> SUBSET Seq(Nat)] /\ excuse' \in [Ids -> Excuses]
        /\ lastCursorVisible' \in BOOLEAN /\ hasLastCursorVisible' \in BOOLEAN
        /\ CacheOK' /\ ImageCommon' /\ (ImageSettles => ImageSettles')
        /\ \A i \in Live : WillSee(i, v)'
        /\ SameExcuses(excuse', excuse, {"pos", "seededPos"})
        /\ \E r \in Seq(Sendable) : toDart' = toDart \o r /\ Without(r, PlaceKinds)
    BY <1>0, <2>1, TellStep DEF Around, ImageInv
  <2>3. (PlaceCommon => PlaceCommon') /\ (PlaceSettles => PlaceSettles')
    BY <1>0, <1>2, <2>2, PlaceKept DEF Around
  <2>4. ~Posted({"show", "hide"})' => SightSettles'
    BY <1>0, <1>4, <2>2 DEF SightSettles, Around, WillSee, Sight
  <2>5. CursorTypes'
    BY <1>0, <1>2, <2>2 DEF CursorTypes, Around
  <2> QED BY <1>0, <1>3, <2>2, <2>3, <2>4, <2>5 DEF SightInv, ImageInv, PlaceInv
<1>6. CASE ~os.readable
  <2>1. /\ excuse' = Excused(callbacks, {"vis", "img"}, excuse) /\ Quiet
    BY <1>1, <1>6 DEF OnVisibility
  <2>2. excuse' \in [Ids -> Excuses] /\ SameExcuses(excuse', excuse, {"pos", "seededPos"})
        /\ \A i \in Live : "vis" \in excuse'[i] /\ "img" \in excuse'[i]
    BY <2>1 DEF Excused, CursorTypes, Excuses, SameExcuses, Live
  <2>3. CacheOK'
    BY <1>0, <2>1 DEF Quiet, Around, CacheOK
  <2>4. ImageCommon' /\ ImageSettles' /\ SightSettles'
    BY <1>0, <2>2 DEF ImageCommon, ImageSettles, SightSettles
  <2>5. (PlaceCommon => PlaceCommon') /\ (PlaceSettles => PlaceSettles')
    BY <1>0, <1>2, <2>1, <2>2
       DEF Quiet, Around, PlaceCommon, PlaceSettles, WillPoint, SameExcuses, CursorTypes
  <2>6. CursorTypes'
    BY <1>0, <1>2, <2>1, <2>2 DEF CursorTypes, Around, Quiet
  <2> QED BY <1>0, <1>3, <2>3, <2>4, <2>5, <2>6 DEF SightInv, ImageInv, PlaceInv
<1> QED BY <1>5, <1>6

\* A synchronisation on its own, in the handler of an event of another kind.
LEMMA SyncEvent ==
  ASSUME CursorInv, CursorChangedEventProc, Head(posted) \notin {"show", "hide"},
         SyncCursorImage(<<>>, excuse), lastCursorVisible' = lastCursorVisible,
         hasLastCursorVisible' = hasLastCursorVisible, lastCursorPos' = lastCursorPos,
         Head(posted) = "location" => positionCallbacks = {} \/ os.pos = lastCursorPos
  PROVE  CursorInv'
<1> USE DEF CursorInv
<1>0. /\ Around /\ posted # <<>> /\ posted' = Tail(posted) /\ posted' \in Seq(Events)
      /\ HookOK' /\ CachedIsKnown' /\ Live' = Live /\ EventsOK'
      /\ \A E : Head(posted) \notin E /\ ~Posted(E)' => ~Posted(E)
  BY EventStep
<1>1. /\ toDart' \in Seq(Sendable) /\ lastHCursor' \in Cursors \cup {NoCursor}
      /\ cachedcursors' \in [Ids -> SUBSET Seq(Nat)] /\ excuse' \in [Ids -> Excuses]
      /\ CacheOK' /\ ImageCommon' /\ ImageSettles'
      /\ SameExcuses(excuse', excuse, {"vis", "pos", "seededPos"})
      /\ \E r \in Seq(Sendable) : /\ toDart' = toDart \o r
                                  /\ Without(r, SightKinds) /\ Without(r, PlaceKinds)
  BY <1>0, PlainSync DEF Around, ImageInv
<1>2. SameExcuses(excuse', excuse, {"vis"}) /\ SameExcuses(excuse', excuse, {"pos", "seededPos"})
  BY <1>1 DEF SameExcuses
<1>3. (PlaceCommon => PlaceCommon') /\ (PlaceSettles => PlaceSettles')
  BY <1>0, <1>1, <1>2, PlaceKept DEF Around
<1>4. SightSettles => SightSettles'
  BY <1>0, <1>1, <1>2, SightKept DEF Around
<1>5. CursorTypes'
  BY <1>0, <1>1 DEF CursorTypes, Around
<1>6. Head(posted) = "location" => PlaceSettles'
  <2>1. CASE positionCallbacks = {}
    BY <1>0, <2>1 DEF Around, PlaceSettles
  <2>2. CASE os.pos = lastCursorPos
    BY <1>0, <1>3, <2>2 DEF Around, PlaceCommon, PlaceSettles, PlaceInv, WillPoint
  <2> QED BY <2>1, <2>2
<1>7. PlaceInv'
  BY <1>0, <1>3, <1>6 DEF PlaceInv
<1> QED BY <1>0, <1>1, <1>4, <1>5, <1>7 DEF SightInv, ImageInv

LEMMA LocationEvent ==
  ASSUME CursorInv, CursorChangedEventProc, Head(posted) = "location"
  PROVE  CursorInv'
<1> USE DEF CursorInv
<1>0. /\ Around /\ posted # <<>> /\ posted' = Tail(posted) /\ posted' \in Seq(Events)
      /\ HookOK' /\ CachedIsKnown' /\ Live' = Live /\ EventsOK'
      /\ \A E : Head(posted) \notin E /\ ~Posted(E)' => ~Posted(E)
  BY EventStep
<1>1. OnLocation /\ lastCursorVisible' = lastCursorVisible /\ hasLastCursorVisible' = hasLastCursorVisible
  BY DEF CursorChangedEventProc
<1>2. CASE positionCallbacks = {}
  BY <1>1, <1>2, SyncEvent DEF OnLocation
<1>3. CASE positionCallbacks # {} /\ ~os.readable
  <2>1. /\ excuse' = Excused(positionCallbacks, {"pos"}, excuse)
        /\ UNCHANGED <<toDart, lastHCursor, cachedcursors, faults, lastCursorPos>>
    BY <1>1, <1>3 DEF OnLocation
  <2>2. excuse' \in [Ids -> Excuses] /\ SameExcuses(excuse', excuse, {"vis", "img", "seeded"})
        /\ \A i \in positionCallbacks : "pos" \in excuse'[i]
    BY <2>1 DEF Excused, CursorTypes, Excuses, SameExcuses
  <2>3. CacheOK'
    BY <1>0, <2>1 DEF Around, CacheOK
  <2>4. PlaceCommon' /\ PlaceSettles'
    BY <1>0, <2>2 DEF Around, PlaceCommon, PlaceSettles
  <2>5. Live \subseteq Ids
    BY DEF Live, CursorTypes
  <2>6. ImageCommon' /\ (ImageSettles => ImageSettles')
    BY <1>0, <2>1, <2>2, <2>5
       DEF Around, ImageInv, ImageCommon, ImageSettles, WillShow, SameExcuses
  <2>7. SightSettles => SightSettles'
    BY <1>0, <2>1, <2>2, <2>5 DEF Around, SightSettles, WillSee, SameExcuses
  <2>8. CursorTypes'
    BY <1>0, <1>1, <2>1, <2>2 DEF CursorTypes, Around
  <2> QED BY <1>0, <2>3, <2>4, <2>6, <2>7, <2>8 DEF SightInv, ImageInv, PlaceInv
<1>4. CASE positionCallbacks # {} /\ os.readable /\ os.pos = lastCursorPos
  <2>1. SyncCursorImage(<<>>, excuse) /\ lastCursorPos' = lastCursorPos
    BY <1>1, <1>4 DEF OnLocation
  <2> QED BY <1>1, <1>4, <2>1, SyncEvent
<1>5. CASE positionCallbacks # {} /\ os.readable /\ os.pos # lastCursorPos
  <2> DEFINE e == Unexcused(positionCallbacks, {"pos", "seededPos"}, excuse)
  <2>1. PICK ids \in InMapOrder(positionCallbacks) : SyncCursorImage(PlacesTo(ids), e)
    BY <1>1, <1>5 DEF OnLocation, PlacesTo
  <2> DEFINE s == PlacesTo(ids)
  <2>2. /\ s \in Seq(Sendable)
        /\ \A n \in DOMAIN s : s[n].to \in positionCallbacks /\ s[n].kind = "position" /\ Val(s[n]) = os.pos
        /\ \A i \in positionCallbacks : \E n \in DOMAIN s : s[n].to = i
    BY PlacesFacts
  <2>3. lastCursorPos' = os.pos /\ os.pos \in Positions
    BY <1>1, <1>5 DEF OnLocation, CursorTypes
  <2>4. /\ e \in [Ids -> Excuses]
        /\ SameExcuses(e, excuse, {"img", "seeded"}) /\ SameExcuses(e, excuse, {"vis"})
    BY DEF Unexcused, CursorTypes, Excuses, SameExcuses
  <2>5. SyncCursorImage(s, e)
    BY <2>1
  <2> HIDE DEF s, e
  <2>6. \A n \in DOMAIN s : s[n].kind \notin ImageKinds /\ s[n].kind \notin SightKinds
    BY <2>2 DEF ImageKinds, SightKinds
  <2>7. /\ toDart' \in Seq(Sendable) /\ lastHCursor' \in Cursors \cup {NoCursor}
        /\ cachedcursors' \in [Ids -> SUBSET Seq(Nat)] /\ excuse' \in [Ids -> Excuses]
        /\ CacheOK' /\ ImageCommon' /\ ImageSettles'
        /\ SameExcuses(excuse', e, {"vis", "pos", "seededPos"})
        /\ \E shape \in Seq(Sendable) : /\ toDart' = (toDart \o s) \o shape
                                        /\ \A n \in DOMAIN shape : shape[n].kind \in ImageKinds
    BY <1>0, <2>2, <2>4, <2>5, <2>6, SyncStep DEF Around, ImageInv
  <2>8. PICK shape \in Seq(Sendable) : /\ toDart' = (toDart \o s) \o shape
                                       /\ \A n \in DOMAIN shape : shape[n].kind \in ImageKinds
    BY <2>7
  <2>9. toDart \in Seq(Sendable) /\ toDart \o s \in Seq(Sendable)
    BY <2>2, ConcatProperties DEF CursorTypes
  <2>10. ASSUME NEW i \in positionCallbacks
         PROVE  WillHave(toDart', i, PlaceKinds, view'[i].pos, os.pos)
    <3>1. \E n \in DOMAIN s : Of(s[n], i, PlaceKinds)
      BY <2>2 DEF Of, PlaceKinds
    <3>2. \A n \in DOMAIN s : Of(s[n], i, PlaceKinds) => Val(s[n]) = os.pos
      BY <2>2
    <3>3. WillHave(toDart \o s, i, PlaceKinds, view'[i].pos, os.pos)
      BY <2>2, <2>9, <3>1, <3>2, WillHaveSent
    <3>4. \A n \in DOMAIN shape : ~Of(shape[n], i, PlaceKinds)
      BY <2>8 DEF Of, ImageKinds, PlaceKinds
    <3>5. WillHave((toDart \o s) \o shape, i, PlaceKinds, view'[i].pos, os.pos)
      BY <2>9, <3>3, <3>4, WillHaveKept
    <3> QED BY <2>8, <3>5
  <2>11. PlaceCommon' /\ PlaceSettles'
    BY <1>0, <2>3, <2>10 DEF Around, PlaceCommon, PlaceSettles, WillPoint
  <2>12. SightSettles => SightSettles'
    <3> DEFINE t == s \o shape
    <3>1. t \in Seq(Sendable) /\ toDart' = toDart \o t
      <4>1. (toDart \o s) \o shape = toDart \o t
        BY <2>2, <2>9, ConcatAssociative
      <4> QED BY <2>2, <2>8, <4>1, ConcatProperties
    <3>2. Extends(s, shape, t, 0)
      BY <2>2, SentKept
    <3> HIDE DEF t
    <3>3. Without(t, SightKinds)
      BY <2>6, <2>8, <3>2 DEF Extends, Without, ImageKinds, SightKinds
    <3>4. SameExcuses(excuse', excuse, {"vis"})
      BY <2>4, <2>7 DEF SameExcuses
    <3> QED BY <1>0, <3>1, <3>3, <3>4, SightKept DEF Around
  <2>13. CursorTypes'
    BY <1>0, <1>1, <2>3, <2>7 DEF CursorTypes, Around
  <2> QED BY <1>0, <2>7, <2>11, <2>12, <2>13 DEF SightInv, ImageInv, PlaceInv
<1> QED BY <1>2, <1>3, <1>4, <1>5

LEMMA EventProcStep ==
  ASSUME CursorInv, CursorChangedEventProc
  PROVE  CursorInv'
<1>1. CASE Head(posted) \in {"show", "hide"}
  BY <1>1, VisibilityEvent
<1>2. CASE Head(posted) = "location"
  BY <1>2, LocationEvent
<1>3. CASE Head(posted) \notin {"show", "hide"} /\ Head(posted) # "location"
  BY <1>3, SyncEvent DEF CursorChangedEventProc
<1> QED BY <1>1, <1>2, <1>3

----------------------------------------------------------------------------
(* Subscribing.                                                            *)

LEMMA HookEnsured ==
  ASSUME HookOK, EnsureCursorEventHook, posted' = posted,
         callbacks' # {} \/ positionCallbacks' # {}
  PROVE  HookOK'
<1>1. Global_HOOK' \in BOOLEAN /\ (Global_HOOK => Global_HOOK')
  BY DEF EnsureCursorEventHook, MayFail
<1> QED BY <1>1 DEF HookOK

LEMMA HookReleased ==
  ASSUME HookOK, CursorTypes, ReleaseCursorEventHookIfUnused(callbacks', positionCallbacks')
  PROVE  /\ HookOK' /\ posted' \in Seq(Events)
         /\ \/ posted' = posted
            \/ posted' = <<>> /\ callbacks' = {} /\ positionCallbacks' = {}
<1>1. CASE callbacks' = {} /\ positionCallbacks' = {}
  <2>1. Global_HOOK' = FALSE /\ posted' = <<>>
    BY <1>1 DEF ReleaseCursorEventHookIfUnused
  <2>2. HookOK'
    BY <2>1, Zenon DEF HookOK
  <2> QED BY <1>1, <2>1, <2>2
<1>2. CASE ~(callbacks' = {} /\ positionCallbacks' = {})
  BY <1>2 DEF ReleaseCursorEventHookIfUnused, HookOK, CursorTypes, hookVars
<1> QED BY <1>1, <1>2

\* Fewer subscribers, the rest as it was.
LEMMA UnhookStep ==
  ASSUME CursorInv, NEW C, NEW P, callbacks' = C, positionCallbacks' = P,
         C \subseteq callbacks, P \subseteq positionCallbacks,
         ReleaseCursorEventHookIfUnused(C, P),
         \A i \in C : cachedcursors'[i] = cachedcursors[i],
         cachedcursors' \in [Ids -> SUBSET Seq(Nat)],
         UNCHANGED <<os, lastHCursor, lastCursorVisible, hasLastCursorVisible,
                     lastCursorPos, toDart, view, cursorGhosts>>
  PROVE  CursorInv'
<1> USE DEF CursorInv
<1>1. /\ HookOK' /\ posted' \in Seq(Events)
      /\ posted' = posted \/ (posted' = <<>> /\ C = {} /\ P = {})
  BY HookReleased
<1>2. UNCHANGED <<os, lastHCursor, lastCursorVisible, hasLastCursorVisible,
                  lastCursorPos, toDart, view, excuse, late>>
  BY DEF cursorGhosts
<1>3. Live' \subseteq Live /\ Live' \subseteq C
  BY <1>2 DEF Live
<1>4. CursorTypes'
  <2>1. IsFiniteSet(C) /\ IsFiniteSet(P)
    BY FS_Subset DEF CursorTypes
  <2> QED BY <1>1, <1>2, <2>1 DEF CursorTypes
<1>5. CachedIsKnown'
  BY <1>2 DEF CachedIsKnown
<1>6. CacheOK'
  BY <1>2, <1>3 DEF CacheOK
<1>7. ImageCommon' /\ PlaceCommon'
  BY <1>2, <1>3 DEF ImageInv, PlaceInv, ImageCommon, PlaceCommon, WillShow, WillPoint
<1>8. (SightSettles => SightSettles') /\ (ImageSettles => ImageSettles') /\ (PlaceSettles => PlaceSettles')
  BY <1>2, <1>3 DEF SightSettles, ImageSettles, PlaceSettles, WillSee, WillShow, WillPoint
<1>9. CASE posted' = posted
  <2>1. (\A E : Posted(E)' <=> Posted(E)) /\ EventsOK'
    BY <1>2, <1>9 DEF Posted, EventsOK, SightInv
  <2> QED BY <1>1, <1>4, <1>5, <1>6, <1>7, <1>8, <2>1 DEF SightInv, ImageInv, PlaceInv
<1>10. CASE posted' = <<>> /\ C = {} /\ P = {}
  <2>1. SightSettles' /\ ImageSettles' /\ PlaceSettles' /\ EventsOK'
    BY <1>3, <1>10 DEF SightSettles, ImageSettles, PlaceSettles, EventsOK
  <2> QED BY <1>1, <1>4, <1>5, <1>6, <1>7, <2>1 DEF SightInv, ImageInv, PlaceInv
<1> QED BY <1>1, <1>9, <1>10

LEMMA EndStep ==
  ASSUME CursorInv, NEW i \in Ids, endHook(i) \/ endPositionHook(i)
  PROVE  CursorInv'
<1>0. cachedcursors \in [Ids -> SUBSET Seq(Nat)] /\ callbacks \in SUBSET Ids
  BY DEF CursorInv, CursorTypes
<1>1. CASE endHook(i)
  <2> DEFINE C == callbacks \ {i}
  <2>1. /\ callbacks' = C /\ positionCallbacks' = positionCallbacks
        /\ ReleaseCursorEventHookIfUnused(C, positionCallbacks)
        /\ cachedcursors' = [cachedcursors EXCEPT ![i] = {}]
        /\ UNCHANGED <<os, lastHCursor, lastCursorVisible, hasLastCursorVisible,
                       lastCursorPos, toDart, view, cursorGhosts>>
    BY <1>1 DEF endHook
  <2>2. /\ \A j \in C : cachedcursors'[j] = cachedcursors[j]
        /\ cachedcursors' \in [Ids -> SUBSET Seq(Nat)]
    BY <1>0, <2>1
  <2>3. PICK D : D = C
    OBVIOUS
  <2>4. PICK P : P = positionCallbacks
    OBVIOUS
  <2>5. D \subseteq callbacks /\ P \subseteq positionCallbacks
    BY <2>3, <2>4
  <2> QED BY <2>1, <2>2, <2>3, <2>4, <2>5, UnhookStep
<1>2. CASE endPositionHook(i)
  <2>1. /\ callbacks' = callbacks /\ positionCallbacks' = positionCallbacks \ {i}
        /\ ReleaseCursorEventHookIfUnused(callbacks, positionCallbacks \ {i})
        /\ cachedcursors' = cachedcursors
        /\ UNCHANGED <<os, lastHCursor, lastCursorVisible, hasLastCursorVisible,
                       lastCursorPos, toDart, view, cursorGhosts>>
    BY <1>2 DEF endPositionHook
  <2>2. PICK D : D = callbacks
    OBVIOUS
  <2>3. PICK P : P = positionCallbacks \ {i}
    OBVIOUS
  <2>4. D \subseteq callbacks /\ P \subseteq positionCallbacks
    BY <2>2, <2>3
  <2> QED BY <1>0, <2>1, <2>2, <2>3, <2>4, UnhookStep
<1> QED BY <1>1, <1>2

\* No message about the shape or the visibility is under way to i.
Clear(i) == \A n \in DOMAIN toDart : toDart[n].to = i => toDart[n].kind = "position"

LEMMA SeedFacts ==
  ASSUME CursorTypes, NEW i \in Ids, NEW ok \in BOOLEAN
  PROVE  /\ Seed(i, ok) \in Seq(Sendable)
         /\ \A n \in DOMAIN Seed(i, ok) :
              LET m == Seed(i, ok)[n] IN
              /\ m.to = i /\ m.kind \in ImageKinds /\ m.kind # "cached"
              /\ Val(m) = Picture(i, os.cursor)
              /\ ~ByName(i, os.cursor) => m.kind = "image" /\ m.what = FrameOf(os.cursor, TRUE)
         /\ Seed(i, ok) # <<>> => 1 \in DOMAIN Seed(i, ok)
         /\ Seed(i, ok) = <<>> => Seed(i, ok) \in Seq(Sendable) /\ DOMAIN Seed(i, ok) = {}
<1>1. CASE ~os.readable \/ (~ok /\ ~ByName(i, os.cursor))
  <2>1. Seed(i, ok) = <<>>
    BY <1>1 DEF Seed
  <2> QED BY <2>1
<1>2. CASE ~(~os.readable \/ (~ok /\ ~ByName(i, os.cursor)))
  <2> DEFINE m == CursorMessage(i, os.cursor, FrameOf(os.cursor, TRUE), {})
  <2>1. Seed(i, ok) = <<m>>
    BY <1>2 DEF Seed
  <2>2. PICK yes \in BOOLEAN : yes = TRUE
    OBVIOUS
  <2>3. PICK c \in Cursors : c = os.cursor
    BY DEF CursorTypes
  <2>4. PICK none : none = {}
    OBVIOUS
  <2>5. LET k == CursorMessage(i, c, FrameOf(c, yes), none) IN
        /\ k \in Sendable /\ k.to = i /\ k.kind \in ImageKinds
        /\ ByName(i, c) \/ yes => Val(k) = Picture(i, c)
        /\ k.kind = "cached" => k.what \in none /\ ~ByName(i, c)
        /\ ~ByName(i, c) => k.what = FrameOf(c, yes)
        /\ ~ByName(i, c) /\ k.kind # "cached" => k.kind = "image"
    BY CursorMessageFacts
  <2>6. CursorMessage(i, c, FrameOf(c, yes), none) = m
    BY <2>2, <2>3, <2>4
  <2>7. FrameOf(c, yes) = FrameOf(os.cursor, TRUE) /\ yes
    BY <2>2, <2>3
  <2> HIDE DEF m
  <2>8. /\ m \in Sendable /\ m.to = i /\ m.kind \in ImageKinds /\ m.kind # "cached"
        /\ Val(m) = Picture(i, os.cursor)
        /\ ~ByName(i, os.cursor) => m.kind = "image" /\ m.what = FrameOf(os.cursor, TRUE)
    BY <2>3, <2>4, <2>5, <2>6, <2>7
  <2>9. /\ <<m>> \in Seq(Sendable) /\ DOMAIN <<m>> = {1} /\ <<m>>[1] = m /\ <<m>> # <<>>
    BY <2>8
  <2> DEFINE s == Seed(i, ok)
  <2>10. s \in Seq(Sendable) /\ DOMAIN s = {1} /\ s[1] = m /\ s # <<>>
    BY <2>1, <2>9
  <2> HIDE DEF s
  <2>11. \A n \in DOMAIN s : s[n] = m
    BY <2>10
  <2>12. \A n \in DOMAIN s :
           /\ s[n].to = i /\ s[n].kind \in ImageKinds /\ s[n].kind # "cached"
           /\ Val(s[n]) = Picture(i, os.cursor)
           /\ ~ByName(i, os.cursor) => s[n].kind = "image" /\ s[n].what = FrameOf(os.cursor, TRUE)
    BY <2>8, <2>11
  <2> QED BY <2>10, <2>12 DEF s
<1> QED BY <1>1, <1>2

\* What startHook(i) does, as the parts of the invariant see it: r is what it sends.
Started(i, r) ==
  /\ r \in Seq(Sendable) /\ toDart' = toDart \o r
  /\ \A n \in DOMAIN r : r[n].to = i /\ r[n].kind # "cached" /\ r[n].kind # "position"
  /\ callbacks' = callbacks \cup {i}
  /\ \A j \in Ids : j # i => /\ cachedcursors'[j] = cachedcursors[j] /\ view'[j] = view[j]
                             /\ excuse'[j] = excuse[j] /\ (j \in late' <=> j \in late)
  /\ view'[i].pos = view[i].pos /\ view'[i].img = Nothing /\ view'[i].have = {}
  /\ \A w \in {"pos", "seededPos"} : w \in excuse'[i] <=> w \in excuse[i]
  /\ \A f \in cachedcursors'[i] : \E n \in DOMAIN r : r[n].kind = "image" /\ r[n].what = f
  /\ i \notin late' => Clear(i)
  /\ "vis" \in excuse'[i] \/ WillHave(toDart', i, SightKinds, view'[i].vis, Sight(os.visible))
  /\ "img" \in excuse'[i] \/ WillHave(toDart', i, ImageKinds, view'[i].img, Picture(i, os.cursor))
  /\ lastHCursor = os.cursor \/ "seeded" \in excuse'[i]
  /\ UNCHANGED <<os, posted, lastHCursor, lastCursorVisible, hasLastCursorVisible,
                 positionCallbacks, lastCursorPos>>

LEMMA StartedFacts ==
  ASSUME CursorTypes, NEW i \in Ids, startHook(i)
  PROVE  /\ \E r : Started(i, r)
         /\ toDart' \in Seq(Sendable) /\ cachedcursors' \in [Ids -> SUBSET Seq(Nat)]
         /\ excuse' \in [Ids -> Excuses] /\ view' \in [Ids -> Views] /\ late' \in SUBSET Ids
<1>1. PICK ok \in BOOLEAN :
        /\ cachedcursors' = [cachedcursors EXCEPT ![i] =
             FreshCache(i) \cup IF Seed(i, ok) # <<>> /\ ~ByName(i, os.cursor)
                                  THEN {FrameOf(os.cursor, TRUE)} ELSE {}]
        /\ toDart' = toDart \o Seed(i, ok)
             \o (IF os.readable THEN <<VisibilityMessage(i, os.visible)>> ELSE <<>>)
        /\ excuse' = [excuse EXCEPT ![i] =
             (@ \cap {"pos", "seededPos"})
             \cup (IF os.readable THEN {} ELSE {"vis"})
             \cup (IF Seed(i, ok) = <<>> THEN {"img"} ELSE {})
             \cup (IF lastHCursor # os.cursor THEN {"seeded"} ELSE {})]
  <2>1. \A ok \in IF Global_HOOK' \/ faults + 1 < MaxFaults THEN MayFail ELSE {TRUE} : ok \in BOOLEAN
    BY DEF MayFail
  <2> QED BY <2>1 DEF startHook
<1> DEFINE s == Seed(i, ok)
           v == IF os.readable THEN <<VisibilityMessage(i, os.visible)>> ELSE <<>>
           r == s \o v
           Im == Picture(i, os.cursor)
<1>2. /\ s \in Seq(Sendable)
      /\ \A n \in DOMAIN s :
           /\ s[n].to = i /\ s[n].kind \in ImageKinds /\ s[n].kind # "cached"
           /\ Val(s[n]) = Im
           /\ ~ByName(i, os.cursor) => s[n].kind = "image" /\ s[n].what = FrameOf(os.cursor, TRUE)
      /\ s # <<>> => 1 \in DOMAIN s
  BY SeedFacts, ZenonT(40)
<1>3. /\ v \in Seq(Sendable)
      /\ \A n \in DOMAIN v : v[n].to = i /\ v[n].kind \in SightKinds /\ Val(v[n]) = Sight(os.visible)
      /\ os.readable => 1 \in DOMAIN v
  <2>1. CASE os.readable
    <3> DEFINE m == VisibilityMessage(i, os.visible)
    <3>1. /\ m \in Sendable /\ m.to = i /\ m.kind = Sight(os.visible) /\ Val(m) = Sight(os.visible)
      BY OtherMessages DEF CursorTypes
    <3>2. Sight(os.visible) \in SightKinds
      BY DEF Sight, SightKinds
    <3>3. v = <<m>>
      BY <2>1
    <3> HIDE DEF m, v
    <3>4. v \in Seq(Sendable) /\ DOMAIN v = {1} /\ v[1] = m
      BY <3>1, <3>3
    <3> QED BY <3>1, <3>2, <3>4
  <2>2. CASE ~os.readable
    BY <2>2
  <2> QED BY <2>1, <2>2
<1>4. toDart \in Seq(Sendable)
  BY DEF CursorTypes
<1>5. /\ cachedcursors' = [cachedcursors EXCEPT ![i] =
             IF s # <<>> /\ ~ByName(i, os.cursor) THEN {FrameOf(os.cursor, TRUE)} ELSE {}]
      /\ toDart' = toDart \o s \o v
      /\ excuse' = [excuse EXCEPT ![i] =
             (@ \cap {"pos", "seededPos"})
             \cup (IF os.readable THEN {} ELSE {"vis"})
             \cup (IF s = <<>> THEN {"img"} ELSE {})
             \cup (IF lastHCursor # os.cursor THEN {"seeded"} ELSE {})]
  BY <1>1 DEF FreshCache
<1> HIDE DEF s, v, Im
<1>6. r \in Seq(Sendable) /\ toDart' = toDart \o r /\ toDart' \in Seq(Sendable)
  <2>1. (toDart \o s) \o v = toDart \o r
    BY <1>2, <1>3, <1>4, ConcatAssociative
  <2>2. r \in Seq(Sendable)
    BY <1>2, <1>3, ConcatProperties
  <2> HIDE DEF r
  <2> QED BY <1>4, <1>5, <2>1, <2>2, ConcatProperties
<1>7. Extends(s, v, r, i)
  BY <1>2, <1>3, SentKept
<1> HIDE DEF r
<1>8. \A n \in DOMAIN r : r[n].to = i /\ r[n].kind # "cached" /\ r[n].kind # "position"
  <2> SUFFICES ASSUME NEW n \in DOMAIN r
               PROVE  r[n].to = i /\ r[n].kind # "cached" /\ r[n].kind # "position"
    OBVIOUS
  <2>1. (n \in DOMAIN s /\ r[n] = s[n]) \/ (n - Len(s) \in DOMAIN v /\ r[n] = v[n - Len(s)])
    BY <1>7 DEF Extends
  <2>2. CASE n \in DOMAIN s /\ r[n] = s[n]
    BY <1>2, <2>2 DEF ImageKinds
  <2>3. CASE n - Len(s) \in DOMAIN v /\ r[n] = v[n - Len(s)]
    BY <1>3, <2>3 DEF SightKinds
  <2> QED BY <2>1, <2>2, <2>3
<1>9. FrameOf(os.cursor, TRUE) \in Seq(Nat)
  <2>1. PICK yes \in BOOLEAN : yes = TRUE
    OBVIOUS
  <2> QED BY <2>1, FrameIsSeq DEF CursorTypes
<1>10. /\ cachedcursors' \in [Ids -> SUBSET Seq(Nat)]
       /\ \A j \in Ids : j # i => cachedcursors'[j] = cachedcursors[j]
       /\ cachedcursors'[i] = IF s # <<>> /\ ~ByName(i, os.cursor) THEN {FrameOf(os.cursor, TRUE)} ELSE {}
  BY <1>5, <1>9 DEF CursorTypes
<1>11. \A f \in cachedcursors'[i] : \E n \in DOMAIN r : r[n].kind = "image" /\ r[n].what = f
  <2> SUFFICES ASSUME NEW f \in cachedcursors'[i]
               PROVE  \E n \in DOMAIN r : r[n].kind = "image" /\ r[n].what = f
    OBVIOUS
  <2>1. s # <<>> /\ ~ByName(i, os.cursor) /\ f = FrameOf(os.cursor, TRUE)
    BY <1>10
  <2>2. 1 \in DOMAIN s /\ s[1].kind = "image" /\ s[1].what = f
    BY <1>2, <2>1
  <2> QED BY <1>7, <2>2 DEF Extends
<1>12. /\ excuse' \in [Ids -> Excuses]
       /\ \A j \in Ids : j # i => excuse'[j] = excuse[j]
       /\ \A w \in {"pos", "seededPos"} : w \in excuse'[i] <=> w \in excuse[i]
       /\ ~os.readable => "vis" \in excuse'[i]
       /\ s = <<>> => "img" \in excuse'[i]
       /\ lastHCursor = os.cursor \/ "seeded" \in excuse'[i]
  BY <1>5 DEF CursorTypes, Excuses
<1>13. /\ view' \in [Ids -> Views]
       /\ \A j \in Ids : j # i => view'[j] = view[j]
       /\ view'[i].pos = view[i].pos /\ view'[i].img = Nothing /\ view'[i].have = {}
  <2>1. view' = [view EXCEPT ![i] = [NewView EXCEPT !.pos = view[i].pos]]
    BY DEF startHook
  <2>2. view[i] \in Views /\ view \in [Ids -> Views]
    BY DEF CursorTypes
  <2>3. view[i].pos \in Nat
    BY <2>2 DEF Views
  <2>4. PICK p \in Nat : p = view[i].pos
    BY <2>3
  <2> DEFINE w == [NewView EXCEPT !.pos = p]
  <2>5. /\ w.img = NewView.img /\ w.have = NewView.have /\ w.vis = NewView.vis /\ w.pos = p
        /\ w = [img |-> NewView.img, have |-> NewView.have, vis |-> NewView.vis, pos |-> p]
    BY DEF NewView
  <2>6. /\ NewView.img = Nothing /\ NewView.have = {} /\ NewView.vis = "none"
        /\ Nothing \in Seq(Nat) /\ {} \in SUBSET Seq(Nat)
    BY DEF NewView, Nothing
  <2>7. view' = [view EXCEPT ![i] = w]
    BY <2>1, <2>4
  <2> HIDE DEF w
  <2>8. w \in Views
    BY <2>4, <2>5, <2>6 DEF Views
  <2> QED BY <2>2, <2>4, <2>5, <2>6, <2>7, <2>8
<1>14. /\ late' \in SUBSET Ids /\ (i \notin late' => Clear(i))
       /\ \A j \in Ids : j # i => (j \in late' <=> j \in late)
  <2>1. late' = IF \E n \in 1 .. Len(toDart) : toDart[n].to = i /\ toDart[n].kind # "position"
                  THEN late \cup {i} ELSE late \ {i}
    BY DEF startHook
  <2>2. DOMAIN toDart = 1 .. Len(toDart)
    BY <1>4, LenProperties
  <2> QED BY <2>1, <2>2 DEF Clear, CursorTypes
<1>15. ASSUME os.readable, NEW cur PROVE WillHave(toDart', i, SightKinds, cur, Sight(os.visible))
  <2>1. \E n \in DOMAIN v : Of(v[n], i, SightKinds)
    BY <1>3, <1>15 DEF Of
  <2>2. \A n \in DOMAIN v : Of(v[n], i, SightKinds) => Val(v[n]) = Sight(os.visible)
    BY <1>3
  <2>3. toDart \o s \in Seq(Sendable)
    BY <1>2, <1>4, ConcatProperties
  <2>4. WillHave((toDart \o s) \o v, i, SightKinds, cur, Sight(os.visible))
    BY <1>3, <2>1, <2>2, <2>3, WillHaveSent
  <2> QED BY <1>5, <2>4
<1>16. ASSUME s # <<>>, NEW cur PROVE WillHave(toDart', i, ImageKinds, cur, Im)
  <2>1. \E n \in DOMAIN s : Of(s[n], i, ImageKinds)
    BY <1>2, <1>16 DEF Of
  <2>2. \A n \in DOMAIN s : Of(s[n], i, ImageKinds) => Val(s[n]) = Im
    BY <1>2
  <2>3. toDart \o s \in Seq(Sendable)
    BY <1>2, <1>4, ConcatProperties
  <2>4. WillHave(toDart \o s, i, ImageKinds, cur, Im)
    BY <1>2, <1>4, <2>1, <2>2, WillHaveSent
  <2>5. \A n \in DOMAIN v : ~Of(v[n], i, ImageKinds)
    BY <1>3 DEF Of, ImageKinds, SightKinds
  <2>6. WillHave((toDart \o s) \o v, i, ImageKinds, cur, Im)
    BY <1>3, <2>3, <2>4, <2>5, WillHaveKept
  <2> QED BY <1>5, <2>6
<1>17. callbacks' = callbacks \cup {i} /\
       UNCHANGED <<os, posted, lastHCursor, lastCursorVisible, hasLastCursorVisible,
                   positionCallbacks, lastCursorPos>>
  BY DEF startHook
<1>18. /\ "vis" \in excuse'[i] \/ WillHave(toDart', i, SightKinds, view'[i].vis, Sight(os.visible))
       /\ "img" \in excuse'[i] \/ WillHave(toDart', i, ImageKinds, view'[i].img, Picture(i, os.cursor))
  BY <1>12, <1>15, <1>16 DEF Im
<1>19. Started(i, r)
  BY <1>6, <1>8, <1>10, <1>11, <1>12, <1>13, <1>14, <1>17, <1>18 DEF Started
<1> QED BY <1>6, <1>10, <1>12, <1>13, <1>14, <1>19

LEMMA StartStep ==
  ASSUME CursorInv, NEW i \in Ids, startHook(i)
  PROVE  CursorInv'
<1> USE DEF CursorInv
<1>1. /\ toDart' \in Seq(Sendable) /\ cachedcursors' \in [Ids -> SUBSET Seq(Nat)]
      /\ excuse' \in [Ids -> Excuses] /\ view' \in [Ids -> Views] /\ late' \in SUBSET Ids
  BY StartedFacts
<1>2. PICK r : Started(i, r)
  BY StartedFacts
<1>3. r \in Seq(Sendable) /\ toDart' = toDart \o r /\ toDart \in Seq(Sendable)
  BY <1>2 DEF Started, CursorTypes
<1>4. /\ callbacks' = callbacks \cup {i}
      /\ os' = os /\ posted' = posted /\ lastHCursor' = lastHCursor
      /\ lastCursorVisible' = lastCursorVisible /\ hasLastCursorVisible' = hasLastCursorVisible
      /\ positionCallbacks' = positionCallbacks /\ lastCursorPos' = lastCursorPos
  BY <1>2 DEF Started
<1>5. ASSUME NEW j \in Live', j # i PROVE j \in Live /\ j \in Ids
  BY <1>2, <1>5 DEF Live, Started, CursorTypes
<1>6. i \in Live' => Clear(i)
  BY <1>2 DEF Started, Live
<1>7. HookOK'
  <2>1. EnsureCursorEventHook /\ callbacks' # {}
    BY <1>4 DEF startHook
  <2> QED BY <1>4, <2>1, HookEnsured
<1>8. CursorTypes'
  <2>1. IsFiniteSet(callbacks \cup {i})
    BY FS_AddElement DEF CursorTypes
  <2> QED BY <1>1, <1>4, <2>1 DEF CursorTypes
<1>9. CachedIsKnown'
  <2> SUFFICES ASSUME NEW j \in Ids, view'[j].img = Unknown PROVE j \in late'
    BY DEF CachedIsKnown
  <2>1. CASE j = i
    <3>1. Len(<<>>) = 0 /\ Len(<<0, 0, 0>>) = 3
      OBVIOUS
    <3>2. Nothing # Unknown
      BY <3>1 DEF Nothing, Unknown
    <3>3. view'[i].img = Nothing
      BY <1>2 DEF Started
    <3> QED BY <2>1, <3>2, <3>3
  <2>2. CASE j # i
    BY <1>2, <2>2 DEF Started, CachedIsKnown
  <2> QED BY <2>1, <2>2
<1>10. CacheOK'
  <2> SUFFICES ASSUME NEW j \in Live'
               PROVE  CacheOf(toDart', j, cachedcursors'[j], view'[j].have)
    BY DEF CacheOK
  <2>1. CASE j # i
    <3>1. CacheOf(toDart, j, cachedcursors[j], view[j].have)
      BY <1>5, <2>1 DEF CacheOK
    <3>2. \A n \in DOMAIN r : r[n].to # j
      BY <1>2, <2>1 DEF Started
    <3>3. CacheOf(toDart \o r, j, cachedcursors[j], view[j].have)
      BY <1>3, <3>1, <3>2, CacheOfAppend
    <3> QED BY <1>2, <1>3, <1>5, <2>1, <3>3 DEF Started
  <2>2. CASE j = i
    <3>1. PICK none : none = {}
      OBVIOUS
    <3>2. CacheOf(toDart, i, none, view'[i].have)
      BY <1>6, <2>2, <3>1 DEF CacheOf, Clear
    <3>3. CacheOf(toDart \o r, i, cachedcursors'[i], view'[i].have)
      <4>1. \A n \in DOMAIN r : r[n].to = i /\ r[n].kind = "cached" => r[n].what \in none
        BY <1>2 DEF Started
      <4>2. \A f \in cachedcursors'[i] : \E n \in DOMAIN r : r[n].to = i /\ r[n].kind = "image" /\ r[n].what = f
        BY <1>2 DEF Started
      <4> QED BY <1>3, <3>2, <4>1, <4>2, CacheOfAppend
    <3> QED BY <1>3, <2>2, <3>3
  <2> QED BY <2>1, <2>2
<1>11. ASSUME NEW j \in Live', j # i
       PROVE  /\ \A v : WillSee(j, v) => WillSee(j, v)'
              /\ \A c : WillShow(j, c) => WillShow(j, c)'
              /\ excuse'[j] = excuse[j]
  <2>1. \A n \in DOMAIN r : ~Of(r[n], j, SightKinds) /\ ~Of(r[n], j, ImageKinds)
    BY <1>2, <1>11 DEF Started, Of
  <2>2. view'[j] = view[j] /\ excuse'[j] = excuse[j]
    BY <1>2, <1>5, <1>11 DEF Started
  <2>3. ASSUME NEW v, WillSee(j, v) PROVE WillSee(j, v)'
    <3>1. WillHave(toDart \o r, j, SightKinds, view[j].vis, Sight(v))
      BY <1>3, <2>1, <2>3, WillHaveKept DEF WillSee
    <3> QED BY <1>3, <2>2, <3>1 DEF WillSee
  <2>4. ASSUME NEW c, WillShow(j, c) PROVE WillShow(j, c)'
    <3>1. WillHave(toDart \o r, j, ImageKinds, view[j].img, Picture(j, c))
      BY <1>3, <2>1, <2>4, WillHaveKept DEF WillShow
    <3> QED BY <1>3, <2>2, <3>1 DEF WillShow
  <2> QED BY <2>2, <2>3, <2>4
<1>12. SightSettles => SightSettles'
  <2> SUFFICES ASSUME SightSettles, NEW j \in Live'
               PROVE  "vis" \in excuse'[j] \/ WillHave(toDart', j, SightKinds, view'[j].vis, Sight(os.visible))
    BY <1>4 DEF SightSettles, WillSee
  <2>1. CASE j = i
    BY <1>2, <2>1 DEF Started
  <2>2. CASE j # i
    BY <1>5, <1>11, <2>2 DEF SightSettles, WillSee
  <2> QED BY <2>1, <2>2
<1>13. ImageCommon'
  <2> SUFFICES ASSUME NEW j \in Live'
               PROVE  \/ "img" \in excuse'[j] \/ "seeded" \in excuse'[j]
                      \/ WillHave(toDart', j, ImageKinds, view'[j].img, Picture(j, lastHCursor))
    BY <1>4 DEF ImageCommon, WillShow
  <2>1. CASE j = i
    BY <1>2, <2>1 DEF Started
  <2>2. CASE j # i
    BY <1>5, <1>11, <2>2 DEF ImageInv, ImageCommon, WillShow
  <2> QED BY <2>1, <2>2
<1>14. ImageSettles => ImageSettles'
  <2> SUFFICES ASSUME ImageSettles, NEW j \in Live'
               PROVE  \/ WillHave(toDart', j, ImageKinds, view'[j].img, Picture(j, os.cursor))
                      \/ "img" \in excuse'[j]
                      \/ "seeded" \in excuse'[j] /\ os.cursor = lastHCursor
    BY <1>4 DEF ImageSettles, WillShow
  <2>1. CASE j = i
    BY <1>2, <2>1 DEF Started
  <2>2. CASE j # i
    BY <1>5, <1>11, <2>2 DEF ImageSettles, WillShow
  <2> QED BY <2>1, <2>2
<1>15. ASSUME NEW j \in positionCallbacks'
       PROVE  /\ j \in positionCallbacks /\ \A p : WillPoint(j, p) => WillPoint(j, p)'
              /\ "pos" \in excuse'[j] <=> "pos" \in excuse[j]
              /\ "seededPos" \in excuse'[j] <=> "seededPos" \in excuse[j]
  <2>1. j \in positionCallbacks /\ j \in Ids
    BY <1>4 DEF CursorTypes
  <2>2. Without(r, PlaceKinds)
    BY <1>2 DEF Started, Without, PlaceKinds
  <2>3. view'[j].pos = view[j].pos
    BY <1>2, <2>1 DEF Started
  <2>4. \A p : WillPoint(j, p) => WillPoint(j, p)'
    BY <1>3, <2>1, <2>2, <2>3, KeptByOthers
  <2>5. /\ "pos" \in excuse'[j] <=> "pos" \in excuse[j]
        /\ "seededPos" \in excuse'[j] <=> "seededPos" \in excuse[j]
    BY <1>2, <2>1 DEF Started
  <2> QED BY <2>1, <2>4, <2>5
<1>16. PlaceCommon' /\ (PlaceSettles => PlaceSettles')
  BY <1>4, <1>15 DEF PlaceInv, PlaceCommon, PlaceSettles, WillPoint
<1>17. (\A E : Posted(E)' <=> Posted(E)) /\ EventsOK'
  BY <1>4 DEF Posted, EventsOK, SightInv
<1> QED BY <1>7, <1>8, <1>9, <1>10, <1>12, <1>13, <1>14, <1>16, <1>17 DEF SightInv, ImageInv, PlaceInv

LEMMA StartPositionStep ==
  ASSUME CursorInv, NEW i \in Ids, startPositionHook(i)
  PROVE  CursorInv'
<1> USE DEF CursorInv
<1> DEFINE m == PositionMessage(i)
           r == IF os.readable THEN <<m>> ELSE <<>>
<1>1. /\ os' = os /\ posted' = posted /\ callbacks' = callbacks /\ cachedcursors' = cachedcursors
      /\ lastHCursor' = lastHCursor /\ lastCursorVisible' = lastCursorVisible
      /\ hasLastCursorVisible' = hasLastCursorVisible /\ late' = late
      /\ positionCallbacks' = positionCallbacks \cup {i}
      /\ EnsureCursorEventHook
  BY DEF startPositionHook
<1>2. /\ m \in Sendable /\ m.to = i /\ m.kind = "position" /\ Val(m) = os.pos
  <2>1. TRUE \in BOOLEAN
    OBVIOUS
  <2> QED BY <2>1, OtherMessages
<1>3. toDart \in Seq(Sendable)
  BY DEF CursorTypes
<1>4. toDart' = IF os.readable THEN Append(toDart, m) ELSE toDart
  BY DEF startPositionHook
<1> HIDE DEF m
<1>5. /\ r \in Seq(Sendable) /\ toDart' = toDart \o r /\ toDart' \in Seq(Sendable)
      /\ \A n \in DOMAIN r : r[n] = m
      /\ os.readable => 1 \in DOMAIN r
  <2>1. CASE os.readable
    <3>1. r = <<m>> /\ toDart' = Append(toDart, m)
      BY <1>4, <2>1
    <3>2. Append(toDart, m) = toDart \o <<m>> /\ <<m>> \in Seq(Sendable)
      BY <1>2, <1>3, AppendProperties
    <3>3. DOMAIN <<m>> = {1} /\ <<m>>[1] = m
      OBVIOUS
    <3>4. toDart' \in Seq(Sendable)
      BY <1>2, <1>3, <3>1, AppendProperties
    <3> QED BY <3>1, <3>2, <3>3, <3>4
  <2>2. CASE ~os.readable
    BY <1>3, <1>4, <2>2
  <2> QED BY <2>1, <2>2
<1> HIDE DEF r
<1>6. Without(r, SightKinds) /\ Without(r, ImageKinds)
  BY <1>2, <1>5 DEF Without, SightKinds, ImageKinds
<1>7. /\ lastCursorPos' = IF positionCallbacks # {} THEN lastCursorPos
                          ELSE IF os.readable THEN os.pos ELSE NoPos
      /\ excuse' = [excuse EXCEPT ![i] =
                  (@ \ {"pos", "seededPos"})
                  \cup (IF os.readable THEN {} ELSE {"pos"})
                  \cup (IF lastCursorPos' # os.pos THEN {"seededPos"} ELSE {})]
      /\ view' = [view EXCEPT ![i].pos = NoPos]
  BY DEF startPositionHook
<1>8. lastCursorPos' \in Positions \cup {NoPos}
  BY <1>7 DEF CursorTypes
<1>9. /\ view' \in [Ids -> Views]
      /\ \A j \in Ids : /\ view'[j].img = view[j].img /\ view'[j].vis = view[j].vis
                        /\ view'[j].have = view[j].have
      /\ \A j \in Ids : j # i => view'[j].pos = view[j].pos
  BY <1>7 DEF CursorTypes, Views, NoPos
<1> DEFINE lcp == lastCursorPos'
<1>10. /\ excuse' \in [Ids -> Excuses]
       /\ SameExcuses(excuse', excuse, {"vis"}) /\ SameExcuses(excuse', excuse, {"img", "seeded"})
       /\ \A j \in Ids : j # i => excuse'[j] = excuse[j]
       /\ os.readable \/ "pos" \in excuse'[i]
       /\ lcp = os.pos \/ "seededPos" \in excuse'[i]
  <2>1. excuse' = [excuse EXCEPT ![i] =
                  (@ \ {"pos", "seededPos"})
                  \cup (IF os.readable THEN {} ELSE {"pos"})
                  \cup (IF lcp # os.pos THEN {"seededPos"} ELSE {})]
    BY <1>7
  <2> HIDE DEF lcp
  <2> QED BY <2>1 DEF CursorTypes, Excuses, SameExcuses
<1>11. HookOK'
  BY <1>1, HookEnsured
<1>12. CursorTypes'
  <2>1. IsFiniteSet(positionCallbacks \cup {i})
    BY FS_AddElement DEF CursorTypes
  <2> QED BY <1>1, <1>5, <1>8, <1>9, <1>10, <2>1 DEF CursorTypes
<1>13. CachedIsKnown' /\ Live' = Live
  BY <1>1, <1>9 DEF CachedIsKnown, Live
<1>14. CacheOK'
  <2>1. \A n \in DOMAIN r : r[n].kind # "cached"
    BY <1>6 DEF Without, ImageKinds
  <2> QED BY <1>1, <1>5, <1>9, <1>13, <2>1, CacheAppend
<1>15. ImageCommon' /\ (ImageSettles => ImageSettles')
  BY <1>1, <1>5, <1>6, <1>9, <1>10, <1>13, ImageKept DEF ImageInv
<1>16. SightSettles => SightSettles'
  BY <1>1, <1>5, <1>6, <1>9, <1>10, <1>13, SightKept
<1>17. ASSUME NEW j \in positionCallbacks', j # i
       PROVE  /\ j \in positionCallbacks /\ positionCallbacks # {} /\ excuse'[j] = excuse[j]
              /\ \A p : WillPoint(j, p) => WillPoint(j, p)'
  <2>1. j \in positionCallbacks /\ j \in Ids
    BY <1>1, <1>17 DEF CursorTypes
  <2>2. \A n \in DOMAIN r : ~Of(r[n], j, PlaceKinds)
    BY <1>2, <1>5, <1>17 DEF Of
  <2>3. ASSUME NEW p, WillPoint(j, p) PROVE WillPoint(j, p)'
    <3>1. WillHave(toDart \o r, j, PlaceKinds, view[j].pos, p)
      BY <1>3, <1>5, <2>2, <2>3, WillHaveKept DEF WillPoint
    <3> QED BY <1>5, <1>9, <1>17, <2>1, <3>1 DEF WillPoint
  <2> QED BY <1>10, <1>17, <2>1, <2>3
<1>18. os.readable => WillHave(toDart', i, PlaceKinds, view'[i].pos, os.pos)
  <2> SUFFICES ASSUME os.readable PROVE WillHave(toDart', i, PlaceKinds, view'[i].pos, os.pos)
    OBVIOUS
  <2>1. \E n \in DOMAIN r : Of(r[n], i, PlaceKinds)
    BY <1>2, <1>5 DEF Of, PlaceKinds
  <2>2. \A n \in DOMAIN r : Of(r[n], i, PlaceKinds) => Val(r[n]) = os.pos
    BY <1>2, <1>5
  <2>3. WillHave(toDart \o r, i, PlaceKinds, view'[i].pos, os.pos)
    BY <1>3, <1>5, <2>1, <2>2, WillHaveSent
  <2> QED BY <1>5, <2>3
<1>19. PlaceCommon'
  <2> SUFFICES ASSUME NEW j \in positionCallbacks'
               PROVE  \/ WillHave(toDart', j, PlaceKinds, view'[j].pos, lastCursorPos')
                      \/ "pos" \in excuse'[j] \/ "seededPos" \in excuse'[j]
    BY DEF PlaceCommon, WillPoint
  <2>1. CASE j = i
    BY <1>10, <1>18, <2>1
  <2>2. CASE j # i
    <3>1. lastCursorPos' = lastCursorPos
      BY <1>7, <1>17, <2>2
    <3> QED BY <1>17, <2>2, <3>1 DEF PlaceInv, PlaceCommon, WillPoint
  <2> QED BY <2>1, <2>2
<1>20. PlaceSettles => PlaceSettles'
  <2> SUFFICES ASSUME PlaceSettles, NEW j \in positionCallbacks'
               PROVE  \/ WillHave(toDart', j, PlaceKinds, view'[j].pos, os.pos)
                      \/ "pos" \in excuse'[j]
                      \/ "seededPos" \in excuse'[j] /\ os.pos = lastCursorPos'
    BY <1>1 DEF PlaceSettles, WillPoint
  <2>1. CASE j = i
    BY <1>10, <1>18, <2>1
  <2>2. CASE j # i
    <3>1. lastCursorPos' = lastCursorPos
      BY <1>7, <1>17, <2>2
    <3> QED BY <1>17, <2>2, <3>1 DEF PlaceSettles, WillPoint
  <2> QED BY <2>1, <2>2
<1>21. (\A E : Posted(E)' <=> Posted(E)) /\ EventsOK'
  BY <1>1 DEF Posted, EventsOK, SightInv
<1> QED BY <1>11, <1>12, <1>13, <1>14, <1>15, <1>16, <1>19, <1>20, <1>21
     DEF SightInv, ImageInv, PlaceInv

----------------------------------------------------------------------------
(* Dart, and the host.                                                     *)

LEMMA CacheOfNext ==
  ASSUME NEW M, NEW q \in Seq(M), q # <<>>, NEW i, NEW cache, NEW have, NEW new,
         CacheOf(q, i, cache, have), have \subseteq new,
         Head(q).to = i /\ Head(q).kind = "image" => Head(q).what \in new
  PROVE  CacheOf(Tail(q), i, cache, new)
<1> DEFINE s == Tail(q)
<1>1. /\ DOMAIN q = 1 .. Len(q) /\ Len(q) \in Nat \ {0} /\ Head(q) = q[1]
      /\ DOMAIN s = 1 .. (Len(q) - 1) /\ \A n \in DOMAIN s : s[n] = q[n + 1]
      /\ Len(s) = Len(q) - 1
  BY EmptySeq, LenProperties, HeadTailProperties
<1> HIDE DEF s
<1>2. \A n \in DOMAIN s : n + 1 \in DOMAIN q /\ s[n] = q[n + 1] /\ n \in Nat
  BY <1>1
<1>3. \A n \in DOMAIN q : n = 1 \/ (n - 1 \in DOMAIN s /\ q[n] = s[n - 1])
  BY <1>1
<1>4. ASSUME NEW n \in Nat, NEW f, Sent(q, i, n + 1, f)
      PROVE  f \in new \/ Sent(s, i, n, f)
  <2>1. PICK k \in DOMAIN q : k < n + 1 /\ q[k].to = i /\ q[k].kind = "image" /\ q[k].what = f
    BY <1>4 DEF Sent
  <2>2. CASE k = 1
    BY <1>1, <2>1, <2>2
  <2>3. CASE k # 1
    <3>1. k - 1 \in DOMAIN s /\ q[k] = s[k - 1]
      BY <1>3, <2>3
    <3>2. k - 1 < n
      BY <1>1, <2>1
    <3> QED BY <2>1, <3>1, <3>2 DEF Sent
  <2> QED BY <2>2, <2>3
<1>5. ASSUME NEW f \in cache PROVE f \in new \/ Sent(s, i, Len(s) + 1, f)
  <2>1. f \in have \/ Sent(q, i, Len(q) + 1, f)
    BY DEF CacheOf
  <2>2. Len(q) \in Nat /\ Len(s) + 1 = Len(q)
    BY <1>1
  <2> QED BY <1>4, <2>1, <2>2
<1>6. ASSUME NEW n \in DOMAIN s, s[n].to = i, s[n].kind = "cached"
      PROVE  s[n].what \in new \/ Sent(s, i, n, s[n].what)
  <2>1. s[n].what \in have \/ Sent(q, i, n + 1, s[n].what)
    BY <1>2, <1>6 DEF CacheOf
  <2> QED BY <1>2, <1>4, <2>1
<1> QED BY <1>5, <1>6 DEF CacheOf, s

\* A message changes what its receiver was told.
LEMMA ToldFacts ==
  ASSUME CursorTypes, NEW m \in Sendable
  PROVE  LET w == Told(view, m) IN
         /\ w \in [Ids -> Views]
         /\ \A j \in Ids :
              /\ w[j].pos = IF j \in positionCallbacks /\ Of(m, j, PlaceKinds) THEN Val(m) ELSE view[j].pos
              /\ w[j].vis = IF j \in callbacks /\ Of(m, j, SightKinds) THEN Val(m) ELSE view[j].vis
              /\ view[j].have \subseteq w[j].have
              /\ j \in callbacks /\ m.to = j /\ m.kind = "image" => m.what \in w[j].have
              /\ ~(j \in callbacks /\ Of(m, j, ImageKinds)) => w[j].img = view[j].img
              /\ j \in callbacks /\ Of(m, j, ImageKinds)
                   /\ (m.kind = "cached" => m.what \in view[j].have) => w[j].img = Val(m)
<1> DEFINE w == Told(view, m)
           i == m.to
<1>1. /\ i \in Ids /\ m.what \in Seq(Nat) /\ Len(m.what) \in {1, 2}
      /\ m.kind \in ImageKinds \cup SightKinds \cup PlaceKinds
  BY DEF Sendable, Messages, ImageKinds, SightKinds, PlaceKinds
<1>2. view \in [Ids -> Views] /\ view[i] \in Views
  BY <1>1 DEF CursorTypes
<1>3. m.what[1] \in Nat
  <2>1. PICK x \in Seq(Nat) : x = m.what
    BY <1>1
  <2>2. Len(x) \in {1, 2}
    BY <1>1, <2>1
  <2>3. 1 \in 1 .. Len(x)
    <3>1. PICK n \in {1, 2} : n = Len(x)
      BY <2>2
    <3>2. n \in Int /\ 1 <= n
      BY <3>1
    <3>3. 1 \in 1 .. n
      BY <3>2
    <3> QED BY <3>1, <3>3
  <2>4. x[1] \in Nat
    BY <2>3, ElementOfSeq
  <2> QED BY <2>1, <2>4
<1>4. CASE m.kind = "position"
  <2>1. ~Of(m, i, SightKinds) /\ (\A j : ~Of(m, j, ImageKinds)) /\ (\A j : ~Of(m, j, SightKinds))
        /\ Val(m) = m.what[1] /\ m.kind # "image" /\ (\A j : Of(m, j, PlaceKinds) <=> j = i)
    BY <1>4 DEF Of, SightKinds, ImageKinds, PlaceKinds, Val
  <2>2. CASE i \in positionCallbacks
    <3>1. w = [view EXCEPT ![i].pos = Val(m)]
      BY <1>4, <2>1, <2>2 DEF Told
    <3> HIDE DEF w
    <3>2. w \in [Ids -> Views]
      BY <1>1, <1>2, <1>3, <2>1, <3>1 DEF Views
    <3> QED BY <1>2, <2>1, <2>2, <3>1, <3>2 DEF Views, w
  <2>3. CASE i \notin positionCallbacks
    <3>1. w = view
      BY <1>4, <2>3 DEF Told
    <3> QED BY <1>2, <2>1, <2>3, <3>1
  <2> QED BY <2>2, <2>3
<1>5. CASE m.kind # "position" /\ i \notin callbacks
  <2>1. w = view
    BY <1>5 DEF Told
  <2>2. \A j : ~Of(m, j, PlaceKinds)
    BY <1>5 DEF Of, PlaceKinds
  <2>3. \A j \in callbacks : m.to # j
    BY <1>5
  <2> HIDE DEF w
  <2> QED BY <1>2, <2>1, <2>2, <2>3 DEF Of, w
<1>6. CASE m.kind \in SightKinds /\ i \in callbacks
  <2>1. m.kind # "position" /\ (\A j : ~Of(m, j, ImageKinds)) /\ (\A j : ~Of(m, j, PlaceKinds))
        /\ Val(m) = m.kind /\ m.kind # "image" /\ (\A j : Of(m, j, SightKinds) <=> j = i)
    BY <1>6 DEF Of, SightKinds, ImageKinds, PlaceKinds, Val
  <2>2. w = [view EXCEPT ![i].vis = m.kind]
    BY <1>6, <2>1 DEF Told, SightKinds
  <2> HIDE DEF w
  <2>3. w \in [Ids -> Views]
    BY <1>1, <1>2, <1>6, <2>2 DEF Views
  <2>4. /\ \A j \in Ids : j # i => w[j] = view[j]
        /\ w[i].vis = m.kind /\ w[i].pos = view[i].pos /\ w[i].img = view[i].img
        /\ w[i].have = view[i].have
    BY <1>1, <1>2, <2>2 DEF Views
  <2> QED BY <1>6, <2>1, <2>3, <2>4 DEF w
<1>7. CASE m.kind \in ImageKinds /\ i \in callbacks
  <2>1. m.kind # "position" /\ m.kind \notin SightKinds /\ (\A j : ~Of(m, j, SightKinds))
        /\ (\A j : ~Of(m, j, PlaceKinds)) /\ Val(m) = m.what /\ (\A j : Of(m, j, ImageKinds) <=> j = i)
    BY <1>7 DEF Of, SightKinds, ImageKinds, PlaceKinds, Val
  <2>2. m.kind \notin {"visible", "invisible"}
    BY <2>1 DEF SightKinds
  <2>3. Unknown \in Seq(Nat)
    BY DEF Unknown
  <2>4. CASE m.kind = "image"
    <3>1. w = [view EXCEPT ![i].img = m.what, ![i].have = @ \cup {m.what}]
      BY <1>7, <2>1, <2>2, <2>4 DEF Told
    <3> HIDE DEF w
    <3>2. w \in [Ids -> Views]
      BY <1>1, <1>2, <3>1 DEF Views
    <3> QED BY <1>1, <1>2, <1>7, <2>1, <2>4, <3>1, <3>2 DEF Views, w
  <2>5. CASE m.kind = "cached" /\ m.what \notin view[i].have
    <3>1. w = [view EXCEPT ![i].img = Unknown]
      BY <1>7, <2>1, <2>2, <2>5 DEF Told
    <3> HIDE DEF w
    <3>2. w \in [Ids -> Views]
      BY <1>1, <1>2, <2>3, <3>1 DEF Views
    <3>3. /\ \A j \in Ids : j # i => w[j] = view[j]
          /\ w[i].vis = view[i].vis /\ w[i].pos = view[i].pos /\ w[i].have = view[i].have
      BY <1>1, <1>2, <3>1 DEF Views
    <3> QED BY <1>7, <2>1, <2>5, <3>2, <3>3 DEF w
  <2>6. CASE m.kind # "image" /\ ~(m.kind = "cached" /\ m.what \notin view[i].have)
    <3>1. w = [view EXCEPT ![i].img = m.what]
      BY <1>7, <2>1, <2>2, <2>6 DEF Told
    <3> HIDE DEF w
    <3>2. w \in [Ids -> Views]
      BY <1>1, <1>2, <3>1 DEF Views
    <3> QED BY <1>1, <1>2, <1>7, <2>1, <2>6, <3>1, <3>2, SMTT(30) DEF Views, w
  <2> QED BY <2>4, <2>5, <2>6
<1>8. m.kind = "position" \/ m.kind \in SightKinds \/ m.kind \in ImageKinds
  BY <1>1 DEF PlaceKinds
<1> HIDE DEF w
<1> QED BY <1>4, <1>5, <1>6, <1>7, <1>8 DEF w

LEMMA DartStep ==
  ASSUME CursorInv, DartHandles
  PROVE  CursorInv'
<1> USE DEF CursorInv
<1> DEFINE m == Head(toDart)
<1>1. /\ toDart # <<>> /\ toDart' = Tail(toDart) /\ view' = Told(view, m)
      /\ UNCHANGED <<os, hookVars, nativeVars, excuse, late>>
  BY DEF DartHandles, cursorGhosts
<1>2. /\ os' = os /\ posted' = posted /\ Global_HOOK' = Global_HOOK /\ callbacks' = callbacks
      /\ cachedcursors' = cachedcursors /\ lastHCursor' = lastHCursor
      /\ lastCursorVisible' = lastCursorVisible /\ hasLastCursorVisible' = hasLastCursorVisible
      /\ positionCallbacks' = positionCallbacks /\ lastCursorPos' = lastCursorPos
      /\ excuse' = excuse /\ late' = late
  BY <1>1 DEF hookVars, nativeVars
<1>3. toDart \in Seq(Sendable) /\ m \in Sendable /\ toDart' \in Seq(Sendable)
  BY <1>1, HeadTailProperties DEF CursorTypes
<1>4. /\ view' \in [Ids -> Views]
      /\ \A j \in Ids :
           /\ view'[j].pos = IF j \in positionCallbacks /\ Of(m, j, PlaceKinds) THEN Val(m) ELSE view[j].pos
           /\ view'[j].vis = IF j \in callbacks /\ Of(m, j, SightKinds) THEN Val(m) ELSE view[j].vis
           /\ view[j].have \subseteq view'[j].have
           /\ j \in callbacks /\ m.to = j /\ m.kind = "image" => m.what \in view'[j].have
           /\ ~(j \in callbacks /\ Of(m, j, ImageKinds)) => view'[j].img = view[j].img
           /\ j \in callbacks /\ Of(m, j, ImageKinds)
                /\ (m.kind = "cached" => m.what \in view[j].have) => view'[j].img = Val(m)
  <2>1. PICK k \in Sendable : k = m
    BY <1>3
  <2> HIDE DEF m
  <2> QED BY <1>1, <2>1, ToldFacts
<1>5. Live' = Live /\ Live \subseteq Ids /\ Live \subseteq callbacks
  BY <1>2 DEF Live, CursorTypes
<1>6. ASSUME NEW j \in Live, m.to = j, m.kind = "cached" PROVE m.what \in view[j].have
  <2>1. CacheOf(toDart, j, cachedcursors[j], view[j].have)
    BY DEF CacheOK
  <2>2. 1 \in DOMAIN toDart /\ m = toDart[1] /\ DOMAIN toDart \subseteq Nat /\ 0 \notin DOMAIN toDart
    BY <1>1, <1>3, EmptySeq, LenProperties, HeadTailProperties
  <2>3. ~Sent(toDart, j, 1, m.what)
    BY <2>2 DEF Sent
  <2> QED BY <1>6, <2>1, <2>2, <2>3 DEF CacheOf
<1> HIDE DEF m
<1>7. ASSUME NEW j \in Live
      PROVE  /\ CacheOf(toDart', j, cachedcursors'[j], view'[j].have)
             /\ \A v : WillSee(j, v) => WillSee(j, v)'
             /\ \A c : WillShow(j, c) => WillShow(j, c)'
  <2>1. CacheOf(toDart', j, cachedcursors'[j], view'[j].have)
    <3>1. CacheOf(toDart, j, cachedcursors[j], view[j].have)
      BY DEF CacheOK
    <3>2. view[j].have \subseteq view'[j].have /\ (m.to = j /\ m.kind = "image" => m.what \in view'[j].have)
      BY <1>4, <1>5
    <3>3. CacheOf(Tail(toDart), j, cachedcursors[j], view'[j].have)
      BY <1>1, <1>3, <3>1, <3>2, CacheOfNext DEF m
    <3> QED BY <1>1, <1>2, <3>3
  <2>2. ASSUME NEW v, WillSee(j, v) PROVE WillSee(j, v)'
    <3>1. /\ Of(m, j, SightKinds) => view'[j].vis = Val(m)
          /\ ~Of(m, j, SightKinds) => view'[j].vis = view[j].vis
      BY <1>4, <1>5
    <3>2. WillHave(Tail(toDart), j, SightKinds, view'[j].vis, Sight(v))
      BY <1>1, <1>3, <2>2, <3>1, WillHaveNext DEF WillSee, m
    <3> QED BY <1>1, <3>2 DEF WillSee
  <2>3. ASSUME NEW c, WillShow(j, c) PROVE WillShow(j, c)'
    <3>1. /\ Of(m, j, ImageKinds) => view'[j].img = Val(m)
          /\ ~Of(m, j, ImageKinds) => view'[j].img = view[j].img
      BY <1>4, <1>5, <1>6 DEF Of
    <3>2. WillHave(Tail(toDart), j, ImageKinds, view'[j].img, Picture(j, c))
      BY <1>1, <1>3, <2>3, <3>1, WillHaveNext DEF WillShow, m
    <3> QED BY <1>1, <3>2 DEF WillShow
  <2> QED BY <2>1, <2>2, <2>3
<1>8. ASSUME NEW j \in positionCallbacks, NEW p, WillPoint(j, p) PROVE WillPoint(j, p)'
  <2>1. j \in Ids
    BY DEF CursorTypes
  <2>2. /\ Of(m, j, PlaceKinds) => view'[j].pos = Val(m)
        /\ ~Of(m, j, PlaceKinds) => view'[j].pos = view[j].pos
    BY <1>4, <2>1
  <2>3. WillHave(Tail(toDart), j, PlaceKinds, view'[j].pos, p)
    BY <1>1, <1>3, <1>8, <2>2, WillHaveNext DEF WillPoint, m
  <2> QED BY <1>1, <2>3 DEF WillPoint
<1>9. CachedIsKnown'
  <2> SUFFICES ASSUME NEW j \in Ids, j \notin late, view'[j].img = Unknown PROVE FALSE
    BY <1>2 DEF CachedIsKnown
  <2>1. view[j].img # Unknown
    BY DEF CachedIsKnown
  <2>2. j \in callbacks /\ Of(m, j, ImageKinds)
    BY <1>4, <2>1
  <2>3. view'[j].img = Val(m)
    <3>1. j \in Live
      BY <2>2 DEF Live
    <3> QED BY <1>4, <1>6, <2>2, <3>1 DEF Of
  <2>4. Val(m) = m.what /\ Len(m.what) \in {1, 2}
    BY <1>3, <2>2 DEF Val, Of, ImageKinds, SightKinds, Sendable
  <2>5. Len(Unknown) = 3
    BY DEF Unknown
  <2> QED BY <2>3, <2>4, <2>5
<1>10. CursorTypes'
  BY <1>2, <1>3, <1>4 DEF CursorTypes
<1>11. HookOK'
  BY <1>2 DEF HookOK
<1>12. CacheOK'
  BY <1>5, <1>7 DEF CacheOK
<1>13. SightSettles => SightSettles'
  BY <1>2, <1>5, <1>7 DEF SightSettles, WillSee
<1>14. ImageCommon' /\ (ImageSettles => ImageSettles')
  BY <1>2, <1>5, <1>7 DEF ImageInv, ImageCommon, ImageSettles, WillShow
<1>15. PlaceCommon' /\ (PlaceSettles => PlaceSettles')
  BY <1>2, <1>8 DEF PlaceInv, PlaceCommon, PlaceSettles, WillPoint
<1>16. (\A E : Posted(E)' <=> Posted(E)) /\ EventsOK'
  BY <1>2 DEF Posted, EventsOK, SightInv
<1> QED BY <1>9, <1>10, <1>11, <1>12, <1>13, <1>14, <1>15, <1>16 DEF SightInv, ImageInv, PlaceInv

\* An event is posted.
LEMMA EventPosted ==
  ASSUME CursorTypes, NEW event \in Events, posted' = Append(posted, event), EventsOK,
         event \in {"show", "hide"} => (event = "show" <=> os'.visible),
         event \notin {"show", "hide"} => os'.visible = os.visible
  PROVE  /\ posted' \in Seq(Events) /\ EventsOK'
         /\ \A E : Posted(E) => Posted(E)'
         /\ \A E : event \in E => Posted(E)'
<1> DEFINE q == posted
           s == Append(posted, event)
           V == {"show", "hide"}
<1>1. /\ DOMAIN q = 1 .. Len(q) /\ Len(q) \in Nat /\ s \in Seq(Events)
      /\ DOMAIN s = 1 .. (Len(q) + 1) /\ s[Len(q) + 1] = event
      /\ \A n \in 1 .. Len(q) : s[n] = q[n]
  <2>1. q \in Seq(Events)
    BY DEF CursorTypes
  <2>2. /\ s \in Seq(Events) /\ Len(s) = Len(q) + 1 /\ s[Len(q) + 1] = event
        /\ \A n \in 1 .. Len(q) : s[n] = q[n]
    BY <2>1, AppendProperties
  <2> HIDE DEF s, q
  <2> QED BY <2>1, <2>2, LenProperties
<1> HIDE DEF s, q
<1>2. \A n \in DOMAIN q : n \in DOMAIN s /\ s[n] = q[n]
  BY <1>1
<1>3. \A n \in DOMAIN s : n \in DOMAIN q \/ n = Len(q) + 1
  BY <1>1
<1>4. Len(q) + 1 \in DOMAIN s /\ \A n \in DOMAIN q : Len(q) + 1 > n
  BY <1>1
<1>5. ASSUME NEW n \in DOMAIN s, s[n] \in V, \A m \in DOMAIN s : m > n => s[m] \notin V
      PROVE  s[n] = "show" <=> os'.visible
  <2>1. CASE n = Len(q) + 1
    BY <1>1, <1>5, <2>1
  <2>2. CASE n \in DOMAIN q
    <3>1. event \notin V
      BY <1>1, <1>4, <1>5, <2>2
    <3>2. \A m \in DOMAIN q : m > n => q[m] \notin V
      BY <1>2, <1>5
    <3>3. q[n] \in V
      BY <1>2, <1>5, <2>2
    <3>4. q[n] = "show" <=> os.visible
      BY <2>2, <3>2, <3>3 DEF EventsOK, q
    <3> QED BY <1>2, <2>2, <3>1, <3>4
  <2> QED BY <1>3, <2>1, <2>2
<1>6. EventsOK'
  BY <1>5 DEF EventsOK, s
<1>7. ASSUME NEW E, Posted(E) PROVE Posted(E)'
  BY <1>2, <1>7 DEF Posted, s, q
<1>8. ASSUME NEW E, event \in E PROVE Posted(E)'
  BY <1>1, <1>4, <1>8 DEF Posted, s
<1> QED BY <1>1, <1>6, <1>7, <1>8 DEF s

LEMMA HostChangesStep ==
  ASSUME CursorInv, NEW new, NEW event \in Events \cup {"none"}, HostChanges(new, event),
         new \in [cursor : Cursors, visible : BOOLEAN, pos : Positions, readable : BOOLEAN],
         event # "name" => new.cursor = os.cursor,
         event # "location" => new.pos = os.pos,
         event \notin {"show", "hide"} => new.visible = os.visible,
         event \in {"show", "hide"} => (event = "show" <=> new.visible)
  PROVE  CursorInv'
<1> USE DEF CursorInv
<1>1. /\ os' = new
      /\ posted' = IF Global_HOOK /\ event # "none" THEN Append(posted, event) ELSE posted
      /\ excuse' = IF Global_HOOK \/ event = "none" THEN excuse
                   ELSE Excused(Ids, {"vis", "img", "pos"}, excuse)
      /\ Global_HOOK' = Global_HOOK
      /\ callbacks' = callbacks /\ cachedcursors' = cachedcursors /\ lastHCursor' = lastHCursor
      /\ lastCursorVisible' = lastCursorVisible /\ hasLastCursorVisible' = hasLastCursorVisible
      /\ positionCallbacks' = positionCallbacks /\ lastCursorPos' = lastCursorPos
      /\ toDart' = toDart /\ view' = view /\ late' = late
  BY DEF HostChanges, nativeVars
<1>2. excuse' \in [Ids -> Excuses]
  BY <1>1 DEF Excused, CursorTypes, Excuses
<1>4. CachedIsKnown' /\ Live' = Live /\ CacheOK'
  BY <1>1 DEF CachedIsKnown, Live, CacheOK
<1>5. CASE Global_HOOK /\ event # "none"
  <2>1. posted' = Append(posted, event) /\ excuse' = excuse /\ event \in Events
    BY <1>1, <1>5
  <2>2. /\ posted' \in Seq(Events) /\ EventsOK'
        /\ \A E : Posted(E) => Posted(E)'
        /\ \A E : event \in E => Posted(E)'
    BY <1>1, <2>1, EventPosted DEF SightInv
  <2>3. CursorTypes' /\ HookOK'
    BY <1>1, <1>2, <1>5, <2>2 DEF CursorTypes, HookOK
  <2>4. SightInv'
    <3>1. SightSettles /\ event \notin {"show", "hide"} => SightSettles'
      BY <1>1, <1>4, <2>1 DEF SightSettles, WillSee
    <3>2. event \in {"show", "hide"} => Posted({"show", "hide"})'
      BY <2>2
    <3>3. Posted({"show", "hide"}) => Posted({"show", "hide"})'
      BY <2>2
    <3> QED BY <2>2, <3>1, <3>2, <3>3 DEF SightInv
  <2>5. ImageInv'
    <3>1. ImageSettles /\ event # "name" => ImageSettles'
      BY <1>1, <1>4, <2>1 DEF ImageSettles, WillShow
    <3>2. event = "name" => Posted({"name"})'
      BY <2>2
    <3>3. Posted({"name"}) => Posted({"name"})'
      BY <2>2
    <3>4. ImageCommon'
      BY <1>1, <1>4, <2>1 DEF ImageInv, ImageCommon, WillShow
    <3> QED BY <3>1, <3>2, <3>3, <3>4 DEF ImageInv
  <2>6. PlaceInv'
    <3>1. PlaceSettles /\ event # "location" => PlaceSettles'
      BY <1>1, <2>1 DEF PlaceSettles, WillPoint
    <3>2. event = "location" => Posted({"location"})'
      BY <2>2
    <3>3. Posted({"location"}) => Posted({"location"})'
      BY <2>2
    <3>4. PlaceCommon'
      BY <1>1, <2>1 DEF PlaceInv, PlaceCommon, WillPoint
    <3> QED BY <3>1, <3>2, <3>3, <3>4 DEF PlaceInv
  <2> QED BY <1>4, <2>3, <2>4, <2>5, <2>6
<1>6. CASE event = "none"
  <2>1. posted' = posted /\ excuse' = excuse /\ new.cursor = os.cursor /\ new.pos = os.pos
        /\ new.visible = os.visible
    BY <1>1, <1>6
  <2>2. CursorTypes' /\ HookOK'
    BY <1>1, <1>2, <2>1 DEF CursorTypes, HookOK
  <2>3. (\A E : Posted(E)' <=> Posted(E)) /\ EventsOK'
    BY <1>1, <2>1 DEF Posted, EventsOK, SightInv
  <2>4. (SightSettles => SightSettles') /\ (ImageSettles => ImageSettles') /\ ImageCommon'
    BY <1>1, <1>4, <2>1 DEF SightSettles, ImageSettles, ImageCommon, ImageInv, WillSee, WillShow
  <2>5. (PlaceSettles => PlaceSettles') /\ PlaceCommon'
    BY <1>1, <2>1 DEF PlaceSettles, PlaceCommon, PlaceInv, WillPoint
  <2> QED BY <1>4, <2>2, <2>3, <2>4, <2>5 DEF SightInv, ImageInv, PlaceInv
<1>7. CASE ~Global_HOOK /\ event # "none"
  <2>1. posted' = posted /\ excuse' = Excused(Ids, {"vis", "img", "pos"}, excuse) /\ posted = <<>>
    BY <1>1, <1>7 DEF HookOK
  <2>2. \A i \in Ids : "vis" \in excuse'[i] /\ "img" \in excuse'[i] /\ "pos" \in excuse'[i]
    BY <2>1 DEF Excused
  <2>3. CursorTypes' /\ HookOK'
    BY <1>1, <1>2, <2>1 DEF CursorTypes, HookOK
  <2>4. EventsOK'
    BY <2>1 DEF EventsOK
  <2>5. Live \subseteq Ids /\ positionCallbacks' \subseteq Ids
    BY <1>1 DEF Live, CursorTypes
  <2>6. SightSettles' /\ ImageSettles' /\ ImageCommon' /\ PlaceSettles' /\ PlaceCommon'
    BY <1>4, <2>2, <2>5 DEF SightSettles, ImageSettles, ImageCommon, PlaceSettles, PlaceCommon
  <2> QED BY <1>4, <2>3, <2>4, <2>6 DEF SightInv, ImageInv, PlaceInv
<1> QED BY <1>5, <1>6, <1>7

LEMMA HostMoves ==
  ASSUME CursorInv, Host
  PROVE  CursorInv'
<1>0. os \in [cursor : Cursors, visible : BOOLEAN, pos : Positions, readable : BOOLEAN]
  BY DEF CursorInv, CursorTypes
<1>1. ASSUME NEW c \in Cursors, HostChanges([os EXCEPT !.cursor = c], "name") PROVE CursorInv'
  <2>1. PICK new : new = [os EXCEPT !.cursor = c]
    OBVIOUS
  <2>2. new \in [cursor : Cursors, visible : BOOLEAN, pos : Positions, readable : BOOLEAN]
        /\ new.pos = os.pos /\ new.visible = os.visible
    BY <1>0, <2>1
  <2>3. HostChanges(new, "name")
    BY <1>1, <2>1
  <2> QED BY <2>2, <2>3, HostChangesStep DEF Events
<1>2. ASSUME NEW v \in BOOLEAN,
             HostChanges([os EXCEPT !.visible = v], IF v THEN "show" ELSE "hide") PROVE CursorInv'
  <2>1. PICK new : new = [os EXCEPT !.visible = v]
    OBVIOUS
  <2>2. PICK event : event = IF v THEN "show" ELSE "hide"
    OBVIOUS
  <2>3. new \in [cursor : Cursors, visible : BOOLEAN, pos : Positions, readable : BOOLEAN]
        /\ new.pos = os.pos /\ new.cursor = os.cursor /\ new.visible = v
    BY <1>0, <2>1
  <2>4. HostChanges(new, event)
    BY <1>2, <2>1, <2>2
  <2>5. event \in {"show", "hide"} /\ event \in Events /\ (event = "show" <=> v)
    BY <2>2 DEF Events
  <2>6. event = "show" <=> new.visible
    BY <2>3, <2>5
  <2> QED BY <2>3, <2>4, <2>5, <2>6, HostChangesStep
<1>3. ASSUME NEW p \in Positions, HostChanges([os EXCEPT !.pos = p], "location") PROVE CursorInv'
  <2>1. PICK new : new = [os EXCEPT !.pos = p]
    OBVIOUS
  <2>2. new \in [cursor : Cursors, visible : BOOLEAN, pos : Positions, readable : BOOLEAN]
        /\ new.cursor = os.cursor /\ new.visible = os.visible
    BY <1>0, <2>1
  <2>3. HostChanges(new, "location")
    BY <1>3, <2>1
  <2> QED BY <2>2, <2>3, HostChangesStep DEF Events
<1>4. ASSUME HostChanges([os EXCEPT !.readable = ~os.readable], "none") PROVE CursorInv'
  <2>1. PICK new : new = [os EXCEPT !.readable = ~os.readable]
    OBVIOUS
  <2>2. new \in [cursor : Cursors, visible : BOOLEAN, pos : Positions, readable : BOOLEAN]
        /\ new.cursor = os.cursor /\ new.visible = os.visible /\ new.pos = os.pos
    BY <1>0, <2>1
  <2>3. HostChanges(new, "none")
    BY <1>4, <2>1
  <2> QED BY <2>2, <2>3, HostChangesStep DEF Events
<1> QED BY <1>1, <1>2, <1>3, <1>4 DEF Host

----------------------------------------------------------------------------
(* The theorems.                                                           *)

LEMMA CursorStarts == CursorInit => CursorInv
<1> SUFFICES ASSUME CursorInit PROVE CursorInv
  OBVIOUS
<1>1. /\ posted = <<>> /\ callbacks = {} /\ positionCallbacks = {} /\ toDart = <<>>
      /\ Global_HOOK = FALSE /\ late = {} /\ view = [i \in Ids |-> NewView]
      /\ cachedcursors = [i \in Ids |-> {}] /\ excuse = [i \in Ids |-> {}]
      /\ lastHCursor = NoCursor /\ lastCursorPos = NoPos
      /\ lastCursorVisible = TRUE /\ hasLastCursorVisible = FALSE
  BY DEF CursorInit
<1>2. os \in [cursor : Cursors, visible : BOOLEAN, pos : Positions, readable : BOOLEAN]
  <2>1. (CHOOSE c \in Cursors : c \in SystemCursors) \in Cursors
    BY CursorAssumption
  <2>2. (CHOOSE p \in Positions : TRUE) \in Positions
    BY CursorAssumption
  <2> QED BY <2>1, <2>2 DEF CursorInit
<1>3. NewView \in Views /\ NewView.img = Nothing
  BY DEF NewView, Views, Nothing, NoPos
<1>4. CursorTypes
  <2>1. IsFiniteSet({})
    BY FS_EmptySet
  <2>2. lastCursorVisible \in BOOLEAN /\ hasLastCursorVisible \in BOOLEAN
    BY <1>1
  <2>3. posted \in Seq(Events) /\ toDart \in Seq(Sendable)
    BY <1>1
  <2>4. /\ cachedcursors \in [Ids -> SUBSET Seq(Nat)] /\ view \in [Ids -> Views]
        /\ excuse \in [Ids -> Excuses]
    BY <1>1, <1>3 DEF Excuses
  <2>5. callbacks \in SUBSET Ids /\ positionCallbacks \in SUBSET Ids /\ late \in SUBSET Ids
    BY <1>1
  <2>6. IsFiniteSet(callbacks) /\ IsFiniteSet(positionCallbacks)
    BY <1>1, <2>1
  <2>7. lastHCursor \in Cursors \cup {NoCursor} /\ lastCursorPos \in Positions \cup {NoPos}
    BY <1>1
  <2> QED BY <1>2, <2>2, <2>3, <2>4, <2>5, <2>6, <2>7 DEF CursorTypes
<1>5. HookOK
  BY <1>1, Zenon DEF HookOK
<1>6. CachedIsKnown
  <2>1. Len(<<>>) = 0 /\ Len(<<0, 0, 0>>) = 3
    OBVIOUS
  <2>2. Nothing # Unknown
    BY <2>1 DEF Nothing, Unknown
  <2> QED BY <1>1, <1>3, <2>2 DEF CachedIsKnown
<1>7. CacheOK /\ SightInv /\ ImageInv /\ PlaceInv
  BY <1>1 DEF CacheOK, Live, SightInv, EventsOK, SightSettles, ImageInv, ImageCommon,
              ImageSettles, PlaceInv, PlaceCommon, PlaceSettles
<1> QED BY <1>4, <1>5, <1>6, <1>7 DEF CursorInv

LEMMA CursorStutters ==
  ASSUME CursorInv, UNCHANGED cursorVars
  PROVE  CursorInv'
<1> USE DEF CursorInv
<1>1. /\ os' = os /\ posted' = posted /\ Global_HOOK' = Global_HOOK /\ callbacks' = callbacks
      /\ cachedcursors' = cachedcursors /\ lastHCursor' = lastHCursor
      /\ lastCursorVisible' = lastCursorVisible /\ hasLastCursorVisible' = hasLastCursorVisible
      /\ positionCallbacks' = positionCallbacks /\ lastCursorPos' = lastCursorPos
      /\ toDart' = toDart /\ view' = view /\ excuse' = excuse /\ late' = late
  BY DEF cursorVars, hookVars, nativeVars, cursorGhosts
<1>2. CursorTypes' /\ HookOK' /\ CachedIsKnown'
  BY <1>1 DEF CursorTypes, HookOK, CachedIsKnown
<1>3. CacheOK' /\ SightInv'
  BY <1>1 DEF CacheOK, Live, SightInv, EventsOK, Posted, SightSettles, WillSee
<1>4. ImageInv' /\ PlaceInv'
  BY <1>1 DEF Live, Posted, ImageInv, ImageCommon, ImageSettles, WillShow,
              PlaceInv, PlaceCommon, PlaceSettles, WillPoint
<1> QED BY <1>2, <1>3, <1>4

\* CursorInv holds in every reachable state of the cursor monitor, for any number
\* of ids, cursors, changes, calls and failures.
THEOREM CursorInvariant == CursorSpec => []CursorInv
<1>1. ASSUME CursorInv, [CursorNext]_cursorVars PROVE CursorInv'
  <2>1. ASSUME NEW i \in Ids, startHook(i) \/ endHook(i) PROVE CursorInv'
    BY <1>1, <2>1, StartStep, EndStep
  <2>2. ASSUME NEW i \in PositionIds, startPositionHook(i) \/ endPositionHook(i) PROVE CursorInv'
    <3>1. i \in Ids
      BY CursorAssumption
    <3> QED BY <1>1, <2>2, <3>1, StartPositionStep, EndStep
  <2>3. CASE syncNow
    BY <1>1, <2>3, SyncNowStep
  <2>4. CASE CursorChangedEventProc
    BY <1>1, <2>4, EventProcStep
  <2>5. CASE DartHandles
    BY <1>1, <2>5, DartStep
  <2>6. CASE Host
    BY <1>1, <2>6, HostMoves
  <2>7. CASE UNCHANGED cursorVars
    BY <1>1, <2>7, CursorStutters
  <2> QED BY <1>1, <2>1, <2>2, <2>3, <2>4, <2>5, <2>6, <2>7 DEF CursorNext
<1> QED BY <1>1, CursorStarts, PTL DEF CursorSpec

\* The types of the monitor's state, and that the event hook exists only while
\* someone is subscribed (ReleaseCursorEventHookIfUnused).
THEOREM CursorTypeCorrect == CursorSpec => []CursorTypeOK
<1>1. CursorInv => CursorTypeOK
  <2> SUFFICES ASSUME CursorInv PROVE CursorTypeOK
    OBVIOUS
  <2>1. Seq(Sendable) \subseteq Seq(Messages)
    <3>1. Sendable \subseteq Messages
      BY DEF Sendable
    <3> QED BY <3>1, SeqMonotonic
  <2>2. toDart \in Seq(Messages)
    BY <2>1 DEF CursorInv, CursorTypes
  <2>3. {lastCursorVisible, hasLastCursorVisible, Global_HOOK} \subseteq BOOLEAN
    BY DEF CursorInv, CursorTypes, HookOK
  <2>4. /\ Global_HOOK => callbacks # {} \/ positionCallbacks # {}
        /\ posted # <<>> => Global_HOOK
    BY DEF CursorInv, HookOK
  <2>5. posted \in Seq({"show", "hide", "name", "location"})
    BY DEF CursorInv, CursorTypes, Events
  <2> QED BY <2>2, <2>3, <2>4, <2>5 DEF CursorInv, CursorTypes, CursorTypeOK, Excuses
<1> QED BY <1>1, CursorInvariant, PTL

\* A subscriber is told to use a bitmap from its cache (cachedcursors) only if it
\* was sent that bitmap before.
THEOREM CachedBitmapsAreKnown == CursorSpec => []CachedIsKnown
<1>1. CursorInv => CachedIsKnown
  BY DEF CursorInv
<1> QED BY <1>1, CursorInvariant, PTL

\* Once the events and the messages are handled, every subscriber of the cursor
\* monitor has the host's cursor, or one of the reasons not to.
THEOREM SubscribersSettle == CursorSpec => []ViewsSettle
<1>1. CursorInv => ViewsSettle
  <2> SUFFICES ASSUME CursorInv, os.readable, posted = <<>>, toDart = <<>>
               PROVE  /\ \A i \in Live :
                           /\ "vis" \in excuse[i] \/ view[i].vis = IF os.visible THEN "visible" ELSE "invisible"
                           /\ \/ view[i].img = Shown(i)
                              \/ "img" \in excuse[i]
                              \/ "seeded" \in excuse[i] /\ os.cursor = lastHCursor
                      /\ \A i \in positionCallbacks :
                           \/ view[i].pos = os.pos
                           \/ "pos" \in excuse[i]
                           \/ "seededPos" \in excuse[i] /\ os.pos = lastCursorPos
    BY DEF ViewsSettle, Live
  <2>1. \A E : ~Posted(E)
    BY DEF Posted
  <2>2. SightSettles /\ ImageSettles /\ PlaceSettles
    BY <2>1 DEF CursorInv, SightInv, ImageInv, PlaceInv
  <2>3. \A i, v : WillSee(i, v) => view[i].vis = Sight(v)
    BY WillHaveAtEnd DEF WillSee
  <2>4. \A i, c : WillShow(i, c) => view[i].img = Picture(i, c)
    BY WillHaveAtEnd DEF WillShow
  <2>5. \A i, p : WillPoint(i, p) => view[i].pos = p
    BY WillHaveAtEnd DEF WillPoint
  <2>6. \A i : Shown(i) = Picture(i, os.cursor)
    BY DEF Shown, Picture
  <2>7. Sight(os.visible) = IF os.visible THEN "visible" ELSE "invisible"
    BY DEF Sight
  <2> QED BY <2>2, <2>3, <2>4, <2>5, <2>6, <2>7 DEF SightSettles, ImageSettles, PlaceSettles
<1> QED BY <1>1, CursorInvariant, PTL
=============================================================================
