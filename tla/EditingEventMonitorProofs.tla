-------------------- MODULE EditingEventMonitorProofs ----------------------
(***************************************************************************)
(* Proofs about EditingEventMonitor, for every number of sessions, of      *)
(* requests and of faults.                                                 *)
(*                                                                         *)
(* The decisions are sound because of three facts that none of the         *)
(* properties states: the callback marks the one worker that may still     *)
(* post (BarrierInv), the posted flag is exact except while Stop drains    *)
(* (MessageInv), and what that worker holds is newer than everything it    *)
(* has handed over (FreshInv).                                             *)
(***************************************************************************)
EXTENDS EditingEventMonitor, SequenceTheorems, TLAPS

\* The platform thread is past the point where Stop clears the callback.
CallbackCleared == plat \in {"stopEvent", "stopWait", "stopSlot", "stopDrain"}

\* Only the worker of the current session may call back, until Stop has taken
\* its callback; a worker inside the callback still has it.
BarrierInv ==
  /\ \A s \in Sessions : w[s].callback => s = cur /\ ~CallbackCleared
  /\ \A s \in Sessions : w[s].pc = "queue" => w[s].callback
  /\ plat \in {"signal", "stop", "stopEvent", "stopWait"} => cur # 0
  /\ plat \in {"stopSlot", "stopDrain"} => cur = 0

\* The flag says whether a message is under way, except while Stop drains; a
\* decision in the slot is of the current session, except until Stop clears it.
MessageInv ==
  /\ posted => messages = 1
  /\ ~posted => slot = NoDecision
  /\ ~posted /\ plat # "stopDrain" => messages = 0
  /\ plat = "stopDrain" => ~posted
  /\ slot # NoDecision => slot.session # 0
  /\ slot # NoDecision /\ plat # "stopSlot" => slot.session = cur

\* r is newer than everything handed over to the platform thread.
Newer(r) ==
  /\ \A i \in 1 .. Len(delivered) : delivered[i].request < r
  /\ slot # NoDecision => slot.request < r

Holding(s) == w[s].pc \in {"inspect", "check", "callback", "queue"}

\* What the worker with the callback holds is newer than all it handed over.
FreshInv ==
  /\ Newer(requests + 1)
  /\ slot # NoDecision => \A i \in 1 .. Len(delivered) : delivered[i].request < slot.request
  /\ \A s \in Sessions : w[s].pending <= requests /\ w[s].taken <= requests
  /\ \A s \in Sessions : w[s].callback =>
       /\ w[s].pending # 0 => Newer(w[s].pending)
       /\ Holding(s) => Newer(w[s].taken)
       /\ Holding(s) /\ w[s].pending # 0 => w[s].taken < w[s].pending

IInv == TypeOK /\ BarrierInv /\ MessageInv /\ FreshInv /\ DecisionsInOrder

----------------------------------------------------------------------------
\* The steps of the platform thread and of the workers.
LEMMA Steps ==
  ASSUME [Next]_vars
  PROVE  \/ Inspect \/ InspectSignals \/ Start \/ StopBegin \/ StopCallback \/ StopEvent
         \/ StopWait \/ StopSlot \/ StopDrain \/ Deliver \/ UNCHANGED vars
         \/ \E s \in Sessions :
              \/ OuterWait(s) \/ SettleAgain(s) \/ SettleTimeout(s) \/ CheckSuperseded(s)
              \/ EnterCallback(s) \/ QueueWindowsTextInputDecision(s)
              \/ InspectReturns(s) \/ WaitFails(s)
BY Zenon DEF Next, Stopping, Worker

\* Every worker record keeps its type.
LEMMA WorkerType == TypeOK /\ [Next]_vars => w' \in [Sessions -> WorkerState]
<1> SUFFICES ASSUME TypeOK, [Next]_vars PROVE w' \in [Sessions -> WorkerState]
  OBVIOUS
<1> USE MonitorAssumption DEF TypeOK, WorkerState, Sessions
<1>1. CASE Inspect
  <2>1. requests + 1 \in 0 .. MaxRequests
    BY <1>1 DEF Inspect
  <2>2. \A r \in WorkerState : [r EXCEPT !.pending = requests + 1] \in WorkerState
    BY <2>1
  <2> QED BY <1>1, <2>2, Zenon DEF Inspect
<1>2. CASE InspectSignals
  BY <1>2, ZenonT(60) DEF InspectSignals
<1>3. CASE Start
  <2> DEFINE new == [NotStarted EXCEPT !.pc = "outer", !.running = TRUE, !.callback = TRUE]
  <2>1. new \in WorkerState
    <3>1. ASSUME NEW R, NEW z \in R
          PROVE  [pc |-> "none", running |-> FALSE, callback |-> FALSE, pending |-> z,
                  request_event |-> FALSE, stop_event |-> FALSE, taken |-> z]
                 \in [pc : {"none", "outer", "settle", "inspect", "check", "callback", "queue",
                           "finished"},
                     running : BOOLEAN, callback : BOOLEAN, pending : R,
                     request_event : BOOLEAN, stop_event : BOOLEAN, taken : R]
      BY Zenon
    <3>2. 0 \in 0 .. MaxRequests
      OBVIOUS
    <3>3. NotStarted \in WorkerState
      BY <3>1, <3>2, Zenon DEF NotStarted
    <3>4. \A r \in WorkerState :
            [r EXCEPT !.pc = "outer", !.running = TRUE, !.callback = TRUE] \in WorkerState
      OBVIOUS
    <3> QED BY <3>3, <3>4, Zenon
  <2> HIDE DEF new
  <2>2. w' = w \/ w' = [w EXCEPT ![started + 1] = new]
    BY <1>3, Zenon DEF Start, StartSession, new
  <2> QED BY <2>1, <2>2
<1>4. CASE StopBegin
  BY <1>4 DEF StopBegin
<1>5. CASE StopCallback
  BY <1>5, ZenonT(60) DEF StopCallback
<1>6. CASE StopEvent
  <2> DEFINE w1 == [w EXCEPT ![cur].pending = 0]
  <2>1. w1 \in [Sessions -> WorkerState]
    <3>1. ASSUME NEW R, NEW z \in R,
                 NEW r \in [pc : {"none", "outer", "settle", "inspect", "check", "callback",
                                 "queue", "finished"},
                     running : BOOLEAN, callback : BOOLEAN, pending : R,
                     request_event : BOOLEAN, stop_event : BOOLEAN, taken : R]
          PROVE  [r EXCEPT !.pending = z]
                 \in [pc : {"none", "outer", "settle", "inspect", "check", "callback", "queue",
                           "finished"},
                     running : BOOLEAN, callback : BOOLEAN, pending : R,
                     request_event : BOOLEAN, stop_event : BOOLEAN, taken : R]
      OBVIOUS
    <3>2. 0 \in 0 .. MaxRequests
      OBVIOUS
    <3>3. \A r \in WorkerState : [r EXCEPT !.pending = 0] \in WorkerState
      BY <3>1, <3>2, Zenon
    <3> QED BY <3>3, Zenon
  <2>2. w' = [w1 EXCEPT ![cur].stop_event = TRUE]
    BY <1>6, Zenon DEF StopEvent
  <2> HIDE DEF w1
  <2> QED BY <2>1, <2>2, ZenonT(60)
<1>7. CASE StopWait
  BY <1>7 DEF StopWait
<1>8. CASE StopSlot
  BY <1>8 DEF StopSlot
<1>9. CASE StopDrain
  BY <1>9 DEF StopDrain
<1>10. CASE Deliver
  BY <1>10 DEF Deliver
<1>11. ASSUME NEW s \in Sessions, OuterWait(s) PROVE w' \in [Sessions -> WorkerState]
  <2>1. CASE w' = [w EXCEPT ![s].pc = "finished", ![s].running = FALSE]
    BY <2>1, ZenonT(60)
  <2>2. CASE w' = [w EXCEPT ![s].pc = "settle", ![s].request_event = FALSE]
    BY <2>2, ZenonT(60)
  <2> QED BY <1>11, <2>1, <2>2, Zenon DEF OuterWait
<1>12. ASSUME NEW s \in Sessions, SettleAgain(s) PROVE w' \in [Sessions -> WorkerState]
  <2>1. CASE w' = [w EXCEPT ![s].pc = "finished", ![s].running = FALSE]
    BY <2>1, ZenonT(60)
  <2>2. CASE w' = [w EXCEPT ![s].request_event = FALSE]
    BY <2>2, ZenonT(60)
  <2> QED BY <1>12, <2>1, <2>2, Zenon DEF SettleAgain
<1>13. ASSUME NEW s \in Sessions, SettleTimeout(s) PROVE w' \in [Sessions -> WorkerState]
  BY <1>13 DEF SettleTimeout
<1>14. ASSUME NEW s \in Sessions, CheckSuperseded(s) PROVE w' \in [Sessions -> WorkerState]
  BY <1>14, ZenonT(60) DEF CheckSuperseded
<1>15. ASSUME NEW s \in Sessions, EnterCallback(s) PROVE w' \in [Sessions -> WorkerState]
  BY <1>15, ZenonT(60) DEF EnterCallback
<1>16. ASSUME NEW s \in Sessions, QueueWindowsTextInputDecision(s) PROVE w' \in [Sessions -> WorkerState]
  BY <1>16, ZenonT(60) DEF QueueWindowsTextInputDecision, PostOnce, PostFails, Fault
<1>17. ASSUME NEW s \in Sessions, InspectReturns(s) PROVE w' \in [Sessions -> WorkerState]
  BY <1>17, ZenonT(60) DEF InspectReturns
<1>18. ASSUME NEW s \in Sessions, WaitFails(s) PROVE w' \in [Sessions -> WorkerState]
  BY <1>18, ZenonT(60) DEF WaitFails, Fault
<1>19. CASE UNCHANGED vars
  BY <1>19 DEF vars
<1> QED BY <1>1, <1>2, <1>3, <1>4, <1>5, <1>6, <1>7, <1>8, <1>9, <1>10, <1>11, <1>12, <1>13, <1>14, <1>15, <1>16, <1>17, <1>18, <1>19, Steps, Zenon

\* Stop is a barrier.
LEMMA BarrierStep == TypeOK /\ BarrierInv /\ [Next]_vars => BarrierInv'
<1> SUFFICES ASSUME TypeOK, BarrierInv, [Next]_vars PROVE BarrierInv'
  OBVIOUS
<1> USE MonitorAssumption DEF TypeOK, BarrierInv, CallbackCleared, WorkerState, Sessions
<1>1. CASE Inspect
  BY <1>1 DEF Inspect, is_running
<1>2. CASE InspectSignals
  BY <1>2 DEF InspectSignals
<1>3. CASE Start
  <2>1. CASE StartSession
    <3>1. /\ \A s \in Sessions : ~w[s].callback /\ w[s].pc # "queue"
          /\ plat = "idle" /\ plat' = "idle" /\ cur' = started + 1
      BY <1>3, <2>1 DEF Start, StartSession
    <3>2. started + 1 \in Sessions
      BY <2>1 DEF StartSession
    <3>3. \A s \in Sessions : s # started + 1 => w'[s] = w[s]
      BY <2>1 DEF StartSession
    <3>4. w'[started + 1].pc = "outer"
      BY <2>1, <3>2 DEF StartSession, NotStarted
    <3> QED BY <3>1, <3>2, <3>3, <3>4
  <2>2. CASE UNCHANGED <<cur, w, started>>
    BY <1>3, <2>2 DEF Start
  <2> QED BY <1>3, <2>1, <2>2 DEF Start
<1>4. CASE StopBegin
  BY <1>4 DEF StopBegin
<1>5. CASE StopCallback
  BY <1>5 DEF StopCallback
<1>6. CASE StopEvent
  BY <1>6 DEF StopEvent
<1>7. CASE StopWait
  BY <1>7 DEF StopWait
<1>8. CASE StopSlot
  BY <1>8 DEF StopSlot
<1>9. CASE StopDrain
  BY <1>9 DEF StopDrain
<1>10. CASE Deliver
  BY <1>10 DEF Deliver
<1>11. ASSUME NEW s \in Sessions, OuterWait(s) PROVE BarrierInv'
  <2>1. CASE w' = [w EXCEPT ![s].pc = "finished", ![s].running = FALSE]
    BY <1>11, <2>1, SMTT(30) DEF OuterWait
  <2>2. CASE w' = [w EXCEPT ![s].pc = "settle", ![s].request_event = FALSE]
    BY <1>11, <2>2 DEF OuterWait
  <2> QED BY <1>11, <2>1, <2>2, Zenon DEF OuterWait
<1>12. ASSUME NEW s \in Sessions, SettleAgain(s) PROVE BarrierInv'
  <2>1. CASE w' = [w EXCEPT ![s].pc = "finished", ![s].running = FALSE]
    BY <1>12, <2>1, SMTT(30) DEF SettleAgain
  <2>2. CASE w' = [w EXCEPT ![s].request_event = FALSE]
    BY <1>12, <2>2 DEF SettleAgain
  <2> QED BY <1>12, <2>1, <2>2, Zenon DEF SettleAgain
<1>13. ASSUME NEW s \in Sessions, SettleTimeout(s) PROVE BarrierInv'
  BY <1>13, SMTT(30) DEF SettleTimeout
<1>14. ASSUME NEW s \in Sessions, CheckSuperseded(s) PROVE BarrierInv'
  BY <1>14 DEF CheckSuperseded
<1>15. ASSUME NEW s \in Sessions, EnterCallback(s) PROVE BarrierInv'
  BY <1>15 DEF EnterCallback
<1>16. ASSUME NEW s \in Sessions, QueueWindowsTextInputDecision(s) PROVE BarrierInv'
  BY <1>16 DEF QueueWindowsTextInputDecision, PostOnce, PostFails, Fault
<1>17. ASSUME NEW s \in Sessions, InspectReturns(s) PROVE BarrierInv'
  BY <1>17 DEF InspectReturns
<1>18. ASSUME NEW s \in Sessions, WaitFails(s) PROVE BarrierInv'
  BY <1>18 DEF WaitFails, Fault
<1>19. CASE UNCHANGED vars
  BY <1>19 DEF vars, plugin
<1> QED BY <1>1, <1>2, <1>3, <1>4, <1>5, <1>6, <1>7, <1>8, <1>9, <1>10,
          <1>11, <1>12, <1>13, <1>14, <1>15, <1>16, <1>17, <1>18, <1>19, Steps, Zenon

\* The posted flag is exact.
LEMMA MessageStep == TypeOK /\ BarrierInv /\ MessageInv /\ [Next]_vars => MessageInv'
<1> SUFFICES ASSUME TypeOK, BarrierInv, MessageInv, [Next]_vars PROVE MessageInv'
  OBVIOUS
<1> USE MonitorAssumption DEF TypeOK, BarrierInv, CallbackCleared, MessageInv, NoDecision, Sessions, plugin
<1>1. CASE Inspect
  BY <1>1 DEF Inspect, is_running
<1>2. CASE InspectSignals
  BY <1>2 DEF InspectSignals
<1>3. CASE Start
  BY <1>3 DEF Start, StartSession, Fault, NotStarted
<1>4. CASE StopBegin
  BY <1>4 DEF StopBegin
<1>5. CASE StopCallback
  BY <1>5 DEF StopCallback
<1>6. CASE StopEvent
  BY <1>6 DEF StopEvent
<1>7. CASE StopWait
  BY <1>7 DEF StopWait
<1>8. CASE StopSlot
  BY <1>8 DEF StopSlot
<1>9. CASE StopDrain
  BY <1>9 DEF StopDrain
<1>10. CASE Deliver
  BY <1>10 DEF Deliver
<1>11. ASSUME NEW s \in Sessions, OuterWait(s) PROVE MessageInv'
  BY <1>11 DEF OuterWait
<1>12. ASSUME NEW s \in Sessions, SettleAgain(s) PROVE MessageInv'
  BY <1>12 DEF SettleAgain
<1>13. ASSUME NEW s \in Sessions, SettleTimeout(s) PROVE MessageInv'
  BY <1>13 DEF SettleTimeout
<1>14. ASSUME NEW s \in Sessions, CheckSuperseded(s) PROVE MessageInv'
  BY <1>14 DEF CheckSuperseded
<1>15. ASSUME NEW s \in Sessions, EnterCallback(s) PROVE MessageInv'
  BY <1>15 DEF EnterCallback
<1>16. ASSUME NEW s \in Sessions, QueueWindowsTextInputDecision(s) PROVE MessageInv'
  BY <1>16 DEF QueueWindowsTextInputDecision, PostOnce, PostFails, Fault
<1>17. ASSUME NEW s \in Sessions, InspectReturns(s) PROVE MessageInv'
  BY <1>17 DEF InspectReturns
<1>18. ASSUME NEW s \in Sessions, WaitFails(s) PROVE MessageInv'
  BY <1>18 DEF WaitFails, Fault
<1>19. CASE UNCHANGED vars
  BY <1>19 DEF vars, plugin
<1> QED BY <1>1, <1>2, <1>3, <1>4, <1>5, <1>6, <1>7, <1>8, <1>9, <1>10,
          <1>11, <1>12, <1>13, <1>14, <1>15, <1>16, <1>17, <1>18, <1>19, Steps, Zenon

\* What a step may do to worker t without handing anything over: take the pending
\* request, drop it, or put the newest request in its place.
Quiet(t) ==
  /\ \/ w'[t].pending \in {0, w[t].pending}
     \/ w'[t].pending = requests + 1 /\ requests' = requests + 1
  /\ \/ w'[t].taken \in {0, w[t].taken}
     \/ w'[t].taken = w[t].pending
  /\ w'[t].callback => w[t].callback \/ (w'[t].pending = 0 /\ ~Holding(t)')
  /\ Holding(t)' => \/ Holding(t) /\ w'[t].taken = w[t].taken
                    \/ w'[t].taken = w[t].pending /\ w[t].pending # 0 /\ w'[t].pending = 0

\* Such steps keep what the worker holds newer than all it handed over.
LEMMA FreshQuiet ==
  ASSUME TypeOK, FreshInv, delivered' = delivered, slot' = slot,
         requests' = requests \/ requests' = requests + 1,
         \A t \in Sessions : Quiet(t)
  PROVE  FreshInv'
<1>1. \A r : Newer(r) => Newer(r)'
  BY DEF Newer
<1>2. requests \in Nat /\ \A t \in Sessions : w[t].pending \in Nat /\ w[t].taken \in Nat
  BY DEF TypeOK, WorkerState
<1>3. Newer(requests + 1)'
  <2>1. Newer(requests' + 1)
    <3>1. CASE requests' = requests
      BY <3>1 DEF FreshInv
    <3>2. CASE requests' = requests + 1
      <4>1. /\ \A i \in 1 .. Len(delivered) : delivered[i].request < requests + 1
            /\ slot # NoDecision => slot.request < requests + 1
        BY DEF FreshInv, Newer
      <4>2. \A i \in 1 .. Len(delivered) : delivered[i].request \in Nat
        <5>1. \A i \in 1 .. Len(delivered) : delivered[i] \in Decision
          BY ElementOfSeq DEF TypeOK
        <5> QED BY <5>1 DEF Decision
      <4>3. slot.request \in Nat
        BY DEF TypeOK, Decision
      <4> QED BY <1>2, <3>2, <4>1, <4>2, <4>3 DEF Newer
    <3> QED BY <3>1, <3>2
  <2> QED BY <2>1 DEF Newer
<1>4. \A t \in Sessions : w'[t].pending <= requests' /\ w'[t].taken <= requests'
  BY <1>2 DEF FreshInv, Quiet
<1>5. ASSUME NEW t \in Sessions, w'[t].callback
      PROVE  /\ w'[t].pending # 0 => Newer(w'[t].pending)
             /\ Holding(t)' => Newer(w'[t].taken)
             /\ Holding(t)' /\ w'[t].pending # 0 => w'[t].taken < w'[t].pending
  <2>1. Quiet(t) /\ Newer(requests + 1)
    BY DEF FreshInv
  <2>2. CASE ~w[t].callback
    BY <1>5, <2>1, <2>2 DEF Quiet
  <2>3. CASE w[t].callback
    <3>1. /\ w[t].pending # 0 => Newer(w[t].pending)
          /\ Holding(t) => Newer(w[t].taken)
          /\ Holding(t) /\ w[t].pending # 0 => w[t].taken < w[t].pending
          /\ w[t].pending <= requests /\ w[t].taken <= requests
      BY <2>3 DEF FreshInv
    <3> QED BY <1>2, <2>1, <3>1 DEF Quiet
  <2> QED BY <2>2, <2>3
<1>6. \A t \in Sessions : w'[t].callback =>
        /\ w'[t].pending # 0 => Newer(w[t].pending)'
        /\ Holding(t)' => Newer(w[t].taken)'
        /\ Holding(t)' /\ w'[t].pending # 0 => w'[t].taken < w'[t].pending
  BY <1>5 DEF Newer
<1>7. slot' # NoDecision =>
        \A i \in 1 .. Len(delivered') : delivered'[i].request < slot'.request
  BY DEF FreshInv
<1> QED BY <1>3, <1>4, <1>6, <1>7 DEF FreshInv

\* The worker with the callback holds what is newest.
LEMMA FreshStep == TypeOK /\ BarrierInv /\ FreshInv /\ [Next]_vars => FreshInv'
<1> SUFFICES ASSUME TypeOK, BarrierInv, FreshInv, [Next]_vars PROVE FreshInv'
  OBVIOUS
<1>0. w \in [Sessions -> WorkerState] /\ 0 \in Nat
  BY DEF TypeOK
<1>1. CASE Inspect
  <2>1. \A t \in Sessions : Quiet(t)
    BY <1>0, <1>1 DEF Inspect, Quiet, Holding, WorkerState
  <2>2. delivered' = delivered /\ slot' = slot /\ (requests' = requests \/ requests' = requests + 1)
    BY <1>1 DEF Inspect, plugin
  <2> QED BY <2>1, <2>2, FreshQuiet
<1>2. CASE InspectSignals
  <2>1. \A t \in Sessions : Quiet(t)
    BY <1>0, <1>2 DEF InspectSignals, Quiet, Holding, WorkerState
  <2>2. delivered' = delivered /\ slot' = slot /\ (requests' = requests \/ requests' = requests + 1)
    BY <1>2 DEF InspectSignals, plugin
  <2> QED BY <2>1, <2>2, FreshQuiet
<1>3. CASE Start
  <2>1. \A t \in Sessions : Quiet(t)
    <3>1. CASE StartSession
      <4> DEFINE n == started + 1
      <4>1. \A t \in Sessions : t # n => w'[t] = w[t]
        BY <1>0, <3>1 DEF StartSession
      <4>2. n \in Sessions => w'[n].pc = "outer" /\ w'[n].pending = 0 /\ w'[n].taken = 0
        BY <1>0, <3>1 DEF StartSession, NotStarted
      <4> HIDE DEF n
      <4> QED BY <4>1, <4>2 DEF Quiet, Holding
    <3>2. CASE w' = w
      BY <3>2 DEF Quiet, Holding
    <3> QED BY <1>3, <3>1, <3>2 DEF Start
  <2>2. delivered' = delivered /\ slot' = slot /\ (requests' = requests \/ requests' = requests + 1)
    BY <1>3 DEF Start, plugin
  <2> QED BY <2>1, <2>2, FreshQuiet
<1>4. CASE StopBegin
  <2>1. \A t \in Sessions : Quiet(t)
    BY <1>0, <1>4 DEF StopBegin, Quiet, Holding, WorkerState
  <2>2. delivered' = delivered /\ slot' = slot /\ (requests' = requests \/ requests' = requests + 1)
    BY <1>4 DEF StopBegin, plugin
  <2> QED BY <2>1, <2>2, FreshQuiet
<1>5. CASE StopCallback
  <2>1. \A t \in Sessions : Quiet(t)
    BY <1>0, <1>5 DEF StopCallback, Quiet, Holding, WorkerState
  <2>2. delivered' = delivered /\ slot' = slot /\ (requests' = requests \/ requests' = requests + 1)
    BY <1>5 DEF StopCallback, plugin
  <2> QED BY <2>1, <2>2, FreshQuiet
<1>6. CASE StopEvent
  <2>1. \A t \in Sessions : Quiet(t)
    BY <1>0, <1>6 DEF StopEvent, Quiet, Holding, WorkerState
  <2>2. delivered' = delivered /\ slot' = slot /\ (requests' = requests \/ requests' = requests + 1)
    BY <1>6 DEF StopEvent, plugin
  <2> QED BY <2>1, <2>2, FreshQuiet
<1>7. CASE StopWait
  <2>1. \A t \in Sessions : Quiet(t)
    BY <1>0, <1>7 DEF StopWait, Quiet, Holding, WorkerState
  <2>2. delivered' = delivered /\ slot' = slot /\ (requests' = requests \/ requests' = requests + 1)
    BY <1>7 DEF StopWait, plugin
  <2> QED BY <2>1, <2>2, FreshQuiet
<1>8. CASE StopDrain
  <2>1. \A t \in Sessions : Quiet(t)
    BY <1>0, <1>8 DEF StopDrain, Quiet, Holding, WorkerState
  <2>2. delivered' = delivered /\ slot' = slot /\ (requests' = requests \/ requests' = requests + 1)
    BY <1>8 DEF StopDrain, plugin
  <2> QED BY <2>1, <2>2, FreshQuiet
<1>9. ASSUME NEW s \in Sessions, OuterWait(s) PROVE FreshInv'
  <2>1. \A t \in Sessions : Quiet(t)
    <3>1. /\ \A t \in Sessions : t # s => w'[t] = w[t]
          /\ w'[s].pc \in {w[s].pc, "finished", "settle"} /\ w'[s].callback = w[s].callback
          /\ w'[s].pending = w[s].pending /\ w'[s].taken = w[s].taken
      <4>1. CASE w' = [w EXCEPT ![s].pc = "finished", ![s].running = FALSE]
        BY <1>0, <4>1 DEF WorkerState
      <4>2. CASE ~(w' = [w EXCEPT ![s].pc = "finished", ![s].running = FALSE])
        BY <1>0, <1>9, <4>2 DEF OuterWait, WorkerState
      <4> QED BY <4>1, <4>2
    <3> QED BY <3>1 DEF Quiet, Holding
  <2>2. delivered' = delivered /\ slot' = slot /\ requests' = requests
    BY <1>9 DEF OuterWait, plugin
  <2> QED BY <2>1, <2>2, FreshQuiet
<1>10. ASSUME NEW s \in Sessions, SettleAgain(s) PROVE FreshInv'
  <2>1. \A t \in Sessions : Quiet(t)
    <3>1. /\ \A t \in Sessions : t # s => w'[t] = w[t]
          /\ w'[s].pc \in {w[s].pc, "finished", "settle"} /\ w'[s].callback = w[s].callback
          /\ w'[s].pending = w[s].pending /\ w'[s].taken = w[s].taken
      <4>1. CASE w' = [w EXCEPT ![s].pc = "finished", ![s].running = FALSE]
        BY <1>0, <4>1 DEF WorkerState
      <4>2. CASE ~(w' = [w EXCEPT ![s].pc = "finished", ![s].running = FALSE])
        BY <1>0, <1>10, <4>2 DEF SettleAgain, WorkerState
      <4> QED BY <4>1, <4>2
    <3> QED BY <3>1 DEF Quiet, Holding
  <2>2. delivered' = delivered /\ slot' = slot /\ requests' = requests
    BY <1>10 DEF SettleAgain, plugin
  <2> QED BY <2>1, <2>2, FreshQuiet
<1>11. ASSUME NEW s \in Sessions, SettleTimeout(s) PROVE FreshInv'
  <2>1. \A t \in Sessions : Quiet(t)
    BY <1>0, <1>11 DEF SettleTimeout, Quiet, Holding, WorkerState
  <2>2. delivered' = delivered /\ slot' = slot /\ requests' = requests
    BY <1>11 DEF SettleTimeout, plugin
  <2> QED BY <2>1, <2>2, FreshQuiet
<1>12. ASSUME NEW s \in Sessions, CheckSuperseded(s) PROVE FreshInv'
  <2>1. \A t \in Sessions : Quiet(t)
    BY <1>0, <1>12 DEF CheckSuperseded, Quiet, Holding, WorkerState
  <2>2. delivered' = delivered /\ slot' = slot /\ requests' = requests
    BY <1>12 DEF CheckSuperseded, plugin
  <2> QED BY <2>1, <2>2, FreshQuiet
<1>13. ASSUME NEW s \in Sessions, EnterCallback(s) PROVE FreshInv'
  <2>1. \A t \in Sessions : Quiet(t)
    BY <1>0, <1>13 DEF EnterCallback, Quiet, Holding, WorkerState
  <2>2. delivered' = delivered /\ slot' = slot /\ requests' = requests
    BY <1>13 DEF EnterCallback, plugin
  <2> QED BY <2>1, <2>2, FreshQuiet
<1>14. ASSUME NEW s \in Sessions, InspectReturns(s) PROVE FreshInv'
  <2>1. \A t \in Sessions : Quiet(t)
    BY <1>0, <1>14 DEF InspectReturns, Quiet, Holding, WorkerState
  <2>2. delivered' = delivered /\ slot' = slot /\ requests' = requests
    BY <1>14 DEF InspectReturns, plugin
  <2> QED BY <2>1, <2>2, FreshQuiet
<1>15. ASSUME NEW s \in Sessions, WaitFails(s) PROVE FreshInv'
  <2>1. \A t \in Sessions : Quiet(t)
    BY <1>0, <1>15 DEF WaitFails, Fault, Quiet, Holding, WorkerState
  <2>2. delivered' = delivered /\ slot' = slot /\ requests' = requests
    BY <1>15 DEF WaitFails, plugin
  <2> QED BY <2>1, <2>2, FreshQuiet
<1>16. CASE UNCHANGED vars
  BY <1>16, FreshQuiet DEF vars, plugin, Quiet, Holding
<1>17. CASE StopSlot
  <2>1. /\ slot' = NoDecision
        /\ delivered' = delivered /\ w' = w /\ requests' = requests
    BY <1>17 DEF StopSlot
  <2>2. \A r : Newer(r) => Newer(r)'
    BY <2>1 DEF Newer
  <2> QED BY <2>1, <2>2 DEF FreshInv, Holding
<1>18. CASE Deliver
  <2>1. /\ slot = NoDecision => delivered' = delivered
        /\ slot # NoDecision => delivered' = Append(delivered, slot)
        /\ slot' = NoDecision /\ w' = w /\ requests' = requests
    BY <1>18 DEF Deliver
  <2>2. \A r : Newer(r) => Newer(r)'
    <3>1. CASE slot = NoDecision
      BY <2>1, <3>1 DEF Newer
    <3>2. CASE slot # NoDecision
      <4>1. /\ Len(delivered') = Len(delivered) + 1 /\ Len(delivered) \in Nat
            /\ delivered'[Len(delivered) + 1] = slot
            /\ \A i \in 1 .. Len(delivered) : delivered'[i] = delivered[i]
        BY <2>1, <3>2, AppendProperties, LenProperties DEF TypeOK
      <4> QED BY <2>1, <3>2, <4>1 DEF Newer
    <3> QED BY <3>1, <3>2
  <2> QED BY <2>1, <2>2 DEF FreshInv, Holding
<1>19. ASSUME NEW s \in Sessions, QueueWindowsTextInputDecision(s) PROVE FreshInv'
  <2>1. /\ w' = [w EXCEPT ![s].pc = "outer"] /\ requests' = requests /\ delivered' = delivered
        /\ \/ slot' = [session |-> s, request |-> w[s].taken]
           \/ slot' = NoDecision
        /\ Holding(s)
    BY <1>19 DEF QueueWindowsTextInputDecision, PostOnce, PostFails, Holding
  <2>2. /\ w[s].callback
        /\ \A t \in Sessions : t # s => ~w[t].callback
    BY <1>19 DEF QueueWindowsTextInputDecision, BarrierInv
  <2>3. /\ \A t \in Sessions : /\ w'[t].pending = w[t].pending /\ w'[t].taken = w[t].taken
                              /\ w'[t].callback = w[t].callback
        /\ ~Holding(s)'
    BY <1>0, <2>1 DEF WorkerState, Holding
  <2>4. /\ Newer(w[s].taken) /\ w[s].taken \in Nat /\ w[s].pending \in Nat /\ requests \in Nat
        /\ w[s].taken <= requests /\ Newer(requests + 1)
        /\ w[s].pending # 0 => w[s].taken < w[s].pending /\ Newer(w[s].pending)
    BY <2>1, <2>2 DEF FreshInv, TypeOK, WorkerState
  <2>5. \A r \in Nat : w[s].taken < r /\ Newer(r) => Newer(r)'
    BY <2>1, <2>4 DEF Newer
  <2>6. Newer(requests + 1)'
    <3>1. \A i \in 1 .. Len(delivered) : delivered[i].request < requests + 1
      BY <2>4 DEF Newer
    <3> QED BY <2>1, <2>4, <3>1 DEF Newer
  <2>7. slot' # NoDecision =>
          \A i \in 1 .. Len(delivered') : delivered'[i].request < slot'.request
    BY <2>1, <2>4 DEF Newer
  <2>8. ASSUME NEW t \in Sessions, w'[t].callback
        PROVE  t = s /\ (w'[t].pending # 0 => Newer(w[t].pending)') /\ ~Holding(t)'
    <3>1. t = s /\ w'[t].pending = w[s].pending /\ ~Holding(t)'
      BY <2>2, <2>3, <2>8
    <3>2. w[s].pending # 0 => /\ \A i \in 1 .. Len(delivered) : delivered[i].request < w[s].pending
                              /\ w[s].taken < w[s].pending
      BY <2>4 DEF Newer
    <3> QED BY <2>1, <3>1, <3>2 DEF Newer
  <2>9. \A t \in Sessions : w'[t].pending <= requests' /\ w'[t].taken <= requests'
    BY <2>1, <2>3 DEF FreshInv
  <2> QED BY <2>6, <2>7, <2>8, <2>9 DEF FreshInv
<1> QED BY <1>1, <1>2, <1>3, <1>4, <1>5, <1>6, <1>7, <1>8, <1>9, <1>10,
          <1>11, <1>12, <1>13, <1>14, <1>15, <1>16, <1>17, <1>18, <1>19, Steps, Zenon

\* Dart's list only grows by what is newer than all of it.
LEMMA OrderStep ==
  TypeOK /\ FreshInv /\ DecisionsInOrder /\ [Next]_vars => DecisionsInOrder'
<1> SUFFICES ASSUME TypeOK, FreshInv, DecisionsInOrder, [Next]_vars PROVE DecisionsInOrder'
  OBVIOUS
<1>1. CASE Deliver
  <2>1. /\ slot = NoDecision => delivered' = delivered
        /\ slot # NoDecision => delivered' = Append(delivered, slot)
        /\ slot' = NoDecision
    BY <1>1 DEF Deliver
  <2>2. slot # NoDecision => /\ Len(delivered') = Len(delivered) + 1
                             /\ delivered'[Len(delivered) + 1] = slot
                             /\ \A i \in 1 .. Len(delivered) : delivered'[i] = delivered[i]
    BY <2>1, AppendProperties DEF TypeOK
  <2>3. Len(delivered) \in Nat
    BY LenProperties DEF TypeOK
  <2>4. CASE slot = NoDecision
    BY <2>1, <2>4 DEF DecisionsInOrder
  <2>5. CASE slot # NoDecision
    BY <2>2, <2>3, <2>5 DEF DecisionsInOrder, FreshInv
  <2> QED BY <2>4, <2>5
<1>2. CASE delivered' = delivered
  BY <1>2 DEF DecisionsInOrder
<1> QED BY <1>1, <1>2, Steps, Zenon DEF vars, plugin, Inspect, InspectSignals, Start, StopBegin,
           StopCallback, StopEvent, StopWait, StopSlot, StopDrain, OuterWait, SettleAgain,
           SettleTimeout, CheckSuperseded, EnterCallback, QueueWindowsTextInputDecision,
           InspectReturns, WaitFails

\* The types of the platform thread's variables; one message at most is under way.
TypeRest ==
  /\ cur \in 0 .. MaxSessions /\ started \in 0 .. MaxSessions
  /\ requests \in 0 .. MaxRequests
  /\ slot \in Decision /\ messages \in 0 .. 1
  /\ delivered \in Seq(Decision)
  /\ plat \in {"idle", "signal", "stop", "stopEvent", "stopWait", "stopSlot", "stopDrain"}

LEMMA RestStep == TypeOK /\ BarrierInv /\ MessageInv /\ [Next]_vars => TypeRest'
<1> SUFFICES ASSUME TypeOK, BarrierInv, MessageInv, [Next]_vars PROVE TypeRest'
  OBVIOUS
<1> USE MonitorAssumption DEF TypeOK, TypeRest, NoDecision, Decision, plugin
<1>1. CASE Inspect
  BY <1>1 DEF Inspect, is_running
<1>2. CASE InspectSignals
  BY <1>2 DEF InspectSignals
<1>3. CASE Start
  BY <1>3 DEF Start, StartSession, Fault, NotStarted
<1>4. CASE StopBegin
  BY <1>4 DEF StopBegin
<1>5. CASE StopCallback
  BY <1>5 DEF StopCallback
<1>6. CASE StopEvent
  BY <1>6 DEF StopEvent
<1>7. CASE StopWait
  BY <1>7 DEF StopWait
<1>8. CASE StopSlot
  BY <1>8 DEF StopSlot
<1>9. CASE StopDrain
  BY <1>9 DEF StopDrain
<1>10. CASE Deliver
  <2>1. Append(delivered, slot) \in Seq([session : 0 .. MaxSessions, request : 0 .. MaxRequests])
    BY AppendProperties
  <2>2. delivered' \in Seq([session : 0 .. MaxSessions, request : 0 .. MaxRequests])
    BY <1>10, <2>1, Zenon DEF Deliver
  <2> QED BY <1>10, <2>2 DEF Deliver
<1>11. ASSUME NEW s \in Sessions, OuterWait(s) PROVE TypeRest'
  BY <1>11 DEF OuterWait
<1>12. ASSUME NEW s \in Sessions, SettleAgain(s) PROVE TypeRest'
  BY <1>12 DEF SettleAgain
<1>13. ASSUME NEW s \in Sessions, SettleTimeout(s) PROVE TypeRest'
  BY <1>13 DEF SettleTimeout
<1>14. ASSUME NEW s \in Sessions, CheckSuperseded(s) PROVE TypeRest'
  BY <1>14 DEF CheckSuperseded
<1>15. ASSUME NEW s \in Sessions, EnterCallback(s) PROVE TypeRest'
  BY <1>15 DEF EnterCallback
<1>16. ASSUME NEW s \in Sessions, QueueWindowsTextInputDecision(s) PROVE TypeRest'
  <2>1. [session |-> s, request |-> w[s].taken] \in Decision
    BY DEF Decision, WorkerState, Sessions
  <2>2. plat # "stopDrain"
    BY <1>16 DEF QueueWindowsTextInputDecision, BarrierInv, CallbackCleared
  <2> QED BY <1>16, <2>1, <2>2 DEF QueueWindowsTextInputDecision, PostOnce, PostFails, MessageInv
<1>17. ASSUME NEW s \in Sessions, InspectReturns(s) PROVE TypeRest'
  BY <1>17 DEF InspectReturns
<1>18. ASSUME NEW s \in Sessions, WaitFails(s) PROVE TypeRest'
  BY <1>18 DEF WaitFails, Fault
<1>19. CASE UNCHANGED vars
  BY <1>19 DEF vars, plugin
<1> QED BY <1>1, <1>2, <1>3, <1>4, <1>5, <1>6, <1>7, <1>8, <1>9, <1>10,
          <1>11, <1>12, <1>13, <1>14, <1>15, <1>16, <1>17, <1>18, <1>19, Steps, Zenon

LEMMA PostedStep == TypeOK /\ [Next]_vars => posted' \in BOOLEAN
BY Steps, Zenon DEF TypeOK, vars, plugin, Inspect, InspectSignals, Start, StopBegin,
   StopCallback, StopEvent, StopWait, StopSlot, StopDrain, OuterWait, SettleAgain,
   SettleTimeout, CheckSuperseded, EnterCallback, QueueWindowsTextInputDecision,
   InspectReturns, WaitFails, Deliver, PostOnce, PostFails

LEMMA InitOK == Init => IInv
<1> SUFFICES ASSUME Init PROVE IInv
  OBVIOUS
<1>1. w \in [Sessions -> WorkerState]
  <2>1. ASSUME NEW R, NEW z \in R
        PROVE  [pc |-> "none", running |-> FALSE, callback |-> FALSE, pending |-> z,
                request_event |-> FALSE, stop_event |-> FALSE, taken |-> z]
               \in [pc : {"none", "outer", "settle", "inspect", "check", "callback", "queue",
                         "finished"},
                   running : BOOLEAN, callback : BOOLEAN, pending : R,
                   request_event : BOOLEAN, stop_event : BOOLEAN, taken : R]
    BY Zenon
  <2>2. 0 \in 0 .. MaxRequests
    BY MonitorAssumption
  <2>3. NotStarted \in WorkerState
    BY <2>1, <2>2, Zenon DEF NotStarted, WorkerState
  <2> QED BY <2>3 DEF Init
<1>2. /\ TypeRest
      /\ \A s \in Sessions : w[s].pc = "none" /\ w[s].pending = 0 /\ w[s].taken = 0
      /\ \A s \in Sessions : ~w[s].callback
      /\ Len(delivered) = 0
  BY MonitorAssumption, EmptySeq DEF Init, TypeRest, NotStarted, NoDecision, Decision
<1>3. posted \in BOOLEAN
  BY Zenon DEF Init
<1>4. BarrierInv /\ MessageInv
  BY <1>2 DEF Init, BarrierInv, CallbackCleared, MessageInv
<1>5. FreshInv /\ DecisionsInOrder
  BY <1>2 DEF Init, FreshInv, DecisionsInOrder, Newer, Holding
<1> QED BY <1>1, <1>2, <1>3, <1>4, <1>5, Zenon DEF IInv, TypeOK, TypeRest

LEMMA StepOK == IInv /\ [Next]_vars => IInv'
<1> SUFFICES ASSUME IInv, [Next]_vars PROVE IInv'
  OBVIOUS
<1>1. TypeOK'
  BY WorkerType, RestStep, PostedStep, Zenon DEF IInv, TypeOK, TypeRest
<1> QED BY <1>1, BarrierStep, MessageStep, FreshStep, OrderStep, Zenon DEF IInv

\* Every variable of the monitor keeps its type, and windows_editing_message_posted_
\* lets at most one decision message be under way.
THEOREM TypeCorrect == Spec => []TypeOK
<1>1. IInv => TypeOK
  BY DEF IInv
<1> QED BY <1>1, InitOK, StepOK, PTL DEF Spec

\* For any number of restarts, hung UI Automation calls and failed posts: Dart gets
\* decisions in click order and each once, none is stranded in the slot, and none
\* comes from a session that was stopped.
THEOREM DecisionsAreSound == Spec => []DecisionsSound
<1>1. IInv => PostedMeansUnderWay
  BY DEF IInv, MessageInv, PostedMeansUnderWay
<1>2. IInv => NothingFromStoppedSession
  BY DEF IInv, MessageInv, BarrierInv, NothingFromStoppedSession
<1>3. IInv => DecisionsSound
  BY <1>1, <1>2, Zenon DEF IInv, DecisionsSound
<1> QED BY <1>3, InitOK, StepOK, PTL DEF Spec

=============================================================================
