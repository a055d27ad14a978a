------------------------ MODULE EditingEventMonitor ------------------------
(***************************************************************************)
(* Text-field inspection after a remote click:                             *)
(* windows/windows_editing_event_monitor.cc (a worker thread per started   *)
(* monitor, driven by two events and one pending request) and the part of  *)
(* windows/hardware_simulator_plugin.cpp that brings a decision back to    *)
(* the platform thread through one slot and one posted window message.     *)
(*                                                                         *)
(* A request is the number of the pointer-up that caused it; a decision is *)
(* the request it answers and the monitor (session) whose worker made it.  *)
(* A worker that does not stop in 250 ms is detached and lives on with its *)
(* own state, so the states of all sessions are kept.                      *)
(***************************************************************************)
EXTENDS Naturals, Sequences

CONSTANTS
  MaxSessions,   \* bound on the monitors started
  MaxRequests,   \* bound on the pointer-ups
  MaxFaults      \* bound on failed posts, failed waits and failed starts

ASSUME MonitorAssumption ==
  MaxSessions \in Nat \ {0} /\ MaxRequests \in Nat /\ MaxFaults \in Nat

VARIABLES
  cur,          \* windows_editing_event_monitor_: its session, 0 if there is none
  w,            \* the worker state of every session started so far
  started,      \* number of sessions started
  requests,     \* number of requests made
  slot,         \* pending_windows_text_input_decision_
  posted,       \* windows_editing_message_posted_
  messages,     \* decision messages in the window's queue
  delivered,    \* decisions sent to Dart, oldest first
  plat,         \* what the platform thread is in the middle of
  dropped,      \* requests whose decision was lost with a failed post or wait
  faults

plugin  == <<slot, posted, messages, delivered>>
vars == <<cur, w, started, requests, plugin, plat, dropped, faults>>

Sessions   == 1 .. MaxSessions
NoDecision == [session |-> 0, request |-> 0]
Decision   == [session : 0 .. MaxSessions, request : 0 .. MaxRequests]

WorkerState ==
  [pc : {"none", "outer", "settle", "inspect", "check", "callback", "queue", "finished"},
   running : BOOLEAN, callback : BOOLEAN, pending : 0 .. MaxRequests,
   request_event : BOOLEAN, stop_event : BOOLEAN, taken : 0 .. MaxRequests]

NotStarted == [pc |-> "none", running |-> FALSE, callback |-> FALSE, pending |-> 0,
               request_event |-> FALSE, stop_event |-> FALSE, taken |-> 0]

Init ==
  /\ cur = 0 /\ started = 0 /\ requests = 0
  /\ w = [s \in Sessions |-> NotStarted]
  /\ slot = NoDecision /\ posted = FALSE /\ messages = 0 /\ delivered = <<>>
  /\ plat = "idle" /\ dropped = {} /\ faults = 0

is_running == cur # 0 /\ w[cur].running

Fault == faults < MaxFaults /\ faults' = faults + 1

----------------------------------------------------------------------------
(* The worker of session s: WorkerMain.                                    *)

\* WaitForMultipleObjects reports the stop event first; request_event resets
\* itself when it ends a wait.
OuterWait(s) ==
  /\ w[s].pc = "outer"
  /\ \/ w[s].stop_event /\ w' = [w EXCEPT ![s].pc = "finished", ![s].running = FALSE]
     \/ /\ ~w[s].stop_event /\ w[s].request_event
        /\ w' = [w EXCEPT ![s].pc = "settle", ![s].request_event = FALSE]
  /\ UNCHANGED <<cur, started, requests, plugin, plat, dropped, faults>>

\* A wait fails: the worker ends and its monitor is no longer running.
WaitFails(s) ==
  /\ w[s].pc \in {"outer", "settle"} /\ Fault
  /\ w' = [w EXCEPT ![s].pc = "finished", ![s].running = FALSE]
  /\ dropped' = dropped \cup {w[s].pending}
  /\ UNCHANGED <<cur, started, requests, plugin, plat>>

\* The settle delay starts again with every request.
SettleAgain(s) ==
  /\ w[s].pc = "settle"
  /\ \/ w[s].stop_event /\ w' = [w EXCEPT ![s].pc = "finished", ![s].running = FALSE]
     \/ ~w[s].stop_event /\ w[s].request_event /\ w' = [w EXCEPT ![s].request_event = FALSE]
  /\ UNCHANGED <<cur, started, requests, plugin, plat, dropped, faults>>

\* Mutant: the pending request is taken and left in place.
SettleTimeoutKeepsPending(s) ==
  /\ w[s].pc = "settle" /\ ~w[s].stop_event /\ ~w[s].request_event
  /\ w' = [w EXCEPT ![s].taken = w[s].pending,
                    ![s].pc = IF w[s].pending = 0 THEN "outer" ELSE "inspect"]
  /\ UNCHANGED <<cur, started, requests, plugin, plat, dropped, faults>>

\* The settle delay ends: the pending request is taken.
SettleTimeout(s) ==
  /\ w[s].pc = "settle" /\ ~w[s].stop_event /\ ~w[s].request_event
  /\ w' = [w EXCEPT ![s].taken = w[s].pending, ![s].pending = 0,
                    ![s].pc = IF w[s].pending = 0 THEN "outer" ELSE "inspect"]
  /\ UNCHANGED <<cur, started, requests, plugin, plat, dropped, faults>>

\* The UI Automation calls return (or were cancelled).
InspectReturns(s) ==
  /\ w[s].pc = "inspect"
  /\ w' = [w EXCEPT ![s].pc = "check"]
  /\ UNCHANGED <<cur, started, requests, plugin, plat, dropped, faults>>

\* Mutant: the check throws the newer request away.
CheckDropsPending(s) ==
  /\ w[s].pc = "check"
  /\ w' = [w EXCEPT ![s].pc = IF w[s].pending > w[s].taken THEN "outer" ELSE "callback",
                    ![s].pending = 0]
  /\ UNCHANGED <<cur, started, requests, plugin, plat, dropped, faults>>

\* A decision superseded by a newer pending request is dropped.
CheckSuperseded(s) ==
  /\ w[s].pc = "check"
  /\ w' = [w EXCEPT ![s].pc = IF w[s].pending > w[s].taken THEN "outer" ELSE "callback"]
  /\ UNCHANGED <<cur, started, requests, plugin, plat, dropped, faults>>

\* callback_mutex: the callback runs if Stop has not cleared it.  The mutex is
\* held while the worker is at "queue".
EnterCallback(s) ==
  /\ w[s].pc = "callback"
  /\ w' = [w EXCEPT ![s].pc = IF w[s].callback THEN "queue" ELSE "outer"]
  /\ UNCHANGED <<cur, started, requests, plugin, plat, dropped, faults>>

PostFails ==
  /\ Fault
  /\ slot' = NoDecision /\ posted' = FALSE /\ UNCHANGED messages

\* Mutant: every decision posts a message of its own.
PostAlways(s) ==
  /\ slot' = [session |-> s, request |-> w[s].taken]
  /\ posted' = TRUE /\ messages' = messages + 1
  /\ UNCHANGED faults

\* The decision goes into the slot; a message is posted unless one is under way.
PostOnce(s) ==
  /\ slot' = [session |-> s, request |-> w[s].taken]
  /\ posted' = TRUE
  /\ messages' = IF posted THEN messages ELSE messages + 1
  /\ UNCHANGED faults

QueueWindowsTextInputDecision(s) ==
  /\ w[s].pc = "queue"
  /\ w' = [w EXCEPT ![s].pc = "outer"]
  /\ \/ PostOnce(s) /\ UNCHANGED dropped
     \/ ~posted /\ PostFails /\ dropped' = dropped \cup {w[s].taken}
  /\ UNCHANGED <<cur, started, requests, delivered, plat>>

Worker(s) ==
  \/ OuterWait(s) \/ SettleAgain(s) \/ SettleTimeout(s) \/ CheckSuperseded(s)
  \/ EnterCallback(s) \/ QueueWindowsTextInputDecision(s)

----------------------------------------------------------------------------
(* The platform thread.                                                    *)

\* InspectAfterRemotePointerUp: the pending request is replaced, then the event
\* is set.
Inspect ==
  /\ plat = "idle" /\ is_running /\ requests < MaxRequests
  /\ requests' = requests + 1
  /\ w' = [w EXCEPT ![cur].pending = requests + 1]
  /\ plat' = "signal"
  /\ UNCHANGED <<cur, started, plugin, dropped, faults>>

InspectSignals ==
  /\ plat = "signal"
  /\ w' = [w EXCEPT ![cur].request_event = TRUE]
  /\ plat' = "idle"
  /\ UNCHANGED <<cur, started, requests, plugin, dropped, faults>>

StartSession ==
  /\ started < MaxSessions
  /\ started' = started + 1
  /\ cur' = started + 1
  /\ w' = [w EXCEPT ![started + 1] =
             [NotStarted EXCEPT !.pc = "outer", !.running = TRUE, !.callback = TRUE]]

\* Start succeeds, or UI Automation cannot be had and all is taken down again.
Start ==
  /\ plat = "idle" /\ cur = 0
  /\ \/ StartSession /\ UNCHANGED faults
     \/ Fault /\ UNCHANGED <<cur, w, started>>
  /\ UNCHANGED <<requests, plugin, plat, dropped>>

\* StopWindowsEditingEventMonitor, step by step; StartWindowsEditingEventMonitor
\* begins with it when the monitor it finds is no longer running.
StopBegin ==
  /\ plat = "idle" /\ cur # 0
  /\ plat' = "stop"
  /\ UNCHANGED <<cur, w, started, requests, plugin, dropped, faults>>

\* Mutant: the callback is left in place.
StopKeepsCallback ==
  /\ plat = "stop"
  /\ w' = [w EXCEPT ![cur].running = FALSE]
  /\ plat' = "stopEvent"
  /\ UNCHANGED <<cur, started, requests, plugin, dropped, faults>>

\* running is cleared and, once callback_mutex is free, the callback.
StopCallback ==
  /\ plat = "stop" /\ w[cur].pc # "queue"
  /\ w' = [w EXCEPT ![cur].running = FALSE, ![cur].callback = FALSE]
  /\ plat' = "stopEvent"
  /\ UNCHANGED <<cur, started, requests, plugin, dropped, faults>>

\* The pending request is dropped, the stop event set, the COM call cancelled.
StopEvent ==
  /\ plat = "stopEvent"
  /\ w' = [w EXCEPT ![cur].pending = 0, ![cur].stop_event = TRUE]
  /\ plat' = "stopWait"
  /\ UNCHANGED <<cur, started, requests, plugin, dropped, faults>>

\* Mutant: no time limit on the wait.
StopWaitForever ==
  /\ plat = "stopWait" /\ w[cur].pc = "finished"
  /\ cur' = 0 /\ plat' = "stopSlot"
  /\ UNCHANGED <<w, started, requests, plugin, dropped, faults>>

\* Join the finished worker, or detach it after 250 ms.
StopWait ==
  /\ plat = "stopWait"
  /\ cur' = 0 /\ plat' = "stopSlot"
  /\ UNCHANGED <<w, started, requests, plugin, dropped, faults>>

StopSlot ==
  /\ plat = "stopSlot"
  /\ slot' = NoDecision /\ posted' = FALSE
  /\ plat' = "stopDrain"
  /\ UNCHANGED <<cur, w, started, requests, messages, delivered, dropped, faults>>

\* PeekMessage removes what is still posted; the window procedure goes.
StopDrain ==
  /\ plat = "stopDrain"
  /\ messages' = 0
  /\ plat' = "idle"
  /\ UNCHANGED <<cur, w, started, requests, slot, posted, delivered, dropped, faults>>

\* The window procedure takes a message: flag first, then the decision, if any.
Deliver ==
  /\ plat = "idle" /\ cur # 0 /\ messages > 0
  /\ messages' = messages - 1
  /\ posted' = FALSE /\ slot' = NoDecision
  /\ delivered' = IF slot = NoDecision THEN delivered ELSE Append(delivered, slot)
  /\ UNCHANGED <<cur, w, started, requests, plat, dropped, faults>>

Stopping == StopCallback \/ StopEvent \/ StopWait \/ StopSlot \/ StopDrain

Next ==
  \/ Inspect \/ InspectSignals \/ Start \/ StopBegin \/ Stopping \/ Deliver
  \/ \E s \in Sessions : Worker(s) \/ InspectReturns(s) \/ WaitFails(s)

Spec == Init /\ [][Next]_vars

\* Threads are scheduled, a begun call of the platform thread goes on, posted
\* messages are dispatched; a UI Automation call may hang for ever.
FairSpec ==
  /\ Spec
  /\ WF_vars(InspectSignals \/ Stopping) /\ WF_vars(Deliver)
  /\ \A s \in Sessions : WF_vars(Worker(s))

----------------------------------------------------------------------------
(* Properties.                                                             *)

\* Type correctness; at most one decision message is ever under way.
TypeOK ==
  /\ cur \in 0 .. MaxSessions /\ started \in 0 .. MaxSessions
  /\ w \in [Sessions -> WorkerState]
  /\ requests \in 0 .. MaxRequests
  /\ slot \in Decision /\ posted \in BOOLEAN /\ messages \in 0 .. 1
  /\ delivered \in Seq(Decision)
  /\ plat \in {"idle", "signal", "stop", "stopEvent", "stopWait", "stopSlot", "stopDrain"}

\* QueueWindowsTextInputDecision never strands a decision: while one is in the
\* slot, and whenever windows_editing_message_posted_ suppresses the next post,
\* a message is under way.  (Stop clears slot and flag before it drains.)
PostedMeansUnderWay ==
  /\ slot # NoDecision => posted
  /\ posted => messages = 1

\* Stop is a barrier: no callback runs, and no decision waits to be delivered,
\* for a session that has been stopped, even when its worker was detached in
\* the middle of a UI Automation call and a new session was started.
NothingFromStoppedSession ==
  /\ \A s \in Sessions : w[s].pc = "queue" => s = cur
  /\ slot # NoDecision /\ plat \notin {"stopSlot"} => slot.session = cur

\* Dart sees decisions in the order of the clicks, each at most once.
DecisionsInOrder ==
  \A i, j \in 1 .. Len(delivered) : i < j => delivered[i].request < delivered[j].request

\* The decisions of one session reach Dart in click order, each at most once, none is
\* left in the slot without a message that will fetch it, and none comes from a session
\* that has been stopped.
DecisionsSound == PostedMeansUnderWay /\ DecisionsInOrder /\ NothingFromStoppedSession

\* When UI Automation calls return, the newest click is answered, unless a newer one follows, the monitor stops
\* or the answer was lost with a failed post or wait: no wake-up is lost
\* between the pending slot and the auto-reset event.
NewestIsAnswered ==
  (\A s \in Sessions : []<>(w[s].pc # "inspect")) =>
  \A n \in 1 .. MaxRequests :
    (requests = n /\ plat = "signal")
      ~> (\/ requests # n \/ ~is_running \/ n \in dropped
          \/ \E i \in 1 .. Len(delivered) : delivered[i].request = n)

\* Stop returns, even while a UI Automation call hangs.
StopReturns == (plat = "stop") ~> (plat = "idle")

\* The monitor neither loses the newest click nor blocks the platform thread.
AnswersAndStops == NewestIsAnswered /\ StopReturns
=============================================================================
