------------------------ MODULE DesktopServiceInput ------------------------
(***************************************************************************)
(* The input half of windows/desktop_service_input_client.cpp: callers     *)
(* (the Flutter platform thread and the event monitor thread) put encoded  *)
(* input packets into input_queue_, and the dedicated sender thread        *)
(* InputLoop writes them, in order, to the named pipe of the SYSTEM        *)
(* service.  mutex_ protects the shared members; InputLoop releases it     *)
(* while it waits, connects and writes.                                    *)
(*                                                                         *)
(* A packet is its acceptance number together with the connection it was   *)
(* accepted for; its encoding does not matter here.  accepted and received *)
(* are histories: what the client reported as queued, and what reached the *)
(* service end of the pipe.                                                *)
(***************************************************************************)
EXTENDS Naturals, Sequences

CONSTANTS
  MaxInputs,   \* bound on the inputs accepted by the client
  MaxCalls,    \* bound on SetServiceAvailable and Close calls
  MaxFaults    \* bound on service crashes, write timeouts, failed thread starts

ASSUME BoundsAssumption ==
  /\ MaxInputs \in Nat
  /\ MaxCalls  \in Nat
  /\ MaxFaults \in Nat

VARIABLES
  service_available_, stop_requested_, reset_requested_, input_connected_,
  input_queue_,
  interrupt_event_,  \* "none" (nullptr), "clear" or "set"
  joinable,          \* input_thread_.joinable()
  closing,           \* a call of Close() is between its first lock and its end
  pc,                \* where InputLoop is
  woken,             \* a notification reached InputLoop's current wait
  input_pipe,        \* 0 is INVALID_HANDLE_VALUE, n > 0 the n-th connection
  packet, sent,      \* the packet being written; whether the pipe took it
  listening, peer,   \* the service accepts connections; input_pipe has a peer
  conns,             \* number of connections made so far
  accepted, received,
  calls, faults      \* what the bounds count

shared  == <<service_available_, stop_requested_, reset_requested_,
             input_connected_, input_queue_, interrupt_event_, joinable, closing>>
thread  == <<pc, woken, input_pipe, packet, sent>>
service == <<listening, peer, conns>>
history == <<accepted, received>>
budget  == <<calls, faults>>
vars    == <<shared, thread, service, history, budget>>

Packet   == [id : Nat, conn : Nat]
NoPacket == [id |-> 0, conn |-> 0]

(***************************************************************************)
(* InputLoop holds mutex_ exactly when pc = "top" (deciding what to do).   *)
(* "start": not yet locked; "waitAvail", "waitRetry", "waitInput": the     *)
(* waits of lines 502, 512/541 and 519; "connecting": in TryConnect;       *)
(* "writing": in WriteMessage; "done": left the loop; "none": no thread.   *)
(***************************************************************************)
Waits     == {"waitAvail", "waitRetry", "waitInput"}
Locations == Waits \cup {"none", "start", "top", "connecting", "writing", "done"}

MutexFree == pc # "top"

Init ==
  /\ service_available_ = FALSE /\ stop_requested_ = FALSE
  /\ reset_requested_ = FALSE   /\ input_connected_ = FALSE
  /\ input_queue_ = <<>>        /\ interrupt_event_ = "none"
  /\ joinable = FALSE           /\ closing = FALSE
  /\ pc = "none" /\ woken = FALSE /\ input_pipe = 0
  /\ packet = NoPacket /\ sent = FALSE
  /\ listening \in BOOLEAN /\ peer = FALSE /\ conns = 0
  /\ accepted = <<>> /\ received = <<>>
  /\ calls = 0 /\ faults = 0

----------------------------------------------------------------------------
(* Synchronisation primitives as the client uses them.                     *)

SetEvent(e) == IF e = "none" THEN "none" ELSE "set"

\* input_cv_.notify_all / notify_one: InputLoop is the only waiter.
Notify == woken' = (woken \/ pc \in Waits)

\* The predicates of the three waits, over the members' values after a step.
AvailPredIgnoresStop(stop, avail)     == avail   \* mutant
AvailPred(stop, avail)                == stop \/ avail
RetryPred(stop, avail)                == stop \/ ~avail
InputPred(stop, avail, queue, reset)  == stop \/ ~avail \/ queue # <<>> \/ reset

\* wait(lock, pred): blocks in location w only if pred is false on entry.
EnterWait(w, pred) ==
  /\ pc' = IF pred THEN "top" ELSE w
  /\ woken' = FALSE

----------------------------------------------------------------------------
(* Calls of the platform thread and of the event monitor thread.           *)

\* StartInputThreadLocked: nothing if a thread exists; otherwise both events
\* and the thread are created, or creating an event fails, or std::thread
\* throws (which leaves stop_requested_ cleared).
StartInputThreadLocked ==
  \/ /\ joinable
     /\ UNCHANGED <<joinable, interrupt_event_, stop_requested_, pc, faults>>
  \/ /\ ~joinable
     /\ joinable' = TRUE
     /\ interrupt_event_' = "clear"
     /\ stop_requested_' = FALSE
     /\ pc' = "start"
     /\ UNCHANGED faults
  \/ /\ ~joinable
     /\ faults < MaxFaults
     /\ faults' = faults + 1
     /\ interrupt_event_' = "none"
     /\ stop_requested_' \in {stop_requested_, FALSE}
     /\ UNCHANGED <<joinable, pc>>

EnableService ==
  /\ MutexFree /\ ~closing
  /\ calls < MaxCalls
  /\ calls' = calls + 1
  /\ service_available_' = TRUE
  /\ StartInputThreadLocked
  /\ Notify
  /\ UNCHANGED <<reset_requested_, input_connected_, input_queue_, closing,
                 input_pipe, packet, sent, service, history>>

DisableService ==
  /\ MutexFree /\ ~closing
  /\ calls < MaxCalls
  /\ calls' = calls + 1
  /\ service_available_' = FALSE
  /\ reset_requested_' = TRUE
  /\ input_connected_' = FALSE
  /\ input_queue_' = <<>>
  /\ interrupt_event_' = SetEvent(interrupt_event_)
  /\ Notify
  /\ UNCHANGED <<stop_requested_, joinable, closing, pc, input_pipe, packet,
                 sent, service, history, faults>>

SetServiceAvailable(available) ==
  IF available THEN EnableService ELSE DisableService

\* Mutants: the sender is woken for a queue it already serves only; the newest
\* packet is put in front of the others.
EnqueueWakesTooLate(p) ==
  /\ input_queue_' = Append(input_queue_, p)
  /\ IF input_queue_ # <<>> THEN Notify ELSE UNCHANGED woken

EnqueueInFront(p) ==
  /\ input_queue_' = <<p>> \o input_queue_
  /\ IF input_queue_ = <<>> THEN Notify ELSE UNCHANGED woken

\* EnqueueLocked wakes the sender only when the queue was empty.
EnqueueLocked(p) ==
  /\ input_queue_' = Append(input_queue_, p)
  /\ IF input_queue_ = <<>> THEN Notify ELSE UNCHANGED woken

\* SendInputMessage, SendTouchInput and SendPenInput: refused, with no effect
\* on this component, unless connected.
Send ==
  /\ MutexFree
  /\ input_connected_
  /\ Len(accepted) < MaxInputs
  /\ EnqueueLocked([id |-> Len(accepted) + 1, conn |-> conns])
  /\ accepted' = Append(accepted, conns)
  /\ UNCHANGED <<service_available_, stop_requested_, reset_requested_,
                 input_connected_, interrupt_event_, joinable, closing, pc,
                 input_pipe, packet, sent, service, received, budget>>

\* Close, up to the join: the thread object is moved out under the lock.
CloseBegin ==
  /\ MutexFree /\ ~closing
  /\ calls < MaxCalls
  /\ calls' = calls + 1
  /\ stop_requested_' = TRUE
  /\ service_available_' = FALSE
  /\ input_connected_' = FALSE
  /\ input_queue_' = <<>>
  /\ interrupt_event_' = SetEvent(interrupt_event_)
  /\ Notify
  /\ joinable' = FALSE
  /\ closing' = TRUE
  /\ UNCHANGED <<reset_requested_, pc, input_pipe, packet, sent, service,
                 history, faults>>

\* Close, from the return of join() to the end.
CloseEnd ==
  /\ closing
  /\ pc \in {"none", "done"}
  /\ interrupt_event_' = "none"
  /\ closing' = FALSE
  /\ pc' = "none"
  /\ UNCHANGED <<service_available_, stop_requested_, reset_requested_,
                 input_connected_, input_queue_, joinable, woken, input_pipe,
                 packet, sent, service, history, budget>>

----------------------------------------------------------------------------
(* InputLoop, one action per stretch of code that runs with mutex_ held.   *)

\* Mutant: queued inputs survive the connection.
DropPipeOnly ==
  /\ input_connected_' = FALSE
  /\ UNCHANGED input_queue_
  /\ input_pipe' = 0 /\ peer' = FALSE

\* Leaving a connection always empties the queue that was filled for it.
DropConnection ==
  /\ input_connected_' = FALSE
  /\ input_queue_' = <<>>
  /\ input_pipe' = 0 /\ peer' = FALSE

\* The packet is a local of the loop body; the mutant keeps it.
EndWriteKeepsPacket == UNCHANGED <<packet, sent>>
EndWrite == packet' = NoPacket /\ sent' = FALSE

LoopStart ==
  /\ pc = "start"
  /\ pc' = "top"
  /\ UNCHANGED <<shared, woken, input_pipe, packet, sent, service, history, budget>>

LoopStop ==
  /\ pc = "top" /\ stop_requested_
  /\ DropConnection
  /\ pc' = "done"
  /\ UNCHANGED <<service_available_, stop_requested_, reset_requested_,
                 interrupt_event_, joinable, closing, woken, packet, sent,
                 listening, conns, history, budget>>

\* Mutant: the interrupt event stays signalled.
LoopResetKeepsInterrupt ==
  /\ pc = "top" /\ ~stop_requested_
  /\ ~service_available_ \/ reset_requested_
  /\ DropConnection
  /\ reset_requested_' = FALSE
  /\ EnterWait("waitAvail", AvailPred(stop_requested_, service_available_))
  /\ UNCHANGED <<service_available_, stop_requested_, interrupt_event_,
                 joinable, closing, packet, sent, listening, conns, history,
                 budget>>

LoopReset ==
  /\ pc = "top" /\ ~stop_requested_
  /\ ~service_available_ \/ reset_requested_
  /\ DropConnection
  /\ interrupt_event_' = "clear"
  /\ reset_requested_' = FALSE
  /\ EnterWait("waitAvail", AvailPred(stop_requested_, service_available_))
  /\ UNCHANGED <<service_available_, stop_requested_, joinable, closing,
                 packet, sent, listening, conns, history, budget>>

\* The loop passed its first two tests.
Running == pc = "top" /\ ~stop_requested_ /\ service_available_ /\ ~reset_requested_

LoopConnect ==
  /\ Running /\ input_pipe = 0
  /\ pc' = "connecting"
  /\ UNCHANGED <<shared, woken, input_pipe, packet, sent, service, history, budget>>

LoopIdle ==
  /\ Running /\ input_pipe # 0 /\ input_queue_ = <<>>
  /\ EnterWait("waitInput", InputPred(stop_requested_, service_available_,
                                      input_queue_, reset_requested_))
  /\ UNCHANGED <<shared, input_pipe, packet, sent, service, history, budget>>

LoopPop ==
  /\ Running /\ input_pipe # 0 /\ input_queue_ # <<>>
  /\ packet' = Head(input_queue_)
  /\ sent' = FALSE
  /\ input_queue_' = Tail(input_queue_)
  /\ pc' = "writing"
  /\ UNCHANGED <<service_available_, stop_requested_, reset_requested_,
                 input_connected_, interrupt_event_, joinable, closing, woken,
                 input_pipe, service, history, budget>>

\* TryConnect gives a handle, and the lock is taken again.  What was asked
\* for meanwhile decides whether the handle may be used.
InterruptedUnchecked == FALSE   \* mutant: the three flags are not read again
Interrupted == stop_requested_ \/ ~service_available_ \/ reset_requested_

ConnectOk ==
  /\ pc = "connecting" /\ listening
  /\ conns' = conns + 1
  /\ input_pipe' = conns + 1
  /\ peer' = TRUE
  /\ input_connected_' = IF Interrupted THEN input_connected_ ELSE TRUE
  /\ pc' = "top"
  /\ UNCHANGED <<service_available_, stop_requested_, reset_requested_,
                 input_queue_, interrupt_event_, joinable, closing, woken,
                 packet, sent, listening, history, budget>>

\* No service, every instance busy, or the handle refuses message mode.
ConnectFail ==
  /\ pc = "connecting"
  /\ input_connected_' = IF Interrupted THEN input_connected_ ELSE FALSE
  /\ IF Interrupted THEN pc' = "top" /\ UNCHANGED woken
     ELSE EnterWait("waitRetry", RetryPred(stop_requested_, service_available_))
  /\ UNCHANGED <<service_available_, stop_requested_, reset_requested_,
                 input_queue_, interrupt_event_, joinable, closing, input_pipe,
                 packet, sent, service, history, budget>>

\* The pipe takes the message: WriteFile completed, at once or later.
PipeTakes ==
  /\ pc = "writing" /\ ~sent /\ peer
  /\ sent' = TRUE
  /\ received' = Append(received, [id |-> packet.id, conn |-> packet.conn,
                                   via |-> input_pipe])
  /\ UNCHANGED <<shared, pc, woken, input_pipe, packet, service, accepted, budget>>

WriteOk ==
  /\ pc = "writing" /\ sent
  /\ EndWrite
  /\ pc' = "top"
  /\ UNCHANGED <<shared, woken, input_pipe, service, history, budget>>

\* WriteMessage reports failure: the pipe broke, interrupt_event_ was set, or
\* kWriteTimeoutMs passed.  A cancelled write may have been taken all the
\* same (sent).  The connection and what is queued for it are dropped.
WriteFail ==
  /\ pc = "writing"
  /\ IF peer /\ interrupt_event_ # "set"
     THEN faults < MaxFaults /\ faults' = faults + 1
     ELSE UNCHANGED faults
  /\ DropConnection
  /\ EndWrite
  /\ EnterWait("waitRetry", RetryPred(stop_requested_, service_available_))
  /\ UNCHANGED <<service_available_, stop_requested_, reset_requested_,
                 interrupt_event_, joinable, closing, listening, conns, history,
                 calls>>

\* The predicate of the wait InputLoop is in.
WaitPred ==
  \/ pc = "waitAvail" /\ AvailPred(stop_requested_, service_available_)
  \/ pc = "waitRetry" /\ RetryPred(stop_requested_, service_available_)
  \/ pc = "waitInput" /\ InputPred(stop_requested_, service_available_,
                                    input_queue_, reset_requested_)

\* A notified wait re-evaluates its predicate and goes on or sleeps again.
Wake ==
  /\ pc \in Waits /\ woken
  /\ EnterWait(pc, WaitPred)
  /\ UNCHANGED <<shared, input_pipe, packet, sent, service, history, budget>>

\* wait_for returns after 250 ms whatever its predicate says.
RetryTimeout ==
  /\ pc = "waitRetry"
  /\ pc' = "top" /\ woken' = FALSE
  /\ UNCHANGED <<shared, input_pipe, packet, sent, service, history, budget>>

InputLoop ==
  \/ LoopStart \/ LoopStop \/ LoopReset \/ LoopConnect \/ LoopIdle \/ LoopPop
  \/ ConnectOk \/ ConnectFail \/ PipeTakes \/ WriteOk \/ WriteFail
  \/ Wake \/ RetryTimeout

----------------------------------------------------------------------------
(* The SYSTEM service, outside this repository: it may stop, which breaks  *)
(* the pipe, and start listening again.                                    *)

ServiceStops ==
  /\ listening /\ faults < MaxFaults
  /\ faults' = faults + 1
  /\ listening' = FALSE /\ peer' = FALSE
  /\ UNCHANGED <<shared, thread, conns, history, calls>>

ServiceStarts ==
  /\ ~listening
  /\ listening' = TRUE
  /\ UNCHANGED <<shared, thread, peer, conns, history, budget>>

Next ==
  \/ \E available \in BOOLEAN : SetServiceAvailable(available)
  \/ Send \/ CloseBegin \/ CloseEnd
  \/ InputLoop
  \/ ServiceStops \/ ServiceStarts

Spec == Init /\ [][Next]_vars

(***************************************************************************)
(* Fairness.  The sender thread is scheduled: whatever it can do all the   *)
(* time it does (a pending write is completed, cancelled or timed out      *)
(* within kWriteTimeoutMs).  TryConnect, repeated against a service that   *)
(* listens, succeeds in the end.  The join of Close returns once the       *)
(* thread has ended.  Callers and the service owe nothing.                 *)
(***************************************************************************)
Fairness ==
  /\ WF_vars(InputLoop)
  /\ WF_vars(PipeTakes \/ WriteOk \/ WriteFail)
  /\ SF_vars(ConnectOk)
  /\ WF_vars(CloseEnd)

FairSpec == Spec /\ Fairness

----------------------------------------------------------------------------
(* Properties.                                                             *)

TypeFlags ==
  /\ service_available_ \in BOOLEAN /\ stop_requested_ \in BOOLEAN
  /\ reset_requested_ \in BOOLEAN   /\ input_connected_ \in BOOLEAN
  /\ joinable \in BOOLEAN /\ closing \in BOOLEAN
  /\ woken \in BOOLEAN /\ sent \in BOOLEAN
  /\ listening \in BOOLEAN /\ peer \in BOOLEAN

TypeData ==
  /\ input_queue_ \in Seq(Packet)
  /\ interrupt_event_ \in {"none", "clear", "set"}
  /\ pc \in Locations
  /\ input_pipe \in Nat /\ packet \in Packet /\ conns \in Nat
  /\ accepted \in Seq(Nat)
  /\ received \in Seq([id : Nat, conn : Nat, via : Nat])
  /\ calls \in 0 .. MaxCalls /\ faults \in 0 .. MaxFaults
  /\ pc # "writing" => packet = NoPacket /\ ~sent
  /\ ~joinable /\ ~closing => pc = "none"

\* The members' types, within the bounds; a packet is held outside the queue only
\* inside WriteMessage, and a sender runs only while the client or Close owns it.
TypeOK == TypeFlags /\ TypeData

\* Inputs are accepted only while a connection made after the last request to
\* disable, reset or close is in use: a call that returned true was queued for
\* the pipe InputLoop currently holds (lines 212, 234, 290 against 184-188).
AcceptingMeansLiveConnection ==
  input_connected_ =>
    /\ service_available_ /\ ~stop_requested_ /\ ~reset_requested_
    /\ joinable
    /\ input_pipe = conns /\ input_pipe # 0

\* Every queued packet, and the one being written, belongs to the connection
\* InputLoop would write it to; nothing is queued while disconnected.
QueueBelongsToPipe ==
  /\ input_queue_ # <<>> => input_connected_
  /\ \A i \in DOMAIN input_queue_ : input_queue_[i].conn = input_pipe
  /\ pc = "writing" => packet.conn = input_pipe

\* An input accepted for one connection never reaches the service over a later
\* one: no old click is executed after a reconnect (comment at line 532).
NoCrossConnection ==
  \A i \in DOMAIN received : received[i].conn = received[i].via

\* The service sees inputs in the order of acceptance and none of them twice,
\* although a cancelled write may have been taken: nothing is ever replayed.
AtMostOnceInOrder ==
  \A i, j \in DOMAIN received : i < j => received[i].id < received[j].id

\* Failures cut off the end of a connection's inputs and never leave a hole: if
\* an input arrived, so did every earlier one accepted for the same connection
\* (a lost key-down never precedes a delivered later event of its connection).
ReceivedIds == {received[i].id : i \in DOMAIN received}
NoHoles ==
  \A i, j \in DOMAIN accepted :
    i < j /\ accepted[i] = accepted[j] /\ j \in ReceivedIds => i \in ReceivedIds

\* interrupt_event_ is signalled only while a reset or a stop is still to be
\* served.  A stale signal would abort every pending write of a later connection.
InterruptMeansRequest ==
  interrupt_event_ = "set" => reset_requested_ \/ stop_requested_

\* Outside Close, the interrupt event InputLoop passes to WriteMessage without
\* the lock (line 528) exists as long as the thread does.
InterruptEventLives ==
  pc \notin {"none", "done"} => interrupt_event_ # "none"

\* No lost wake-up: queued inputs do not stay queued.  EnqueueLocked notifies
\* only when the queue was empty (line 482), so this needs the sender never to
\* sleep on a non-empty queue.
QueueDrains == input_queue_ # <<>> ~> input_queue_ = <<>>

\* Close() returns: the sender notices stop_requested_ wherever it is waiting,
\* connecting or writing, and ends.
CloseReturns == closing ~> ~closing

\* While the service stays available to the client and listening, the sender
\* connects: no sequence of failures and resets leaves it asleep for ever.
Reconnects ==
  (joinable /\ service_available_ /\ listening)
    ~> (input_connected_ \/ ~service_available_ \/ ~listening)

(* What the runs check and the theorems state.                             *)

\* What the service receives over one connection is a prefix of what was accepted
\* for it, in order, each input once, and nothing of another connection.
Delivery == NoCrossConnection /\ AtMostOnceInOrder /\ NoHoles

\* interrupt_event_ is there for the sender to wait on, and signals it only for a
\* request it still has to serve.
InterruptSound == InterruptMeansRequest /\ InterruptEventLives

\* Whatever the client accepts goes to the connection it was accepted for: it
\* accepts only with a live pipe and no reset outstanding, its queue holds nothing
\* meant for an earlier pipe, and no interrupt of an earlier reset aborts its I/O.
ConnectionSound ==
  AcceptingMeansLiveConnection /\ QueueBelongsToPipe /\ InterruptSound

\* No lost wake-up: with the sender scheduled, the queue empties, the client of a
\* service that is available and listening becomes connected, and Close returns.
Progress == QueueDrains /\ Reconnects /\ CloseReturns

----------------------------------------------------------------------------
(* Refinement: the client implements InputSession.                         *)

UnsentIds == IF pc = "writing" /\ ~sent THEN {packet.id} ELSE {}
QueuedIds == {input_queue_[i].id : i \in DOMAIN input_queue_}

Session == INSTANCE InputSession WITH
  open      <- input_connected_,
  last      <- Len(accepted),
  pending   <- UnsentIds \cup QueuedIds,
  delivered <- [i \in DOMAIN received |-> received[i].id]

\* Threads, locks, pipes and failures together only do what the abstract session
\* allows: FIFO, at most once, and dropping only by ending the session.
ImplementsSession == Session!SessionSpec
=============================================================================
