------------------------ MODULE WindowsServiceProofs ------------------------
(***************************************************************************)
(* Proofs about the client of the desktop service (DesktopServiceInput,    *)
(* part one) and the virtual displays (WindowsVirtualDisplay, part two),   *)
(* for every value of their constants.  The two parts share nothing but    *)
(* the library.                                                            *)
(***************************************************************************)
EXTENDS DesktopServiceInput, WindowsVirtualDisplay,
        SequenceTheorems, FiniteSetTheorems, NaturalsInduction, TLAPS

\* Appending to, and taking the head and the tail of, a sequence.
LEMMA AppendFacts ==
  ASSUME NEW S, NEW s \in Seq(S), NEW e \in S
  PROVE  /\ Append(s, e) \in Seq(S)
         /\ Len(Append(s, e)) = Len(s) + 1
         /\ \A i \in 1 .. Len(s) : Append(s, e)[i] = s[i]
         /\ Append(s, e)[Len(s) + 1] = e
         /\ DOMAIN s = 1 .. Len(s)
         /\ DOMAIN Append(s, e) = 1 .. Len(s) + 1
         /\ Len(s) \in Nat
BY AppendProperties

LEMMA PopFacts ==
  ASSUME NEW S, NEW s \in Seq(S), s # <<>>
  PROVE  /\ Head(s) \in S /\ Head(s) = s[1]
         /\ Tail(s) \in Seq(S)
         /\ Len(s) \in Nat \ {0}
         /\ Len(Tail(s)) = Len(s) - 1
         /\ \A i \in 1 .. Len(s) - 1 : Tail(s)[i] = s[i + 1]
         /\ DOMAIN s = 1 .. Len(s)
         /\ DOMAIN Tail(s) = 1 .. Len(s) - 1
BY HeadTailProperties, EmptySeq

LEMMA TypeInit == Init => TypeOK
<1>1. Init => TypeFlags
  BY Zenon DEF Init, TypeFlags
<1>2. Init => TypeData
  BY BoundsAssumption DEF Init, TypeData, Packet, NoPacket, Locations, Waits
<1> QED BY <1>1, <1>2 DEF TypeOK

LEMMA FlagsStep == TypeFlags /\ [Next]_vars => TypeFlags'
<1> SUFFICES ASSUME TypeFlags, [Next]_vars PROVE TypeFlags'
  OBVIOUS
<1> USE DEF TypeFlags, shared, thread, service, EnterWait, EndWrite, DropConnection, Notify
<1>1. CASE EnableService
  BY <1>1, Zenon DEF EnableService, StartInputThreadLocked
<1>2. CASE DisableService
  BY <1>2, Zenon DEF DisableService
<1>3. CASE Send
  BY <1>3, Zenon DEF Send, EnqueueLocked
<1>4. CASE CloseBegin
  BY <1>4, Zenon DEF CloseBegin
<1>5. CASE CloseEnd
  BY <1>5, Zenon DEF CloseEnd
<1>6. CASE LoopStart \/ LoopConnect \/ LoopStop \/ LoopPop
  BY <1>6, ZenonT(30) DEF LoopStart, LoopConnect, LoopStop, LoopPop
<1>7. CASE LoopReset \/ LoopIdle
  BY <1>7, Zenon DEF LoopReset, LoopIdle
<1>8. CASE ConnectOk \/ ConnectFail
  BY <1>8, Zenon DEF ConnectOk, ConnectFail
<1>9. CASE PipeTakes \/ WriteOk \/ WriteFail
  BY <1>9, Zenon DEF PipeTakes, WriteOk, WriteFail
<1>10. CASE Wake \/ RetryTimeout
  BY <1>10, Zenon DEF Wake, RetryTimeout
<1>11. CASE ServiceStops \/ ServiceStarts
  BY <1>11, Zenon DEF ServiceStops, ServiceStarts
<1>12. CASE UNCHANGED vars
  BY <1>12, Zenon DEF vars
<1> QED
  BY <1>1, <1>2, <1>3, <1>4, <1>5, <1>6, <1>7, <1>8, <1>9, <1>10, <1>11, <1>12
     DEF Next, SetServiceAvailable, InputLoop

LEMMA DataStep == TypeData /\ [Next]_vars => TypeData'
<1> SUFFICES ASSUME TypeData, [Next]_vars PROVE TypeData'
  OBVIOUS
<1> USE BoundsAssumption DEF TypeData, Packet, NoPacket, Locations, Waits, shared,
        thread, service, history, budget, EnterWait, EndWrite, DropConnection
<1>1. CASE EnableService
  <2>1. /\ input_queue_' = input_queue_ /\ input_pipe' = input_pipe
        /\ packet' = packet /\ conns' = conns /\ accepted' = accepted
        /\ received' = received /\ sent' = sent /\ calls' = calls + 1
        /\ calls < MaxCalls /\ ~closing /\ closing' = closing
    BY <1>1 DEF EnableService
  <2>2. CASE joinable /\ UNCHANGED <<joinable, interrupt_event_, pc, faults>>
    BY <2>1, <2>2
  <2>3. CASE ~joinable /\ joinable' /\ interrupt_event_' = "clear" /\ pc' = "start"
              /\ UNCHANGED faults
    BY <2>1, <2>3
  <2>4. CASE /\ ~joinable /\ faults < MaxFaults /\ faults' = faults + 1
             /\ interrupt_event_' = "none" /\ UNCHANGED <<joinable, pc>>
    BY <2>1, <2>4
  <2> QED BY <1>1, <2>2, <2>3, <2>4, Zenon DEF EnableService, StartInputThreadLocked
<1>2. CASE DisableService
  BY <1>2 DEF DisableService, SetEvent, Notify
<1>3. CASE Send
  <2>1. /\ Append(input_queue_, [id |-> Len(accepted) + 1, conn |-> conns]) \in Seq(Packet)
        /\ Append(accepted, conns) \in Seq(Nat)
    BY AppendProperties, LenProperties
  <2> QED BY <1>3, <2>1 DEF Send, EnqueueLocked, Notify
<1>4. CASE CloseBegin
  BY <1>4 DEF CloseBegin, SetEvent, Notify
<1>5. CASE CloseEnd
  BY <1>5 DEF CloseEnd
<1>6. CASE LoopStart
  BY <1>6 DEF LoopStart
<1>7. CASE LoopConnect
  BY <1>7 DEF LoopConnect, Running
<1>16. CASE LoopStop
  BY <1>16 DEF LoopStop
<1>17. CASE LoopReset
  BY <1>17 DEF LoopReset
<1>18. CASE LoopIdle
  BY <1>18 DEF LoopIdle, Running
<1>8. CASE LoopPop
  <2>1. Head(input_queue_) \in Packet /\ Tail(input_queue_) \in Seq(Packet)
    BY <1>8, HeadTailProperties DEF LoopPop
  <2> QED BY <1>8, <2>1 DEF LoopPop, Running
<1>9. CASE ConnectOk
  BY <1>9 DEF ConnectOk
<1>19. CASE ConnectFail
  BY <1>19 DEF ConnectFail
<1>10. CASE PipeTakes
  <2>1. Append(received, [id |-> packet.id, conn |-> packet.conn, via |-> input_pipe])
          \in Seq([id : Nat, conn : Nat, via : Nat])
    BY AppendProperties
  <2> QED BY <1>10, <2>1 DEF PipeTakes
<1>11. CASE WriteOk
  BY <1>11 DEF WriteOk
<1>12. CASE WriteFail
  BY <1>12 DEF WriteFail
<1>13. CASE Wake \/ RetryTimeout
  BY <1>13, SMTT(30) DEF Wake, RetryTimeout
<1>14. CASE ServiceStops \/ ServiceStarts
  BY <1>14, SMTT(30) DEF ServiceStops, ServiceStarts
<1>15. CASE UNCHANGED vars
  BY <1>15 DEF vars
<1> QED
  BY <1>1, <1>2, <1>3, <1>4, <1>5, <1>6, <1>7, <1>8, <1>9, <1>10, <1>11, <1>12,
     <1>13, <1>14, <1>15, <1>16, <1>17, <1>18, <1>19 DEF Next, SetServiceAvailable, InputLoop

\* Every variable of the client keeps its type, and a packet is held outside the
\* queue only inside WriteMessage.
THEOREM TypeCorrect == Spec => []TypeOK
<1>1. TypeOK /\ [Next]_vars => TypeOK'
  BY FlagsStep, DataStep DEF TypeOK
<1> QED BY TypeInit, <1>1, PTL DEF Spec
----------------------------------------------------------------------------
(* Who owns the sender, its events and its pipe.                           *)

\* The strengthening that makes the control invariants inductive: a joinable
\* sender has not been told to stop, Close runs only after it told it so, and
\* where the sender is determines whether it holds a pipe, the newest one.
ThreadInv ==
  /\ joinable => ~stop_requested_ /\ ~closing /\ pc \notin {"none", "done"}
  /\ closing => stop_requested_
  /\ pc \in {"none", "done", "start", "waitAvail", "waitRetry", "connecting"} =>
       input_pipe = 0
  /\ pc \in {"writing", "waitInput"} => input_pipe # 0
  /\ input_pipe # 0 => input_pipe = conns

ControlInv == /\ ThreadInv /\ AcceptingMeansLiveConnection
              /\ InterruptMeansRequest /\ InterruptEventLives

LEMMA ControlInit == Init => ControlInv
BY DEF Init, ControlInv, ThreadInv, AcceptingMeansLiveConnection,
       InterruptMeansRequest, InterruptEventLives

LEMMA ControlStep == TypeOK /\ ControlInv /\ [Next]_vars => ControlInv'
<1> SUFFICES ASSUME TypeData, ControlInv, [Next]_vars PROVE ControlInv'
  BY DEF TypeOK
<1> USE DEF TypeData, Locations, Waits, ControlInv, ThreadInv,
        AcceptingMeansLiveConnection, InterruptMeansRequest, InterruptEventLives,
        shared, thread, service, EnterWait, DropConnection
<1>1. CASE EnableService
  <2>1. /\ ~closing /\ service_available_'
        /\ UNCHANGED <<reset_requested_, input_connected_, closing, input_pipe, conns>>
    BY <1>1 DEF EnableService
  <2>2. CASE joinable /\ UNCHANGED <<joinable, interrupt_event_, stop_requested_, pc>>
    BY <2>1, <2>2
  <2>3. CASE /\ ~joinable /\ joinable' /\ interrupt_event_' = "clear"
             /\ ~stop_requested_' /\ pc' = "start"
    BY <2>1, <2>3
  <2>4. CASE ~joinable /\ interrupt_event_' = "none" /\ UNCHANGED <<joinable, pc>>
    BY <2>1, <2>4
  <2> QED BY <1>1, <2>2, <2>3, <2>4, Zenon DEF EnableService, StartInputThreadLocked
<1>2. CASE DisableService
  BY <1>2 DEF DisableService, SetEvent
<1>3. CASE Send
  BY <1>3 DEF Send
<1>4. CASE CloseBegin
  BY <1>4 DEF CloseBegin, SetEvent
<1>5. CASE CloseEnd
  BY <1>5 DEF CloseEnd
<1>6. CASE LoopStart
  BY <1>6 DEF LoopStart
<1>7. CASE LoopStop
  BY <1>7 DEF LoopStop
<1>8. CASE LoopReset
  BY <1>8 DEF LoopReset
<1>9. CASE LoopConnect
  BY <1>9 DEF LoopConnect, Running
<1>10. CASE LoopIdle
  BY <1>10 DEF LoopIdle, Running
<1>11. CASE LoopPop
  BY <1>11 DEF LoopPop, Running
<1>12. CASE ConnectOk
  BY <1>12 DEF ConnectOk, Interrupted
<1>13. CASE ConnectFail
  BY <1>13 DEF ConnectFail, Interrupted
<1>14. CASE PipeTakes
  BY <1>14 DEF PipeTakes
<1>15. CASE WriteOk
  BY <1>15 DEF WriteOk
<1>16. CASE WriteFail
  BY <1>16 DEF WriteFail
<1>17. CASE Wake
  BY <1>17 DEF Wake
<1>18. CASE RetryTimeout
  BY <1>18 DEF RetryTimeout
<1>19. CASE ServiceStops
  BY <1>19 DEF ServiceStops
<1>20. CASE ServiceStarts
  BY <1>20 DEF ServiceStarts
<1>21. CASE UNCHANGED vars
  BY <1>21 DEF vars
<1> QED
  BY <1>1, <1>2, <1>3, <1>4, <1>5, <1>6, <1>7, <1>8, <1>9, <1>10, <1>11, <1>12, <1>13, <1>14, <1>15, <1>16, <1>17, <1>18, <1>19, <1>20, <1>21
     DEF Next, SetServiceAvailable, InputLoop

\* The interrupt event lives as long as the sender can pass it to WriteMessage,
\* and is signalled only while a reset or a stop is still to be served.
THEOREM InterruptEventSound == Spec => []InterruptSound
<1>1. TypeOK /\ ControlInv => InterruptSound
  BY DEF ControlInv, InterruptSound
<1> QED BY TypeCorrect, ControlInit, ControlStep, <1>1, PTL DEF Spec

----------------------------------------------------------------------------
(* Queued packets belong to the pipe.                                      *)

LEMMA QueueInit == Init => QueueBelongsToPipe
BY DEF Init, QueueBelongsToPipe

\* What Send, LoopPop and PipeTakes do to the sequences, position by position.
LEMMA SendFacts ==
  ASSUME TypeData, ControlInv, Send
  PROVE  /\ input_connected_ /\ input_connected_'
         /\ UNCHANGED <<input_pipe, conns, pc, packet, received>>
         /\ sent' <=> sent
         /\ Len(accepted) \in Nat /\ Len(input_queue_) \in Nat
         /\ DOMAIN accepted = 1 .. Len(accepted)
         /\ Len(accepted') = Len(accepted) + 1
         /\ DOMAIN accepted' = 1 .. Len(accepted) + 1
         /\ \A i \in 1 .. Len(accepted) : accepted'[i] = accepted[i]
         /\ accepted'[Len(accepted) + 1] = conns
         /\ DOMAIN input_queue_ = 1 .. Len(input_queue_)
         /\ DOMAIN input_queue_' = 1 .. Len(input_queue_) + 1
         /\ \A i \in 1 .. Len(input_queue_) : input_queue_'[i] = input_queue_[i]
         /\ input_queue_'[Len(input_queue_) + 1].id = Len(accepted) + 1
         /\ input_queue_'[Len(input_queue_) + 1].conn = conns
         /\ \A i \in DOMAIN input_queue_' :
              i \in DOMAIN input_queue_ \/ i = Len(input_queue_) + 1
         /\ \A i \in DOMAIN accepted' : i \in DOMAIN accepted \/ i = Len(accepted) + 1
         /\ input_pipe = conns
<1>1. /\ input_connected_ /\ input_connected_'
      /\ UNCHANGED <<input_pipe, conns, pc, packet, received>>
      /\ sent' <=> sent
  BY DEF Send, service
<1>2. /\ input_queue_' = Append(input_queue_, [id |-> Len(accepted) + 1, conn |-> conns])
      /\ accepted' = Append(accepted, conns)
  BY DEF Send, EnqueueLocked
<1>3. /\ input_queue_ \in Seq(Packet) /\ accepted \in Seq(Nat) /\ conns \in Nat
      /\ [id |-> Len(accepted) + 1, conn |-> conns] \in Packet
  BY LenProperties DEF TypeData, Packet
<1>4. /\ Len(accepted) \in Nat
      /\ DOMAIN accepted = 1 .. Len(accepted)
      /\ Len(accepted') = Len(accepted) + 1
      /\ DOMAIN accepted' = 1 .. Len(accepted) + 1
      /\ \A i \in 1 .. Len(accepted) : accepted'[i] = accepted[i]
      /\ accepted'[Len(accepted) + 1] = conns
  BY <1>2, <1>3, AppendFacts
<1>5. /\ Len(input_queue_) \in Nat
      /\ DOMAIN input_queue_ = 1 .. Len(input_queue_)
      /\ DOMAIN input_queue_' = 1 .. Len(input_queue_) + 1
      /\ \A i \in 1 .. Len(input_queue_) : input_queue_'[i] = input_queue_[i]
      /\ input_queue_'[Len(input_queue_) + 1] =
           [id |-> Len(accepted) + 1, conn |-> conns]
  BY <1>2, <1>3, AppendFacts
<1>6. input_pipe = conns
  BY <1>1 DEF ControlInv, AcceptingMeansLiveConnection
<1>7. /\ \A i \in DOMAIN input_queue_' :
           i \in DOMAIN input_queue_ \/ i = Len(input_queue_) + 1
      /\ \A i \in DOMAIN accepted' : i \in DOMAIN accepted \/ i = Len(accepted) + 1
  BY <1>4, <1>5
<1> QED BY <1>1, <1>4, <1>5, <1>6, <1>7

LEMMA LoopPopFacts ==
  ASSUME TypeData, LoopPop
  PROVE  /\ UNCHANGED <<input_pipe, conns, accepted, received>>
         /\ pc = "top" /\ pc' = "writing" /\ ~sent' /\ (input_connected_' <=> input_connected_)
         /\ 1 \in DOMAIN input_queue_ /\ packet' = input_queue_[1]
         /\ Len(input_queue_) \in Nat \ {0}
         /\ DOMAIN input_queue_ = 1 .. Len(input_queue_)
         /\ DOMAIN input_queue_' = 1 .. Len(input_queue_) - 1
         /\ \A i \in DOMAIN input_queue_' :
              i + 1 \in DOMAIN input_queue_ /\ input_queue_'[i] = input_queue_[i + 1]
<1>1. /\ input_queue_ # <<>> /\ input_queue_' = Tail(input_queue_)
      /\ packet' = Head(input_queue_) /\ pc = "top" /\ pc' = "writing"
      /\ UNCHANGED <<input_pipe, conns, accepted, received>>
      /\ ~sent' /\ (input_connected_' <=> input_connected_)
  BY DEF LoopPop, Running, service, history
<1>2. input_queue_ \in Seq(Packet)
  BY DEF TypeData
<1>3. /\ Len(input_queue_) \in Nat \ {0}
      /\ DOMAIN input_queue_ = 1 .. Len(input_queue_)
      /\ DOMAIN input_queue_' = 1 .. Len(input_queue_) - 1
      /\ \A i \in 1 .. Len(input_queue_) - 1 : input_queue_'[i] = input_queue_[i + 1]
      /\ packet' = input_queue_[1]
  BY <1>1, <1>2, PopFacts
<1>4. /\ 1 \in DOMAIN input_queue_
      /\ \A i \in DOMAIN input_queue_' : i + 1 \in DOMAIN input_queue_
  BY <1>3
<1> QED BY <1>1, <1>3, <1>4

LEMMA PipeTakesFacts ==
  ASSUME TypeData, PipeTakes
  PROVE  /\ UNCHANGED <<input_pipe, conns, accepted, input_queue_, pc, packet>>
         /\ pc = "writing" /\ ~sent /\ sent' /\ (input_connected_' <=> input_connected_)
         /\ Len(received) \in Nat
         /\ DOMAIN received = 1 .. Len(received)
         /\ DOMAIN received' = 1 .. Len(received) + 1
         /\ \A i \in 1 .. Len(received) : received'[i] = received[i]
         /\ received'[Len(received) + 1] =
              [id |-> packet.id, conn |-> packet.conn, via |-> input_pipe]
         /\ \A i \in DOMAIN received' : i \in DOMAIN received \/ i = Len(received) + 1
<1>1. /\ UNCHANGED <<input_pipe, conns, accepted, input_queue_, pc, packet>>
      /\ pc = "writing" /\ ~sent /\ sent' /\ (input_connected_' <=> input_connected_)
      /\ received' = Append(received, [id |-> packet.id, conn |-> packet.conn,
                                       via |-> input_pipe])
  BY DEF PipeTakes, shared, service
<1>2. /\ received \in Seq([id : Nat, conn : Nat, via : Nat])
      /\ [id |-> packet.id, conn |-> packet.conn, via |-> input_pipe] \in
            [id : Nat, conn : Nat, via : Nat]
  BY DEF TypeData, Packet
<1>3. /\ Len(received) \in Nat
      /\ DOMAIN received = 1 .. Len(received)
      /\ DOMAIN received' = 1 .. Len(received) + 1
      /\ \A i \in 1 .. Len(received) : received'[i] = received[i]
      /\ received'[Len(received) + 1] =
           [id |-> packet.id, conn |-> packet.conn, via |-> input_pipe]
  BY <1>1, <1>2, AppendFacts
<1>4. \A i \in DOMAIN received' : i \in DOMAIN received \/ i = Len(received) + 1
  BY <1>3
<1> QED BY <1>1, <1>3, <1>4

LEMMA QueueStep ==
  TypeOK /\ ControlInv /\ QueueBelongsToPipe /\ [Next]_vars => QueueBelongsToPipe'
<1> SUFFICES ASSUME TypeData, ControlInv, QueueBelongsToPipe, [Next]_vars
             PROVE  QueueBelongsToPipe'
  BY DEF TypeOK
<1> USE DEF TypeData, ControlInv, ThreadInv, AcceptingMeansLiveConnection,
        QueueBelongsToPipe, Waits, Locations, shared, thread, service, EnterWait, DropConnection
<1>1. CASE EnableService
  <2>1. pc' = "writing" => pc = "writing"
    BY <1>1 DEF EnableService, StartInputThreadLocked
  <2> QED BY <1>1, <2>1 DEF EnableService
<1>2. CASE DisableService
  BY <1>2 DEF DisableService
<1>3. CASE Send
  <2>1. ASSUME NEW i \in DOMAIN input_queue_' PROVE input_queue_'[i].conn = input_pipe'
    BY <1>3, SendFacts
  <2> QED BY <2>1, <1>3, SendFacts
<1>4. CASE CloseBegin
  BY <1>4 DEF CloseBegin
<1>5. CASE CloseEnd
  BY <1>5 DEF CloseEnd
<1>6. CASE LoopStart
  BY <1>6 DEF LoopStart
<1>7. CASE LoopStop
  BY <1>7 DEF LoopStop
<1>8. CASE LoopReset
  BY <1>8 DEF LoopReset
<1>9. CASE LoopConnect
  BY <1>9 DEF LoopConnect
<1>10. CASE LoopIdle
  BY <1>10 DEF LoopIdle
<1>11. CASE LoopPop
  <2>1. input_queue_' # <<>> => input_connected_'
    BY <1>11, LoopPopFacts
  <2> QED BY <2>1, <1>11, LoopPopFacts
<1>12. CASE ConnectOk
  BY <1>12 DEF ConnectOk
<1>13. CASE ConnectFail
  BY <1>13 DEF ConnectFail, Interrupted
<1>14. CASE PipeTakes
  BY <1>14 DEF PipeTakes
<1>15. CASE WriteOk
  BY <1>15 DEF WriteOk
<1>16. CASE WriteFail
  BY <1>16 DEF WriteFail
<1>17. CASE Wake
  BY <1>17 DEF Wake
<1>18. CASE RetryTimeout
  BY <1>18 DEF RetryTimeout
<1>19. CASE ServiceStops \/ ServiceStarts
  BY <1>19 DEF ServiceStops, ServiceStarts
<1>20. CASE UNCHANGED vars
  BY <1>20 DEF vars
<1> QED
  BY <1>1, <1>2, <1>3, <1>4, <1>5, <1>6, <1>7, <1>8, <1>9, <1>10, <1>11, <1>12, <1>13, <1>14, <1>15, <1>16, <1>17, <1>18, <1>19, <1>20
     DEF Next, SetServiceAvailable, InputLoop

\* Inputs are accepted only while a connection made after the last request is in
\* use (SendInputMessage, SendTouchInput and SendPenInput against
\* SetServiceAvailable, Close and the reconnecting InputLoop); the queue, like the
\* packet being written, belongs to that connection.
THEOREM AcceptedIsForThisPipe == Spec => []ConnectionSound
<1>1. TypeOK /\ ControlInv /\ QueueBelongsToPipe => ConnectionSound
  BY DEF ControlInv, ConnectionSound, InterruptSound
<1> QED
  BY TypeCorrect, ControlInit, ControlStep, QueueInit, QueueStep, <1>1, PTL DEF Spec

----------------------------------------------------------------------------
(* Order and completeness of what the service receives.                    *)

\* Acceptance numbers rise from what was received over the packet being written
\* to the back of the queue.
QueueNumbered ==
  \A k \in DOMAIN input_queue_ : input_queue_[k].id \in 1 .. Len(accepted)
QueueRising ==
  \A k, m \in DOMAIN input_queue_ : k < m => input_queue_[k].id < input_queue_[m].id
PacketFirst ==
  pc = "writing" =>
    /\ packet.id \in 1 .. Len(accepted)
    /\ \A k \in DOMAIN input_queue_ : packet.id < input_queue_[k].id
ReceivedBefore ==
  \A r \in DOMAIN received :
    /\ received[r].id \in 1 .. Len(accepted)
    /\ \A k \in DOMAIN input_queue_ : received[r].id < input_queue_[k].id
    /\ pc = "writing" /\ ~sent => received[r].id < packet.id
OrderInv == QueueNumbered /\ QueueRising /\ PacketFirst /\ ReceivedBefore

DeliveryInv == OrderInv /\ NoCrossConnection /\ AtMostOnceInOrder

\* An accepted input that is not yet lost: received, being written or queued
\* before position n.
Alive(i, n) ==
  \/ i \in ReceivedIds
  \/ pc = "writing" /\ i = packet.id
  \/ \E k \in DOMAIN input_queue_ : k < n /\ input_queue_[k].id = i

\* The inputs of the connection in use are all alive, and those accepted before
\* a queued one are received, being written or queued in front of it.
AcceptedConns == \A i \in DOMAIN accepted : accepted[i] <= conns
QueueConns ==
  \A k \in DOMAIN input_queue_ : accepted[input_queue_[k].id] = input_queue_[k].conn
PacketNext ==
  pc = "writing" =>
    /\ accepted[packet.id] = packet.conn
    /\ sent => packet.id \in ReceivedIds
    /\ \A i \in DOMAIN accepted :
         i < packet.id /\ accepted[i] = packet.conn => i \in ReceivedIds
QueueNext ==
  \A k \in DOMAIN input_queue_ : \A i \in DOMAIN accepted :
    i < input_queue_[k].id /\ accepted[i] = input_queue_[k].conn => Alive(i, k)
ConnectionAlive ==
  input_connected_ =>
    \A i \in DOMAIN accepted : accepted[i] = conns => Alive(i, Len(input_queue_) + 1)
CompleteInv == AcceptedConns /\ QueueConns /\ PacketNext /\ QueueNext /\ ConnectionAlive

\* Every step but Send, LoopPop and PipeTakes leaves the histories alone and
\* drops the connection, keeps the queue, or opens a new connection.
Quiet ==
  /\ UNCHANGED <<accepted, received>>
  /\ pc' = "writing" => pc = "writing" /\ packet' = packet /\ (sent' <=> sent)
  /\ \/ input_queue_' = <<>> /\ ~input_connected_' /\ conns' = conns
        /\ (pc = "writing" /\ ~sent => pc' \in {"writing", "waitRetry", "top"})
     \/ /\ UNCHANGED <<input_queue_, conns>>
        /\ input_connected_' <=> input_connected_
        /\ pc = "writing" => pc' = "writing" \/ sent
     \/ /\ input_queue_ = <<>> /\ input_queue_' = <<>>
        /\ conns' = conns + 1 /\ ~input_connected_
        /\ pc # "writing" /\ pc' # "writing"

LEMMA StepKinds ==
  ASSUME TypeData, ControlInv, QueueBelongsToPipe, [Next]_vars
  PROVE  Send \/ LoopPop \/ PipeTakes \/ Quiet
<1> USE DEF TypeData, Locations, Waits, ControlInv, ThreadInv, QueueBelongsToPipe,
        AcceptingMeansLiveConnection, Quiet, shared, thread, service, history,
        EnterWait, DropConnection, EndWrite
<1>0. CASE EnableService
  <2>1. pc' = "writing" => pc = "writing"
    BY <1>0 DEF EnableService, StartInputThreadLocked
  <2>2. pc = "writing" => pc' = "writing"
    BY <1>0 DEF EnableService, StartInputThreadLocked
  <2> QED BY <1>0, <2>1, <2>2 DEF EnableService
<1>1. CASE DisableService
  BY <1>1 DEF DisableService
<1>2. CASE CloseBegin
  BY <1>2 DEF CloseBegin
<1>3. CASE CloseEnd
  BY <1>3 DEF CloseEnd
<1>4. CASE LoopStart
  BY <1>4 DEF LoopStart
<1>5. CASE LoopStop
  BY <1>5 DEF LoopStop
<1>6. CASE LoopReset
  BY <1>6 DEF LoopReset
<1>7. CASE LoopConnect
  BY <1>7 DEF LoopConnect
<1>8. CASE LoopIdle
  BY <1>8 DEF LoopIdle, Running
<1>9. CASE ConnectOk
  BY <1>9 DEF ConnectOk
<1>10. CASE ConnectFail
  BY <1>10 DEF ConnectFail
<1>11. CASE WriteOk
  BY <1>11 DEF WriteOk
<1>12. CASE WriteFail
  BY <1>12 DEF WriteFail
<1>13. CASE Wake
  BY <1>13 DEF Wake
<1>14. CASE RetryTimeout
  BY <1>14 DEF RetryTimeout
<1>15. CASE ServiceStops \/ ServiceStarts
  BY <1>15 DEF ServiceStops, ServiceStarts
<1>16. CASE UNCHANGED vars
  BY <1>16 DEF vars
<1> QED
  BY <1>0, <1>1, <1>2, <1>3, <1>4, <1>5, <1>6, <1>7, <1>8, <1>9, <1>10, <1>11, <1>12, <1>13, <1>14, <1>15, <1>16
     DEF Next, SetServiceAvailable, InputLoop

LEMMA DeliveryInit == Init => DeliveryInv
BY DEF Init, DeliveryInv, OrderInv, QueueNumbered, QueueRising, PacketFirst, ReceivedBefore,
       NoCrossConnection, AtMostOnceInOrder

LEMMA DeliveryStep ==
  ASSUME TypeData, ControlInv, QueueBelongsToPipe, DeliveryInv, [Next]_vars
  PROVE  DeliveryInv'
<1>0. /\ Len(accepted) \in Nat
      /\ \A k \in DOMAIN input_queue_ : input_queue_[k] \in Packet
      /\ \A r \in DOMAIN received : received[r] \in [id : Nat, conn : Nat, via : Nat]
      /\ packet \in Packet
  BY ElementOfSeq, LenProperties DEF TypeData
<1>1. CASE Send
  <2>1. NoCrossConnection' /\ AtMostOnceInOrder'
    BY <1>1, SendFacts DEF DeliveryInv, NoCrossConnection, AtMostOnceInOrder
  <2>2. OrderInv'
    <3>1. QueueNumbered'
      BY <1>0, <1>1, SendFacts
         DEF DeliveryInv, OrderInv, Packet, QueueNumbered
    <3>2. QueueRising'
      BY <1>0, <1>1, SendFacts
         DEF DeliveryInv, OrderInv, Packet, QueueRising, QueueNumbered
    <3>3. PacketFirst'
      BY <1>0, <1>1, SendFacts
         DEF DeliveryInv, OrderInv, Packet, PacketFirst, QueueNumbered, QueueRising
    <3>4. ReceivedBefore'
      BY <1>0, <1>1, SendFacts
         DEF DeliveryInv, OrderInv, Packet, ReceivedBefore, QueueNumbered, QueueRising, PacketFirst
    <3> QED BY <3>1, <3>2, <3>3, <3>4 DEF OrderInv
  <2> QED BY <2>1, <2>2 DEF DeliveryInv
<1>2. CASE LoopPop
  <2>1. NoCrossConnection' /\ AtMostOnceInOrder'
    BY <1>2, LoopPopFacts DEF DeliveryInv, NoCrossConnection, AtMostOnceInOrder
  <2>2. OrderInv'
    <3>1. QueueNumbered'
      BY <1>0, <1>2, LoopPopFacts
         DEF DeliveryInv, OrderInv, Packet, QueueNumbered
    <3>2. QueueRising'
      <4>1. ASSUME NEW k \in DOMAIN input_queue_', NEW m \in DOMAIN input_queue_', k < m
            PROVE  input_queue_'[k].id < input_queue_'[m].id
        <5>1. /\ k + 1 \in DOMAIN input_queue_ /\ m + 1 \in DOMAIN input_queue_
              /\ k + 1 < m + 1
          BY <4>1, <1>2, LoopPopFacts
        <5>2. input_queue_[k + 1].id < input_queue_[m + 1].id
          BY <5>1 DEF DeliveryInv, OrderInv, QueueRising
        <5> QED BY <5>2, <1>2, LoopPopFacts
      <4> QED BY <4>1 DEF QueueRising
    <3>3. PacketFirst'
      <4>1. ASSUME NEW k \in DOMAIN input_queue_' PROVE packet'.id < input_queue_'[k].id
        <5>1. /\ 1 \in DOMAIN input_queue_ /\ k + 1 \in DOMAIN input_queue_
              /\ 1 < k + 1
          BY <1>2, LoopPopFacts
        <5>2. input_queue_[1].id < input_queue_[k + 1].id
          BY <5>1 DEF DeliveryInv, OrderInv, QueueRising
        <5> QED BY <5>2, <1>2, LoopPopFacts
      <4>2. packet'.id \in 1 .. Len(accepted')
        BY <1>2, LoopPopFacts DEF DeliveryInv, OrderInv, QueueNumbered
      <4> QED BY <4>1, <4>2 DEF PacketFirst
    <3>4. ReceivedBefore'
      BY <1>0, <1>2, LoopPopFacts
         DEF DeliveryInv, OrderInv, Packet, ReceivedBefore, QueueNumbered, QueueRising, PacketFirst
    <3> QED BY <3>1, <3>2, <3>3, <3>4 DEF OrderInv
  <2> QED BY <2>1, <2>2 DEF DeliveryInv
<1>3. CASE PipeTakes
  <2>1. NoCrossConnection' /\ AtMostOnceInOrder'
    <3>1. NoCrossConnection'
      BY <1>3, PipeTakesFacts DEF DeliveryInv, NoCrossConnection, QueueBelongsToPipe
    <3>2. ASSUME NEW i \in DOMAIN received', NEW j \in DOMAIN received', i < j
          PROVE  received'[i].id < received'[j].id
      <4>1. i \in DOMAIN received
        BY <3>2, <1>3, PipeTakesFacts
      <4>2. CASE j \in DOMAIN received
        BY <3>2, <4>1, <4>2, <1>3, PipeTakesFacts DEF DeliveryInv, AtMostOnceInOrder
      <4>3. CASE j = Len(received) + 1
        BY <4>1, <4>3, <1>3, PipeTakesFacts DEF DeliveryInv, OrderInv, ReceivedBefore
      <4> QED BY <4>2, <4>3, <1>3, PipeTakesFacts
    <3> QED BY <3>1, <3>2 DEF AtMostOnceInOrder
  <2>2. OrderInv'
    <3>1. QueueNumbered'
      BY <1>0, <1>3, PipeTakesFacts
         DEF DeliveryInv, OrderInv, Packet, QueueNumbered
    <3>2. QueueRising'
      BY <1>0, <1>3, PipeTakesFacts
         DEF DeliveryInv, OrderInv, Packet, QueueRising, QueueNumbered
    <3>3. PacketFirst'
      BY <1>0, <1>3, PipeTakesFacts
         DEF DeliveryInv, OrderInv, Packet, PacketFirst, QueueNumbered, QueueRising
    <3>4. ReceivedBefore'
      <4>1. ASSUME NEW r \in DOMAIN received'
            PROVE  /\ received'[r].id \in 1 .. Len(accepted')
                   /\ \A k \in DOMAIN input_queue_' : received'[r].id < input_queue_'[k].id
        <5>1. CASE r \in DOMAIN received
          BY <5>1, <1>3, PipeTakesFacts DEF DeliveryInv, OrderInv, ReceivedBefore
        <5>2. CASE r = Len(received) + 1
          BY <5>2, <1>3, PipeTakesFacts DEF DeliveryInv, OrderInv, PacketFirst
        <5> QED BY <5>1, <5>2, <1>3, PipeTakesFacts
      <4> QED BY <4>1, <1>3, PipeTakesFacts DEF ReceivedBefore
    <3> QED BY <3>1, <3>2, <3>3, <3>4 DEF OrderInv
  <2> QED BY <2>1, <2>2 DEF DeliveryInv
<1>4. CASE Quiet
  <2>1. NoCrossConnection' /\ AtMostOnceInOrder'
    BY <1>4 DEF Quiet, DeliveryInv, NoCrossConnection, AtMostOnceInOrder
  <2>2. OrderInv'
    BY <1>4 DEF Quiet, DeliveryInv, OrderInv, QueueNumbered, QueueRising, PacketFirst,
                ReceivedBefore
  <2> QED BY <2>1, <2>2 DEF DeliveryInv
<1> QED BY <1>1, <1>2, <1>3, <1>4, StepKinds

LEMMA CompleteInit == Init => CompleteInv /\ NoHoles
BY DEF Init, CompleteInv, AcceptedConns, QueueConns, PacketNext, QueueNext,
       ConnectionAlive, NoHoles

LEMMA CompleteStep ==
  ASSUME TypeData, ControlInv, QueueBelongsToPipe, DeliveryInv, CompleteInv, NoHoles,
         [Next]_vars
  PROVE  CompleteInv' /\ NoHoles'
<1>0. /\ Len(accepted) \in Nat /\ DOMAIN accepted = 1 .. Len(accepted)
      /\ Len(input_queue_) \in Nat /\ DOMAIN input_queue_ = 1 .. Len(input_queue_)
      /\ conns \in Nat
      /\ \A k \in DOMAIN input_queue_ : input_queue_[k] \in Packet
      /\ \A i \in DOMAIN accepted : accepted[i] \in Nat
  BY ElementOfSeq, LenProperties DEF TypeData
<1>1. CASE Send
  <2>1. ReceivedIds' = ReceivedIds
    BY <1>1, SendFacts DEF ReceivedIds
  <2>2. NoHoles'
    <3>1. \A j \in ReceivedIds : j \in DOMAIN accepted
      BY <1>0 DEF DeliveryInv, OrderInv, ReceivedBefore, ReceivedIds
    <3>2. ASSUME NEW i \in DOMAIN accepted', NEW j \in DOMAIN accepted', i < j,
                 accepted'[i] = accepted'[j], j \in ReceivedIds
          PROVE  i \in ReceivedIds
      <4>1. j \in DOMAIN accepted /\ i \in DOMAIN accepted
        BY <3>1, <3>2, <1>1, SendFacts
      <4> QED BY <3>2, <4>1, <1>1, SendFacts DEF NoHoles
    <3> QED BY <2>1, <3>2 DEF NoHoles
  <2>3. CompleteInv'
    <3>1. AcceptedConns'
      BY <1>0, <1>1, <2>1, SendFacts
         DEF CompleteInv, DeliveryInv, OrderInv, AcceptedConns, QueueNumbered, Packet, Alive
    <3>2. QueueConns'
      BY <1>0, <1>1, <2>1, SendFacts
         DEF CompleteInv, DeliveryInv, OrderInv, QueueConns, QueueNumbered, Packet, Alive
    <3>3. PacketNext'
      <4> SUFFICES ASSUME pc = "writing" PROVE PacketNext'
        BY <1>1, SendFacts DEF PacketNext
      <4>1. packet.id \in DOMAIN accepted
        BY <1>0, <1>1, SendFacts DEF DeliveryInv, OrderInv, PacketFirst
      <4>2. \A i \in DOMAIN accepted' : i < packet.id => i \in DOMAIN accepted
        BY <4>1, <1>1, SendFacts
      <4> QED BY <4>1, <4>2, <1>1, <2>1, SendFacts DEF CompleteInv, PacketNext
    <3>4. QueueNext'
      <4> SUFFICES ASSUME NEW k \in DOMAIN input_queue_', NEW i \in DOMAIN accepted',
                          i < input_queue_'[k].id, accepted'[i] = input_queue_'[k].conn
                   PROVE  Alive(i, k)'
        BY DEF QueueNext
      <4>1. k \in DOMAIN input_queue_ \/ k = Len(input_queue_) + 1
        BY <1>1, SendFacts
      <4>2. i \in DOMAIN accepted
        BY <4>1, <1>0, <1>1, SendFacts DEF DeliveryInv, OrderInv, QueueNumbered
      <4>3. Alive(i, k)
        <5>1. CASE k \in DOMAIN input_queue_
          BY <5>1, <4>2, <1>1, SendFacts DEF CompleteInv, QueueNext
        <5>2. CASE k = Len(input_queue_) + 1
          BY <5>2, <4>2, <1>1, SendFacts DEF CompleteInv, ConnectionAlive
        <5> QED BY <4>1, <5>1, <5>2
      <4> QED BY <4>3, <1>1, <2>1, SendFacts DEF Alive
    <3>5. ConnectionAlive'
      BY <1>0, <1>1, <2>1, SendFacts
         DEF CompleteInv, DeliveryInv, OrderInv, ConnectionAlive, QueueNumbered, Packet, Alive
    <3> QED BY <3>1, <3>2, <3>3, <3>4, <3>5 DEF CompleteInv
  <2> QED BY <2>2, <2>3
<1>2. CASE LoopPop
  <2>1. ReceivedIds' = ReceivedIds
    BY <1>2, LoopPopFacts DEF ReceivedIds
  <2>2. NoHoles'
    BY <1>2, <2>1, LoopPopFacts DEF NoHoles
  <2>3. CompleteInv'
    <3>6. ASSUME NEW i, NEW n \in Nat, Alive(i, n + 1)
          PROVE  \/ i \in ReceivedIds' \/ (pc' = "writing" /\ i = packet'.id)
                 \/ \E k \in DOMAIN input_queue_' : k < n /\ input_queue_'[k].id = i
      <4>1. CASE i \in ReceivedIds
        BY <4>1, <2>1
      <4>2. CASE \E k \in DOMAIN input_queue_ : k < n + 1 /\ input_queue_[k].id = i
        <5>1. PICK k \in DOMAIN input_queue_ : k < n + 1 /\ input_queue_[k].id = i
          BY <4>2
        <5>2. CASE k = 1
          BY <5>1, <5>2, <1>2, LoopPopFacts
        <5>3. CASE k # 1
          <6>1. k - 1 \in DOMAIN input_queue_' /\ k - 1 < n /\ (k - 1) + 1 = k
            BY <5>1, <5>3, <1>2, LoopPopFacts
          <6> QED BY <5>1, <6>1, <1>2, LoopPopFacts
        <5> QED BY <5>2, <5>3
      <4> QED BY <3>6, <4>1, <4>2, <1>2, LoopPopFacts DEF Alive
    <3>1. AcceptedConns'
      BY <1>0, <1>2, <2>1, LoopPopFacts
         DEF CompleteInv, DeliveryInv, OrderInv, AcceptedConns, QueueNumbered, Packet, Alive
    <3>2. QueueConns'
      BY <1>0, <1>2, <2>1, LoopPopFacts
         DEF CompleteInv, DeliveryInv, OrderInv, QueueConns, QueueNumbered, Packet, Alive
    <3>3. PacketNext'
      <4>1. \A i : ~Alive(i, 1) \/ i \in ReceivedIds
        BY <1>0, <1>2, LoopPopFacts DEF Alive
      <4>2. accepted[packet'.id] = packet'.conn
        BY <1>2, LoopPopFacts DEF CompleteInv, QueueConns
      <4>3. \A i \in DOMAIN accepted :
              i < packet'.id /\ accepted[i] = packet'.conn => i \in ReceivedIds
        BY <4>1, <1>2, LoopPopFacts DEF CompleteInv, QueueNext
      <4> QED BY <4>2, <4>3, <1>2, <2>1, LoopPopFacts DEF PacketNext
    <3>4. QueueNext'
      <4> SUFFICES ASSUME NEW k \in DOMAIN input_queue_', NEW i \in DOMAIN accepted',
                          i < input_queue_'[k].id, accepted'[i] = input_queue_'[k].conn
                   PROVE  Alive(i, k)'
        BY DEF QueueNext
      <4>1. k \in Nat /\ k + 1 \in DOMAIN input_queue_ /\ Alive(i, k + 1)
        BY <1>2, LoopPopFacts DEF CompleteInv, QueueNext
      <4> QED BY <4>1, <3>6 DEF Alive
    <3>5. ConnectionAlive'
      <4> SUFFICES ASSUME input_connected_', NEW i \in DOMAIN accepted', accepted'[i] = conns'
                   PROVE  Alive(i, Len(input_queue_) + 1)'
        BY DEF ConnectionAlive
      <4>1. Alive(i, Len(input_queue_) + 1)
        BY <1>2, LoopPopFacts DEF CompleteInv, ConnectionAlive
      <4>2. Len(input_queue_') = Len(input_queue_) - 1
        BY <1>2, PopFacts DEF LoopPop, TypeData
      <4>3. \/ i \in ReceivedIds' \/ (pc' = "writing" /\ i = packet'.id)
            \/ \E k \in DOMAIN input_queue_' : k < Len(input_queue_) /\ input_queue_'[k].id = i
        BY <4>1, <3>6, <1>0
      <4>4. Len(input_queue_') + 1 = Len(input_queue_)
        BY <4>2, <1>0
      <4> QED BY <4>3, <4>4 DEF Alive
    <3> QED BY <3>1, <3>2, <3>3, <3>4, <3>5 DEF CompleteInv
  <2> QED BY <2>2, <2>3
<1>3. CASE PipeTakes
  <2>1. ReceivedIds' = ReceivedIds \cup {packet.id}
    BY <1>3, PipeTakesFacts DEF ReceivedIds
  <2>2. NoHoles'
    BY <1>3, <2>1, PipeTakesFacts DEF NoHoles, CompleteInv, PacketNext
  <2>3. CompleteInv'
    <3>1. AcceptedConns'
      BY <1>0, <1>3, <2>1, PipeTakesFacts
         DEF CompleteInv, DeliveryInv, OrderInv, AcceptedConns, QueueNumbered, Packet, Alive
    <3>2. QueueConns'
      BY <1>0, <1>3, <2>1, PipeTakesFacts
         DEF CompleteInv, DeliveryInv, OrderInv, QueueConns, QueueNumbered, Packet, Alive
    <3>3. PacketNext'
      BY <1>0, <1>3, <2>1, PipeTakesFacts
         DEF CompleteInv, DeliveryInv, OrderInv, PacketNext, QueueNumbered, Packet, Alive
    <3>4. QueueNext'
      BY <1>0, <1>3, <2>1, PipeTakesFacts
         DEF CompleteInv, DeliveryInv, OrderInv, QueueNext, QueueNumbered, Packet, Alive
    <3>5. ConnectionAlive'
      BY <1>0, <1>3, <2>1, PipeTakesFacts
         DEF CompleteInv, DeliveryInv, OrderInv, ConnectionAlive, QueueNumbered, Packet, Alive
    <3> QED BY <3>1, <3>2, <3>3, <3>4, <3>5 DEF CompleteInv
  <2> QED BY <2>2, <2>3
<1>4. CASE Quiet
  <2>1. ReceivedIds' = ReceivedIds
    BY <1>4 DEF ReceivedIds, Quiet
  <2>2. NoHoles'
    BY <1>4, <2>1 DEF NoHoles, Quiet
  <2>3. CompleteInv'
    BY <1>0, <1>4, <2>1 DEF CompleteInv, AcceptedConns, QueueConns, PacketNext,
                            QueueNext, ConnectionAlive, Alive, Quiet
  <2> QED BY <2>2, <2>3
<1> QED BY <1>1, <1>2, <1>3, <1>4, StepKinds

\* The inductive invariant of the client.
IInv == /\ TypeOK /\ ControlInv /\ QueueBelongsToPipe
        /\ DeliveryInv /\ CompleteInv /\ NoHoles

LEMMA Inductive == Spec => []IInv
<1>1. Init => IInv
  BY TypeInit, ControlInit, QueueInit, DeliveryInit, CompleteInit DEF IInv
<1>2. IInv /\ [Next]_vars => IInv'
  <2> SUFFICES ASSUME IInv, [Next]_vars PROVE IInv'
    OBVIOUS
  <2>1. TypeOK' /\ ControlInv' /\ QueueBelongsToPipe'
    BY FlagsStep, DataStep, ControlStep, QueueStep DEF IInv, TypeOK
  <2>2. DeliveryInv'
    BY DeliveryStep DEF IInv, TypeOK
  <2>3. CompleteInv' /\ NoHoles'
    BY CompleteStep DEF IInv, TypeOK
  <2> QED BY <2>1, <2>2, <2>3 DEF IInv
<1> QED BY <1>1, <1>2, PTL DEF Spec

\* Whatever is cancelled, times out, crashes or reconnects: over each connection
\* the service receives a prefix of the inputs accepted for it, in order, none of
\* them twice, and no input of an earlier connection (comment at line 532).
THEOREM DeliveryCorrect == Spec => []Delivery
<1>1. IInv => Delivery
  BY DEF IInv, DeliveryInv, Delivery
<1> QED BY Inductive, <1>1, PTL

----------------------------------------------------------------------------
(* Refinement.                                                             *)

Pending   == UnsentIds \cup QueuedIds
Delivered == [i \in DOMAIN received |-> received[i].id]

LEMMA SessionStep ==
  ASSUME IInv, [Next]_vars
  PROVE  [Session!SessionNext]_(Session!sessionVars)
<1>0. /\ TypeData /\ ControlInv /\ QueueBelongsToPipe /\ DeliveryInv
      /\ packet \in Packet
      /\ \A k \in DOMAIN input_queue_ : input_queue_[k] \in Packet
  BY ElementOfSeq DEF IInv, TypeOK, TypeData
<1>1. CASE Send
  <2>1. UnsentIds' = UnsentIds
    BY <1>0, <1>1, SendFacts DEF UnsentIds
  <2>2. QueuedIds' = QueuedIds \cup {Len(accepted) + 1}
    BY <1>0, <1>1, SendFacts DEF QueuedIds
  <2>3. Session!Accept
    BY <2>1, <2>2, <1>0, <1>1, SendFacts DEF Session!Accept
  <2> QED BY <2>3 DEF Session!SessionNext
<1>2. CASE LoopPop
  <2>1. UnsentIds = {} /\ UnsentIds' = {input_queue_[1].id}
    BY <1>0, <1>2, LoopPopFacts DEF UnsentIds
  <2>2. QueuedIds = {input_queue_[1].id} \cup QueuedIds'
    <3>1. ASSUME NEW k \in DOMAIN input_queue_, k # 1
          PROVE  k - 1 \in DOMAIN input_queue_' /\ input_queue_'[k - 1] = input_queue_[k]
      <4>1. k - 1 \in DOMAIN input_queue_' /\ (k - 1) + 1 = k
        BY <3>1, <1>0, <1>2, LoopPopFacts
      <4> QED BY <4>1, <1>0, <1>2, LoopPopFacts
    <3>2. QueuedIds \subseteq {input_queue_[1].id} \cup QueuedIds'
      BY <3>1 DEF QueuedIds
    <3>3. {input_queue_[1].id} \cup QueuedIds' \subseteq QueuedIds
      BY <1>0, <1>2, LoopPopFacts DEF QueuedIds
    <3> QED BY <3>2, <3>3
  <2>3. UNCHANGED <<input_connected_, accepted, received>>
    BY <1>2 DEF LoopPop, history
  <2>4. UNCHANGED Session!sessionVars
    BY <2>1, <2>2, <2>3 DEF Session!sessionVars
  <2> QED BY <2>4
<1>3. CASE PipeTakes
  <2>1. UnsentIds = {packet.id} /\ UnsentIds' = {} /\ QueuedIds' = QueuedIds
    BY <1>0, <1>3, PipeTakesFacts DEF UnsentIds, QueuedIds
  <2>2. \A n \in QueuedIds : packet.id < n
    BY <1>0, <1>3, PipeTakesFacts DEF QueuedIds, DeliveryInv, OrderInv, PacketFirst
  <2>3. Delivered' = Append(Delivered, packet.id)
    <3>1. Delivered \in Seq(Nat) /\ Len(Delivered) = Len(received)
      <4>1. /\ DOMAIN received = 1 .. Len(received) /\ Len(received) \in Nat
            /\ \A i \in DOMAIN received : received[i].id \in Nat
        <5>1. received \in Seq([id : Nat, conn : Nat, via : Nat])
          BY <1>0 DEF TypeData
        <5>2. /\ DOMAIN received = 1 .. Len(received) /\ Len(received) \in Nat
              /\ received \in [1 .. Len(received) -> [id : Nat, conn : Nat, via : Nat]]
          BY <5>1, LenProperties, Zenon
        <5> QED BY <5>2
      <4>2. Delivered \in [1 .. Len(received) -> Nat]
        BY <4>1 DEF Delivered
      <4> QED BY <4>1, <4>2, SeqDef, LenProperties
    <3> QED BY <3>1, <1>0, <1>3, PipeTakesFacts, AppendProperties DEF Delivered
  <2>4. UNCHANGED <<input_connected_, accepted>>
    BY <1>3 DEF PipeTakes, shared
  <2>5. /\ packet.id \in Pending /\ Pending' = Pending \ {packet.id}
        /\ \A m \in Pending : packet.id <= m
    BY <1>0, <2>1, <2>2 DEF Pending, Packet
  <2>6. Session!Deliver
    BY <2>3, <2>4, <2>5 DEF Session!Deliver, Session!IsOldest, Pending, Delivered
  <2> QED BY <2>6 DEF Session!SessionNext
<1>4. CASE Quiet
  <2>0. /\ UNCHANGED <<accepted, received>>
        /\ input_connected_ \in BOOLEAN /\ input_connected_' \in BOOLEAN
    BY <1>4, FlagsStep DEF Quiet, IInv, TypeOK, TypeFlags
  <2>1. CASE input_queue_' = <<>> /\ ~input_connected_'
    <3>1. QueuedIds' = {}
      BY <2>1 DEF QueuedIds
    <3>2. UnsentIds' = {} \/ (UnsentIds' = {packet.id} /\ UnsentIds = {packet.id})
      BY <1>4 DEF Quiet, UnsentIds
    <3>3. \A n \in Pending : pc = "writing" => packet.id <= n
      BY <1>0 DEF Pending, UnsentIds, QueuedIds, Packet, DeliveryInv, OrderInv, PacketFirst
    <3>4. \/ Pending' = {}
          \/ /\ packet.id \in Pending /\ Pending' = {packet.id}
             /\ \A m \in Pending : packet.id <= m
      BY <3>1, <3>2, <3>3 DEF Pending, UnsentIds
    <3>5. input_connected_' = FALSE
      BY <2>0, <2>1, Zenon
    <3>6. Session!End
      BY <2>0, <3>4, <3>5 DEF Session!End, Session!IsOldest, Pending
    <3> QED BY <3>6 DEF Session!SessionNext
  <2>2. CASE /\ UNCHANGED input_queue_ /\ (input_connected_' <=> input_connected_)
             /\ pc = "writing" => pc' = "writing" \/ sent
    <3>1. UNCHANGED input_connected_
      BY <2>0, <2>2, Zenon
    <3>2. UNCHANGED <<UnsentIds, QueuedIds>>
      BY <1>4, <2>2 DEF Quiet, UnsentIds, QueuedIds
    <3> QED BY <2>0, <3>1, <3>2 DEF Session!sessionVars
  <2>3. CASE /\ input_queue_ = <<>> /\ input_queue_' = <<>> /\ ~input_connected_
             /\ pc # "writing" /\ pc' # "writing"
    <3>1. Pending = {} /\ Pending' = {}
      BY <2>3 DEF Pending, UnsentIds, QueuedIds
    <3>2. CASE input_connected_'
      <4>1. input_connected_' = TRUE
        BY <2>0, <3>2, Zenon
      <4>2. Session!Open
        BY <2>0, <2>3, <3>1, <4>1 DEF Session!Open, Pending
      <4> QED BY <4>2 DEF Session!SessionNext
    <3>3. CASE ~input_connected_'
      <4>1. UNCHANGED input_connected_
        BY <2>0, <2>3, <3>3, Zenon
      <4> QED BY <2>0, <3>1, <4>1 DEF Session!sessionVars, Pending
    <3> QED BY <3>2, <3>3
  <2> QED BY <1>4, <2>1, <2>2, <2>3 DEF Quiet
<1> QED BY <1>0, <1>1, <1>2, <1>3, <1>4, StepKinds

\* The client implements InputSession: whatever threads, locks, timeouts and a
\* failing service do, callers see a FIFO that delivers at most once and loses
\* inputs only by ending the session.
THEOREM ClientImplementsSession == Spec => ImplementsSession
<1>1. Init => Session!SessionInit
  <2> SUFFICES ASSUME Init PROVE Session!SessionInit
    OBVIOUS
  <2>1. UnsentIds \cup QueuedIds = {}
    BY DEF Init, UnsentIds, QueuedIds
  <2>2. Delivered = <<>>
    BY DEF Init, Delivered
  <2>3. input_connected_ = FALSE /\ Len(accepted) = 0
    BY DEF Init
  <2> QED BY <2>1, <2>2, <2>3 DEF Session!SessionInit, Delivered
<1>2. IInv /\ [Next]_vars => [Session!SessionNext]_(Session!sessionVars)
  BY SessionStep
<1> QED BY <1>1, <1>2, Inductive, PTL DEF Spec, ImplementsSession, Session!SessionSpec

----------------------------------------------------------------------------
(***************************************************************************)
(* Part two: WindowsVirtualDisplay.                                        *)
(*                                                                         *)
(* DisplaysSound is not inductive as it stands: it needs that Windows'     *)
(* list names a display once, that what is active or in the database is on *)
(* that list (ScreensOK), and that Windows lists what displays_ does as    *)
(* long as nothing drifted (ListsOK).  DisplayInv adds both.  That a       *)
(* display that arrives finds a free name (FreeNameFacts), and that a poll *)
(* that ends early lists the new display (PollLists), is a matter of       *)
(* counting.                                                               *)
(***************************************************************************)

\* A set of numbers that is not empty has a least one.
LEMMA LeastExists ==
  ASSUME NEW S \in SUBSET Nat, S # {}
  PROVE  \E x \in S : \A y \in S : x <= y
<1> DEFINE R == {ss \in Nat \X Nat : ss[1] < ss[2]}
<1>1. IsWellFoundedOn(R, Nat)
  BY NatLessThanWellFounded, Zenon DEF OpToRel
<1>2. PICK x \in S : \A y \in S : <<y, x>> \notin R
  <2> HIDE DEF R
  <2> QED BY <1>1, WFMin, Zenon
<1>3. ASSUME NEW y \in S PROVE x <= y
  <2>1. ~(<<y, x>> \in Nat \X Nat /\ <<y, x>>[1] < <<y, x>>[2])
    BY <1>2, Zenon
  <2> QED BY <2>1
<1> QED BY <1>3, Zenon

\* What is left of a sequence without its i-th element.
LEMMA RemoveAtFacts ==
  ASSUME NEW S, NEW s \in Seq(S), NEW i \in DOMAIN s
  PROVE  /\ RemoveAt(s, i) \in Seq(S)
         /\ Len(RemoveAt(s, i)) = Len(s) - 1
         /\ \A j \in 1 .. Len(s) - 1 : RemoveAt(s, i)[j] = IF j < i THEN s[j] ELSE s[j + 1]
<1>1. Len(s) \in Nat /\ DOMAIN s = 1 .. Len(s) /\ i \in 1 .. Len(s)
      /\ \A j \in 1 .. Len(s) : s[j] \in S
  BY LenProperties, ElementOfSeq
<1> DEFINE u == SubSeq(s, 1, i - 1)
           v == SubSeq(s, i + 1, Len(s))
<1>2. u \in Seq(S) /\ Len(u) = i - 1 /\ \A j \in 1 .. i - 1 : u[j] = s[j]
  <2>1. \A j \in 1 .. i - 1 : s[j] \in S
    BY <1>1
  <2>2. /\ u \in Seq(S)
        /\ Len(u) = IF 1 <= i - 1 THEN (i - 1) - 1 + 1 ELSE 0
        /\ \A j \in 1 .. (i - 1) - 1 + 1 : u[j] = s[1 + j - 1]
    BY <1>1, <2>1, SubSeqProperties
  <2> HIDE DEF u
  <2> QED BY <1>1, <2>2
<1>3. v \in Seq(S) /\ Len(v) = Len(s) - i /\ \A j \in 1 .. Len(s) - i : v[j] = s[i + j]
  <2>1. \A j \in i + 1 .. Len(s) : s[j] \in S
    BY <1>1
  <2>2. /\ v \in Seq(S)
        /\ Len(v) = IF i + 1 <= Len(s) THEN Len(s) - (i + 1) + 1 ELSE 0
        /\ \A j \in 1 .. Len(s) - (i + 1) + 1 : v[j] = s[(i + 1) + j - 1]
    BY <1>1, <2>1, SubSeqProperties
  <2> HIDE DEF v
  <2>3. Len(v) = Len(s) - i
    BY <1>1, <2>2
  <2>4. ASSUME NEW j \in 1 .. Len(s) - i PROVE v[j] = s[i + j]
    <3>1. j \in 1 .. Len(s) - (i + 1) + 1 /\ (i + 1) + j - 1 = i + j
      BY <1>1
    <3> QED BY <2>2, <3>1
  <2> QED BY <2>2, <2>3, <2>4
<1>4. RemoveAt(s, i) = u \o v
  BY DEF RemoveAt
<1> HIDE DEF u, v
<1>5. /\ u \o v \in Seq(S)
      /\ Len(u \o v) = Len(u) + Len(v)
      /\ \A j \in 1 .. Len(u) + Len(v) : (u \o v)[j] = IF j <= Len(u) THEN u[j] ELSE v[j - Len(u)]
  BY <1>2, <1>3, ConcatProperties
<1>6. Len(u) + Len(v) = Len(s) - 1
  BY <1>1, <1>2, <1>3
<1>7. ASSUME NEW j \in 1 .. Len(s) - 1 PROVE (u \o v)[j] = IF j < i THEN s[j] ELSE s[j + 1]
  <2>1. (u \o v)[j] = IF j <= Len(u) THEN u[j] ELSE v[j - Len(u)]
    BY <1>5, <1>6
  <2>2. CASE j < i
    BY <1>1, <1>2, <2>1, <2>2
  <2>3. CASE ~(j < i)
    <3>1. ~(j <= Len(u)) /\ j - Len(u) = j - (i - 1) /\ j - (i - 1) \in 1 .. Len(s) - i
          /\ i + (j - (i - 1)) = j + 1
      BY <1>1, <1>2, <2>3
    <3> QED BY <1>3, <2>1, <2>3, <3>1
  <2> QED BY <2>2, <2>3
<1> QED BY <1>4, <1>5, <1>6, <1>7

\* Its elements are those at the other places.
LEMMA RemoveAtElements ==
  ASSUME NEW S, NEW s \in Seq(S), NEW i \in DOMAIN s
  PROVE  /\ \A j \in DOMAIN RemoveAt(s, i) : \E k \in DOMAIN s : k # i /\ RemoveAt(s, i)[j] = s[k]
         /\ \A k \in DOMAIN s : k # i => \E j \in DOMAIN RemoveAt(s, i) : RemoveAt(s, i)[j] = s[k]
         /\ \A j, l \in DOMAIN RemoveAt(s, i) : j # l =>
              \E k, m \in DOMAIN s : k # m /\ RemoveAt(s, i)[j] = s[k] /\ RemoveAt(s, i)[l] = s[m]
<1> DEFINE r == RemoveAt(s, i)
<1>1. /\ r \in Seq(S) /\ Len(r) = Len(s) - 1
      /\ \A j \in 1 .. Len(s) - 1 : r[j] = IF j < i THEN s[j] ELSE s[j + 1]
  BY RemoveAtFacts
<1> HIDE DEF r
<1>2. Len(s) \in Nat /\ DOMAIN s = 1 .. Len(s) /\ i \in 1 .. Len(s) /\ DOMAIN r = 1 .. Len(s) - 1
  BY <1>1, LenProperties
<1>3. ASSUME NEW j \in DOMAIN r PROVE \E k \in DOMAIN s : k # i /\ r[j] = s[k]
  <2>1. CASE j < i
    BY <1>1, <1>2, <2>1
  <2>2. CASE ~(j < i)
    <3>1. j + 1 \in DOMAIN s /\ j + 1 # i /\ r[j] = s[j + 1]
      BY <1>1, <1>2, <2>2
    <3> QED BY <3>1
  <2> QED BY <2>1, <2>2
<1>4. ASSUME NEW k \in DOMAIN s, k # i PROVE \E j \in DOMAIN r : r[j] = s[k]
  <2>1. CASE k < i
    <3>1. k \in DOMAIN r /\ r[k] = s[k]
      BY <1>1, <1>2, <2>1
    <3> QED BY <3>1
  <2>2. CASE ~(k < i)
    <3>1. k - 1 \in DOMAIN r /\ ~(k - 1 < i) /\ k - 1 + 1 = k
      BY <1>2, <1>4, <2>2
    <3>2. r[k - 1] = s[k]
      BY <1>1, <1>2, <3>1
    <3> QED BY <3>1, <3>2
  <2> QED BY <2>1, <2>2
<1>5. ASSUME NEW j \in DOMAIN r, NEW l \in DOMAIN r, j # l
      PROVE  \E k, m \in DOMAIN s : k # m /\ r[j] = s[k] /\ r[l] = s[m]
  <2> DEFINE at(x) == IF x < i THEN x ELSE x + 1
  <2>1. at(j) \in DOMAIN s /\ at(l) \in DOMAIN s /\ at(j) # at(l)
    BY <1>2, <1>5
  <2>2. r[j] = s[at(j)] /\ r[l] = s[at(l)]
    BY <1>1, <1>2
  <2> QED BY <2>1, <2>2
<1> QED BY <1>3, <1>4, <1>5 DEF r

\* The elements of a sequence with one more.
LEMMA AppendElements ==
  ASSUME NEW S, NEW s \in Seq(S), NEW e \in S
  PROVE  /\ Append(s, e) \in Seq(S) /\ Len(Append(s, e)) = Len(s) + 1
         /\ DOMAIN s = 1 .. Len(s) /\ Len(s) \in Nat
         /\ DOMAIN Append(s, e) = 1 .. Len(s) + 1
         /\ \A i \in DOMAIN s : i \in DOMAIN Append(s, e) /\ i # Len(s) + 1 /\ Append(s, e)[i] = s[i]
         /\ Append(s, e)[Len(s) + 1] = e
         /\ \A i \in DOMAIN Append(s, e) : i \in DOMAIN s \/ i = Len(s) + 1
BY AppendProperties, LenProperties

----------------------------------------------------------------------------
(* Displays, names and configurations.                                     *)

LEMMA DisplaysFinite ==
  /\ IsFiniteSet(Displays) /\ Cardinality(Displays) \in Nat
<1>1. IsFiniteSet({TRUE}) /\ IsFiniteSet({FALSE})
  BY FS_Singleton
<1>2. IsFiniteSet({TRUE} \X VirtualTargets) /\ IsFiniteSet({FALSE} \X PhysicalTargets)
  BY <1>1, FS_Product, TargetsAssumption
<1>3. IsFiniteSet(Displays)
  BY <1>2, FS_Union DEF Displays
<1> QED BY <1>3, FS_CardinalityType

\* A display can be told from its uid.
HasUid(x, n) == \/ n < 1024 /\ x = <<TRUE, n + 256>>
                \/ ~(n < 1024) /\ x = <<FALSE, n - 1024>>

LEMMA DisplayOfUid ==
  ASSUME NEW x \in Displays
  PROVE  HasUid(x, Uid(x))
<1> DEFINE yes == TRUE
           no == FALSE
<1>1. CASE x \in {yes} \X VirtualTargets
  <2>1. PICK t \in VirtualTargets : x = <<yes, t>>
    <3> HIDE DEF yes
    <3> QED BY <1>1
  <2>2. t \in 256 .. 271
    BY TargetsAssumption
  <2>3. Uid(x) = t - 256
    <3>1. x = <<TRUE, t>>
      BY <2>1
    <3> QED BY <3>1, Zenon DEF Uid
  <2>4. t - 256 < 1024 /\ (t - 256) + 256 = t
    BY <2>2
  <2>5. Uid(x) < 1024 /\ Uid(x) + 256 = t
    BY <2>3, <2>4
  <2> QED BY <2>1, <2>5 DEF HasUid
<1>2. CASE x \in {no} \X PhysicalTargets
  <2>1. PICK t \in PhysicalTargets : x = <<no, t>>
    <3> HIDE DEF no
    <3> QED BY <1>2
  <2>2. t \in 0 .. 255
    BY TargetsAssumption
  <2> DEFINE u == t + 1024
  <2>3. Uid(x) = u
    <3>1. x = <<FALSE, t>>
      BY <2>1
    <3> QED BY <3>1, Zenon DEF Uid
  <2>4. ~(u < 1024) /\ u - 1024 = t
    BY <2>2
  <2> HIDE DEF u
  <2>5. ~(Uid(x) < 1024) /\ Uid(x) - 1024 = t
    BY <2>3, <2>4
  <2> QED BY <2>1, <2>5 DEF HasUid
<1> QED BY <1>1, <1>2, Zenon DEF Displays

\* Two displays never have the same uid.
LEMMA UidInjective ==
  ASSUME NEW d \in Displays, NEW e \in Displays, Uid(d) = Uid(e)
  PROVE  d = e
<1>1. HasUid(d, Uid(d)) /\ HasUid(e, Uid(d))
  BY DisplayOfUid, Zenon
<1>2. ASSUME NEW n, HasUid(d, n), HasUid(e, n) PROVE d = e
  <2>1. CASE n < 1024
    BY <1>2, <2>1, ZenonT(40) DEF HasUid
  <2>2. CASE ~(n < 1024)
    BY <1>2, <2>2, ZenonT(40) DEF HasUid
  <2> QED BY <2>1, <2>2
<1> QED BY <1>1, <1>2, Zenon

\* A configuration is a function from displays to modes.
LEMMA ConfigForm ==
  ASSUME NEW c
  PROVE  c \in Configs <=> DOMAIN c \subseteq Displays /\ c \in [DOMAIN c -> Modes]
BY Zenon DEF Configs

LEMMA OnlyFacts ==
  ASSUME NEW c \in Configs, NEW S
  PROVE  /\ Only(c, S) \in Configs /\ DOMAIN Only(c, S) = DOMAIN c \cap S
         /\ \A d \in DOMAIN c \cap S : Only(c, S)[d] = c[d]
<1>1. DOMAIN c \subseteq Displays /\ c \in [DOMAIN c -> Modes]
  BY ConfigForm, Zenon
<1>2. DOMAIN Only(c, S) = DOMAIN c \cap S /\ Only(c, S) \in [DOMAIN c \cap S -> Modes]
      /\ \A d \in DOMAIN c \cap S : Only(c, S)[d] = c[d]
  BY <1>1 DEF Only
<1>3. DOMAIN c \cap S \in SUBSET Displays
  BY <1>1
<1> QED BY <1>2, <1>3, Zenon DEF Configs

LEMMA AllOnFacts ==
  ASSUME NEW S \in SUBSET Displays
  PROVE  AllOn(S) \in Configs /\ DOMAIN AllOn(S) = S
<1>1. AllOn(S) \in [S -> Modes] /\ DOMAIN AllOn(S) = S
  BY DEF AllOn, Modes
<1> QED BY <1>1, Zenon DEF Configs

LEMMA WithFacts ==
  ASSUME NEW c \in Configs, NEW S \in SUBSET Displays
  PROVE  With(c, S) \in Configs /\ DOMAIN With(c, S) = DOMAIN c \cup S
<1>1. DOMAIN c \subseteq Displays /\ c \in [DOMAIN c -> Modes]
  BY ConfigForm, Zenon
<1>2. With(c, S) \in [DOMAIN c \cup S -> Modes] /\ DOMAIN With(c, S) = DOMAIN c \cup S
  BY <1>1 DEF With, Modes
<1>3. DOMAIN c \cup S \in SUBSET Displays
  BY <1>1
<1> QED BY <1>2, <1>3, Zenon DEF Configs

LEMMA ExceptConfig ==
  ASSUME NEW c \in Configs, NEW d, NEW m \in Modes
  PROVE  [c EXCEPT ![d] = m] \in Configs /\ DOMAIN [c EXCEPT ![d] = m] = DOMAIN c
<1>1. DOMAIN c \subseteq Displays /\ c \in [DOMAIN c -> Modes]
  BY ConfigForm, Zenon
<1>2. [c EXCEPT ![d] = m] \in [DOMAIN c -> Modes] /\ DOMAIN [c EXCEPT ![d] = m] = DOMAIN c
  BY <1>1
<1> QED BY <1>1, <1>2, Zenon DEF Configs

LEMMA EmptyConfig ==
  /\ <<>> \in Configs /\ DOMAIN <<>> = {}
<1>1. DOMAIN <<>> = {} /\ <<>> \in [{} -> Modes]
  OBVIOUS
<1> QED BY <1>1, Zenon DEF Configs

----------------------------------------------------------------------------
(* Windows' list.                                                          *)

\* No display and no adapter name is in the list twice.
Unique(list) == \A i, j \in DOMAIN list : i # j => /\ list[i].name # list[j].name
                                                  /\ list[i].display # list[j].display

LEMMA EntryFacts ==
  ASSUME NEW list \in Seq(Entry), NEW i \in DOMAIN list
  PROVE  list[i] \in Entry /\ list[i].display \in Displays /\ list[i].name \in Names
<1>1. list[i] \in Entry
  BY LenProperties, ElementOfSeq
<1> QED BY <1>1 DEF Entry

LEMMA ShownDisplays ==
  ASSUME NEW list \in Seq(Entry)
  PROVE  Shown(list) \subseteq Displays
BY EntryFacts DEF Shown

LEMMA IntervalFacts ==
  ASSUME NEW n \in Nat
  PROVE  IsFiniteSet(1 .. n) /\ Cardinality(1 .. n) = n
<1>1. IsFiniteSet(1 .. n) /\ Cardinality(1 .. n) = IF 1 > n THEN 0 ELSE n - 1 + 1
  BY FS_Interval
<1> QED BY <1>1

\* As long as a display is not listed, some adapter name is free.
LEMMA NameLeft ==
  ASSUME NEW list \in Seq(Entry), Unique(list), NEW d \in Displays, d \notin Shown(list)
  PROVE  \E n \in Names : \A i \in DOMAIN list : list[i].name # n
<1>1. Len(list) \in Nat /\ DOMAIN list = 1 .. Len(list)
  BY LenProperties
<1>2. IsFiniteSet(Displays) /\ Cardinality(Displays) \in Nat
  BY DisplaysFinite
<1>3. Len(list) < Cardinality(Displays)
  <2> SUFFICES ASSUME ~(Len(list) < Cardinality(Displays)) PROVE FALSE
    OBVIOUS
  <2> DEFINE rest == Displays \ {d}
             f == [i \in 1 .. Len(list) |-> list[i].display]
  <2>1. IsFiniteSet(rest) /\ Cardinality(rest) = Cardinality(Displays) - 1
    BY <1>2, FS_RemoveElement
  <2>2. IsFiniteSet(1 .. Len(list)) /\ Cardinality(1 .. Len(list)) = Len(list)
    BY <1>1, IntervalFacts
  <2>3. f \in [1 .. Len(list) -> rest]
    BY <1>1, EntryFacts DEF Shown
  <2>4. Cardinality(rest) < Cardinality(1 .. Len(list))
    BY <1>1, <1>2, <2>1, <2>2
  <2>5. \E x, y \in 1 .. Len(list) : x # y /\ f[x] = f[y]
    <3> HIDE DEF f, rest
    <3> QED BY <2>1, <2>2, <2>3, <2>4, FS_PigeonHole
  <2> QED BY <1>1, <2>5 DEF Unique
<1>4. SUFFICES ASSUME \A n \in Names : \E i \in DOMAIN list : list[i].name = n PROVE FALSE
  BY Zenon
<1> DEFINE g == [n \in Names |-> CHOOSE i \in DOMAIN list : list[i].name = n]
<1>5. \A n \in Names : g[n] \in 1 .. Len(list) /\ list[g[n]].name = n
  <2> TAKE n \in Names
  <2>1. g[n] = CHOOSE i \in DOMAIN list : list[i].name = n
    OBVIOUS
  <2>2. \E i \in DOMAIN list : list[i].name = n
    BY <1>4
  <2> HIDE DEF g
  <2> QED BY <1>1, <2>1, <2>2
<1>6. g \in [Names -> 1 .. Len(list)]
  BY <1>5
<1>7. IsFiniteSet(Names) /\ Cardinality(Names) = Cardinality(Displays)
  BY <1>2, IntervalFacts DEF Names
<1>8. IsFiniteSet(1 .. Len(list)) /\ Cardinality(1 .. Len(list)) = Len(list)
  BY <1>1, IntervalFacts
<1>9. \E x, y \in Names : x # y /\ g[x] = g[y]
  <2> HIDE DEF g
  <2>1. Cardinality(1 .. Len(list)) < Cardinality(Names)
    BY <1>3, <1>7, <1>8
  <2> QED BY <1>6, <1>7, <1>8, <2>1, FS_PigeonHole
<1> HIDE DEF g
<1> QED BY <1>5, <1>9

LEMMA FreeNameFacts ==
  ASSUME seen \in Seq(Entry), Unique(seen), NEW d \in Displays, d \notin Shown(seen)
  PROVE  FreeName \in Names /\ \A i \in DOMAIN seen : seen[i].name # FreeName
<1> DEFINE free == {n \in Names : \A i \in DOMAIN seen : seen[i].name # n}
<1>1. free # {} /\ free \in SUBSET Nat
  BY NameLeft DEF Names
<1>2. PICK n \in free : \A m \in free : n <= m
  BY <1>1, LeastExists
<1>3. \A m \in Names : m < n => \E i \in DOMAIN seen : seen[i].name = m
  <2> SUFFICES ASSUME NEW m \in Names, m < n PROVE m \notin free
    OBVIOUS
  <2>1. m \in Nat /\ n \in Nat
    BY <1>1 DEF Names
  <2> HIDE DEF free
  <2> QED BY <1>2, <2>1
<1>4. \E k \in Names : /\ \A i \in DOMAIN seen : seen[i].name # k
                       /\ \A m \in Names : m < k => \E i \in DOMAIN seen : seen[i].name = m
  BY <1>3
<1> QED BY <1>4, Zenon DEF FreeName

\* The list after a display has come.
LEMMA ListArrive ==
  ASSUME seen \in Seq(Entry), Unique(seen), NEW d \in Displays, d \notin Shown(seen),
         seen' = Append(seen, [display |-> d, name |-> FreeName])
  PROVE  /\ seen' \in Seq(Entry) /\ Unique(seen') /\ Shown(seen') = Shown(seen) \cup {d}
         /\ Range(seen) \subseteq Range(seen')
<1> DEFINE e == [display |-> d, name |-> FreeName]
<1>1. e \in Entry /\ e.display = d /\ e.name = FreeName
  BY FreeNameFacts DEF Entry
<1> HIDE DEF e
<1>2. seen' = Append(seen, e)
  BY DEF e
<1>3. /\ seen' \in Seq(Entry) /\ Len(seen) \in Nat
      /\ DOMAIN seen = 1 .. Len(seen) /\ DOMAIN seen' = 1 .. Len(seen) + 1
      /\ \A i \in DOMAIN seen : i \in DOMAIN seen' /\ i # Len(seen) + 1 /\ seen'[i] = seen[i]
      /\ seen'[Len(seen) + 1] = e
      /\ \A i \in DOMAIN seen' : i \in DOMAIN seen \/ i = Len(seen) + 1
  BY <1>1, <1>2, AppendElements
<1>4. Unique(seen')
  <2>1. \A i \in DOMAIN seen : seen[i].name # e.name /\ seen[i].display # e.display
    BY <1>1, FreeNameFacts DEF Shown
  <2> SUFFICES ASSUME NEW i \in DOMAIN seen', NEW j \in DOMAIN seen', i # j
               PROVE  seen'[i].name # seen'[j].name /\ seen'[i].display # seen'[j].display
    BY DEF Unique
  <2>2. CASE i \in DOMAIN seen /\ j \in DOMAIN seen
    BY <1>3, <2>2 DEF Unique
  <2>3. CASE i \in DOMAIN seen /\ j = Len(seen) + 1
    BY <1>3, <2>1, <2>3
  <2>4. CASE i = Len(seen) + 1 /\ j \in DOMAIN seen
    BY <1>3, <2>1, <2>4
  <2> QED BY <1>3, <2>2, <2>3, <2>4
<1>5. Shown(seen') = Shown(seen) \cup {d}
  <2>1. Len(seen) + 1 \in DOMAIN seen'
    BY <1>3
  <2>2. ASSUME NEW x \in Shown(seen') PROVE x \in Shown(seen) \cup {d}
    BY <1>1, <1>3 DEF Shown
  <2>3. ASSUME NEW x \in Shown(seen) \cup {d} PROVE x \in Shown(seen')
    BY <1>1, <1>3, <2>1 DEF Shown
  <2> QED BY <2>2, <2>3
<1>6. Range(seen) \subseteq Range(seen')
  BY <1>3 DEF Range
<1> QED BY <1>3, <1>4, <1>5, <1>6

\* The list after a display has gone.
LEMMA ListDepart ==
  ASSUME seen \in Seq(Entry), Unique(seen), NEW d,
         \E i \in DOMAIN seen : seen[i].display = d /\ seen' = RemoveAt(seen, i)
  PROVE  /\ seen' \in Seq(Entry) /\ Unique(seen') /\ Shown(seen') = Shown(seen) \ {d}
         /\ \A e \in Range(seen) : e.display # d => e \in Range(seen')
<1>1. PICK i \in DOMAIN seen : seen[i].display = d /\ seen' = RemoveAt(seen, i)
  OBVIOUS
<1>2. seen' \in Seq(Entry)
  BY <1>1, RemoveAtFacts
<1>3. /\ \A j \in DOMAIN seen' : \E k \in DOMAIN seen : k # i /\ seen'[j] = seen[k]
      /\ \A k \in DOMAIN seen : k # i => \E j \in DOMAIN seen' : seen'[j] = seen[k]
      /\ \A j, l \in DOMAIN seen' : j # l =>
           \E k, m \in DOMAIN seen : k # m /\ seen'[j] = seen[k] /\ seen'[l] = seen[m]
  BY <1>1, RemoveAtElements
<1>4. Unique(seen')
  <2> SUFFICES ASSUME NEW j \in DOMAIN seen', NEW l \in DOMAIN seen', j # l
               PROVE  seen'[j].name # seen'[l].name /\ seen'[j].display # seen'[l].display
    BY DEF Unique
  <2>1. PICK k \in DOMAIN seen, m \in DOMAIN seen :
          k # m /\ seen'[j] = seen[k] /\ seen'[l] = seen[m]
    BY <1>3
  <2> QED BY <2>1 DEF Unique
<1>5. Shown(seen') = Shown(seen) \ {d}
  <2>1. ASSUME NEW x \in Shown(seen') PROVE x \in Shown(seen) \ {d}
    BY <1>1, <1>3 DEF Shown, Unique
  <2>2. ASSUME NEW x \in Shown(seen) \ {d} PROVE x \in Shown(seen')
    BY <1>1, <1>3 DEF Shown
  <2> QED BY <2>1, <2>2
<1>6. ASSUME NEW e \in Range(seen), e.display # d PROVE e \in Range(seen')
  <2>1. PICK k \in DOMAIN seen : e = seen[k]
    BY DEF Range
  <2>2. PICK j \in DOMAIN seen' : seen'[j] = seen[k]
    BY <1>1, <1>3, <1>6, <2>1
  <2> QED BY <2>1, <2>2 DEF Range
<1> QED BY <1>2, <1>4, <1>5, <1>6

\* The first entry with a uid.
LEMMA IndexOfFacts ==
  ASSUME displays \in Seq(Entry), NEW d, Found(d)
  PROVE  IndexOf(d) \in DOMAIN displays /\ Uid(displays[IndexOf(d)].display) = Uid(d)
<1> DEFINE at == {i \in DOMAIN displays : Uid(displays[i].display) = Uid(d)}
<1>1. at # {} /\ at \in SUBSET Nat /\ DOMAIN displays = 1 .. Len(displays) /\ Len(displays) \in Nat
  BY LenProperties DEF Found
<1>2. PICK i \in at : \A j \in at : i <= j
  BY <1>1, LeastExists
<1>3. \A j \in 1 .. i - 1 : Uid(displays[j].display) # Uid(d)
  <2> SUFFICES ASSUME NEW j \in 1 .. i - 1 PROVE j \in DOMAIN displays /\ j \notin at
    OBVIOUS
  <2>1. i \in 1 .. Len(displays)
    BY <1>1
  <2>2. j \in DOMAIN displays /\ ~(i <= j)
    BY <1>1, <2>1
  <2> HIDE DEF at
  <2> QED BY <1>2, <2>2
<1>4. \E k \in DOMAIN displays :
        /\ Uid(displays[k].display) = Uid(d)
        /\ \A j \in 1 .. k - 1 : Uid(displays[j].display) # Uid(d)
  BY <1>3
<1> QED BY <1>4, Zenon DEF IndexOf

----------------------------------------------------------------------------
(* The inductive invariant.                                                *)

Backups  == {None} \cup [persistent : Configs, original : Configs]
Requests == [config : Configs, persist : BOOLEAN]
Addings  == {None} \cup [display : Displays, prev : Seq(Entry), attempt : 1 .. Attempts]
Tscons   == [by : Callers \cup {"none"}, target : Sessions]

\* What the driver, Windows, its database and the backup have.
ScreensOK ==
  /\ seen \in Seq(Entry) /\ Unique(seen)
  /\ active \in Configs /\ DOMAIN active \subseteq Shown(seen)
  /\ db \in Configs /\ DOMAIN db \subseteq Shown(seen)
  /\ plugged \subseteq Displays
  /\ late \in Seq(Requests)
  /\ backup \in Backups /\ before \in Backups

\* As long as nothing drifted, what displays_ lists Windows lists too.
ListsOK ==
  /\ displays \in Seq(Entry)
  /\ initialized \in BOOLEAN /\ drift \in BOOLEAN
  /\ ~drift => Range(displays) \subseteq Range(seen)

ConsoleOK ==
  /\ place \in [Sessions -> {"console", "rdp", "away", "out"}]
  /\ step \in [Callers -> {"idle", "want", "check", "wait", "ready"}]
  /\ holder \in Callers \cup {"none"}
  /\ tscons \in Seq(Tscons)

DisplayInv ==
  /\ ScreensOK /\ ListsOK /\ ConsoleOK
  /\ adding \in Addings
  /\ ExclusiveCanBeUndone /\ ExclusiveSurvivesGame /\ ChangeHitsRequested

screenVars == <<backup, screens, before, exclusive>>

\* A step as the displays and the backup see it.
LEMMA ScreenSteps ==
  ASSUME [DisplayNext]_displayVars
  PROVE  \/ VirtualArrives \/ VirtualDeparts \/ MonitorPlugged \/ MonitorUnplugged
         \/ GameStarts \/ GameEnds \/ ServiceIsLate \/ AddDisplay
         \/ \E d \in Displays :
              RemoveDisplay(d) \/ ChangeDisplaySettings(d) \/ SetPrimaryDisplayOnly(d)
         \/ SetMultiDisplayMode \/ RestoreDisplayConfiguration \/ Shutdown
         \/ UNCHANGED screenVars
<1> USE DEF screenVars, screens, plugin, console, ghosts
<1>1. CASE Platform
  BY <1>1, Zenon DEF Platform, GetAllDisplays, Initialize, OpenDriver, AddDisplayPoll
<1>2. CASE Windows
  <2>1. CASE SessionEvent
    BY <2>1, Zenon DEF SessionEvent, Event
  <2>2. CASE \E i \in DOMAIN tscons : TsconEnds(i)
    BY <2>2, Zenon DEF TsconEnds
  <2> QED BY <1>2, <2>1, <2>2, Zenon DEF Windows
<1>3. CASE \E w \in Workers : EnsureConsoleForDisplay(w)
  BY <1>3, Zenon DEF EnsureConsoleForDisplay
<1>4. CASE \E c \in Callers : EnsureStep(c)
  BY <1>4, Zenon DEF EnsureStep, TakeSwitchMutex, CheckReturns, CheckSwitches, WaitTimesOut
<1>5. CASE UNCHANGED displayVars
  BY <1>5, Zenon DEF displayVars
<1> QED BY <1>1, <1>2, <1>3, <1>4, <1>5, Zenon DEF DisplayNext

LEMMA ArriveScreens ==
  ASSUME ScreensOK, ExclusiveSurvivesGame, NEW d \in Displays, Arrive(d),
         UNCHANGED <<backup, plugged, late, before>>
  PROVE  ScreensOK' /\ ExclusiveSurvivesGame' /\ Range(seen) \subseteq Range(seen')
<1>1. /\ seen' \in Seq(Entry) /\ Unique(seen') /\ Shown(seen') = Shown(seen) \cup {d}
      /\ Range(seen) \subseteq Range(seen')
  BY ListArrive DEF Arrive, ScreensOK
<1>2. \/ active' = With(active, {d}) /\ db' = With(db, {d}) /\ exclusive' = None
      \/ UNCHANGED <<active, db, exclusive>>
  BY Zenon DEF Arrive
<1>3. /\ With(active, {d}) \in Configs /\ DOMAIN With(active, {d}) = DOMAIN active \cup {d}
      /\ With(db, {d}) \in Configs /\ DOMAIN With(db, {d}) = DOMAIN db \cup {d}
  BY WithFacts DEF ScreensOK
<1>4. /\ active' \in Configs /\ DOMAIN active' \subseteq Shown(seen')
      /\ db' \in Configs /\ DOMAIN db' \subseteq Shown(seen')
  BY <1>1, <1>2, <1>3 DEF ScreensOK
<1>5. ScreensOK'
  BY <1>1, <1>4, Zenon DEF ScreensOK
<1>6. ExclusiveSurvivesGame'
  BY <1>2, Zenon DEF ExclusiveSurvivesGame
<1> QED BY <1>1, <1>5, <1>6

LEMMA DepartScreens ==
  ASSUME ScreensOK, ExclusiveSurvivesGame, NEW d \in Displays, Depart(d),
         UNCHANGED <<backup, plugged, late, before>>
  PROVE  /\ ScreensOK' /\ ExclusiveSurvivesGame'
         /\ \A e \in Range(seen) : e.display # d => e \in Range(seen')
<1> DEFINE rest == Shown(seen) \ {d}
           left(config) == IF DOMAIN config \cap rest = {} THEN AllOn(rest) ELSE Only(config, rest)
<1>1. /\ seen' \in Seq(Entry) /\ Unique(seen') /\ Shown(seen') = rest
      /\ \A e \in Range(seen) : e.display # d => e \in Range(seen')
  BY ListDepart DEF Depart, ScreensOK
<1>2. active' = left(active) /\ db' = left(db)
  BY DEF Depart
<1>3. rest \in SUBSET Displays
  BY ShownDisplays DEF ScreensOK
<1>4. ASSUME NEW c \in Configs
      PROVE  /\ left(c) \in Configs /\ DOMAIN left(c) \subseteq rest
             /\ DOMAIN c \cap rest # {} => DOMAIN left(c) = DOMAIN c \cap rest
  <2> HIDE DEF rest
  <2>1. CASE DOMAIN c \cap rest = {}
    BY <1>3, <2>1, AllOnFacts
  <2>2. CASE DOMAIN c \cap rest # {}
    BY <1>3, <2>2, OnlyFacts
  <2> QED BY <2>1, <2>2
<1>5. ScreensOK'
  <2> HIDE DEF rest, left
  <2>1. /\ active' \in Configs /\ DOMAIN active' \subseteq Shown(seen')
        /\ db' \in Configs /\ DOMAIN db' \subseteq Shown(seen')
    BY <1>1, <1>2, <1>4 DEF ScreensOK
  <2> QED BY <1>1, <2>1, Zenon DEF ScreensOK
<1>6. ExclusiveSurvivesGame'
  <2> SUFFICES ASSUME exclusive' # None
               PROVE  DOMAIN active' = {exclusive'} /\ DOMAIN db' = {exclusive'}
    BY DEF ExclusiveSurvivesGame
  <2>1. exclusive' = exclusive /\ exclusive # d /\ exclusive # None
    BY Zenon DEF Depart
  <2>2. DOMAIN active = {exclusive} /\ DOMAIN db = {exclusive} /\ exclusive \in rest
    BY <2>1 DEF ExclusiveSurvivesGame, ScreensOK
  <2>3. active \in Configs /\ db \in Configs
    BY DEF ScreensOK
  <2> HIDE DEF rest, left
  <2> QED BY <1>2, <1>4, <2>1, <2>2, <2>3
<1> QED BY <1>1, <1>5, <1>6

\* Applying a configuration of which something is left.
LEMMA AppliedScreens ==
  ASSUME ScreensOK, NEW config \in Configs, NEW persist, Applied(config, persist)
  PROVE  /\ active' \in Configs /\ DOMAIN active' = DOMAIN config \cap Shown(seen)
         /\ db' \in Configs /\ DOMAIN db' \subseteq Shown(seen)
<1> DEFINE new == Only(config, Shown(seen))
<1>1. new \in Configs /\ DOMAIN new = DOMAIN config \cap Shown(seen)
  BY OnlyFacts
<1>2. active' = new /\ (db' = new \/ db' = db)
  BY Zenon DEF Applied
<1> HIDE DEF new
<1> QED BY <1>1, <1>2 DEF ScreensOK

\* The configurations of a backup, and of a request.
LEMMA BackupConfigs ==
  ASSUME NEW c \in Backups, c # None
  PROVE  c.persistent \in Configs /\ c.original \in Configs
BY DEF Backups

LEMMA RequestConfig ==
  ASSUME late \in Seq(Requests), late # <<>>
  PROVE  Tail(late) \in Seq(Requests) /\ Head(late).config \in Configs
<1>1. Head(late) \in Requests /\ Tail(late) \in Seq(Requests)
  BY HeadTailProperties
<1> QED BY <1>1 DEF Requests

LEMMA UnansweredRequest ==
  ASSUME late \in Seq(Requests), NEW config \in Configs, NEW persist \in BOOLEAN,
         Unanswered(config, persist)
  PROVE  late' \in Seq(Requests)
<1>1. [config |-> config, persist |-> persist] \in Requests
  BY DEF Requests
<1>2. Append(late, [config |-> config, persist |-> persist]) \in Seq(Requests)
  BY <1>1, AppendProperties
<1> QED BY <1>2, Zenon DEF Unanswered

LEMMA GameScreens ==
  ASSUME ScreensOK, ExclusiveSurvivesGame, GameStarts \/ GameEnds
  PROVE  ScreensOK' /\ ExclusiveSurvivesGame'
<1>1. UNCHANGED <<backup, plugged, seen, db, late, before, exclusive>>
  BY Zenon DEF GameStarts, GameEnds, Event, plugin, ghosts
<1>2. active' \in Configs /\ (DOMAIN active' = DOMAIN active \/ active' = db)
  <2>1. CASE GameStarts
    <3>1. PICK d \in DOMAIN active : active' = [active EXCEPT ![d] = "game"]
      BY <2>1 DEF GameStarts
    <3>2. "game" \in Modes
      BY DEF Modes
    <3> QED BY <3>1, <3>2, ExceptConfig DEF ScreensOK
  <2>2. CASE GameEnds
    BY <2>2 DEF GameEnds, ScreensOK
  <2> QED BY <2>1, <2>2
<1>3. DOMAIN active' \subseteq Shown(seen')
  BY <1>1, <1>2 DEF ScreensOK
<1>4. ScreensOK'
  BY <1>1, <1>2, <1>3, Zenon DEF ScreensOK
<1>5. ExclusiveSurvivesGame'
  BY <1>1, <1>2, Zenon DEF ExclusiveSurvivesGame
<1> QED BY <1>4, <1>5

LEMMA LateScreens ==
  ASSUME ScreensOK, ServiceIsLate
  PROVE  ScreensOK' /\ exclusive' = None
<1>1. UNCHANGED <<backup, plugged, seen, before>> /\ exclusive' = None
  BY Zenon DEF ServiceIsLate, plugin
<1>2. late' \in Seq(Requests) /\ Head(late).config \in Configs
  BY RequestConfig DEF ServiceIsLate, ScreensOK
<1>3. \/ Applied(Head(late).config, Head(late).persist)
      \/ UNCHANGED <<active, db>>
  BY Zenon DEF ServiceIsLate
<1>4. /\ active' \in Configs /\ DOMAIN active' \subseteq Shown(seen)
      /\ db' \in Configs /\ DOMAIN db' \subseteq Shown(seen)
  <2>1. CASE Applied(Head(late).config, Head(late).persist)
    BY <1>2, <2>1, AppliedScreens
  <2>2. CASE UNCHANGED <<active, db>>
    BY <2>2 DEF ScreensOK
  <2> QED BY <1>3, <2>1, <2>2
<1>5. ScreensOK'
  BY <1>1, <1>2, <1>4, Zenon DEF ScreensOK
<1> QED BY <1>1, <1>5

LEMMA PluggedScreens ==
  ASSUME ScreensOK, ExclusiveSurvivesGame, NEW d,
         AddDisplay \/ RemoveDisplay(d)
  PROVE  ScreensOK' /\ ExclusiveSurvivesGame'
<1>1. UNCHANGED <<backup, seen, active, db, late, before, exclusive>>
  BY Zenon DEF AddDisplay, RemoveDisplay, ghosts
<1>2. plugged' \subseteq Displays
  BY DEF AddDisplay, RemoveDisplay, ScreensOK
<1> QED BY <1>1, <1>2, Zenon DEF ScreensOK, ExclusiveSurvivesGame

LEMMA ChangeScreens ==
  ASSUME ScreensOK, ExclusiveSurvivesGame, NEW d, ChangeDisplaySettings(d)
  PROVE  ScreensOK' /\ ExclusiveSurvivesGame'
<1>1. UNCHANGED <<backup, plugged, seen, late, before, exclusive>>
  BY Zenon DEF ChangeDisplaySettings, plugin
<1>2. PICK hit \in Named(d), m \in Modes :
        /\ active' = IF hit \in DOMAIN active THEN [active EXCEPT ![hit] = m] ELSE active
        /\ db' = IF hit \in DOMAIN db THEN [db EXCEPT ![hit] = m] ELSE db
  BY Zenon DEF ChangeDisplaySettings
<1>3. ASSUME NEW c \in Configs
      PROVE  [c EXCEPT ![hit] = m] \in Configs /\ DOMAIN [c EXCEPT ![hit] = m] = DOMAIN c
  BY ExceptConfig
<1>4. active \in Configs /\ db \in Configs
  BY DEF ScreensOK
<1>5. /\ active' \in Configs /\ DOMAIN active' = DOMAIN active
      /\ db' \in Configs /\ DOMAIN db' = DOMAIN db
  BY <1>2, <1>3, <1>4, Zenon
<1>6. ScreensOK'
  BY <1>1, <1>5, Zenon DEF ScreensOK
<1> QED BY <1>1, <1>5, <1>6, Zenon DEF ExclusiveSurvivesGame

LEMMA ModeScreens ==
  ASSUME ScreensOK, SetMultiDisplayMode
  PROVE  ScreensOK' /\ exclusive' = None
<1>1. UNCHANGED <<backup, plugged, seen, late, before>> /\ exclusive' = None
  BY Zenon DEF SetMultiDisplayMode, plugin
<1> DEFINE all == Only(With(db, Shown(seen)), Shown(seen))
<1>2. Shown(seen) \in SUBSET Displays
  BY ShownDisplays DEF ScreensOK
<1>3. all \in Configs /\ DOMAIN all \subseteq Shown(seen)
  <2>1. With(db, Shown(seen)) \in Configs
    BY <1>2, WithFacts DEF ScreensOK
  <2> QED BY <2>1, OnlyFacts
<1>4. \/ active' = all /\ db' \in {db, all}
      \/ \E d \in Shown(seen) : active' = AllOn({d}) /\ db' = db
  BY Zenon DEF SetMultiDisplayMode
<1> HIDE DEF all
<1>5. /\ active' \in Configs /\ DOMAIN active' \subseteq Shown(seen)
      /\ db' \in Configs /\ DOMAIN db' \subseteq Shown(seen)
  <2>1. CASE active' = all /\ db' \in {db, all}
    BY <1>3, <2>1 DEF ScreensOK
  <2>2. ASSUME NEW d \in Shown(seen), active' = AllOn({d}), db' = db
        PROVE  /\ active' \in Configs /\ DOMAIN active' \subseteq Shown(seen)
               /\ db' \in Configs /\ DOMAIN db' \subseteq Shown(seen)
    <3>1. {d} \in SUBSET Displays
      BY <1>2
    <3> QED BY <2>2, <3>1, AllOnFacts DEF ScreensOK
  <2> QED BY <1>4, <2>1, <2>2, Zenon
<1> QED BY <1>1, <1>5, Zenon DEF ScreensOK

LEMMA PrimaryScreens ==
  ASSUME ScreensOK, ExclusiveCanBeUndone, ExclusiveSurvivesGame, NEW d, SetPrimaryDisplayOnly(d)
  PROVE  ScreensOK' /\ ExclusiveCanBeUndone' /\ ExclusiveSurvivesGame'
<1>1. UNCHANGED <<plugged, seen, late>> /\ backup = None /\ backup' = Backup
  BY Zenon DEF SetPrimaryDisplayOnly, SetRefused
<1>2. before = None
  BY <1>1, Zenon DEF ExclusiveCanBeUndone
<1>3. Backup \in Backups
  BY DEF Backup, Backups, ScreensOK
<1>4. CASE UNCHANGED <<active, db, before, exclusive>>
  <2>1. ScreensOK'
    BY <1>1, <1>3, <1>4, Zenon DEF ScreensOK
  <2>2. ExclusiveCanBeUndone'
    BY <1>2, <1>4, Zenon DEF ExclusiveCanBeUndone
  <2>3. ExclusiveSurvivesGame'
    BY <1>4, Zenon DEF ExclusiveSurvivesGame
  <2> QED BY <2>1, <2>2, <2>3
<1>5. ASSUME NEW t \in Displays, Target(d, t), Applied(Only(active, {t}), KeepInDatabase),
             before' = (IF before = None THEN Backup ELSE before), exclusive' = t
      PROVE  ScreensOK' /\ ExclusiveCanBeUndone' /\ ExclusiveSurvivesGame'
  <2>1. before' = Backup
    BY <1>2, <1>5, Zenon
  <2>2. t \in DOMAIN active /\ active \in Configs /\ DOMAIN active \subseteq Shown(seen)
    BY <1>5 DEF Target, ScreensOK
  <2>3. Only(active, {t}) \in Configs /\ DOMAIN Only(active, {t}) = {t}
    <3>1. Only(active, {t}) \in Configs /\ DOMAIN Only(active, {t}) = DOMAIN active \cap {t}
      BY <2>2, OnlyFacts, Zenon
    <3> QED BY <2>2, <3>1
  <2>4. /\ active' = Only(Only(active, {t}), Shown(seen))
        /\ db' = Only(Only(active, {t}), Shown(seen))
    BY <1>5, Zenon DEF Applied, KeepInDatabase
  <2>5. /\ active' \in Configs /\ DOMAIN active' = {t}
        /\ db' \in Configs /\ DOMAIN db' = {t}
    BY <2>2, <2>3, <2>4, OnlyFacts
  <2>6. ScreensOK'
    <3>1. {t} \subseteq Shown(seen)
      BY <2>2
    <3> QED BY <1>1, <1>3, <2>1, <2>5, <3>1, Zenon DEF ScreensOK
  <2>7. ExclusiveCanBeUndone'
    BY <1>1, <2>1, Zenon DEF ExclusiveCanBeUndone
  <2>8. ExclusiveSurvivesGame'
    BY <1>5, <2>5, Zenon DEF ExclusiveSurvivesGame
  <2> QED BY <2>6, <2>7, <2>8
<1>6. \/ UNCHANGED <<active, db, before, exclusive>>
      \/ \E t \in Displays :
           /\ Target(d, t)
           /\ Applied(Only(active, {t}), KeepInDatabase)
           /\ before' = (IF before = None THEN Backup ELSE before)
           /\ exclusive' = t
  BY Zenon DEF SetPrimaryDisplayOnly
<1> QED BY <1>4, <1>5, <1>6, Zenon

LEMMA RestoreBothScreens ==
  ASSUME ScreensOK, backup # None, RestoreBoth, UNCHANGED seen, plugged' \subseteq Displays
  PROVE  ScreensOK' /\ before' = None /\ exclusive' = None
<1>1. backup' = None /\ before' = None /\ exclusive' = None /\ late' = late
  BY Zenon DEF RestoreBoth
<1>2. backup.persistent \in Configs /\ backup.original \in Configs
  BY BackupConfigs DEF ScreensOK
<1>3. /\ db' = Only(backup.persistent, Shown(seen))
      /\ active' = Only(backup.original, Shown(seen))
  BY Zenon DEF RestoreBoth
<1>4. /\ active' \in Configs /\ DOMAIN active' \subseteq Shown(seen)
      /\ db' \in Configs /\ DOMAIN db' \subseteq Shown(seen)
  BY <1>2, <1>3, OnlyFacts
<1>5. None \in Backups
  BY Zenon DEF Backups
<1> QED BY <1>1, <1>4, <1>5, Zenon DEF ScreensOK

LEMMA RestoreScreens ==
  ASSUME ScreensOK, ExclusiveCanBeUndone, ExclusiveSurvivesGame, RestoreDisplayConfiguration
  PROVE  ScreensOK' /\ ExclusiveCanBeUndone' /\ ExclusiveSurvivesGame'
<1>1. UNCHANGED <<plugged, seen>> /\ backup # None
  BY Zenon DEF RestoreDisplayConfiguration
<1>2. backup.persistent \in Configs /\ backup.original \in Configs
  BY <1>1, BackupConfigs DEF ScreensOK
<1>3. CASE RestoreBoth
  <2>1. ScreensOK' /\ before' = None /\ exclusive' = None
    BY <1>1, <1>3, RestoreBothScreens DEF ScreensOK
  <2> QED BY <2>1, Zenon DEF ExclusiveCanBeUndone, ExclusiveSurvivesGame
<1>4. CASE RestoreNothing
  <2>1. UNCHANGED <<backup, active, db, before, exclusive>>
    BY <1>4, Zenon DEF RestoreNothing
  <2>2. late' \in Seq(Requests)
    BY <1>2, <1>4, UnansweredRequest, TRUE \in BOOLEAN DEF RestoreNothing, ScreensOK
  <2> QED BY <1>1, <2>1, <2>2, Zenon DEF ScreensOK, ExclusiveCanBeUndone, ExclusiveSurvivesGame
<1>5. CASE RestorePersistentOnly
  <2>1. UNCHANGED <<backup, before>> /\ exclusive' = None
        /\ Applied(backup.persistent, TRUE) /\ Unanswered(backup.original, FALSE)
    BY <1>5, Zenon DEF RestorePersistentOnly
  <2>2. late' \in Seq(Requests)
    BY <1>2, <2>1, UnansweredRequest, FALSE \in BOOLEAN DEF ScreensOK
  <2>3. /\ active' \in Configs /\ DOMAIN active' \subseteq Shown(seen)
        /\ db' \in Configs /\ DOMAIN db' \subseteq Shown(seen)
    BY <1>2, <2>1, AppliedScreens
  <2> QED BY <1>1, <2>1, <2>2, <2>3, Zenon DEF ScreensOK, ExclusiveCanBeUndone, ExclusiveSurvivesGame
<1> QED BY <1>3, <1>4, <1>5, Zenon DEF RestoreDisplayConfiguration

LEMMA ShutdownScreens ==
  ASSUME ScreensOK, ExclusiveCanBeUndone, ExclusiveSurvivesGame, Shutdown
  PROVE  ScreensOK' /\ ExclusiveCanBeUndone' /\ ExclusiveSurvivesGame'
<1>1. UNCHANGED seen /\ plugged' = {}
  BY Zenon DEF Shutdown
<1>2. plugged' \subseteq Displays
  BY <1>1
<1>3. CASE UNCHANGED <<backup, active, db, before, exclusive, late>>
  BY <1>1, <1>2, <1>3, Zenon DEF ScreensOK, ExclusiveCanBeUndone, ExclusiveSurvivesGame
<1>4. CASE backup # None /\ RestoreBoth
  <2>1. ScreensOK' /\ before' = None /\ exclusive' = None
    BY <1>1, <1>2, <1>4, RestoreBothScreens
  <2> QED BY <2>1, Zenon DEF ExclusiveCanBeUndone, ExclusiveSurvivesGame
<1> QED BY <1>3, <1>4, Zenon DEF Shutdown

LEMMA ScreensNext ==
  ASSUME ScreensOK, ExclusiveCanBeUndone, ExclusiveSurvivesGame, [DisplayNext]_displayVars
  PROVE  ScreensOK' /\ ExclusiveCanBeUndone' /\ ExclusiveSurvivesGame'
<1> DEFINE good == ScreensOK' /\ ExclusiveCanBeUndone' /\ ExclusiveSurvivesGame'
<1>1. ASSUME UNCHANGED <<backup, before>>, ScreensOK', ExclusiveSurvivesGame' PROVE good
  BY <1>1, Zenon DEF ExclusiveCanBeUndone
<1>2. ASSUME UNCHANGED <<backup, before>>, ScreensOK', exclusive' = None PROVE good
  BY <1>2, Zenon DEF ExclusiveCanBeUndone, ExclusiveSurvivesGame
<1> HIDE DEF good
<1>3. CASE VirtualArrives
  <2>1. PICK d \in plugged : Arrive(d)
    BY <1>3, Zenon DEF VirtualArrives
  <2>2. d \in Displays
    BY DEF ScreensOK
  <2>3. UNCHANGED <<backup, plugged, late, before>>
    BY <1>3, Zenon DEF VirtualArrives, plugin
  <2> QED BY <1>1, <2>1, <2>2, <2>3, ArriveScreens, Zenon DEF good
<1>4. CASE MonitorPlugged
  <2>1. PICK d \in Displays : Arrive(d)
    BY <1>4, Zenon DEF MonitorPlugged
  <2>2. UNCHANGED <<backup, plugged, late, before>>
    BY <1>4, Zenon DEF MonitorPlugged, Event, plugin
  <2> QED BY <1>1, <2>1, <2>2, ArriveScreens, Zenon DEF good
<1>5. CASE VirtualDeparts
  <2>1. PICK d \in Displays : Depart(d)
    BY <1>5, Zenon DEF VirtualDeparts
  <2>2. UNCHANGED <<backup, plugged, late, before>>
    BY <1>5, Zenon DEF VirtualDeparts, plugin
  <2> QED BY <1>1, <2>1, <2>2, DepartScreens, Zenon DEF good
<1>6. CASE MonitorUnplugged
  <2>1. PICK d \in Displays : Depart(d)
    BY <1>6, Zenon DEF MonitorUnplugged
  <2>2. UNCHANGED <<backup, plugged, late, before>>
    BY <1>6, Zenon DEF MonitorUnplugged, Event, plugin
  <2> QED BY <1>1, <2>1, <2>2, DepartScreens, Zenon DEF good
<1>7. CASE GameStarts \/ GameEnds
  <2>1. UNCHANGED <<backup, before>>
    BY <1>7, Zenon DEF GameStarts, GameEnds, Event, plugin, ghosts
  <2> QED BY <1>1, <1>7, <2>1, GameScreens, Zenon DEF good
<1>8. CASE ServiceIsLate
  <2>1. UNCHANGED <<backup, before>>
    BY <1>8, Zenon DEF ServiceIsLate, plugin
  <2> QED BY <1>2, <1>8, <2>1, LateScreens, Zenon DEF good
<1>9. CASE AddDisplay \/ \E d \in Displays : RemoveDisplay(d)
  <2>1. UNCHANGED <<backup, before>>
    BY <1>9, Zenon DEF AddDisplay, RemoveDisplay, ghosts
  <2> QED BY <1>1, <1>9, <2>1, PluggedScreens, Zenon DEF good
<1>10. CASE \E d \in Displays : ChangeDisplaySettings(d)
  <2>1. UNCHANGED <<backup, before>>
    BY <1>10, Zenon DEF ChangeDisplaySettings, plugin
  <2> QED BY <1>1, <1>10, <2>1, ChangeScreens, Zenon DEF good
<1>11. CASE SetMultiDisplayMode
  <2>1. UNCHANGED <<backup, before>>
    BY <1>11, Zenon DEF SetMultiDisplayMode, plugin
  <2> QED BY <1>2, <1>11, <2>1, ModeScreens, Zenon DEF good
<1>12. CASE \E d \in Displays : SetPrimaryDisplayOnly(d)
  BY <1>12, PrimaryScreens, Zenon DEF good
<1>13. CASE RestoreDisplayConfiguration
  BY <1>13, RestoreScreens, Zenon DEF good
<1>14. CASE Shutdown
  BY <1>14, ShutdownScreens, Zenon DEF good
<1>15. CASE UNCHANGED screenVars
  BY <1>15, Zenon DEF good, screenVars, screens, ScreensOK, ExclusiveCanBeUndone, ExclusiveSurvivesGame
<1> QED BY <1>3, <1>4, <1>5, <1>6, <1>7, <1>8, <1>9, <1>10, <1>11, <1>12, <1>13, <1>14, <1>15,
           ScreenSteps, Zenon DEF good

listVars == <<initialized, displays, drift, seen>>

\* A step as displays_ sees it.
LEMMA ListSteps ==
  ASSUME [DisplayNext]_displayVars
  PROVE  \/ VirtualArrives \/ VirtualDeparts \/ MonitorPlugged \/ MonitorUnplugged
         \/ GetAllDisplays \/ OpenDriver \/ AddDisplayPoll \/ Shutdown
         \/ \E d \in Displays : RemoveDisplay(d)
         \/ UNCHANGED listVars
<1> USE DEF listVars, screens, plugin, console, ghosts
<1>1. CASE Platform
  <2>1. ASSUME NEW d \in Displays, ChangeDisplaySettings(d) \/ SetPrimaryDisplayOnly(d)
        PROVE  UNCHANGED listVars
    BY <2>1, Zenon DEF ChangeDisplaySettings, SetPrimaryDisplayOnly
  <2>2. CASE Initialize \/ AddDisplay \/ SetMultiDisplayMode \/ RestoreDisplayConfiguration
    BY <2>2, Zenon DEF Initialize, AddDisplay, SetMultiDisplayMode, RestoreDisplayConfiguration
  <2> QED BY <1>1, <2>1, <2>2, Zenon DEF Platform
<1>2. CASE Windows
  <2>1. CASE SessionEvent \/ GameStarts \/ GameEnds \/ ServiceIsLate
    BY <2>1, Zenon DEF SessionEvent, GameStarts, GameEnds, ServiceIsLate, Event
  <2>2. CASE \E i \in DOMAIN tscons : TsconEnds(i)
    BY <2>2, Zenon DEF TsconEnds
  <2> QED BY <1>2, <2>1, <2>2, Zenon DEF Windows
<1>3. CASE \E w \in Workers : EnsureConsoleForDisplay(w)
  BY <1>3, Zenon DEF EnsureConsoleForDisplay
<1>4. CASE \E c \in Callers : EnsureStep(c)
  BY <1>4, Zenon DEF EnsureStep, TakeSwitchMutex, CheckReturns, CheckSwitches, WaitTimesOut
<1>5. CASE UNCHANGED displayVars
  BY <1>5, Zenon DEF displayVars
<1> QED BY <1>1, <1>2, <1>3, <1>4, <1>5, Zenon DEF DisplayNext

\* What an enumeration gives.
LEMMA EnumerateLists ==
  ASSUME seen \in Seq(Entry), Enumerate, UNCHANGED <<initialized, seen>>, initialized \in BOOLEAN
  PROVE  ListsOK' /\ displays' = Visible /\ Visible \in Seq(Entry)
<1>1. displays' = Visible /\ drift' = FALSE
  BY DEF Enumerate
<1>2. CASE Visible = seen
  BY <1>1, <1>2, Zenon DEF ListsOK
<1>3. CASE Visible = <<>>
  <2>1. Visible \in Seq(Entry) /\ DOMAIN Visible = {}
    BY <1>3
  <2>2. Range(Visible) = {}
    BY <2>1 DEF Range
  <2>3. Range(Visible) \subseteq Range(seen')
    BY <2>2
  <2> QED BY <1>1, <2>1, <2>3, Zenon DEF ListsOK
<1> QED BY <1>2, <1>3, Zenon DEF Visible

LEMMA EmptyLists ==
  ASSUME displays' = <<>>, drift' \in BOOLEAN, initialized' \in BOOLEAN
  PROVE  ListsOK'
<1>1. displays' \in Seq(Entry) /\ DOMAIN displays' = {}
  OBVIOUS
<1>2. Range(displays') \subseteq Range(seen')
  BY <1>1 DEF Range
<1> QED BY <1>1, <1>2, Zenon DEF ListsOK

LEMMA DepartLists ==
  ASSUME ScreensOK, ListsOK, ExclusiveSurvivesGame, NEW d \in Displays, Depart(d),
         UNCHANGED <<initialized, displays, backup, plugged, late, before>>
  PROVE  ListsOK'
<1>1. \A e \in Range(seen) : e.display # d => e \in Range(seen')
  BY DepartScreens
<1>2. drift' = (drift \/ d \in Shown(displays))
  BY DEF Depart
<1>3. drift' \in BOOLEAN
  BY <1>2, Zenon DEF ListsOK
<1>4. ASSUME ~drift' PROVE Range(displays') \subseteq Range(seen')
  <2>1. Range(displays) \subseteq Range(seen) /\ d \notin Shown(displays)
    BY <1>2, <1>4, Zenon DEF ListsOK
  <2>2. \A e \in Range(displays) : e.display # d
    BY <2>1 DEF Range, Shown
  <2>3. displays' = displays
    OBVIOUS
  <2> QED BY <1>1, <2>1, <2>2, <2>3
<1> QED BY <1>3, <1>4, Zenon DEF ListsOK

LEMMA ArriveLists ==
  ASSUME ScreensOK, ListsOK, ExclusiveSurvivesGame, NEW d \in Displays, Arrive(d),
         UNCHANGED <<initialized, displays, drift, backup, plugged, late, before>>
  PROVE  ListsOK'
<1>1. Range(seen) \subseteq Range(seen')
  BY ArriveScreens
<1>2. ~drift' => Range(displays') \subseteq Range(seen')
  <2> SUFFICES ASSUME ~drift' PROVE Range(displays') \subseteq Range(seen')
    OBVIOUS
  <2>1. Range(displays) \subseteq Range(seen) /\ displays' = displays
    BY Zenon DEF ListsOK
  <2> QED BY <1>1, <2>1
<1> QED BY <1>2, Zenon DEF ListsOK

LEMMA RemoveLists ==
  ASSUME ListsOK, NEW d, RemoveDisplay(d)
  PROVE  ListsOK'
<1>1. UNCHANGED <<initialized, drift, seen>> /\ Found(d) /\ displays' = RemoveAt(displays, IndexOf(d))
  BY Zenon DEF RemoveDisplay, ghosts
<1>2. displays \in Seq(Entry) /\ IndexOf(d) \in DOMAIN displays
  BY <1>1, IndexOfFacts DEF ListsOK
<1>3. displays' \in Seq(Entry)
  BY <1>1, <1>2, RemoveAtFacts
<1>4. \A j \in DOMAIN displays' : \E k \in DOMAIN displays : displays'[j] = displays[k]
  BY <1>1, <1>2, RemoveAtElements
<1>5. Range(displays') \subseteq Range(displays)
  BY <1>4 DEF Range
<1>6. ~drift' => Range(displays') \subseteq Range(seen')
  <2> SUFFICES ASSUME ~drift' PROVE Range(displays') \subseteq Range(seen')
    OBVIOUS
  <2>1. Range(displays) \subseteq Range(seen) /\ seen' = seen
    BY <1>1, Zenon DEF ListsOK
  <2> QED BY <1>5, <2>1
<1> QED BY <1>1, <1>3, <1>6, Zenon DEF ListsOK

LEMMA ListsNext ==
  ASSUME ScreensOK, ListsOK, ExclusiveSurvivesGame, [DisplayNext]_displayVars
  PROVE  ListsOK'
<1> USE DEF screens, plugin, console, ghosts
<1>1. CASE VirtualArrives
  <2>1. PICK d \in plugged : Arrive(d)
    BY <1>1, Zenon DEF VirtualArrives
  <2>2. d \in Displays
    BY DEF ScreensOK
  <2>3. UNCHANGED <<initialized, displays, drift, backup, plugged, late, before>>
    BY <1>1, Zenon DEF VirtualArrives
  <2> QED BY <2>1, <2>2, <2>3, ArriveLists, Zenon
<1>2. CASE MonitorPlugged
  <2>1. PICK d \in Displays : Arrive(d)
    BY <1>2, Zenon DEF MonitorPlugged
  <2>2. UNCHANGED <<initialized, displays, drift, backup, plugged, late, before>>
    BY <1>2, Zenon DEF MonitorPlugged, Event
  <2> QED BY <2>1, <2>2, ArriveLists, Zenon
<1>3. CASE VirtualDeparts
  <2>1. PICK d \in Displays : Depart(d)
    BY <1>3, Zenon DEF VirtualDeparts
  <2>2. UNCHANGED <<initialized, displays, backup, plugged, late, before>>
    BY <1>3, Zenon DEF VirtualDeparts
  <2> QED BY <2>1, <2>2, DepartLists, Zenon
<1>4. CASE MonitorUnplugged
  <2>1. PICK d \in Displays : Depart(d)
    BY <1>4, Zenon DEF MonitorUnplugged
  <2>2. UNCHANGED <<initialized, displays, backup, plugged, late, before>>
    BY <1>4, Zenon DEF MonitorUnplugged, Event
  <2> QED BY <2>1, <2>2, DepartLists, Zenon
<1>5. CASE GetAllDisplays \/ AddDisplayPoll
  <2>1. Enumerate /\ UNCHANGED <<initialized, seen>>
    BY <1>5, Zenon DEF GetAllDisplays, AddDisplayPoll
  <2> QED BY <2>1, EnumerateLists DEF ScreensOK, ListsOK
<1>6. CASE OpenDriver
  <2>1. CASE initialized' = TRUE /\ displays' = <<>> /\ drift' = FALSE
    BY <2>1, EmptyLists
  <2>2. CASE UNCHANGED <<initialized, displays, drift>>
    <3>1. seen' = seen
      BY <1>6, Zenon DEF OpenDriver
    <3> QED BY <2>2, <3>1, Zenon DEF ListsOK
  <2> QED BY <1>6, <2>1, <2>2, Zenon DEF OpenDriver
<1>7. CASE Shutdown
  <2>1. initialized' = FALSE /\ displays' = <<>> /\ drift' = FALSE
    BY <1>7, Zenon DEF Shutdown
  <2> QED BY <2>1, EmptyLists
<1>8. CASE \E d \in Displays : RemoveDisplay(d)
  BY <1>8, RemoveLists, Zenon
<1>9. CASE UNCHANGED listVars
  BY <1>9, Zenon DEF listVars, ListsOK
<1> QED BY <1>1, <1>2, <1>3, <1>4, <1>5, <1>6, <1>7, <1>8, <1>9, ListSteps, Zenon

\* A change of settings hits the display it was asked for.
LEMMA ChangeHits ==
  ASSUME ScreensOK, ListsOK, NEW d \in Displays, ChangeDisplaySettings(d)
  PROVE  ChangeHitsRequested'
<1>1. PICK hit \in Named(d) : changed' = [asked |-> d, hit |-> hit, drift |-> drift]
  BY Zenon DEF ChangeDisplaySettings
<1>2. changed'.asked = d /\ changed'.hit = hit /\ changed'.drift = drift
  BY <1>1, Zenon
<1>3. SUFFICES ASSUME ~drift PROVE hit = d
  BY <1>2, Zenon DEF ChangeHitsRequested
<1> DEFINE e == displays[IndexOf(d)]
<1>4. IndexOf(d) \in DOMAIN displays /\ Uid(e.display) = Uid(d)
  BY IndexOfFacts DEF ListsOK, ChangeDisplaySettings
<1>5. e \in Range(displays) /\ Range(displays) \subseteq Range(seen) /\ e.display \in Displays
  <2>1. e.display \in Displays
    BY <1>4, EntryFacts DEF ListsOK
  <2>2. e \in Range(displays)
    BY <1>4 DEF Range
  <2>3. Range(displays) \subseteq Range(seen)
    BY <1>3, Zenon DEF ListsOK
  <2> QED BY <2>1, <2>2, <2>3
<1>6. PICK v \in Range(Visible) : v.name = e.name /\ hit = v.display
  BY DEF Named
<1> HIDE DEF e
<1>7. v \in Range(seen)
  <2>1. CASE Visible = seen
    BY <2>1, <1>6
  <2>2. CASE Visible = <<>>
    <3>1. DOMAIN Visible = {}
      BY <2>2
    <3> QED BY <1>6, <3>1 DEF Range
  <2> QED BY <2>1, <2>2, Zenon DEF Visible
<1>8. PICK j \in DOMAIN seen, k \in DOMAIN seen : seen[j] = e /\ seen[k] = v
  BY <1>5, <1>7 DEF Range
<1>9. j = k
  BY <1>6, <1>8 DEF ScreensOK, Unique
<1>10. hit = e.display
  BY <1>6, <1>8, <1>9, Zenon
<1> QED BY <1>4, <1>5, <1>10, UidInjective, Zenon

LEMMA ChangesNext ==
  ASSUME ScreensOK, ListsOK, ChangeHitsRequested, [DisplayNext]_displayVars
  PROVE  ChangeHitsRequested'
<1> USE DEF screens, plugin, console, ghosts
<1>1. ASSUME UNCHANGED changed PROVE ChangeHitsRequested'
  BY <1>1, Zenon DEF ChangeHitsRequested
<1>2. CASE Platform
  <2>1. ASSUME NEW d \in Displays, RemoveDisplay(d) \/ SetPrimaryDisplayOnly(d)
        PROVE  UNCHANGED changed
    BY <2>1, Zenon DEF RemoveDisplay, SetPrimaryDisplayOnly
  <2>2. ASSUME \/ GetAllDisplays \/ Initialize \/ OpenDriver \/ AddDisplay \/ AddDisplayPoll
               \/ SetMultiDisplayMode \/ RestoreDisplayConfiguration \/ Shutdown
        PROVE UNCHANGED changed
    BY <2>2, Zenon DEF GetAllDisplays, Initialize, OpenDriver, AddDisplay, AddDisplayPoll,
         SetMultiDisplayMode, RestoreDisplayConfiguration, Shutdown
  <2> QED BY <1>1, <1>2, <2>1, <2>2, ChangeHits, Zenon DEF Platform
<1>3. CASE Windows
  <2>1. UNCHANGED changed
    BY <1>3, Zenon DEF Windows, SessionEvent, GameStarts, GameEnds, ServiceIsLate, Event, TsconEnds,
         VirtualArrives, VirtualDeparts, MonitorPlugged, MonitorUnplugged
  <2> QED BY <1>1, <2>1
<1>4. CASE \E w \in Workers : EnsureConsoleForDisplay(w)
  BY <1>1, <1>4, Zenon DEF EnsureConsoleForDisplay
<1>5. CASE \E c \in Callers : EnsureStep(c)
  BY <1>1, <1>5, Zenon DEF EnsureStep, TakeSwitchMutex, CheckReturns, CheckSwitches, WaitTimesOut
<1>6. CASE UNCHANGED displayVars
  BY <1>1, <1>6, Zenon DEF displayVars
<1> QED BY <1>2, <1>3, <1>4, <1>5, <1>6, Zenon DEF DisplayNext

----------------------------------------------------------------------------
(* AddDisplay, and the switch to the console.                              *)

\* A step as AddDisplay sees it.
LEMMA AddingSteps ==
  ASSUME [DisplayNext]_displayVars
  PROVE  AddDisplay \/ AddDisplayPoll \/ UNCHANGED adding
<1> USE DEF screens, plugin, console, ghosts
<1>1. CASE Platform
  <2>1. ASSUME NEW d \in Displays,
               RemoveDisplay(d) \/ SetPrimaryDisplayOnly(d) \/ ChangeDisplaySettings(d)
        PROVE  UNCHANGED adding
    BY <2>1, Zenon DEF RemoveDisplay, SetPrimaryDisplayOnly, ChangeDisplaySettings
  <2>2. ASSUME \/ GetAllDisplays \/ Initialize \/ OpenDriver
               \/ SetMultiDisplayMode \/ RestoreDisplayConfiguration \/ Shutdown
        PROVE UNCHANGED adding
    BY <2>2, Zenon DEF GetAllDisplays, Initialize, OpenDriver,
         SetMultiDisplayMode, RestoreDisplayConfiguration, Shutdown
  <2> QED BY <1>1, <2>1, <2>2, Zenon DEF Platform
<1>2. CASE Windows
  BY <1>2, Zenon DEF Windows, SessionEvent, GameStarts, GameEnds, ServiceIsLate, Event, TsconEnds,
         VirtualArrives, VirtualDeparts, MonitorPlugged, MonitorUnplugged
<1>3. CASE \E w \in Workers : EnsureConsoleForDisplay(w)
  BY <1>3, Zenon DEF EnsureConsoleForDisplay
<1>4. CASE \E c \in Callers : EnsureStep(c)
  BY <1>4, Zenon DEF EnsureStep, TakeSwitchMutex, CheckReturns, CheckSwitches, WaitTimesOut
<1>5. CASE UNCHANGED displayVars
  BY <1>5, Zenon DEF displayVars
<1> QED BY <1>1, <1>2, <1>3, <1>4, <1>5, Zenon DEF DisplayNext

LEMMA AddingNext ==
  ASSUME ListsOK, adding \in Addings, [DisplayNext]_displayVars
  PROVE  adding' \in Addings
<1>1. CASE AddDisplay
  <2>1. PICK d \in Displays : adding' = [display |-> d, prev |-> displays, attempt |-> 1]
    BY <1>1, Zenon DEF AddDisplay
  <2>2. 1 \in 1 .. Attempts
    BY DisplayBoundsAssumption
  <2> QED BY <2>1, <2>2 DEF Addings, ListsOK
<1>2. CASE AddDisplayPoll
  <2>1. adding \in [display : Displays, prev : Seq(Entry), attempt : 1 .. Attempts]
    BY <1>2, Zenon DEF AddDisplayPoll, Addings
  <2>2. \/ adding' = None
        \/ ~LastAttempt /\ adding' = [adding EXCEPT !.attempt = @ + 1]
    BY <1>2, Zenon DEF AddDisplayPoll
  <2>3. CASE ~LastAttempt /\ adding' = [adding EXCEPT !.attempt = @ + 1]
    <3>1. adding.attempt + 1 \in 1 .. Attempts
      BY <2>1, <2>3, DisplayBoundsAssumption DEF LastAttempt
    <3> QED BY <2>1, <2>3, <3>1 DEF Addings
  <2> QED BY <2>2, <2>3, Zenon DEF Addings
<1> QED BY <1>1, <1>2, AddingSteps, Zenon

\* Returning, and any step of one caller.
LEMMA StepFacts ==
  ASSUME ConsoleOK, NEW c \in Callers, NEW s \in {"idle", "want", "check", "wait", "ready"}
  PROVE  [step EXCEPT ![c] = s] \in [Callers -> {"idle", "want", "check", "wait", "ready"}]
BY DEF ConsoleOK

LEMMA ReturnConsole ==
  ASSUME ConsoleOK, NEW c \in Callers, Return(c)
  PROVE  /\ step' \in [Callers -> {"idle", "want", "check", "wait", "ready"}]
         /\ holder' \in Callers \cup {"none"}
<1>1. (IF c = "platform" THEN "ready" ELSE "idle") \in {"idle", "want", "check", "wait", "ready"}
  OBVIOUS
<1> QED BY <1>1, StepFacts DEF Return

LEMMA ConsoleNext ==
  ASSUME ConsoleOK, [DisplayNext]_displayVars
  PROVE  ConsoleOK'
<1> USE DEF screens, plugin, ghosts
<1>1. CASE UNCHANGED console
  BY <1>1, Zenon DEF console, ConsoleOK
<1>2. CASE Initialize \/ OpenDriver
  <2>1. UNCHANGED <<place, holder, tscons>>
    BY <1>2, Zenon DEF Initialize, OpenDriver, Call
  <2>2. "platform" \in Callers
    BY Zenon DEF Callers
  <2>3. PICK s \in {"idle", "want", "check", "wait", "ready"} :
          step' = [step EXCEPT !["platform"] = s]
    BY <1>2 DEF Initialize, OpenDriver
  <2> QED BY <2>1, <2>2, <2>3, StepFacts DEF ConsoleOK
<1>3. CASE SessionEvent
  <2>1. UNCHANGED <<step, holder, tscons>>
    BY <1>3, Zenon DEF SessionEvent
  <2>2. PICK s \in Sessions, v \in {"console", "rdp", "away", "out"} :
          place' = [place EXCEPT ![s] = v]
    BY <1>3 DEF SessionEvent
  <2>3. place' \in [Sessions -> {"console", "rdp", "away", "out"}]
    BY <2>2 DEF ConsoleOK
  <2> QED BY <2>1, <2>3, Zenon DEF ConsoleOK
<1>4. CASE \E w \in Workers : EnsureConsoleForDisplay(w)
  <2>1. PICK w \in Workers : EnsureConsoleForDisplay(w)
    BY <1>4
  <2>2. w \in Callers /\ UNCHANGED <<place, holder, tscons>> /\ step' = [step EXCEPT ![w] = "want"]
    BY <2>1, Zenon DEF EnsureConsoleForDisplay, Callers
  <2>3. step' \in [Callers -> {"idle", "want", "check", "wait", "ready"}]
    BY <2>2, StepFacts
  <2> QED BY <2>2, <2>3, Zenon DEF ConsoleOK
<1>5. ASSUME NEW c \in Callers, TakeSwitchMutex(c) PROVE ConsoleOK'
  <2>1. UNCHANGED <<place, tscons>> /\ holder' = c /\ step' = [step EXCEPT ![c] = "check"]
    BY <1>5, Zenon DEF TakeSwitchMutex
  <2>2. step' \in [Callers -> {"idle", "want", "check", "wait", "ready"}]
    BY <2>1, StepFacts
  <2>3. holder' \in Callers \cup {"none"}
    BY <2>1
  <2> QED BY <2>1, <2>2, <2>3, Zenon DEF ConsoleOK
<1>6. ASSUME NEW c \in Callers, CheckReturns(c) PROVE ConsoleOK'
  <2>1. UNCHANGED <<place, tscons>> /\ Return(c)
    BY <1>6, Zenon DEF CheckReturns
  <2> QED BY <2>1, ReturnConsole, Zenon DEF ConsoleOK
<1>7. ASSUME NEW c \in Callers, CheckSwitches(c) PROVE ConsoleOK'
  <2>1. UNCHANGED place
    BY <1>7, Zenon DEF CheckSwitches
  <2>2. PICK s \in TargetSessions :
          \/ /\ tscons' = Append(tscons, [by |-> c, target |-> s])
             /\ step' = [step EXCEPT ![c] = "wait"]
             /\ UNCHANGED holder
          \/ Return(c) /\ UNCHANGED tscons
    BY <1>7, Zenon DEF CheckSwitches
  <2>3. s \in Sessions
    BY DEF TargetSessions
  <2>4. CASE /\ tscons' = Append(tscons, [by |-> c, target |-> s])
             /\ step' = [step EXCEPT ![c] = "wait"]
             /\ UNCHANGED holder
    <3>1. [by |-> c, target |-> s] \in Tscons
      BY <2>3 DEF Tscons
    <3>2. tscons' \in Seq(Tscons)
      BY <2>4, <3>1, AppendProperties DEF ConsoleOK
    <3>3. step' \in [Callers -> {"idle", "want", "check", "wait", "ready"}]
      BY <2>4, StepFacts
    <3> QED BY <2>1, <2>4, <3>2, <3>3, Zenon DEF ConsoleOK
  <2>5. CASE Return(c) /\ UNCHANGED tscons
    BY <2>1, <2>5, ReturnConsole, Zenon DEF ConsoleOK
  <2> QED BY <2>2, <2>4, <2>5
<1>8. ASSUME NEW c \in Callers, WaitTimesOut(c) PROVE ConsoleOK'
  <2>1. UNCHANGED place /\ Return(c)
    BY <1>8, Zenon DEF WaitTimesOut
  <2>2. tscons' = [i \in DOMAIN tscons |->
                     IF tscons[i].by = c THEN [tscons[i] EXCEPT !.by = "none"] ELSE tscons[i]]
    BY <1>8, Zenon DEF WaitTimesOut
  <2>3. DOMAIN tscons = 1 .. Len(tscons) /\ Len(tscons) \in Nat
        /\ \A i \in DOMAIN tscons : tscons[i] \in Tscons
    BY LenProperties DEF ConsoleOK
  <2>4. \A i \in DOMAIN tscons :
          (IF tscons[i].by = c THEN [tscons[i] EXCEPT !.by = "none"] ELSE tscons[i]) \in Tscons
    BY <2>3 DEF Tscons
  <2>5. tscons' \in [1 .. Len(tscons) -> Tscons]
    BY <2>2, <2>3, <2>4
  <2>6. tscons' \in Seq(Tscons)
    BY <2>3, <2>5
  <2> QED BY <2>1, <2>6, ReturnConsole, Zenon DEF ConsoleOK
<1>9. ASSUME NEW i \in DOMAIN tscons, TsconEnds(i) PROVE ConsoleOK'
  <2>1. tscons' \in Seq(Tscons)
    BY <1>9, RemoveAtFacts DEF TsconEnds, ConsoleOK
  <2>2. tscons[i] \in Tscons
    BY LenProperties DEF ConsoleOK
  <2>3. place' \in [Sessions -> {"console", "rdp", "away", "out"}]
    BY <1>9 DEF TsconEnds, ConsoleOK
  <2>4. CASE tscons[i].by = "none"
    BY <1>9, <2>1, <2>3, <2>4, Zenon DEF TsconEnds, ConsoleOK
  <2>5. CASE tscons[i].by # "none"
    <3>1. tscons[i].by \in Callers /\ Return(tscons[i].by)
      BY <1>9, <2>2, <2>5 DEF Tscons, TsconEnds
    <3> QED BY <2>1, <2>3, <3>1, ReturnConsole, Zenon DEF ConsoleOK
  <2> QED BY <2>4, <2>5
<1>10. ASSUME Platform PROVE Initialize \/ OpenDriver \/ UNCHANGED console
  <2>1. ASSUME NEW d \in Displays,
               RemoveDisplay(d) \/ SetPrimaryDisplayOnly(d) \/ ChangeDisplaySettings(d)
        PROVE  UNCHANGED console
    BY <2>1, Zenon DEF RemoveDisplay, SetPrimaryDisplayOnly, ChangeDisplaySettings, Call, console
  <2>2. ASSUME \/ GetAllDisplays \/ AddDisplay \/ AddDisplayPoll
               \/ SetMultiDisplayMode \/ RestoreDisplayConfiguration \/ Shutdown
        PROVE UNCHANGED console
    BY <2>2, Zenon DEF GetAllDisplays, AddDisplay, AddDisplayPoll,
         SetMultiDisplayMode, RestoreDisplayConfiguration, Shutdown, Call, console
  <2> QED BY <1>10, <2>1, <2>2, Zenon DEF Platform
<1>11. ASSUME Windows
       PROVE  SessionEvent \/ (\E i \in DOMAIN tscons : TsconEnds(i)) \/ UNCHANGED console
  BY <1>11, Zenon DEF Windows, GameStarts, GameEnds, ServiceIsLate, Event,
         VirtualArrives, VirtualDeparts, MonitorPlugged, MonitorUnplugged
<1>12. UNCHANGED displayVars => UNCHANGED console
  BY Zenon DEF displayVars
<1> QED BY <1>1, <1>2, <1>3, <1>4, <1>5, <1>6, <1>7, <1>8, <1>9, <1>10, <1>11, <1>12, Zenon
        DEF DisplayNext, EnsureStep

----------------------------------------------------------------------------
(* The initial states.                                                     *)

\* A finite set as a sequence.
LEMMA SetToSeqFacts ==
  ASSUME NEW S, IsFiniteSet(S)
  PROVE  /\ SetToSeq(S) \in Seq(S) /\ Range(SetToSeq(S)) = S
         /\ \A i, j \in DOMAIN SetToSeq(S) : SetToSeq(S)[i] = SetToSeq(S)[j] => i = j
<1> DEFINE n == Cardinality(S)
           q == SetToSeq(S)
<1>1. n \in Nat /\ ExistsBijection(1 .. n, S)
  BY FS_CardinalityType
<1>2. PICK f : f \in Bijection(1 .. n, S)
  BY <1>1 DEF ExistsBijection
<1>3. f \in [1 .. n -> S] /\ IsInjective(f)
  BY <1>2 DEF Bijection, Injection
<1>4. q \in [1 .. n -> S] /\ IsInjective(q)
  <2>1. \E g \in [1 .. Cardinality(S) -> S] : IsInjective(g)
    BY <1>3, Zenon
  <2> QED BY <2>1, Zenon DEF SetToSeq
<1> HIDE DEF q
<1>5. q \in Injection(1 .. n, S)
  BY <1>4 DEF Injection
<1>6. Cardinality(1 .. n) = n
  BY <1>1, IntervalFacts
<1>7. q \in Surjection(1 .. n, S)
  <2>1. Cardinality(1 .. n) = Cardinality(S) <=> q \in Surjection(1 .. n, S)
    BY <1>5, FS_Injection
  <2> QED BY <1>6, <2>1
<1> HIDE DEF n
<1>8. q \in Seq(S) /\ DOMAIN q = 1 .. n
  BY <1>1, <1>4
<1>9. Range(q) = S
  BY <1>4, <1>7, <1>8 DEF Range, Surjection
<1>10. \A i, j \in DOMAIN q : q[i] = q[j] => i = j
  BY <1>4 DEF IsInjective
<1> QED BY <1>8, <1>9, <1>10 DEF q

\* The names that the monitors have at first.
Rank(S, t) == Cardinality({u \in S : u <= t})

LEMMA RankFacts ==
  ASSUME NEW S \in SUBSET PhysicalTargets
  PROVE  /\ \A t \in S : Rank(S, t) \in Names
         /\ \A t, u \in S : t # u => Rank(S, t) # Rank(S, u)
<1>1. PhysicalTargets \subseteq Int /\ IsFiniteSet(PhysicalTargets)
  BY TargetsAssumption
<1> DEFINE upto(t) == {u \in S : u <= t}
<1>2. ASSUME NEW t PROVE IsFiniteSet(upto(t)) /\ Cardinality(upto(t)) \in Nat
  <2>1. upto(t) \in SUBSET PhysicalTargets
    OBVIOUS
  <2> HIDE DEF upto
  <2>2. IsFiniteSet(upto(t))
    BY <1>1, <2>1, FS_Subset
  <2> QED BY <2>2, FS_CardinalityType
<1>3. ASSUME NEW t \in S PROVE Rank(S, t) \in Names
  <2> DEFINE no == FALSE
             f == [u \in upto(t) |-> <<no, u>>]
  <2>1. {no} \X PhysicalTargets \subseteq Displays
    BY DEF Displays
  <2> HIDE DEF no
  <2>2. f \in [upto(t) -> Displays]
    <3>1. \A u \in upto(t) : <<no, u>> \in {no} \X PhysicalTargets
      OBVIOUS
    <3> QED BY <2>1, <3>1
  <2>3. \A u, w \in upto(t) : f[u] = f[w] => u = w
    OBVIOUS
  <2>4. f \in Injection(upto(t), Displays)
    <3> HIDE DEF f, upto
    <3> QED BY <2>2, <2>3 DEF Injection, IsInjective
  <2>5. Cardinality(upto(t)) <= Cardinality(Displays) /\ Cardinality(Displays) \in Nat
    <3> HIDE DEF f, upto
    <3> QED BY <2>4, DisplaysFinite, FS_Injection
  <2>6. t \in upto(t)
    BY <1>1
  <2>7. Cardinality(upto(t)) # 0
    <3> HIDE DEF upto
    <3> QED BY <1>2, <2>6, FS_EmptySet
  <2>8. Rank(S, t) = Cardinality(upto(t))
    BY DEF Rank
  <2> HIDE DEF upto
  <2> QED BY <1>2, <2>5, <2>7, <2>8 DEF Names
<1>4. ASSUME NEW t \in S, NEW u \in S, t < u PROVE Rank(S, t) # Rank(S, u)
  <2>1. upto(t) \in SUBSET upto(u) /\ u \in upto(u) /\ u \notin upto(t)
    <3>1. t \in Int /\ u \in Int /\ \A w \in S : w \in Int
      BY <1>1
    <3>2. u <= u /\ ~(u <= t)
      BY <1>4, <3>1
    <3>3. \A w \in S : w <= t => w <= u
      BY <1>4, <3>1
    <3> QED BY <3>2, <3>3
  <2>2. Rank(S, t) = Cardinality(upto(t)) /\ Rank(S, u) = Cardinality(upto(u))
    BY DEF Rank
  <2> HIDE DEF upto
  <2>3. Cardinality(upto(u)) = Cardinality(upto(t)) => upto(u) = upto(t)
    BY <1>2, <2>1, FS_Subset
  <2> QED BY <2>1, <2>2, <2>3
<1>5. ASSUME NEW t \in S, NEW u \in S, t # u PROVE Rank(S, t) # Rank(S, u)
  <2>1. t < u \/ u < t
    BY <1>1, <1>5
  <2> QED BY <1>4, <2>1
<1> QED BY <1>3, <1>5

LEMMA InitScreens ==
  ASSUME DisplayInit
  PROVE  ScreensOK
<1>1. PICK S \in SUBSET PhysicalTargets :
        /\ active = AllOn({FALSE} \X S) /\ db = active
        /\ seen = SetToSeq({[display |-> <<FALSE, t>>,
                             name |-> Cardinality({u \in S : u <= t})] : t \in S})
  BY Zenon DEF DisplayInit
<1> DEFINE no == FALSE
           entry(t) == [display |-> <<no, t>>, name |-> Rank(S, t)]
           E == {entry(t) : t \in S}
<1>2. seen = SetToSeq(E) /\ active = AllOn({no} \X S)
  BY <1>1 DEF Rank
<1>3. {no} \X S \subseteq Displays
  BY DEF Displays
<1> HIDE DEF no
<1>4. \A t \in S : <<no, t>> \in Displays /\ entry(t) \in Entry
  <2> TAKE t \in S
  <2>1. <<no, t>> \in {no} \X S
    OBVIOUS
  <2>2. Rank(S, t) \in Names
    BY RankFacts
  <2> QED BY <1>3, <2>1, <2>2 DEF Entry
<1>5. \A t \in S : entry(t).display = <<no, t>> /\ entry(t).name = Rank(S, t)
  OBVIOUS
<1> HIDE DEF entry
<1>6. IsFiniteSet(E)
  <2> DEFINE f == [t \in S |-> entry(t)]
  <2>1. f \in Surjection(S, E)
    BY DEF Surjection
  <2>2. IsFiniteSet(S)
    BY FS_Subset, TargetsAssumption
  <2> HIDE DEF f, E
  <2> QED BY <2>1, <2>2, FS_Surjection
<1>7. /\ seen \in Seq(E) /\ Range(seen) = E
      /\ \A i, j \in DOMAIN seen : seen[i] = seen[j] => i = j
  <2> HIDE DEF E
  <2> QED BY <1>2, <1>6, SetToSeqFacts
<1>8. seen \in Seq(Entry)
  <2>1. E \subseteq Entry
    BY <1>4
  <2> HIDE DEF E
  <2> QED BY <1>7, <2>1, SeqMonotonic
<1>9. ASSUME NEW t \in S, NEW u \in S, t # u
      PROVE  entry(t).name # entry(u).name /\ entry(t).display # entry(u).display
  <2>1. Rank(S, t) # Rank(S, u)
    BY <1>9, RankFacts
  <2>2. <<no, t>> # <<no, u>>
    BY <1>9
  <2> QED BY <1>5, <2>1, <2>2
<1>10. Unique(seen)
  <2> SUFFICES ASSUME NEW i \in DOMAIN seen, NEW j \in DOMAIN seen, i # j
               PROVE  seen[i].name # seen[j].name /\ seen[i].display # seen[j].display
    BY DEF Unique
  <2>1. seen[i] \in E /\ seen[j] \in E /\ seen[i] # seen[j]
    BY <1>7 DEF Range
  <2>2. PICK t \in S : seen[i] = entry(t)
    BY <2>1
  <2>3. PICK u \in S : seen[j] = entry(u)
    BY <2>1
  <2>4. t # u
    BY <2>1, <2>2, <2>3
  <2> QED BY <1>9, <2>2, <2>3, <2>4, Zenon
<1>11. active \in Configs /\ DOMAIN active = {no} \X S
  BY <1>2, <1>3, AllOnFacts
<1>12. {no} \X S \subseteq Shown(seen)
  <2> SUFFICES ASSUME NEW t \in S PROVE <<no, t>> \in Shown(seen)
    OBVIOUS
  <2>1. entry(t) \in Range(seen)
    BY <1>7
  <2>2. PICK i \in DOMAIN seen : seen[i] = entry(t)
    BY <2>1 DEF Range
  <2> QED BY <1>5, <2>2 DEF Shown
<1>13. plugged \subseteq Displays /\ late \in Seq(Requests)
  BY DEF DisplayInit
<1>14. backup \in Backups /\ before \in Backups
  BY Zenon DEF DisplayInit, Backups
<1> QED BY <1>1, <1>8, <1>10, <1>11, <1>12, <1>13, <1>14, Zenon DEF ScreensOK

LEMMA DisplayInvInit ==
  ASSUME DisplayInit
  PROVE  DisplayInv
<1>1. ScreensOK
  BY InitScreens
<1>2. ListsOK
  <2>1. displays = <<>> /\ initialized = FALSE /\ drift = FALSE
    BY Zenon DEF DisplayInit
  <2>2. displays \in Seq(Entry) /\ DOMAIN displays = {}
    BY <2>1
  <2>3. Range(displays) \subseteq Range(seen)
    BY <2>2 DEF Range
  <2> QED BY <2>1, <2>2, <2>3, Zenon DEF ListsOK
<1>3. ConsoleOK
  <2>1. /\ place \in {p \in [Sessions -> {"console", "away", "out"}] :
                        p["ours"] # "out" /\ p["other"] = "out"}
        /\ step = [c \in Callers |-> "idle"] /\ holder = "none" /\ tscons = <<>>
    BY Zenon DEF DisplayInit
  <2>2. place \in [Sessions -> {"console", "rdp", "away", "out"}]
    BY <2>1
  <2>3. step \in [Callers -> {"idle", "want", "check", "wait", "ready"}] /\ tscons \in Seq(Tscons)
    BY <2>1
  <2> QED BY <2>1, <2>2, <2>3 DEF ConsoleOK
<1>4. adding \in Addings
  BY Zenon DEF DisplayInit, Addings
<1>5. ExclusiveCanBeUndone /\ ExclusiveSurvivesGame /\ ChangeHitsRequested
  BY Zenon DEF DisplayInit, ExclusiveCanBeUndone, ExclusiveSurvivesGame, ChangeHitsRequested
<1> QED BY <1>1, <1>2, <1>3, <1>4, <1>5 DEF DisplayInv

LEMMA DisplayInvNext ==
  ASSUME DisplayInv, [DisplayNext]_displayVars
  PROVE  DisplayInv'
<1>1. ScreensOK' /\ ExclusiveCanBeUndone' /\ ExclusiveSurvivesGame'
  BY ScreensNext, Zenon DEF DisplayInv
<1>2. ListsOK'
  BY ListsNext, Zenon DEF DisplayInv
<1>3. ChangeHitsRequested'
  BY ChangesNext, Zenon DEF DisplayInv
<1>4. ConsoleOK'
  BY ConsoleNext, Zenon DEF DisplayInv
<1>5. adding' \in Addings
  BY AddingNext, Zenon DEF DisplayInv
<1> QED BY <1>1, <1>2, <1>3, <1>4, <1>5, Zenon DEF DisplayInv

\* The invariant of the virtual displays is inductive, for any number of displays,
\* modes, calls and changes.
THEOREM DisplayInvariant == DisplaySpec => []DisplayInv
<1>1. DisplayInit => DisplayInv
  BY DisplayInvInit
<1>2. DisplayInv /\ [DisplayNext]_displayVars => DisplayInv'
  BY DisplayInvNext
<1> QED BY <1>1, <1>2, PTL DEF DisplaySpec

\* The types of VirtualDisplayControl's state and of Windows' list of displays.
THEOREM DisplayTypeCorrect == DisplaySpec => []DisplayTypeOK
<1>1. DisplayInv => DisplayTypeOK
  <2> SUFFICES ASSUME DisplayInv PROVE DisplayTypeOK
    OBVIOUS
  <2>1. adding # None => adding.attempt \in 1 .. Attempts
    BY DEF DisplayInv, Addings
  <2>2. \A c \in {backup, before} \ {None} : c.persistent \in Configs /\ c.original \in Configs
    BY BackupConfigs DEF DisplayInv, ScreensOK
  <2>3. /\ \A s \in Sessions : place[s] \in {"console", "rdp", "away", "out"}
        /\ \A c \in Callers : step[c] \in {"idle", "want", "check", "wait", "ready"}
    BY DEF DisplayInv, ConsoleOK
  <2> QED BY <2>1, <2>2, <2>3, Zenon DEF DisplayTypeOK, DisplayInv, ScreensOK, ListsOK, ConsoleOK, Unique
<1> QED BY <1>1, DisplayInvariant, PTL

\* The exclusive topology of VirtualDisplayControl lasts through the games' changes
\* and can be undone, and a change of the displays hits the one it names.
THEOREM DisplaysAreSound == DisplaySpec => []DisplaysSound
<1>1. DisplayInv => DisplaysSound
  BY Zenon DEF DisplayInv, DisplaysSound
<1> QED BY <1>1, DisplayInvariant, PTL

\* A step as the memory of the topology before sees it.
LEMMA BeforeSteps ==
  ASSUME DisplayInv, [DisplayNext]_displayVars, before # None, before' = None
  PROVE  RestoreBoth /\ backup = before
<1> USE DEF screens, plugin, console, ghosts
<1>1. backup = before /\ backup # None
  BY Zenon DEF DisplayInv, ExclusiveCanBeUndone
<1>2. CASE RestoreDisplayConfiguration \/ Shutdown
  BY <1>1, <1>2, Zenon DEF RestoreDisplayConfiguration, Shutdown, RestoreNothing, RestorePersistentOnly
<1>3. ASSUME NEW d \in Displays, SetPrimaryDisplayOnly(d) PROVE FALSE
  BY <1>1, <1>3, Zenon DEF SetPrimaryDisplayOnly, SetRefused
<1>4. ASSUME NEW d \in Displays, RemoveDisplay(d) \/ ChangeDisplaySettings(d) PROVE before' = before
  BY <1>4, Zenon DEF RemoveDisplay, ChangeDisplaySettings
<1>5. ASSUME \/ VirtualArrives \/ VirtualDeparts \/ MonitorPlugged \/ MonitorUnplugged
             \/ GameStarts \/ GameEnds \/ ServiceIsLate \/ AddDisplay \/ SetMultiDisplayMode
      PROVE  before' = before
  BY <1>5, Zenon DEF VirtualArrives, VirtualDeparts, MonitorPlugged, MonitorUnplugged,
       GameStarts, GameEnds, ServiceIsLate, AddDisplay, SetMultiDisplayMode
<1>6. ASSUME UNCHANGED screenVars PROVE before' = before
  BY <1>6, Zenon DEF screenVars
<1> QED BY <1>1, <1>2, <1>3, <1>4, <1>5, <1>6, ScreenSteps, Zenon

\* A display is listed as often as its list is long at most.
LEMMA ShownBound ==
  ASSUME NEW list \in Seq(Entry)
  PROVE  IsFiniteSet(Shown(list)) /\ Cardinality(Shown(list)) <= Len(list)
<1>1. Len(list) \in Nat /\ DOMAIN list = 1 .. Len(list)
  BY LenProperties
<1> DEFINE f == [i \in 1 .. Len(list) |-> list[i].display]
<1>2. f \in Surjection(1 .. Len(list), Shown(list))
  BY <1>1 DEF Shown, Surjection
<1>3. IsFiniteSet(1 .. Len(list)) /\ Cardinality(1 .. Len(list)) = Len(list)
  BY <1>1, IntervalFacts
<1> HIDE DEF f
<1> QED BY <1>2, <1>3, FS_Surjection

\* A list in which no display is twice shows as many as it is long.
LEMMA ShownExact ==
  ASSUME NEW list \in Seq(Entry), Unique(list)
  PROVE  Cardinality(Shown(list)) = Len(list)
<1>1. Len(list) \in Nat /\ DOMAIN list = 1 .. Len(list)
  BY LenProperties
<1> DEFINE f == [i \in 1 .. Len(list) |-> list[i].display]
<1>2. f \in Surjection(1 .. Len(list), Shown(list))
  BY <1>1 DEF Shown, Surjection
<1>3. f \in Injection(1 .. Len(list), Shown(list))
  BY <1>1 DEF Shown, Injection, IsInjective, Unique
<1>4. IsFiniteSet(1 .. Len(list)) /\ Cardinality(1 .. Len(list)) = Len(list)
  BY <1>1, IntervalFacts
<1> HIDE DEF f
<1> QED BY <1>2, <1>3, <1>4, FS_Surjection

LEMMA PollLists ==
  ASSUME DisplayInv, AddDisplayPoll, adding' = None, adding.attempt < Attempts,
         Shown(displays') \subseteq Shown(adding.prev) \cup {adding.display}
  PROVE  adding.display \in Shown(displays')
<1>1. adding \in [display : Displays, prev : Seq(Entry), attempt : 1 .. Attempts]
  BY Zenon DEF DisplayInv, Addings, AddDisplayPoll
<1>2. Len(displays') > Len(adding.prev)
  <2> SUFFICES ASSUME ~(Len(displays') > Len(adding.prev)) PROVE FALSE
    OBVIOUS
  <2>1. ~LastAttempt
    BY <1>1, DisplayBoundsAssumption DEF LastAttempt
  <2>2. adding' = [adding EXCEPT !.attempt = @ + 1]
    BY <2>1, Zenon DEF AddDisplayPoll, MoreThan
  <2>3. "attempt" \in DOMAIN adding'
    BY <1>1, <2>2
  <2>4. DOMAIN adding' = {}
    BY DEF None
  <2> QED BY <2>3, <2>4
<1>3. displays' \in Seq(Entry) /\ Unique(displays')
  <2>1. displays' = Visible
    BY DEF AddDisplayPoll, Enumerate
  <2>2. CASE Visible = seen
    BY <2>1, <2>2, Zenon DEF DisplayInv, ScreensOK
  <2>3. CASE Visible = <<>>
    <3>1. displays' \in Seq(Entry) /\ DOMAIN displays' = {}
      BY <2>1, <2>3
    <3> QED BY <3>1 DEF Unique
  <2> QED BY <2>2, <2>3, Zenon DEF Visible
<1>4. SUFFICES ASSUME adding.display \notin Shown(displays') PROVE FALSE
  OBVIOUS
<1> DEFINE P == Shown(adding.prev)
           Q == Shown(displays')
<1>5. Q \in SUBSET P
  BY <1>4
<1>6. IsFiniteSet(P) /\ Cardinality(P) <= Len(adding.prev) /\ Cardinality(P) \in Nat
      /\ Len(adding.prev) \in Nat
  <2>1. adding.prev \in Seq(Entry)
    BY <1>1
  <2>2. IsFiniteSet(P) /\ Cardinality(P) <= Len(adding.prev)
    BY <2>1, ShownBound
  <2> QED BY <2>1, <2>2, FS_CardinalityType, LenProperties
<1>7. Cardinality(Q) = Len(displays') /\ Len(displays') \in Nat
  BY <1>3, ShownExact, LenProperties
<1>8. Cardinality(Q) <= Cardinality(P)
  <2> HIDE DEF P, Q
  <2> QED BY <1>5, <1>6, FS_Subset
<1> HIDE DEF P, Q
<1> QED BY <1>2, <1>6, <1>7, <1>8

\* A call of VirtualDisplayControl that reports success had its effect.
THEOREM CallsAreEffective == DisplaySpec => CallsTakeEffect
<1> DEFINE restored == before # None /\ before' = None =>
                         /\ db' = Only(before.persistent, Shown(seen))
                         /\ active' = Only(before.original, Shown(seen))
           listed == (/\ adding # None /\ adding' = None
                      /\ Shown(displays') \subseteq Shown(adding.prev) \cup {adding.display}
                      /\ adding.attempt < Attempts) => adding.display \in Shown(displays')
<1>1. DisplayInv /\ [DisplayNext]_displayVars => restored
  <2> SUFFICES ASSUME DisplayInv, [DisplayNext]_displayVars, before # None, before' = None
               PROVE  /\ db' = Only(before.persistent, Shown(seen))
                      /\ active' = Only(before.original, Shown(seen))
    BY Zenon
  <2>1. RestoreBoth /\ backup = before
    BY BeforeSteps
  <2> QED BY <2>1, Zenon DEF RestoreBoth
<1>2. DisplayInv /\ [DisplayNext]_displayVars => listed
  <2> SUFFICES ASSUME DisplayInv, [DisplayNext]_displayVars, adding # None, adding' = None,
                      Shown(displays') \subseteq Shown(adding.prev) \cup {adding.display},
                      adding.attempt < Attempts
               PROVE  adding.display \in Shown(displays')
    BY Zenon
  <2>1. AddDisplayPoll
    BY AddingSteps, Zenon DEF AddDisplay, Call
  <2> QED BY <2>1, PollLists
<1> HIDE DEF restored, listed
<1>3. DisplaySpec => [][restored]_displayVars /\ [][listed]_displayVars
  BY <1>1, <1>2, DisplayInvariant, PTL DEF DisplaySpec
<1> QED BY <1>3 DEF CallsTakeEffect, RestoreBringsBack, CreatedIsListed, restored, listed

=============================================================================
