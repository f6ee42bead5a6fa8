---------------------------- MODULE OutboxProofs ----------------------------
(***************************************************************************)
(* Proofs about Outbox, for any events, numbers of attempts and bounds on   *)
(* deaths and lost traces.                                                  *)
(***************************************************************************)
EXTENDS Outbox, TLAPS

(* What a delivery job may rely on: nothing exists before the event is      *)
(* recorded, the job holds its lock from the queue to its end, and a        *)
(* message that is being sent was not delivered before.                     *)
Unrecorded(e) ==
  event[e] = "none" =>
    /\ delivery[e] = "none" /\ listed[e] = "none"
    /\ eventJob[e] = NoJob /\ sendJob[e] = NoJob
JobHoldsLock(e) == sendJob[e].stage # "none" => <<"send", e>> \in locked
SendsUndelivered(e) == sendJob[e].stage = "sending" => delivery[e] # "delivered"

(* A sending is accounted for by a lost trace, by the job that is about to  *)
(* record it or by the delivered row.                                       *)
Traced(e) == sendJob[e].stage = "sent" \/ delivery[e] = "delivered"
Accounted(e) == sent[e] <= slips[e] + (IF Traced(e) THEN 1 ELSE 0)

EventInv(e) ==
  Unrecorded(e) /\ JobHoldsLock(e) /\ SendsUndelivered(e) /\ Accounted(e)
OutboxInv == OutboxTypeOK /\ \A e \in Event : EventInv(e)

USE OutboxAssumption DEF OutboxAssumption

-----------------------------------------------------------------------------
LEMMA InitType == OutboxInit => OutboxTypeOK
  BY DEF OutboxInit, OutboxTypeOK, EventStatus, DeliveryStatus, EventRun, SendRun, NoJob

(* What the steps make of a run is a run. *)
LEMMA EventRunTyped ==
  ASSUME NEW r \in EventRun
  PROVE  /\ NoJob \in EventRun /\ Queued \in EventRun
         /\ \A s \in {"queued", "queueing", "pushed", "recorded"} :
              [r EXCEPT !.stage = s] \in EventRun
         /\ r.tries < EventTries =>
              [stage |-> "claimed", tries |-> r.tries + 1] \in EventRun
  BY DEF EventRun, NoJob, Queued

LEMMA SendRunTyped ==
  ASSUME NEW r \in SendRun
  PROVE  /\ NoJob \in SendRun /\ Queued \in SendRun
         /\ \A s \in {"queued", "sending", "sent", "recorded"} :
              [r EXCEPT !.stage = s] \in SendRun
         /\ r.tries < DeliveryTries =>
              [stage |-> "claimed", tries |-> r.tries + 1] \in SendRun
  BY DEF SendRun, NoJob, Queued

(* Dispatching keeps the types of the job, the locks and the deaths. *)
LEMMA DispatchTyped ==
  ASSUME OutboxTypeOK, NEW e \in Event
  PROVE  /\ Dispatch(eventJob, "event", e) =>
              /\ eventJob' \in [Event -> EventRun] /\ deaths' \in 0..MaxDeaths
              /\ locked' \subseteq {"event", "send"} \X Event
         /\ Dispatch(sendJob, "send", e) =>
              /\ sendJob' \in [Event -> SendRun] /\ deaths' \in 0..MaxDeaths
              /\ locked' \subseteq {"event", "send"} \X Event
  <1>1. Queued \in EventRun /\ Queued \in SendRun
    BY EventRunTyped, SendRunTyped DEF OutboxTypeOK
  <1>2. deaths \in 0..MaxDeaths /\ (Dies => deaths' \in 0..MaxDeaths)
    BY DEF OutboxTypeOK, Dies
  <1>3. locked \subseteq {"event", "send"} \X Event
    BY DEF OutboxTypeOK
  <1>4. eventJob \in [Event -> EventRun] /\ sendJob \in [Event -> SendRun]
    BY DEF OutboxTypeOK
  <1> QED BY <1>1, <1>2, <1>3, <1>4 DEF Dispatch, Survives

(* The steps of the event's job keep the types. *)
LEMMA EventType ==
  ASSUME OutboxTypeOK, NEW e \in Event,
         \/ Record(e) \/ ReserveEvent(e) \/ ClaimEvent(e) \/ QueueDelivery(e)
         \/ MarkProcessed(e) \/ EventJobDone(e) \/ EventThrows(e) \/ EventWorkerDies(e)
  PROVE  OutboxTypeOK'
  <1> DEFINE r == eventJob[e]
  <1>0. r \in EventRun
    BY DEF OutboxTypeOK
  <1>1. /\ NoJob \in EventRun
        /\ \A s \in {"queued", "queueing", "pushed", "recorded"} :
             [r EXCEPT !.stage = s] \in EventRun
        /\ r.tries < EventTries =>
             [stage |-> "claimed", tries |-> r.tries + 1] \in EventRun
    BY <1>0, EventRunTyped
  <1> HIDE DEF r
  <1>2. ASSUME NEW s \in {"queued", "queueing", "pushed", "recorded"}, EventStage(e, s)
        PROVE  eventJob' \in [Event -> EventRun]
    BY <1>1, <1>2 DEF EventStage, OutboxTypeOK, r
  <1>3. ASSUME EventJobEnds(e)
        PROVE  /\ eventJob' \in [Event -> EventRun]
               /\ locked' \subseteq {"event", "send"} \X Event
    BY <1>1, <1>3 DEF EventJobEnds, OutboxTypeOK
  <1>4. ASSUME EventFailed(e)
        PROVE  event' \in [Event -> EventStatus]
    BY <1>4 DEF EventFailed, OutboxTypeOK, EventStatus
  <1>5. ASSUME Dies
        PROVE  deaths' \in 0..MaxDeaths
    BY <1>5 DEF Dies, OutboxTypeOK
  <1>6. CASE Record(e)
    <2>1. /\ eventJob' \in [Event -> EventRun] /\ deaths' \in 0..MaxDeaths
          /\ locked' \subseteq {"event", "send"} \X Event
      BY <1>6, DispatchTyped DEF Record
    <2>2. /\ event' \in [Event -> EventStatus] /\ due' \in [Event -> BOOLEAN]
          /\ delivery' \in [Event -> DeliveryStatus]
      BY <1>6 DEF Record, OutboxTypeOK, EventStatus, DeliveryStatus
    <2> QED BY <1>6, <2>1, <2>2 DEF Record, OutboxTypeOK
  <1>7. CASE ReserveEvent(e)
    <2>1. CASE r.tries < EventTries
      <3>1. eventJob' = [eventJob EXCEPT ![e] = [stage |-> "claimed", tries |-> r.tries + 1]]
        BY <1>7, <2>1 DEF ReserveEvent, r
      <3>2. eventJob' \in [Event -> EventRun]
        BY <1>1, <2>1, <3>1 DEF OutboxTypeOK
      <3> QED BY <1>7, <2>1, <3>2 DEF ReserveEvent, OutboxTypeOK, counts, r
    <2>2. CASE ~(r.tries < EventTries)
      BY <1>3, <1>4, <1>7, <2>2 DEF ReserveEvent, OutboxTypeOK, counts, r
    <2> QED BY <2>1, <2>2
  <1>8. CASE ClaimEvent(e)
    <2>1. CASE event[e] = "processed"
      BY <1>3, <1>8, <2>1 DEF ClaimEvent, OutboxTypeOK, counts
    <2>2. CASE event[e] # "processed"
      <3>1. event' \in [Event -> EventStatus]
        BY <1>8, <2>2 DEF ClaimEvent, OutboxTypeOK, EventStatus
      <3> QED BY <1>2, <1>8, <2>2, <3>1 DEF ClaimEvent, OutboxTypeOK, counts
    <2> QED BY <2>1, <2>2
  <1>9. CASE QueueDelivery(e)
    <2>1. eventJob' \in [Event -> EventRun]
      BY <1>2, <1>9 DEF QueueDelivery
    <2>2. /\ sendJob' \in [Event -> SendRun] /\ deaths' \in 0..MaxDeaths
          /\ locked' \subseteq {"event", "send"} \X Event
      BY <1>9, DispatchTyped DEF QueueDelivery
    <2> QED BY <1>9, <2>1, <2>2 DEF QueueDelivery, OutboxTypeOK, rows
  <1>10. CASE MarkProcessed(e)
    <2>1. event' \in [Event -> EventStatus]
      BY <1>10 DEF MarkProcessed, OutboxTypeOK, EventStatus
    <2> QED BY <1>2, <1>10, <2>1 DEF MarkProcessed, OutboxTypeOK, counts
  <1>11. CASE EventJobDone(e)
    BY <1>3, <1>11 DEF EventJobDone, OutboxTypeOK, counts, rows
  <1>12. CASE EventThrows(e)
    <2>1. due' \in [Event -> BOOLEAN]
      BY <1>12 DEF EventThrows, OutboxTypeOK
    <2>2. event' \in [Event -> EventStatus]
      BY <1>4, <1>12 DEF EventThrows, OutboxTypeOK, EventStatus
    <2>3. eventJob' \in [Event -> EventRun] /\ locked' \subseteq {"event", "send"} \X Event
      BY <1>2, <1>3, <1>12 DEF EventThrows, OutboxTypeOK
    <2> QED BY <1>12, <2>1, <2>2, <2>3 DEF EventThrows, OutboxTypeOK, counts
  <1>13. CASE EventWorkerDies(e)
    <2>1. /\ eventJob' \in [Event -> EventRun] /\ event' \in [Event -> EventStatus]
          /\ locked' \subseteq {"event", "send"} \X Event
      BY <1>2, <1>3, <1>4, <1>13 DEF EventWorkerDies, OutboxTypeOK
    <2> QED BY <1>5, <1>13, <2>1 DEF EventWorkerDies, OutboxTypeOK
  <1> QED BY <1>6, <1>7, <1>8, <1>9, <1>10, <1>11, <1>12, <1>13

(* The steps of the delivery job keep the types. *)
LEMMA SendType ==
  ASSUME OutboxTypeOK, NEW e \in Event,
         \/ ReserveSend(e) \/ ClaimSend(e) \/ Accepted(e) \/ SendThrows(e) \/ AuditThrows(e)
         \/ PermanentFailure(e) \/ RecordDelivered(e) \/ SendJobDone(e) \/ SendWorkerDies(e)
  PROVE  OutboxTypeOK'
  <1> DEFINE r == sendJob[e]
  <1>0. r \in SendRun
    BY DEF OutboxTypeOK
  <1>1. /\ NoJob \in SendRun
        /\ \A s \in {"queued", "sending", "sent", "recorded"} :
             [r EXCEPT !.stage = s] \in SendRun
        /\ r.tries < DeliveryTries =>
             [stage |-> "claimed", tries |-> r.tries + 1] \in SendRun
    BY <1>0, SendRunTyped
  <1> HIDE DEF r
  <1>2. ASSUME NEW s \in {"queued", "sending", "sent", "recorded"}, SendStage(e, s)
        PROVE  sendJob' \in [Event -> SendRun]
    BY <1>1, <1>2 DEF SendStage, OutboxTypeOK, r
  <1>3. ASSUME SendJobEnds(e)
        PROVE  /\ sendJob' \in [Event -> SendRun]
               /\ locked' \subseteq {"event", "send"} \X Event
    BY <1>1, <1>3 DEF SendJobEnds, OutboxTypeOK
  <1>4. ASSUME NEW s \in DeliveryStatus, DeliveryIs(e, s)
        PROVE  delivery' \in [Event -> DeliveryStatus]
    BY <1>4 DEF DeliveryIs, OutboxTypeOK
  <1>5. ASSUME DeliveryFailed(e)
        PROVE  delivery' \in [Event -> DeliveryStatus]
    BY <1>4, <1>5 DEF DeliveryFailed, OutboxTypeOK, DeliveryStatus
  <1>6. ASSUME Sends(e)
        PROVE  sent' \in [Event -> Nat]
    BY <1>6 DEF Sends, OutboxTypeOK
  <1>7. ASSUME Slips(e)
        PROVE  slips' \in [Event -> 0..MaxSlips]
    BY <1>7 DEF Slips, OutboxTypeOK
  <1>8. {"processing", "retrying", "failed", "permanent_failed", "delivered"} \subseteq DeliveryStatus
    BY DEF DeliveryStatus
  <1>9. CASE ReserveSend(e)
    <2>1. CASE r.tries < DeliveryTries
      <3>1. sendJob' = [sendJob EXCEPT ![e] = [stage |-> "claimed", tries |-> r.tries + 1]]
        BY <1>9, <2>1 DEF ReserveSend, r
      <3>2. sendJob' \in [Event -> SendRun]
        BY <1>1, <2>1, <3>1 DEF OutboxTypeOK
      <3> QED BY <1>9, <2>1, <3>2 DEF ReserveSend, OutboxTypeOK, counts, r
    <2>2. CASE ~(r.tries < DeliveryTries)
      BY <1>3, <1>5, <1>9, <2>2 DEF ReserveSend, OutboxTypeOK, counts, r
    <2> QED BY <2>1, <2>2
  <1>10. CASE ClaimSend(e)
    BY <1>2, <1>3, <1>4, <1>8, <1>10 DEF ClaimSend, OutboxTypeOK, counts
  <1>11. CASE Accepted(e)
    BY <1>2, <1>6, <1>11 DEF Accepted, OutboxTypeOK, rows
  <1>12. CASE SendThrows(e)
    <2>1. sent' \in [Event -> Nat] /\ slips' \in [Event -> 0..MaxSlips]
      BY <1>6, <1>7, <1>12 DEF SendThrows, OutboxTypeOK
    <2>2. /\ sendJob' \in [Event -> SendRun] /\ delivery' \in [Event -> DeliveryStatus]
          /\ locked' \subseteq {"event", "send"} \X Event
      BY <1>2, <1>3, <1>4, <1>8, <1>12 DEF SendThrows, OutboxTypeOK
    <2> QED BY <1>12, <2>1, <2>2 DEF SendThrows, OutboxTypeOK
  <1>13. CASE AuditThrows(e)
    <2>1. /\ sendJob' \in [Event -> SendRun] /\ delivery' \in [Event -> DeliveryStatus]
          /\ locked' \subseteq {"event", "send"} \X Event
      BY <1>2, <1>3, <1>4, <1>8, <1>13 DEF AuditThrows, OutboxTypeOK
    <2> QED BY <1>7, <1>13, <2>1 DEF AuditThrows, OutboxTypeOK
  <1>14. CASE PermanentFailure(e)
    BY <1>3, <1>4, <1>8, <1>14 DEF PermanentFailure, OutboxTypeOK, counts
  <1>15. CASE RecordDelivered(e)
    BY <1>2, <1>4, <1>8, <1>15 DEF RecordDelivered, OutboxTypeOK, counts
  <1>16. CASE SendJobDone(e)
    BY <1>3, <1>16 DEF SendJobDone, OutboxTypeOK, counts, rows
  <1>17. CASE SendWorkerDies(e)
    <2>1. slips' \in [Event -> 0..MaxSlips]
      BY <1>7, <1>17 DEF SendWorkerDies, OutboxTypeOK
    <2>2. deaths' \in 0..MaxDeaths
      BY <1>17 DEF SendWorkerDies, Dies, OutboxTypeOK
    <2>3. /\ sendJob' \in [Event -> SendRun] /\ delivery' \in [Event -> DeliveryStatus]
          /\ locked' \subseteq {"event", "send"} \X Event
      BY <1>2, <1>3, <1>5, <1>17 DEF SendWorkerDies, OutboxTypeOK
    <2> QED BY <1>17, <2>1, <2>2, <2>3 DEF SendWorkerDies, OutboxTypeOK
  <1> QED BY <1>9, <1>10, <1>11, <1>12, <1>13, <1>14, <1>15, <1>16, <1>17

(* The steps of the scheduler, and of time, keep the types. *)
LEMMA SchedulerType ==
  ASSUME OutboxTypeOK, NEW e \in Event,
         \/ ExpireLock(e) \/ BecomeDue(e) \/ DispatchOutbox(e) \/ ReplayFailed(e)
         \/ ReadUnfinished(e) \/ ReplayDelivery(e)
  PROVE  OutboxTypeOK'
  <1>1. CASE ExpireLock(e)
    BY <1>1 DEF ExpireLock, OutboxTypeOK, counts, rows
  <1>2. CASE BecomeDue(e)
    BY <1>2 DEF BecomeDue, OutboxTypeOK, counts, jobs
  <1>3. CASE DispatchOutbox(e)
    <2>1. /\ eventJob' \in [Event -> EventRun] /\ deaths' \in 0..MaxDeaths
          /\ locked' \subseteq {"event", "send"} \X Event
      BY <1>3, DispatchTyped DEF DispatchOutbox
    <2>2. event' \in [Event -> EventStatus] /\ due' \in [Event -> BOOLEAN]
      BY <1>3 DEF DispatchOutbox, OutboxTypeOK, EventStatus
    <2> QED BY <1>3, <2>1, <2>2 DEF DispatchOutbox, OutboxTypeOK
  <1>4. CASE ReadUnfinished(e)
    BY <1>4 DEF ReadUnfinished, OutboxTypeOK, counts, jobs, rows
  <1>5. CASE ReplayDelivery(e)
    <2>1. /\ sendJob' \in [Event -> SendRun] /\ deaths' \in 0..MaxDeaths
          /\ locked' \subseteq {"event", "send"} \X Event
      BY <1>5, DispatchTyped DEF ReplayDelivery
    <2>2. delivery' \in [Event -> DeliveryStatus]
      BY <1>5 DEF ReplayDelivery, OutboxTypeOK, DeliveryIs, DeliveryStatus
    <2>3. slips' \in [Event -> 0..MaxSlips]
      BY <1>5 DEF ReplayDelivery, OutboxTypeOK, Slips
    <2>4. listed' \in [Event -> Unfinished \cup {"none"}]
      BY <1>5 DEF ReplayDelivery, OutboxTypeOK
    <2> QED BY <1>5, <2>1, <2>2, <2>3, <2>4 DEF ReplayDelivery, OutboxTypeOK
  <1>6. CASE ReplayFailed(e)
    <2>1. /\ eventJob' \in [Event -> EventRun] /\ deaths' \in 0..MaxDeaths
          /\ locked' \subseteq {"event", "send"} \X Event
      BY <1>6, DispatchTyped DEF ReplayFailed
    <2> QED BY <1>6, <2>1 DEF ReplayFailed, OutboxTypeOK, rows
  <1> QED BY <1>1, <1>2, <1>3, <1>4, <1>5, <1>6

LEMMA TypeStep == OutboxTypeOK /\ [OutboxNext]_vars => OutboxTypeOK'
  <1>1. CASE OutboxNext
    BY <1>1, EventType, SendType, SchedulerType DEF OutboxNext, OutboxWorker, SendWorker
  <1>2. CASE UNCHANGED vars
    BY <1>2 DEF OutboxTypeOK, vars, rows, jobs, counts
  <1> QED BY <1>1, <1>2

(* Every row, job and counter has its type, and no job is tried more often  *)
(* than its class says.                                                     *)
THEOREM OutboxTypeCorrect == OutboxSpec => []OutboxTypeOK
  <1> QED BY InitType, TypeStep, PTL DEF OutboxSpec

-----------------------------------------------------------------------------
Step(e) ==
  \/ Record(e) \/ ExpireLock(e)
  \/ OutboxWorker(e) \/ EventThrows(e) \/ EventWorkerDies(e)
  \/ SendWorker(e) \/ Accepted(e) \/ SendThrows(e) \/ AuditThrows(e)
  \/ PermanentFailure(e) \/ SendWorkerDies(e)
  \/ BecomeDue(e) \/ DispatchOutbox(e) \/ ReplayFailed(e)
  \/ ReadUnfinished(e) \/ ReplayDelivery(e)

(* What the invariant says of an event depends on these only. *)
Same(f) ==
  /\ event'[f] = event[f] /\ delivery'[f] = delivery[f] /\ listed'[f] = listed[f]
  /\ eventJob'[f] = eventJob[f] /\ sendJob'[f] = sendJob[f]
  /\ sent'[f] = sent[f] /\ slips'[f] = slips[f]
  /\ <<"send", f>> \in locked => <<"send", f>> \in locked'

(* A step of one event leaves the others alone. *)
LEMMA Elsewhere ==
  ASSUME OutboxTypeOK, NEW e \in Event, NEW f \in Event \ {e}, Step(e)
  PROVE  Same(f)
  <1> USE DEF OutboxTypeOK, Same, counts, rows, jobs
  <1>1. /\ Dispatch(eventJob, "event", e) =>
             eventJob'[f] = eventJob[f] /\ (<<"send", f>> \in locked => <<"send", f>> \in locked')
        /\ Dispatch(sendJob, "send", e) =>
             sendJob'[f] = sendJob[f] /\ (<<"send", f>> \in locked => <<"send", f>> \in locked')
    BY DEF Dispatch
  <1>2. \A s : EventStage(e, s) => eventJob'[f] = eventJob[f]
    BY DEF EventStage
  <1>3. EventJobEnds(e) =>
          eventJob'[f] = eventJob[f] /\ (<<"send", f>> \in locked => <<"send", f>> \in locked')
    BY DEF EventJobEnds
  <1>4. \A s : SendStage(e, s) => sendJob'[f] = sendJob[f]
    BY DEF SendStage
  <1>5. SendJobEnds(e) =>
          sendJob'[f] = sendJob[f] /\ (<<"send", f>> \in locked => <<"send", f>> \in locked')
    BY DEF SendJobEnds
  <1>6. (\A s : DeliveryIs(e, s) => delivery'[f] = delivery[f])
        /\ (DeliveryFailed(e) => delivery'[f] = delivery[f])
    BY DEF DeliveryIs, DeliveryFailed
  <1>7. EventFailed(e) => event'[f] = event[f]
    BY DEF EventFailed
  <1>8. (Sends(e) => sent'[f] = sent[f]) /\ (Slips(e) => slips'[f] = slips[f])
    BY DEF Sends, Slips
  <1>9. CASE Record(e)
    BY <1>1, <1>9 DEF Record
  <1>10. CASE ExpireLock(e)
    BY <1>10 DEF ExpireLock
  <1>11. CASE ReserveEvent(e)
    BY <1>3, <1>7, <1>11 DEF ReserveEvent
  <1>12. CASE ClaimEvent(e)
    BY <1>2, <1>3, <1>12 DEF ClaimEvent
  <1>13. CASE QueueDelivery(e)
    BY <1>1, <1>2, <1>13 DEF QueueDelivery
  <1>14. CASE MarkProcessed(e) \/ EventJobDone(e)
    BY <1>2, <1>3, <1>14 DEF MarkProcessed, EventJobDone
  <1>15. CASE EventThrows(e)
    BY <1>2, <1>3, <1>7, <1>15 DEF EventThrows
  <1>16. CASE EventWorkerDies(e)
    BY <1>2, <1>3, <1>7, <1>16 DEF EventWorkerDies
  <1>17. CASE ReserveSend(e)
    BY <1>5, <1>6, <1>17 DEF ReserveSend
  <1>18. CASE ClaimSend(e)
    BY <1>4, <1>5, <1>6, <1>18 DEF ClaimSend
  <1>19. CASE Accepted(e)
    BY <1>4, <1>8, <1>19 DEF Accepted
  <1>20. CASE SendThrows(e)
    BY <1>4, <1>5, <1>6, <1>8, <1>20 DEF SendThrows
  <1>21. CASE AuditThrows(e)
    BY <1>4, <1>5, <1>6, <1>8, <1>21 DEF AuditThrows
  <1>22. CASE PermanentFailure(e) \/ RecordDelivered(e) \/ SendJobDone(e)
    BY <1>4, <1>5, <1>6, <1>22 DEF PermanentFailure, RecordDelivered, SendJobDone
  <1>23. CASE SendWorkerDies(e)
    BY <1>4, <1>5, <1>6, <1>8, <1>23 DEF SendWorkerDies
  <1>24. CASE BecomeDue(e) \/ ReadUnfinished(e)
    BY <1>24 DEF BecomeDue, ReadUnfinished
  <1>25. CASE DispatchOutbox(e) \/ ReplayFailed(e)
    BY <1>1, <1>25 DEF DispatchOutbox, ReplayFailed
  <1>26. CASE ReplayDelivery(e)
    BY <1>1, <1>6, <1>8, <1>26 DEF ReplayDelivery
  <1> QED
    BY <1>9, <1>10, <1>11, <1>12, <1>13, <1>14, <1>15, <1>16, <1>17, <1>18, <1>19, <1>20,
       <1>21, <1>22, <1>23, <1>24, <1>25, <1>26 DEF Step, OutboxWorker, SendWorker

LEMMA OthersKept ==
  ASSUME OutboxTypeOK, OutboxTypeOK', NEW f \in Event, EventInv(f), Same(f)
  PROVE  EventInv(f)'
  BY DEF EventInv, Unrecorded, JobHoldsLock, SendsUndelivered, Accounted, Traced, Same

(* The steps of the event's job keep the invariant of their event: they     *)
(* change its delivery job only by queueing one where none holds the lock.  *)
LEMMA EventStepInv ==
  ASSUME OutboxTypeOK, OutboxTypeOK', NEW e \in Event, EventInv(e),
         \/ Record(e) \/ OutboxWorker(e) \/ EventThrows(e) \/ EventWorkerDies(e)
  PROVE  EventInv(e)'
  <1> USE DEF EventInv, Unrecorded, JobHoldsLock, SendsUndelivered, Accounted, Traced
  <1>1. CASE Record(e)
    <2>1. /\ sendJob' = sendJob /\ sent' = sent /\ slips' = slips
          /\ event'[e] = "pending" /\ delivery'[e] = "pending"
      BY <1>1 DEF Record, OutboxTypeOK
    <2>2. locked \subseteq locked'
      BY <1>1 DEF Record, Dispatch
    <2>3. delivery[e] = "none"
      BY <1>1 DEF Record
    <2> QED BY <2>1, <2>2, <2>3
  <1>2. CASE ReserveEvent(e) \/ ClaimEvent(e) \/ MarkProcessed(e) \/ EventJobDone(e)
             \/ EventThrows(e) \/ EventWorkerDies(e)
    <2>1. /\ sendJob' = sendJob /\ sent' = sent /\ slips' = slips /\ delivery' = delivery
          /\ eventJob[e] # NoJob
      BY <1>2 DEF ReserveEvent, ClaimEvent, MarkProcessed, EventJobDone, EventThrows,
                  EventWorkerDies, EventRuns, NoJob, counts, rows
    <2>2. <<"send", e>> \in locked => <<"send", e>> \in locked'
      BY <1>2 DEF ReserveEvent, ClaimEvent, MarkProcessed, EventJobDone, EventThrows,
                  EventWorkerDies, EventJobEnds
    <2>3. event[e] # "none" /\ event'[e] # "none"
      BY <1>2, <2>1 DEF ReserveEvent, ClaimEvent, MarkProcessed, EventJobDone, EventThrows,
                        EventWorkerDies, EventFailed, OutboxTypeOK, rows
    <2> QED BY <2>1, <2>2, <2>3
  <1>3. CASE QueueDelivery(e)
    <2>1. /\ event' = event /\ delivery' = delivery /\ sent' = sent /\ slips' = slips
          /\ eventJob[e] # NoJob
      BY <1>3 DEF QueueDelivery, NoJob, rows
    <2>2. event[e] # "none"
      BY <2>1
    <2>3. CASE <<"send", e>> \in locked
      BY <1>3, <2>1, <2>2, <2>3 DEF QueueDelivery, Dispatch
    <2>4. CASE <<"send", e>> \notin locked
      <3>1. sendJob[e].stage = "none"
        BY <2>4 DEF OutboxTypeOK, SendRun
      <3>2. sendJob'[e].stage \in {"none", "queued"} /\ <<"send", e>> \in locked'
        BY <1>3, <2>4, <3>1 DEF QueueDelivery, Dispatch, Queued, OutboxTypeOK
      <3> QED BY <2>1, <2>2, <3>1, <3>2
    <2> QED BY <2>3, <2>4
  <1> QED BY <1>1, <1>2, <1>3 DEF OutboxWorker

(* The steps of the delivery job keep the invariant of their event.         *)
LEMMA SendStepInv ==
  ASSUME OutboxTypeOK, OutboxTypeOK', NEW e \in Event, EventInv(e),
         \/ SendWorker(e) \/ Accepted(e) \/ SendThrows(e) \/ AuditThrows(e)
         \/ PermanentFailure(e) \/ SendWorkerDies(e)
  PROVE  EventInv(e)'
  <1> USE DEF EventInv, Unrecorded, JobHoldsLock, SendsUndelivered, Accounted, Traced
  <1>0. sendJob[e].stage # "none" /\ event[e] # "none" /\ event' = event /\ eventJob' = eventJob
    BY DEF SendWorker, ReserveSend, ClaimSend, RecordDelivered, SendJobDone, Accepted, SendThrows,
           AuditThrows, PermanentFailure, SendWorkerDies, SendRuns, NoJob, rows
  <1>1. Unrecorded(e)'
    BY <1>0
  <1>2. ASSUME NEW s, SendStage(e, s)
        PROVE  sendJob'[e].stage = s
    BY <1>2 DEF SendStage, OutboxTypeOK, SendRun
  <1>3. ASSUME SendJobEnds(e)
        PROVE  sendJob'[e].stage = "none"
    BY <1>3 DEF SendJobEnds, OutboxTypeOK, NoJob
  <1>4. ASSUME NEW s, DeliveryIs(e, s)
        PROVE  delivery'[e] = s
    BY <1>4 DEF DeliveryIs, OutboxTypeOK
  <1>5. ASSUME DeliveryFailed(e)
        PROVE  delivery'[e] = "delivered" <=> delivery[e] = "delivered"
    BY <1>4, <1>5 DEF DeliveryFailed
  <1>6. Sends(e) => sent'[e] = sent[e] + 1
    BY DEF Sends, OutboxTypeOK
  <1>7. Slips(e) => slips'[e] = slips[e] + 1
    BY DEF Slips, OutboxTypeOK
  <1>8. sent[e] \in Nat /\ slips[e] \in Nat
    BY DEF OutboxTypeOK
  <1>9. CASE ReserveSend(e)
    <2>1. CASE sendJob[e].tries < DeliveryTries
      <3>1. sendJob'[e].stage = "claimed" /\ delivery' = delivery /\ locked' = locked
        BY <1>9, <2>1 DEF ReserveSend, OutboxTypeOK
      <3> QED BY <1>0, <1>1, <1>9, <3>1 DEF ReserveSend, counts
    <2>2. CASE ~(sendJob[e].tries < DeliveryTries)
      <3>1. sendJob'[e].stage = "none" /\ (delivery'[e] = "delivered" <=> delivery[e] = "delivered")
        BY <1>3, <1>5, <1>9, <2>2 DEF ReserveSend
      <3> QED BY <1>1, <1>9, <3>1 DEF ReserveSend, counts
    <2> QED BY <2>1, <2>2
  <1>10. CASE ClaimSend(e)
    <2>1. CASE delivery[e] = "delivered"
      <3>1. sendJob'[e].stage = "none" /\ delivery' = delivery
        BY <1>3, <1>10, <2>1 DEF ClaimSend
      <3> QED BY <1>1, <1>10, <3>1 DEF ClaimSend, counts
    <2>2. CASE delivery[e] # "delivered"
      <3>1. sendJob'[e].stage = "sending" /\ delivery'[e] = "processing" /\ locked' = locked
        BY <1>2, <1>4, <1>10, <2>2 DEF ClaimSend
      <3> QED BY <1>0, <1>1, <1>10, <2>2, <3>1 DEF ClaimSend, counts
    <2> QED BY <2>1, <2>2
  <1>11. CASE Accepted(e)
    <2>1. /\ sendJob'[e].stage = "sent" /\ delivery' = delivery /\ locked' = locked
          /\ sent'[e] = sent[e] + 1 /\ slips' = slips
      BY <1>2, <1>6, <1>11 DEF Accepted, rows
    <2>2. delivery[e] # "delivered" /\ sendJob[e].stage = "sending"
      BY <1>11 DEF Accepted
    <2> QED BY <1>0, <1>1, <1>8, <2>1, <2>2
  <1>12. CASE SendThrows(e)
    <2>1. \/ sendJob'[e].stage = "queued" /\ locked' = locked
          \/ sendJob'[e].stage = "none"
      BY <1>2, <1>3, <1>12 DEF SendThrows
    <2>2. delivery'[e] # "delivered"
      BY <1>4, <1>12 DEF SendThrows
    <2>3. delivery[e] # "delivered" /\ sendJob[e].stage = "sending"
      BY <1>12 DEF SendThrows
    <2>4. \/ sent'[e] = sent[e] /\ slips'[e] = slips[e]
          \/ sent'[e] = sent[e] + 1 /\ slips'[e] = slips[e] + 1
      BY <1>6, <1>7, <1>12 DEF SendThrows
    <2> QED BY <1>0, <1>1, <1>8, <2>1, <2>2, <2>3, <2>4
  <1>13. CASE AuditThrows(e)
    <2>1. \/ sendJob'[e].stage = "queued" /\ locked' = locked
          \/ sendJob'[e].stage = "none"
      BY <1>2, <1>3, <1>13 DEF AuditThrows
    <2>2. delivery'[e] # "delivered" /\ sent' = sent /\ slips'[e] = slips[e] + 1
      BY <1>4, <1>7, <1>13 DEF AuditThrows
    <2> QED BY <1>0, <1>1, <1>8, <2>1, <2>2
  <1>14. CASE PermanentFailure(e)
    <2>1. /\ sendJob'[e].stage = "none" /\ delivery'[e] # "delivered"
          /\ sendJob[e].stage = "sending" /\ sent' = sent /\ slips' = slips
      BY <1>3, <1>4, <1>14 DEF PermanentFailure, counts
    <2> QED BY <1>1, <1>8, <2>1
  <1>15. CASE RecordDelivered(e)
    <2>1. /\ sendJob'[e].stage = "recorded" /\ delivery'[e] = "delivered" /\ locked' = locked
          /\ sendJob[e].stage = "sent" /\ sent' = sent /\ slips' = slips
      BY <1>2, <1>4, <1>15 DEF RecordDelivered, counts
    <2> QED BY <1>0, <1>1, <1>8, <2>1
  <1>16. CASE SendJobDone(e)
    <2>1. /\ sendJob'[e].stage = "none" /\ sendJob[e].stage = "recorded"
          /\ delivery' = delivery /\ sent' = sent /\ slips' = slips
      BY <1>3, <1>16 DEF SendJobDone, counts, rows
    <2> QED BY <1>1, <1>8, <2>1
  <1>17. CASE SendWorkerDies(e)
    <2>1. \/ sendJob'[e].stage = "queued" /\ locked' = locked
          \/ sendJob'[e].stage = "none"
      BY <1>2, <1>3, <1>17 DEF SendWorkerDies
    <2>2. delivery'[e] = "delivered" <=> delivery[e] = "delivered"
      BY <1>5, <1>17 DEF SendWorkerDies
    <2>3. /\ sent' = sent
          /\ slips'[e] = slips[e] + (IF sendJob[e].stage = "sent" THEN 1 ELSE 0)
      BY <1>7, <1>8, <1>17 DEF SendWorkerDies
    <2> QED BY <1>0, <1>1, <1>8, <2>1, <2>2, <2>3
  <1> QED
    BY <1>9, <1>10, <1>11, <1>12, <1>13, <1>14, <1>15, <1>16, <1>17 DEF SendWorker

(* The steps of the scheduler and of time keep the invariant of their event. *)
LEMMA SchedulerStepInv ==
  ASSUME OutboxTypeOK, OutboxTypeOK', NEW e \in Event, EventInv(e),
         \/ ExpireLock(e) \/ BecomeDue(e) \/ DispatchOutbox(e) \/ ReplayFailed(e)
         \/ ReadUnfinished(e) \/ ReplayDelivery(e)
  PROVE  EventInv(e)'
  <1> USE DEF EventInv, Unrecorded, JobHoldsLock, SendsUndelivered, Accounted, Traced
  <1>1. CASE ExpireLock(e)
    BY <1>1 DEF ExpireLock, NoJob, counts, rows
  <1>2. CASE BecomeDue(e)
    BY <1>2 DEF BecomeDue, jobs, counts
  <1>3. CASE DispatchOutbox(e)
    <2>1. event[e] # "none" /\ event'[e] # "none"
      BY <1>3 DEF DispatchOutbox, StaleLease, OutboxTypeOK
    <2>2. locked \subseteq locked'
      BY <1>3 DEF DispatchOutbox, Dispatch
    <2> QED BY <1>3, <2>1, <2>2 DEF DispatchOutbox
  <1>4. CASE ReadUnfinished(e)
    <2>1. delivery[e] # "none"
      BY <1>4 DEF ReadUnfinished, Unfinished
    <2> QED BY <1>4, <2>1 DEF ReadUnfinished, jobs, counts, rows
  <1>5. CASE ReplayDelivery(e)
    <2>1. event[e] # "none" /\ event' = event /\ sent' = sent
      BY <1>5 DEF ReplayDelivery
    <2>2. /\ delivery'[e] = "delivered" => delivery[e] = "delivered"
          /\ slips'[e] = slips[e] + (IF delivery[e] = "delivered" /\ delivery'[e] # "delivered"
                                    THEN 1 ELSE 0)
      BY <1>5 DEF ReplayDelivery, DeliveryIs, Slips, OutboxTypeOK
    <2>3. /\ <<"send", e>> \in locked'
          /\ \/ sendJob'[e].stage = sendJob[e].stage
             \/ sendJob[e].stage = "none" /\ sendJob'[e].stage = "queued"
      BY <1>5 DEF ReplayDelivery, Dispatch, Queued, OutboxTypeOK
    <2>4. sent[e] \in Nat /\ slips[e] \in Nat
      BY DEF OutboxTypeOK
    <2> QED BY <2>1, <2>2, <2>3, <2>4
  <1>6. CASE ReplayFailed(e)
    <2>1. locked \subseteq locked'
      BY <1>6 DEF ReplayFailed, Dispatch
    <2>2. event[e] # "none" /\ event' = event /\ delivery' = delivery /\ sendJob' = sendJob
      BY <1>6 DEF ReplayFailed, rows
    <2> QED BY <1>6, <2>1, <2>2 DEF ReplayFailed
  <1> QED BY <1>1, <1>2, <1>3, <1>4, <1>5, <1>6

LEMMA InitInv == OutboxInit => OutboxInv
  <1> SUFFICES ASSUME OutboxInit PROVE OutboxInv
    OBVIOUS
  <1>1. OutboxTypeOK
    BY InitType
  <1>2. ASSUME NEW e \in Event
        PROVE  EventInv(e)
    <2>1. /\ delivery[e] = "none" /\ listed[e] = "none"
          /\ eventJob[e] = NoJob /\ sendJob[e] = NoJob
          /\ sent[e] = 0 /\ slips[e] = 0
      BY DEF OutboxInit
    <2>2. sendJob[e].stage = "none"
      BY <2>1 DEF NoJob
    <2>3. Unrecorded(e)
      BY <2>1 DEF Unrecorded
    <2> QED BY <2>1, <2>2, <2>3 DEF EventInv, JobHoldsLock, SendsUndelivered, Accounted, Traced
  <1> QED BY <1>1, <1>2 DEF OutboxInv

LEMMA InvStep == OutboxInv /\ [OutboxNext]_vars => OutboxInv'
  <1> SUFFICES ASSUME OutboxInv, [OutboxNext]_vars PROVE OutboxInv'
    OBVIOUS
  <1>1. OutboxTypeOK'
    BY TypeStep DEF OutboxInv
  <1>2. ASSUME NEW e \in Event, Step(e), NEW f \in Event
        PROVE  EventInv(f)'
    <2>1. CASE f = e
      BY <1>1, <1>2, <2>1, EventStepInv, SendStepInv, SchedulerStepInv DEF OutboxInv, Step
    <2>2. CASE f # e
      BY <1>1, <1>2, <2>2, Elsewhere, OthersKept DEF OutboxInv
    <2> QED BY <2>1, <2>2
  <1>3. CASE OutboxNext
    BY <1>1, <1>2, <1>3 DEF OutboxNext, Step, OutboxInv
  <1>4. CASE UNCHANGED vars
    BY <1>4 DEF OutboxInv, OutboxTypeOK, EventInv, Unrecorded, JobHoldsLock, SendsUndelivered,
                Accounted, Traced, vars, rows, jobs, counts
  <1> QED BY <1>3, <1>4

(* A provider gets a message again only when a sending left no trace: for   *)
(* any numbers of attempts, deaths and repeated dispatches.                 *)
THEOREM ResentOnlyWhenUntraced == OutboxSpec => []ResentOnlyUntraced
  <1>1. ASSUME OutboxInv, NEW e \in Event
        PROVE  sent[e] <= 1 + slips[e]
    <2>1. sent[e] \in Nat /\ slips[e] \in Nat
      BY <1>1 DEF OutboxInv, OutboxTypeOK
    <2>2. sent[e] <= slips[e] + (IF Traced(e) THEN 1 ELSE 0)
      BY <1>1 DEF OutboxInv, EventInv, Accounted
    <2> QED BY <2>1, <2>2
  <1>2. OutboxInv => ResentOnlyUntraced
    BY <1>1 DEF ResentOnlyUntraced
  <1> QED BY <1>2, InitInv, InvStep, PTL DEF OutboxSpec
=============================================================================
