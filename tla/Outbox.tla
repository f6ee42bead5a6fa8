------------------------------- MODULE Outbox -------------------------------
(***************************************************************************)
(* One notification with an external channel, from the commit that records  *)
(* it to its sending: the outbox event, the queued job that processes the   *)
(* event and queues the delivery, the delivery job, and the two commands of *)
(* the scheduler that take up what was left over.                           *)
(*                                                                         *)
(* Both jobs are unique: dispatching takes a lock in the cache, which is    *)
(* given back when the job is done or has failed, so that a second dispatch *)
(* in between is dropped.  A worker that dies keeps the job reserved; the   *)
(* queue hands it out again.  A worker whose job takes too long fails the   *)
(* job before it dies.                                                      *)
(***************************************************************************)
EXTENDS Naturals

CONSTANTS
  Event,          \* recorded notifications, one channel each
  EventTries,     \* ProcessAsyncOutboxEventJob::$tries
  DeliveryTries,  \* DeliverNotificationJob::$tries
  MaxDeaths,      \* bound: processes that die or run out of time
  MaxSlips        \* bound: sendings that leave no trace in the delivery row

ASSUME OutboxAssumption ==
  /\ EventTries \in Nat \ {0} /\ DeliveryTries \in Nat \ {0}
  /\ MaxDeaths \in Nat /\ MaxSlips \in Nat

VARIABLES
  event,     \* event[e]: the row of async_outbox_events, its status
  due,       \* due[e]: available_at has passed
  delivery,  \* delivery[e]: the row of notification_deliveries, its status
  eventJob,  \* eventJob[e]: the queued job, the stage of its run, its attempts
  sendJob,   \* sendJob[e]: the same for the delivery
  locked,    \* the unique locks that are taken: <<kind of job, event>>
  listed,    \* listed[e]: the status under which the reconciliation read e
  sent,      \* sent[e]: how often the provider got the message
  slips,     \* slips[e]: how often that was lost to the delivery row
  deaths     \* processes that died so far

rows == <<event, due, delivery>>
jobs == <<eventJob, sendJob, locked>>
counts == <<sent, slips, deaths>>
vars == <<rows, jobs, listed, counts>>

EventStatus == {"none", "pending", "processing", "retrying", "processed", "failed"}
DeliveryStatus ==
  {"none", "pending", "processing", "retrying", "delivered", "failed", "permanent_failed"}
Unfinished == {"pending", "retrying", "failed"}

NoJob == [stage |-> "none", tries |-> 0]
Queued == [stage |-> "queued", tries |-> 0]

OutboxInit ==
  /\ event = [e \in Event |-> "none"] /\ due = [e \in Event |-> FALSE]
  /\ delivery = [e \in Event |-> "none"]
  /\ eventJob = [e \in Event |-> NoJob] /\ sendJob = [e \in Event |-> NoJob]
  /\ locked = {} /\ listed = [e \in Event |-> "none"]
  /\ sent = [e \in Event |-> 0] /\ slips = [e \in Event |-> 0] /\ deaths = 0

-----------------------------------------------------------------------------
(* A process dies between two steps. *)
Dies == deaths < MaxDeaths /\ deaths' = deaths + 1
Survives == UNCHANGED deaths

(* Taking the unique lock and pushing the job are two steps: a process may  *)
(* die between them.                                                        *)
Dispatch(job, kind, e) ==
  IF <<kind, e>> \in locked THEN UNCHANGED <<job, locked, deaths>>
  ELSE /\ locked' = locked \cup {<<kind, e>>}
       /\ \/ job' = [job EXCEPT ![e] = Queued] /\ Survives
          \/ Dies /\ UNCHANGED job

(* The business transaction commits the notification, its delivery row and  *)
(* the event; the queue is told afterwards.                                 *)
Record(e) ==
  /\ event[e] = "none"
  /\ event' = [event EXCEPT ![e] = "pending"] /\ due' = [due EXCEPT ![e] = TRUE]
  /\ delivery' = [delivery EXCEPT ![e] = "pending"]
  /\ Dispatch(eventJob, "event", e)
  /\ UNCHANGED <<sendJob, listed, sent, slips>>

(* A lock nobody gives back expires after a day.  (While a job is waiting   *)
(* the queue is assumed to get to it within the day.)                       *)
ExpireLock(e) ==
  \E kind \in {"event", "send"} :
    /\ <<kind, e>> \in locked
    /\ (IF kind = "event" THEN eventJob[e] ELSE sendJob[e]) = NoJob
    /\ locked' = locked \ {<<kind, e>>}
    /\ UNCHANGED <<rows, eventJob, sendJob, listed, counts>>

-----------------------------------------------------------------------------
(* ProcessAsyncOutboxEventJob. *)

EventRuns(e) == eventJob[e].stage \in {"claimed", "queueing", "pushed", "recorded"}
EventStage(e, s) == eventJob' = [eventJob EXCEPT ![e].stage = s]
EventJobEnds(e) ==
  /\ eventJob' = [eventJob EXCEPT ![e] = NoJob]
  /\ locked' = locked \ {<<"event", e>>}

(* The hook of a job that is given up, whatever the row says. *)
EventFailed(e) == event' = [event EXCEPT ![e] = "failed"]

(* A worker reserves the job; one reserved too often is failed unrun. *)
ReserveEvent(e) ==
  /\ eventJob[e].stage = "queued"
  /\ IF eventJob[e].tries < EventTries
     THEN /\ eventJob' = [eventJob EXCEPT ![e] = [stage |-> "claimed", tries |-> @.tries + 1]]
          /\ UNCHANGED <<event, locked>>
     ELSE EventFailed(e) /\ EventJobEnds(e)
  /\ UNCHANGED <<due, delivery, sendJob, listed, counts>>

ClaimEvent(e) ==
  /\ eventJob[e].stage = "claimed"
  /\ IF event[e] = "processed" THEN EventJobEnds(e) /\ UNCHANGED event
     ELSE /\ event' = [event EXCEPT ![e] = "processing"]
          /\ EventStage(e, "queueing") /\ UNCHANGED locked
  /\ UNCHANGED <<due, delivery, sendJob, listed, counts>>

QueueDelivery(e) ==
  /\ eventJob[e].stage = "queueing"
  /\ Dispatch(sendJob, "send", e)
  /\ EventStage(e, IF deaths' = deaths THEN "pushed" ELSE "queued")
  /\ UNCHANGED <<rows, listed, sent, slips>>

MarkProcessed(e) ==
  /\ eventJob[e].stage = "pushed"
  /\ event' = [event EXCEPT ![e] = "processed"] /\ EventStage(e, "recorded")
  /\ UNCHANGED <<due, delivery, sendJob, locked, listed, counts>>

EventJobDone(e) ==
  /\ eventJob[e].stage = "recorded"
  /\ EventJobEnds(e)
  /\ UNCHANGED <<rows, sendJob, listed, counts>>

(* The database or the broadcaster refuses: the row is due again later, and *)
(* the job too, unless this was its last attempt.  When the claim itself    *)
(* fails, it is rolled back and the row is as it was.                       *)
EventThrows(e) ==
  /\ eventJob[e].stage \in {"claimed", "queueing", "pushed"}
  /\ IF eventJob[e].stage = "claimed" THEN UNCHANGED due
                                      ELSE due' = [due EXCEPT ![e] = FALSE]
  /\ \/ /\ eventJob[e].tries < EventTries
        /\ event' = [event EXCEPT ![e] = IF eventJob[e].stage = "claimed" THEN @ ELSE "retrying"]
        /\ EventStage(e, "queued") /\ UNCHANGED locked
     \/ eventJob[e].tries >= EventTries /\ EventFailed(e) /\ EventJobEnds(e)
  /\ UNCHANGED <<delivery, sendJob, listed, counts>>

EventWorkerDies(e) ==
  /\ EventRuns(e) /\ Dies
  /\ \/ EventStage(e, "queued") /\ UNCHANGED <<event, locked>>
     \/ EventFailed(e) /\ EventJobEnds(e)
  /\ UNCHANGED <<due, delivery, sendJob, listed, sent, slips>>

-----------------------------------------------------------------------------
(* DeliverNotificationJob. *)

SendRuns(e) == sendJob[e].stage \in {"claimed", "sending", "sent", "recorded"}
SendStage(e, s) == sendJob' = [sendJob EXCEPT ![e].stage = s]
SendJobEnds(e) ==
  /\ sendJob' = [sendJob EXCEPT ![e] = NoJob]
  /\ locked' = locked \ {<<"send", e>>}
DeliveryIs(e, s) == delivery' = [delivery EXCEPT ![e] = s]
DeliveryFailed(e) ==
  IF delivery[e] \in {"delivered", "permanent_failed"} THEN UNCHANGED delivery
  ELSE DeliveryIs(e, "failed")

Sends(e) == sent' = [sent EXCEPT ![e] = @ + 1]
Slips(e) == slips[e] < MaxSlips /\ slips' = [slips EXCEPT ![e] = @ + 1]

ReserveSend(e) ==
  /\ sendJob[e].stage = "queued"
  /\ IF sendJob[e].tries < DeliveryTries
     THEN /\ sendJob' = [sendJob EXCEPT ![e] = [stage |-> "claimed", tries |-> @.tries + 1]]
          /\ UNCHANGED <<delivery, locked>>
     ELSE DeliveryFailed(e) /\ SendJobEnds(e)
  /\ UNCHANGED <<event, due, eventJob, listed, counts>>

(* Mutant of ClaimSend: the state of the row is not looked at. *)
ClaimSendBlindly(e) ==
  /\ sendJob[e].stage = "claimed"
  /\ DeliveryIs(e, "processing") /\ SendStage(e, "sending")
  /\ UNCHANGED <<event, due, eventJob, locked, listed, counts>>

ClaimSend(e) ==
  /\ sendJob[e].stage = "claimed"
  /\ IF delivery[e] = "delivered" THEN SendJobEnds(e) /\ UNCHANGED delivery
     ELSE DeliveryIs(e, "processing") /\ SendStage(e, "sending") /\ UNCHANGED locked
  /\ UNCHANGED <<event, due, eventJob, listed, counts>>

Accepted(e) ==
  /\ sendJob[e].stage = "sending"
  /\ Sends(e) /\ SendStage(e, "sent")
  /\ UNCHANGED <<rows, eventJob, locked, listed, slips, deaths>>

(* Refused for now, or accepted and the answer lost: RETRYING either way,   *)
(* then FAILED by the hook if it was the last attempt.                      *)
SendThrows(e) ==
  /\ sendJob[e].stage = "sending"
  /\ \/ UNCHANGED <<sent, slips>>
     \/ Sends(e) /\ Slips(e)
  /\ IF sendJob[e].tries < DeliveryTries
     THEN DeliveryIs(e, "retrying") /\ SendStage(e, "queued") /\ UNCHANGED locked
     ELSE DeliveryIs(e, "failed") /\ SendJobEnds(e)
  /\ UNCHANGED <<event, due, eventJob, listed, deaths>>

(* The audit event of a decision's e-mail is written inside the same try:   *)
(* when it fails, RETRYING is written over DELIVERED.                       *)
AuditThrows(e) ==
  /\ sendJob[e].stage = "recorded" /\ Slips(e)
  /\ IF sendJob[e].tries < DeliveryTries
     THEN DeliveryIs(e, "retrying") /\ SendStage(e, "queued") /\ UNCHANGED locked
     ELSE DeliveryIs(e, "failed") /\ SendJobEnds(e)
  /\ UNCHANGED <<event, due, eventJob, listed, sent, deaths>>

(* No address, an unknown channel: given up for good. *)
PermanentFailure(e) ==
  /\ sendJob[e].stage = "sending"
  /\ DeliveryIs(e, "permanent_failed") /\ SendJobEnds(e)
  /\ UNCHANGED <<event, due, eventJob, listed, counts>>

RecordDelivered(e) ==
  /\ sendJob[e].stage = "sent"
  /\ DeliveryIs(e, "delivered") /\ SendStage(e, "recorded")
  /\ UNCHANGED <<event, due, eventJob, locked, listed, counts>>

SendJobDone(e) ==
  /\ sendJob[e].stage = "recorded"
  /\ SendJobEnds(e)
  /\ UNCHANGED <<rows, eventJob, listed, counts>>

SendWorkerDies(e) ==
  /\ SendRuns(e) /\ Dies
  /\ IF sendJob[e].stage = "sent" THEN Slips(e) ELSE UNCHANGED slips
  /\ \/ SendStage(e, "queued") /\ UNCHANGED <<delivery, locked>>
     \/ DeliveryFailed(e) /\ SendJobEnds(e)
  /\ UNCHANGED <<event, due, eventJob, listed, sent>>

-----------------------------------------------------------------------------
(* The scheduler. *)

(* The time of the back-off passes. *)
BecomeDue(e) ==
  /\ event[e] \in {"retrying", "failed"} /\ ~due[e]
  /\ due' = [due EXCEPT ![e] = TRUE]
  /\ UNCHANGED <<event, delivery, jobs, listed, counts>>

(* Every minute.  A lease is stale after 120 seconds, four times what a run *)
(* of the job may take.                                                     *)
StaleLease(e) == event[e] = "processing" /\ ~EventRuns(e)

(* Mutant of DispatchOutbox: only events that were tried are taken up. *)
DispatchTriedOnly(e) ==
  /\ \/ StaleLease(e)
     \/ event[e] = "retrying" /\ due[e] /\ <<"event", e>> \notin locked
  /\ event' = [event EXCEPT ![e] = "retrying"]
  /\ due' = [due EXCEPT ![e] = TRUE]
  /\ Dispatch(eventJob, "event", e)
  /\ UNCHANGED <<delivery, sendJob, listed, sent, slips>>

DispatchOutbox(e) ==
  /\ \/ StaleLease(e)
     \/ event[e] \in {"pending", "retrying"} /\ due[e] /\ <<"event", e>> \notin locked
  /\ event' = IF StaleLease(e) THEN [event EXCEPT ![e] = "retrying"] ELSE event
  /\ due' = [due EXCEPT ![e] = TRUE]
  /\ Dispatch(eventJob, "event", e)
  /\ UNCHANGED <<delivery, sendJob, listed, sent, slips>>

(* An operator takes up a failed event again (--include-failed).            *)
ReplayFailed(e) ==
  /\ event[e] = "failed" /\ due[e]
  /\ Dispatch(eventJob, "event", e)
  /\ UNCHANGED <<rows, sendJob, listed, sent, slips>>

(* Every five minutes: the unfinished deliveries are read, then written and *)
(* queued one after the other.                                              *)
(* Mutant of ReadUnfinished: failed deliveries are left out. *)
ReadWaiting(e) ==
  /\ listed[e] = "none" /\ delivery[e] \in {"pending", "retrying"}
  /\ listed' = [listed EXCEPT ![e] = delivery[e]]
  /\ UNCHANGED <<rows, jobs, counts>>

ReadUnfinished(e) ==
  /\ listed[e] = "none" /\ delivery[e] \in Unfinished
  /\ listed' = [listed EXCEPT ![e] = delivery[e]]
  /\ UNCHANGED <<rows, jobs, counts>>

(* The update writes what differs from the row as it was read. *)
ReplayDelivery(e) ==
  /\ listed[e] # "none"
  /\ IF listed[e] = "pending" THEN UNCHANGED <<delivery, slips>>
     ELSE /\ DeliveryIs(e, "pending")
          /\ IF delivery[e] = "delivered" THEN Slips(e) ELSE UNCHANGED slips
  /\ listed' = [listed EXCEPT ![e] = "none"]
  /\ Dispatch(sendJob, "send", e)
  /\ UNCHANGED <<event, due, eventJob, sent>>

-----------------------------------------------------------------------------
OutboxWorker(e) ==
  ReserveEvent(e) \/ ClaimEvent(e) \/ QueueDelivery(e) \/ MarkProcessed(e) \/ EventJobDone(e)
SendWorker(e) ==
  ReserveSend(e) \/ ClaimSend(e) \/ RecordDelivered(e) \/ SendJobDone(e)

OutboxNext ==
  \E e \in Event :
    \/ Record(e) \/ ExpireLock(e)
    \/ OutboxWorker(e) \/ EventThrows(e) \/ EventWorkerDies(e)
    \/ SendWorker(e) \/ Accepted(e) \/ SendThrows(e) \/ AuditThrows(e)
    \/ PermanentFailure(e) \/ SendWorkerDies(e)
    \/ BecomeDue(e) \/ DispatchOutbox(e) \/ ReplayFailed(e)
    \/ ReadUnfinished(e) \/ ReplayDelivery(e)

(* Workers and the scheduler keep running, a lock expires in the end, and a *)
(* provider that is asked again and again accepts or gives up at last.      *)
OutboxFairness ==
  \A e \in Event :
    /\ WF_vars(OutboxWorker(e))
    /\ WF_vars(SendWorker(e)) /\ SF_vars(Accepted(e) \/ PermanentFailure(e))
    /\ WF_vars(BecomeDue(e)) /\ WF_vars(DispatchOutbox(e))
    /\ WF_vars(ReadUnfinished(e)) /\ WF_vars(ReplayDelivery(e))
    /\ WF_vars(ExpireLock(e))

OutboxSpec == OutboxInit /\ [][OutboxNext]_vars
FairOutboxSpec == OutboxSpec /\ OutboxFairness
-----------------------------------------------------------------------------
EventRun == [stage : {"none", "queued", "claimed", "queueing", "pushed", "recorded"},
             tries : 0..EventTries]
SendRun == [stage : {"none", "queued", "claimed", "sending", "sent", "recorded"},
            tries : 0..DeliveryTries]

OutboxTypeOK ==
  /\ event \in [Event -> EventStatus] /\ due \in [Event -> BOOLEAN]
  /\ delivery \in [Event -> DeliveryStatus]
  /\ eventJob \in [Event -> EventRun] /\ sendJob \in [Event -> SendRun]
  /\ locked \subseteq {"event", "send"} \X Event
  /\ listed \in [Event -> Unfinished \cup {"none"}]
  /\ sent \in [Event -> Nat] /\ slips \in [Event -> 0..MaxSlips]
  /\ deaths \in 0..MaxDeaths

(* The provider gets a message twice only if the first sending left no      *)
(* trace: the worker died before it wrote DELIVERED, the answer was lost,   *)
(* or RETRYING or PENDING was written over it.  Redelivered jobs, repeated  *)
(* dispatches, failed events taken up again and reconciliations of an       *)
(* unfinished row send nothing twice.                                       *)
ResentOnlyUntraced == \A e \in Event : sent[e] <= 1 + slips[e]

(* A committed event is processed or visibly given up in the end, wherever  *)
(* a process died, also between the commit and the queue.                   *)
EventuallySettled ==
  \A e \in Event : event[e] = "pending" ~> event[e] \in {"processed", "failed"}

(* A recorded delivery reaches its channel or is given up for good, even    *)
(* when its outbox event failed.                                            *)
EventuallyDelivered ==
  \A e \in Event : delivery[e] = "pending" ~> delivery[e] \in {"delivered", "permanent_failed"}

(* "can never send the same notification twice on the same channel" *)
SentOnce == \A e \in Event : sent[e] <= 1
=============================================================================
