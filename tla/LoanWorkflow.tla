---------------------------- MODULE LoanWorkflow ----------------------------
(***************************************************************************)
(* A credit application from its creation to its appointment: Dossier and   *)
(* Scheduling acting on the same row.  Late requests of the customer's side *)
(* meet the decisions of the bank's side here.                              *)
(***************************************************************************)
EXTENDS Dossier, Scheduling

CONSTANTS NoSlot   \* no appointment is held

ASSUME NoSlotAssumption == NoSlot \notin Branch \X Day \X Time

workflowVars == <<vars, bankVars>>

WorkflowInit == Init /\ BankIdle

(* cancel() also cancels whatever appointment is still active.              *)
CustomerCancel(a) ==
  /\ Cancel(a)
  /\ offers' = [offers EXCEPT ![a] = CancelActive(@)]
  /\ UNCHANGED <<today, configured, staffDecided, adminDecided, inflight>>

(* submitCore takes the branch that matches when the request runs.          *)
Routed ==
  \A a \in App : status[a] # "SUBMITTED" /\ status'[a] = "SUBMITTED"
    => branchOf'[a] = RoutedTo(a)

CustomerStep ==
  /\ \/ \E a \in App : Create(a) \/ DeleteUnfinished(a)
     \/ \E p \in Request : Serve(p)
  /\ Routed
  /\ UNCHANGED bankVars

(* Route binding finds live applications only.                              *)
BankStep ==
  /\ BankNext
  /\ \A m \in inflight' \ inflight : row[m.app] = "live"
  /\ UNCHANGED dossierVars

WorkflowNext == (\E a \in App : CustomerCancel(a)) \/ CustomerStep \/ BankStep

WorkflowSpec == WorkflowInit /\ [][WorkflowNext]_workflowVars

-----------------------------------------------------------------------------
(* Whatever the bank decided, and every appointment it gave, is about a     *)
(* dossier that is live, complete and has passed validation 1: a decision   *)
(* admitted early, or a save that arrives late, changes nothing about that. *)
DecidedDossierComplete ==
  \A a \in App : staffDecided[a] \/ adminDecided[a] \/ offers[a] # <<>> =>
    row[a] = "live" /\ "passed" \in steps[a] /\ \A k \in Section : Saved(a, k)

-----------------------------------------------------------------------------
(* The refinement: the stage is read off the row and its status, the slot   *)
(* off the latest appointment while it is active.                           *)
StageOf(a) ==
  CASE row[a] = "absent"  -> "new"
    [] row[a] = "trashed" -> "deleted"
    [] row[a] = "live" /\ status[a] \in {"STAFF_REJECTED", "REJECTED", "CANCELLED"} -> "closed"
    [] row[a] = "live" /\ status[a] \in {"SUBMITTED", "STAFF_APPROVED"} -> "review"
    [] row[a] = "live" /\ status[a] = "APPOINTMENT_PROPOSED" -> "meeting"
    [] row[a] = "live" /\ status[a] = "APPOINTMENT_CONFIRMED" -> "agreed"
    [] OTHER -> "draft"

HeldSlot(a) ==
  IF offers[a] # <<>> /\ Active(Latest(offers, a))
    THEN <<Latest(offers, a).branch, Latest(offers, a).day, Latest(offers, a).time>>
    ELSE NoSlot

ChangesOf(a) == IF offers[a] = <<>> THEN 0 ELSE Latest(offers, a).resched

Lifecycle == INSTANCE LoanLifecycle WITH
  Loan <- App, Slot <- Branch \X Day \X Time, MaxChanges <- MaxReschedules,
  stage <- [a \in App |-> StageOf(a)],
  slot <- [a \in App |-> HeldSlot(a)],
  changes <- [a \in App |-> ChangesOf(a)]

(* The composed system implements LoanLifecycle.                            *)
ImplementsLifecycle == Lifecycle!Spec
=============================================================================
