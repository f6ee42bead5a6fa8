------------------------- MODULE CreditApplication -------------------------
(***************************************************************************)
(* The credit application row and the table of its legal status moves.      *)
(*                                                                         *)
(* CreditApplicationStateMachine is the only writer of                      *)
(* credit_applications.status: it locks the row, re-reads it, looks the     *)
(* move up in TRANSITIONS for the acting role, and writes status and extra  *)
(* columns in one transaction.  Dossier (the customer's side) and           *)
(* Scheduling (the bank's side) both act on the variables declared here.    *)
(***************************************************************************)
EXTENDS Naturals, FiniteSets

CONSTANTS
  App,        \* the credit applications
  Branch,     \* the bank's branches
  NoBranch    \* branch_id IS NULL

ASSUME NoBranchAssumption == NoBranch \notin Branch

VARIABLES
  status,     \* credit_applications.status
  branchOf    \* credit_applications.branch_id

-----------------------------------------------------------------------------
(* STATUS_ORDER: hasReached compares positions in this list, so every       *)
(* status after FINAL_LOCKED, the terminal ones included, counts as locked. *)
Position == [
  DRAFT |-> 1, STEP_1_COMPLETED |-> 2, STEP_2_COMPLETED |-> 3, STEP_3_COMPLETED |-> 4,
  READY_FOR_VALIDATION_1 |-> 5, VALIDATION_1_COMPLETED |-> 6, VALIDATION_2 |-> 7,
  FINAL_LOCKED |-> 8, SUBMITTED |-> 9, STAFF_APPROVED |-> 10, STAFF_REJECTED |-> 11,
  APPROVED |-> 12, REJECTED |-> 13, APPOINTMENT_PROPOSED |-> 14,
  APPOINTMENT_CONFIRMED |-> 15, APPOINTMENT_LOCKED |-> 16, CANCELLED |-> 17]

Status == DOMAIN Position

HasReached(current, threshold) == Position[current] >= Position[threshold]

IsLocked(s) == HasReached(s, "FINAL_LOCKED")

CanBeDeletedByCustomer(s) ==
  s \in {"DRAFT", "STEP_1_COMPLETED", "STEP_2_COMPLETED", "STEP_3_COMPLETED",
         "READY_FOR_VALIDATION_1"}

AppointmentStage ==
  {"APPOINTMENT_PROPOSED", "APPOINTMENT_CONFIRMED", "APPOINTMENT_LOCKED"}

-----------------------------------------------------------------------------
(* Who acts.  "operational" stands for staff, credit_officer, senior_staff  *)
(* and branch_manager; "admin" for admin and super_admin.                   *)
StaffRole == {"operational", "security", "admin"}

(* The actor kinds of the table a role satisfies: superusers also count as  *)
(* operational staff; the security role satisfies neither kind.             *)
Satisfies(role) ==
  CASE role = "customer"    -> {"customer"}
    [] role = "operational" -> {"staff"}
    [] role = "admin"       -> {"staff", "admin"}
    [] OTHER                -> {}

(* TRANSITIONS, as triples <<from, to, a required actor kind>>.             *)
Transitions ==
       {t \in Status \X Status \X {"customer"} :
          Position[t[1]] <= 8 /\ Position[t[2]] = Position[t[1]] + 1}
  \cup {s \in Status : Position[s] <= 7} \X {"CANCELLED"} \X {"customer"}
  \cup {"SUBMITTED"} \X {"STAFF_APPROVED", "STAFF_REJECTED", "CANCELLED"} \X {"staff"}
  \cup {"STAFF_APPROVED"} \X {"APPROVED", "REJECTED"} \X {"admin"}
  \cup {<<"STAFF_APPROVED", "CANCELLED", "staff">>}
  \cup {"STAFF_APPROVED", "APPROVED", "APPOINTMENT_PROPOSED"}
          \X AppointmentStage \X {"customer", "staff", "admin"}
  \cup {"APPOINTMENT_CONFIRMED", "APPOINTMENT_LOCKED"}
          \X {"APPOINTMENT_CONFIRMED", "APPOINTMENT_PROPOSED"} \X {"staff", "admin"}

(* Mutant of CanMove: the table consulted by target only.                   *)
CanMoveFromAny(from, to, role) ==
  \E s \in Status, kind \in Satisfies(role) : <<s, to, kind>> \in Transitions

(* assertTransitionAllowed, on the locked row.                              *)
CanMove(from, to, role) ==
  \E kind \in Satisfies(role) : <<from, to, kind>> \in Transitions
=============================================================================
