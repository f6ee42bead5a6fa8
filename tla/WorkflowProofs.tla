--------------------------- MODULE WorkflowProofs ---------------------------
(***************************************************************************)
(* Proofs about LoanWorkflow: the customer's and the bank's side acting on  *)
(* the same rows, for any applications, requests, staff and branches, and   *)
(* that the composition implements LoanLifecycle.                           *)
(***************************************************************************)
EXTENDS LoanWorkflow, DossierProofs, SchedulingProofs

-----------------------------------------------------------------------------
(* The statuses an application rests in while the customer prepares it, and *)
(* those it reaches once the bank, or a cancellation, has touched it.       *)
Preparing == {"DRAFT", "STEP_1_COMPLETED", "STEP_2_COMPLETED", "READY_FOR_VALIDATION_1",
              "VALIDATION_1_COMPLETED"}
Touched == {"STAFF_APPROVED", "STAFF_REJECTED", "REJECTED", "APPOINTMENT_PROPOSED",
            "APPOINTMENT_CONFIRMED", "CANCELLED"}

BankActedOn(a) == staffDecided[a] \/ adminDecided[a] \/ offers[a] # <<>>

(* The row, its status and what the bank wrote, of one application.         *)
RowAgrees(a) ==
  /\ status[a] \in Preparing \cup {"SUBMITTED"} \cup Touched
  /\ row[a] = "absent" => status[a] = "DRAFT"
  /\ row[a] = "trashed" => CanBeDeletedByCustomer(status[a])
  /\ BankActedOn(a) => status[a] \in Touched
  /\ status[a] \in Preparing => branchOf[a] = NoBranch

(* A member of staff can only have reached an application that is still     *)
(* being prepared without a restriction to a branch: it has no branch yet.  *)
EarlyRequestsUnrestricted ==
  \A m \in inflight :
    m.by # Customer /\ status[m.app] \in Preparing => ~IsBranchRestricted(m.by)

WorkflowInv ==
  /\ Typed /\ BankInv /\ CountsUp
  /\ ProgressEarned /\ VerifiesSomething
  /\ \A a \in App : RowAgrees(a)
  /\ DecidedDossierComplete
  /\ EarlyRequestsUnrestricted

-----------------------------------------------------------------------------
(* The customer's side.                                                     *)
LEMMA PreparingStatuses ==
  /\ Preparing \cup {"SUBMITTED"} \cup Touched \subseteq Status
  /\ \A s \in Preparing \cup {"SUBMITTED"} \cup Touched :
       /\ Position[s] <= 7 <=> s \in Preparing
       /\ CanBeDeletedByCustomer(s) => s \in Preparing
  BY DEF Preparing, Touched, Status, Position, CanBeDeletedByCustomer

(* What the customer cancels has no appointment yet.                        *)
LEMMA NothingToCancel ==
  ASSUME WorkflowInv, NEW a \in App, CustomerCancel(a)
  PROVE  offers' = offers
  <1>1. status \in [App -> Status] /\ offers \in [App -> Seq(Offer)]
    BY DEF WorkflowInv, Typed, BankInv, BankTypeOK
  <1>2. CanMove(status[a], "CANCELLED", "customer")
    BY DEF CustomerCancel, Cancel, MayApply
  <1>3. Position[status[a]] <= 7
    BY <1>1, <1>2, CustomerMoves
  <1>4. status[a] \in Preparing /\ status[a] \notin Touched
    BY <1>3, PreparingStatuses DEF WorkflowInv, RowAgrees, Preparing, Touched
  <1>5. offers[a] = <<>>
    BY <1>4 DEF WorkflowInv, RowAgrees, BankActedOn
  <1>6. CancelActive(<<>>) = <<>>
    BY DEF CancelActive
  <1> QED BY <1>1, <1>5, <1>6 DEF CustomerCancel

LEMMA CustomerSide ==
  ASSUME WorkflowInv, (\E a \in App : CustomerCancel(a)) \/ CustomerStep
  PROVE  Next /\ UNCHANGED bankVars
  <1>1. ASSUME NEW a \in App, CustomerCancel(a) PROVE Next /\ UNCHANGED bankVars
    BY <1>1, NothingToCancel DEF CustomerCancel, Next, bankVars
  <1>2. CASE CustomerStep
    BY <1>2 DEF CustomerStep, Next
  <1> QED BY <1>1, <1>2

(* A branch is given with the submission.                                   *)
LEMMA RoutedAtSubmission ==
  ASSUME Typed, [Next]_vars, NEW a \in App, branchOf'[a] # branchOf[a]
  PROVE  status[a] = "VALIDATION_1_COMPLETED" /\ status'[a] = "SUBMITTED"
  <1>1. PICK p \in Request, b \in Branch \cup {NoBranch} : ConfirmAndSubmit(p, b)
    BY ZenonT(40) DEF vars, Next, Create, DeleteUnfinished, Cancel, Serve, Receive, Abandon, SaveClient,
           SaveCreditRequest, SaveProject, SaveSection, SaveRefused, OpenTransaction,
           UploadDocument, DestroyDocument, CheckRequiredSections, VerifyDocument,
           ExhaustBudget, FinishValidation, ConfirmRefused
  <1>2. req[p].app \in App /\ status \in [App -> Status] /\ branchOf \in [App -> Branch \cup {NoBranch}]
    BY DEF Typed, Work
  <1>3. a = req[p].app /\ status'[a] = "SUBMITTED" /\ CanMove(status[a], "VALIDATION_2", "customer")
    BY <1>1, <1>2 DEF ConfirmAndSubmit, MayApply
  <1> QED BY <1>2, <1>3, CustomerMoves

LEMMA CustomerKeepsInv ==
  ASSUME WorkflowInv, [Next]_vars, UNCHANGED bankVars
  PROVE  WorkflowInv'
  <1>1. /\ Typed /\ BankInv /\ CountsUp /\ ProgressInv /\ VerifiesSomething
        /\ \A a \in App : RowAgrees(a)
        /\ DecidedDossierComplete /\ EarlyRequestsUnrestricted
    BY DEF WorkflowInv, ProgressInv, TrashedUnfinished, RowAgrees
  <1>2. /\ offers' = offers /\ today' = today /\ configured' = configured
        /\ staffDecided' = staffDecided /\ adminDecided' = adminDecided /\ inflight' = inflight
    BY DEF bankVars
  <1>3. ProgressInv' /\ Typed'
    BY <1>1, ProgressStep DEF ProgressInv
  <1>4. Effects
    BY <1>1, StepEffects
  (* How one application moves.                                             *)
  <1>5. ASSUME NEW a \in App
        PROVE  /\ \/ status'[a] = status[a] /\ branchOf'[a] = branchOf[a]
                  \/ /\ status[a] \in Preparing
                     /\ status'[a] \in Preparing /\ branchOf'[a] = NoBranch
                  \/ status[a] \in Preparing /\ status'[a] \in {"SUBMITTED", "CANCELLED"}
               /\ status'[a] # status[a] => row[a] = "live" /\ row'[a] = "live"
    <2>1. MovesOn(a) /\ RowAgrees(a)
      BY <1>1, <1>4 DEF Effects
    <2>2. \/ branchOf'[a] = branchOf[a]
          \/ status[a] = "VALIDATION_1_COMPLETED" /\ status'[a] = "SUBMITTED"
      BY <1>1, RoutedAtSubmission
    <2>3. CASE status'[a] = status[a]
      BY <2>2, <2>3
    <2>4. CASE row[a] = "live" /\ row'[a] = "live" /\ Advances(a)
      <3>1. CASE Position[status[a]] <= 7 /\ status'[a] = "CANCELLED"
        BY <2>1, <2>4, <3>1, PreparingStatuses DEF RowAgrees
      <3>2. CASE status[a] \in Preparing /\ status'[a] \in Preparing \cup {"SUBMITTED"}
        BY <2>1, <2>2, <2>4, <3>2 DEF RowAgrees, Preparing
      <3> QED BY <2>4, <3>1, <3>2 DEF Advances, Preparing
    <2> QED BY <2>1, <2>3, <2>4 DEF MovesOn
  <1>6. \A a \in App : BankActedOn(a)' <=> BankActedOn(a)
    BY <1>2 DEF BankActedOn
  <1>7. \A a \in App : BankActedOn(a) =>
          status[a] \in Touched /\ status'[a] = status[a] /\ branchOf'[a] = branchOf[a]
    BY <1>1, <1>5 DEF RowAgrees, Preparing, Touched
  <1>8. ASSUME NEW a \in App PROVE RowAgrees(a)'
    <2>1. RowAgrees(a) /\ MovesOn(a)
      BY <1>1, <1>4 DEF Effects
    <2>2. status'[a] \in Preparing \cup {"SUBMITTED"} \cup Touched
      BY <1>5, <2>1 DEF RowAgrees, Touched
    <2>3. row'[a] = "absent" => status'[a] = "DRAFT"
      BY <1>5, <2>1 DEF RowAgrees, MovesOn
    <2>4. row'[a] = "trashed" => CanBeDeletedByCustomer(status'[a])
      BY <1>5, <2>1 DEF RowAgrees, MovesOn
    <2>5. BankActedOn(a)' => status'[a] \in Touched
      BY <1>6, <1>7
    <2>6. status'[a] \in Preparing => branchOf'[a] = NoBranch
      BY <1>5, <2>1 DEF RowAgrees, Preparing
    <2> QED BY <2>2, <2>3, <2>4, <2>5, <2>6 DEF RowAgrees
  <1>9. DecidedDossierComplete'
    <2> SUFFICES ASSUME NEW a \in App, BankActedOn(a)'
                 PROVE  /\ row'[a] = "live" /\ "passed" \in steps'[a]
                        /\ \A k \in Section : Saved(a, k)'
      BY DEF DecidedDossierComplete, BankActedOn
    <2>1. /\ row[a] = "live" /\ "passed" \in steps[a] /\ \A k \in Section : Saved(a, k)
          /\ status[a] \in Touched
      BY <1>1, <1>6, <1>7 DEF DecidedDossierComplete, BankActedOn
    <2>2. ~CanBeDeletedByCustomer(status[a])
      BY <2>1 DEF CanBeDeletedByCustomer, Touched
    <2>3. row'[a] = "live"
      BY <1>4, <2>1, <2>2 DEF Effects, MovesOn
    <2> QED BY <1>4, <2>1, <2>3 DEF Effects, Kept
  <1>10. EarlyRequestsUnrestricted'
    <2>1. \A m \in inflight : m.app \in App
      BY <1>1, MessageFields DEF BankInv, BankTypeOK
    <2>2. \A a \in App : status'[a] \in Preparing => status[a] \in Preparing
      BY <1>5 DEF Preparing
    <2> QED BY <1>1, <1>2, <2>1, <2>2 DEF EarlyRequestsUnrestricted, IsBranchRestricted
  <1>11. BankInv'
    <2>1. BankTypeOK'
      BY <1>1, <1>2, <1>3 DEF BankInv, BankTypeOK, Typed
    <2>2. OnlyLatestActive' /\ SlotExclusive'
      BY <1>1, <1>2 DEF BankInv, OnlyLatestActive, SlotExclusive
    <2>3. StatusMatchesOffer'
      <3>1. \A a \in App : Latest(offers, a)' = Latest(offers, a) /\ offers'[a] = offers[a]
        BY <1>2 DEF Latest
      <3>2. \A a \in App :
              \/ status'[a] = status[a]
              \/ /\ status'[a] \notin {"APPOINTMENT_PROPOSED", "APPOINTMENT_CONFIRMED"}
                 /\ offers[a] = <<>>
        BY <1>5, <1>7 DEF Preparing, BankActedOn
      <3> QED BY <1>1, <3>1, <3>2 DEF BankInv, StatusMatchesOffer
    <2>4. OfferAtOwnBranch'
      <3>1. \A a \in App : branchOf'[a] = branchOf[a] \/ offers[a] = <<>>
        BY <1>7 DEF BankActedOn
      <3> QED BY <1>1, <1>2, <3>1 DEF BankInv, OfferAtOwnBranch
    <2>5. UndecidedUntouched'
      <3>1. ASSUME NEW a \in App, Undecided(a)' PROVE offers'[a] = <<>>
        <4>1. status'[a] = status[a] \/ offers[a] = <<>>
          BY <1>5, <1>7 DEF BankActedOn
        <4> QED BY <1>1, <1>2, <3>1, <4>1 DEF BankInv, UndecidedUntouched, Undecided
      <3>2. ASSUME NEW m \in inflight', m.by # Customer, Undecided(m.app)'
            PROVE  CanAccess(m.by, m.app)'
        <4>1. m \in inflight /\ m.app \in App
          BY <1>1, <1>2, MessageFields DEF BankInv, BankTypeOK
        <4>2. CASE status[m.app] \in Preparing
          BY <1>1, <3>2, <4>1, <4>2 DEF EarlyRequestsUnrestricted, CanAccess, IsBranchRestricted
        <4>3. CASE status'[m.app] = status[m.app] /\ branchOf'[m.app] = branchOf[m.app]
          BY <1>1, <3>2, <4>1, <4>3
             DEF BankInv, UndecidedUntouched, Undecided, CanAccess, IsBranchRestricted
        <4> QED BY <1>5, <4>1, <4>2, <4>3
      <3> QED BY <3>1, <3>2 DEF UndecidedUntouched
    <2> QED BY <2>1, <2>2, <2>3, <2>4, <2>5 DEF BankInv
  <1>12. CountsUp'
    BY <1>1, <1>2 DEF CountsUp, Latest, Rejected
  <1>13. ProgressEarned' /\ VerifiesSomething'
    BY <1>3 DEF ProgressInv
  <1> QED BY <1>3, <1>8, <1>9, <1>10, <1>11, <1>12, <1>13 DEF WorkflowInv

-----------------------------------------------------------------------------
(* The bank's side.  A transaction leaves an application alone, or takes    *)
(* one that was submitted on to a status of the bank's.                     *)
Alone(a) ==
  /\ status'[a] = status[a] /\ branchOf'[a] = branchOf[a] /\ offers'[a] = offers[a]
  /\ staffDecided'[a] = staffDecided[a] /\ adminDecided'[a] = adminDecided[a]

TakenOn(a) ==
  /\ status[a] \in {"SUBMITTED", "STAFF_APPROVED", "APPROVED"} \cup AppointmentStage
  /\ status'[a] \in Touched

LEMMA TransactionTakesOn ==
  ASSUME BankInv, NEW m \in inflight, Transact(m)
  PROVE  \A a \in App : Alone(a) \/ (a = m.app /\ TakenOn(a))
  <1>1. /\ status \in [App -> Status] /\ branchOf \in [App -> Branch \cup {NoBranch}]
        /\ offers \in [App -> Seq(Offer)] /\ inflight \subseteq Message
        /\ staffDecided \in [App -> BOOLEAN] /\ adminDecided \in [App -> BOOLEAN]
    BY DEF BankInv, BankTypeOK
  <1>2. m \in Message /\ m.app \in App
    BY <1>1, MessageFields
  <1>3. m.op \in StaffOp => RoleOf(m.by) \in StaffRole
    BY <1>2, MessageFields
  <1>4. ASSUME NEW a \in App, a # m.app PROVE Alone(a)
    <2>1. status'[a] = status[a] /\ offers'[a] = offers[a]
      BY <1>4, WritesOwnApplication
    <2>2. branchOf'[a] = branchOf[a]
      BY <1>1, <1>2, <1>4 DEF Transact, StaffApprove, StaffReject, StaffCancel, AdminApprove,
         AdminReject, Accept, Reject, ScheduleManual, Reroutes, Refuse
    <2>3. staffDecided'[a] = staffDecided[a]
      BY <1>1, <1>2, <1>4 DEF Transact, StaffApprove, StaffReject, StaffCancel, AdminApprove,
         AdminReject, Accept, Reject, ScheduleManual, Refuse
    <2>4. adminDecided'[a] = adminDecided[a]
      BY <1>1, <1>2, <1>4 DEF Transact, StaffApprove, StaffReject, StaffCancel, AdminApprove,
         AdminReject, Accept, Reject, ScheduleManual, Refuse
    <2> QED BY <2>1, <2>2, <2>3, <2>4 DEF Alone
  <1>5. CASE Refuse(m)
    BY <1>5 DEF Refuse, Alone
  <1>6. ASSUME NEW to \in Touched, m.op \in StaffOp,
               CanMove(status[m.app], to, RoleOf(m.by)), status'[m.app] = to
        PROVE  TakenOn(m.app)
    BY <1>3, <1>6, StaffMoves DEF TakenOn, Touched, AppointmentStage
  <1>7. CASE StaffApprove(m) \/ StaffReject(m) \/ StaffCancel(m) \/ AdminReject(m)
    <2>1. m.op \in StaffOp
      BY <1>7 DEF StaffApprove, StaffReject, StaffCancel, AdminReject, StaffOp
    <2>2. PICK to \in Touched :
            CanMove(status[m.app], to, RoleOf(m.by)) /\ status' = [status EXCEPT ![m.app] = to]
      BY <1>7 DEF StaffApprove, StaffReject, StaffCancel, AdminReject, Moves, Touched
    <2>3. status'[m.app] = to
      BY <1>1, <1>2, <2>2
    <2> QED BY <1>4, <1>6, <2>1, <2>2, <2>3
  <1>8. CASE AdminApprove(m)
    <2>1. /\ m.op \in StaffOp /\ CanMove(status[m.app], "APPROVED", RoleOf(m.by))
          /\ status'[m.app] = "APPOINTMENT_PROPOSED"
      BY <1>1, <1>2, <1>8 DEF AdminApprove, StaffOp
    <2>2. TakenOn(m.app)
      BY <1>3, <2>1, StaffMoves DEF TakenOn, Touched, AppointmentStage
    <2> QED BY <1>4, <2>2
  <1>9. CASE Accept(m) \/ Reject(m)
    <2>1. ~Undecided(m.app) /\ m.op \notin StaffOp
      <3>1. m.op \in CustomerOp /\ IsCurrentAndProposed(m.app, m.attempt)
        BY <1>9 DEF Accept, Reject, CustomerOp
      <3>2. m.attempt \in Nat \ {0}
        BY <1>2, <3>1, MessageFields
      <3>3. offers[m.app] # <<>>
        BY <1>1, <1>2, <3>1, <3>2, EmptySeq DEF IsCurrentAndProposed
      <3> QED BY <1>2, <3>1, <3>3 DEF BankInv, UndecidedUntouched, CustomerOp, StaffOp
    <2>2. ~Refuse(m) => status[m.app] = "APPOINTMENT_PROPOSED"
      <3>1. \A b \in Branch, d \in Day, t \in Time, direct \in BOOLEAN :
              ~ScheduleManual(m, b, d, t, direct)
        BY <2>1 DEF ScheduleManual, StaffOp
      <3> QED BY <2>1, <3>1, ActedOn
    <2>3. status'[m.app] \in Touched
      BY <1>1, <1>2, <1>9 DEF Accept, Reject, Moves, Touched
    <2> QED BY <1>4, <1>5, <2>2, <2>3 DEF TakenOn, AppointmentStage
  <1>10. CASE \E b \in Branch, d \in Day, t \in Time, direct \in BOOLEAN :
                ScheduleManual(m, b, d, t, direct)
    <2>1. m.op \in StaffOp
      BY <1>10 DEF ScheduleManual, StaffOp
    <2>2. PICK to \in Touched :
            CanMove(status[m.app], to, RoleOf(m.by)) /\ status' = [status EXCEPT ![m.app] = to]
      BY ZenonT(40), <1>10 DEF ScheduleManual, Moves, Touched
    <2>3. status'[m.app] = to
      BY <1>1, <1>2, <2>2
    <2> QED BY <1>4, <1>6, <2>1, <2>2, <2>3
  <1> QED BY <1>5, <1>7, <1>8, <1>9, <1>10 DEF Transact

(* Every step of the bank's side, the admissions and the days included.     *)
LEMMA BankTakesOn ==
  ASSUME BankInv, BankNext
  PROVE  \A a \in App : Alone(a) \/ TakenOn(a)
  <1>1. CASE \E s \in Staff, a \in App, op \in StaffOp : AdmitStaff(s, a, op)
    BY <1>1 DEF AdmitStaff, Alone
  <1>2. CASE \E a \in App, op \in CustomerOp : AdmitCustomer(a, op)
    BY <1>2 DEF AdmitCustomer, Alone
  <1>3. CASE ConfigureBranches \/ NextDay
    BY <1>3 DEF ConfigureBranches, NextDay, Alone
  <1> QED BY <1>1, <1>2, <1>3, TransactionTakesOn DEF BankNext

(* A new request of a member of staff has access to its application.        *)
LEMMA AdmittedWithAccess ==
  ASSUME BankInv, BankNext, NEW m \in inflight', m \notin inflight, m.by # Customer
  PROVE  CanAccess(m.by, m.app) /\ UNCHANGED <<status, branchOf>>
  <1>1. ASSUME NEW s \in Staff, NEW a \in App, NEW op \in StaffOp, AdmitStaff(s, a, op)
        PROVE  CanAccess(m.by, m.app) /\ UNCHANGED <<status, branchOf>>
    BY <1>1 DEF AdmitStaff
  <1>2. CASE \E a \in App, op \in CustomerOp : AdmitCustomer(a, op)
    BY <1>2 DEF AdmitCustomer
  <1>3. CASE ConfigureBranches \/ NextDay
    BY <1>3 DEF ConfigureBranches, NextDay
  <1> QED BY <1>1, <1>2, <1>3, WritesOwnApplication DEF BankNext

LEMMA Reached ==
  ASSUME NEW s \in {"SUBMITTED"} \cup Touched, s # "CANCELLED"
  PROVE  /\ \A k \in Section : HasReached(s, Completes(k))
         /\ HasReached(s, "VALIDATION_1_COMPLETED")
  BY Thresholds DEF Touched, Position, HasReached, Section

LEMMA BankKeepsInv ==
  ASSUME WorkflowInv, BankStep
  PROVE  WorkflowInv'
  <1>1. /\ Typed /\ BankInv /\ CountsUp /\ ProgressEarned /\ VerifiesSomething
        /\ \A a \in App : RowAgrees(a)
        /\ DecidedDossierComplete /\ EarlyRequestsUnrestricted
    BY DEF WorkflowInv
  <1>2. /\ BankNext /\ row' = row /\ section' = section /\ lastNumber' = lastNumber
        /\ docs' = docs /\ steps' = steps /\ forced' = forced /\ req' = req
    BY DEF BankStep, dossierVars
  <1>3. BankInv' /\ CountsUp'
    BY <1>1, <1>2, InvStep, CountsUpStep
  <1>4. Typed' /\ VerifiesSomething'
    BY <1>1, <1>2, <1>3 DEF Typed, BankInv, BankTypeOK, VerifiesSomething, HadDocument
  <1>5. \A a \in App, k \in Section : Saved(a, k)' <=> Saved(a, k)
    BY <1>2 DEF Saved
  (* What the bank takes on is submitted, so live, complete and validated.  *)
  <1>6. ASSUME NEW a \in App, TakenOn(a)
        PROVE  /\ status[a] \in {"SUBMITTED"} \cup Touched /\ status[a] # "CANCELLED"
               /\ row[a] = "live" /\ "passed" \in steps[a] /\ \A k \in Section : Saved(a, k)
               /\ \E d \in Doc : docs[a][d] # "none"
    <2>1. /\ status[a] \in {"SUBMITTED"} \cup Touched /\ status[a] # "CANCELLED"
          /\ status[a] # "DRAFT" /\ ~CanBeDeletedByCustomer(status[a])
      BY <1>1, <1>6 DEF RowAgrees, TakenOn, Preparing, Touched, AppointmentStage,
         CanBeDeletedByCustomer
    <2>2. row[a] = "live"
      BY <1>1, <2>1 DEF RowAgrees, Typed
    <2>3. "passed" \in steps[a] /\ (\A k \in Section : Saved(a, k))
            /\ \E d \in Doc : docs[a][d] # "none"
      BY <1>1, <2>1, Reached DEF ProgressEarned
    <2> QED BY <2>1, <2>2, <2>3
  <1>7. \A a \in App : Alone(a) \/ TakenOn(a)
    BY <1>1, <1>2, BankTakesOn
  <1>8. ProgressEarned'
    BY <1>1, <1>2, <1>5, <1>6, <1>7 DEF ProgressEarned, Alone
  <1>9. ASSUME NEW a \in App PROVE RowAgrees(a)'
    <2>1. CASE Alone(a)
      BY <1>1, <1>2, <2>1 DEF RowAgrees, Alone, BankActedOn
    <2>2. CASE TakenOn(a)
      <3>1. status'[a] \in Touched /\ status'[a] \notin Preparing /\ row'[a] = "live"
        BY <1>2, <1>6, <2>2 DEF TakenOn, Touched, Preparing
      <3> QED BY <3>1 DEF RowAgrees
    <2> QED BY <1>7, <2>1, <2>2
  <1>10. DecidedDossierComplete'
    <2> SUFFICES ASSUME NEW a \in App, BankActedOn(a)'
                 PROVE  /\ row'[a] = "live" /\ "passed" \in steps'[a]
                        /\ \A k \in Section : Saved(a, k)'
      BY DEF DecidedDossierComplete, BankActedOn
    <2>1. CASE Alone(a)
      BY <1>1, <1>2, <1>5, <2>1 DEF Alone, DecidedDossierComplete, BankActedOn
    <2>2. CASE TakenOn(a)
      BY <1>2, <1>5, <1>6, <2>2
    <2> QED BY <1>7, <2>1, <2>2
  <1>11. EarlyRequestsUnrestricted'
    <2> SUFFICES ASSUME NEW m \in inflight', m.by # Customer, status'[m.app] \in Preparing
                 PROVE  ~IsBranchRestricted(m.by)
      BY DEF EarlyRequestsUnrestricted, IsBranchRestricted
    <2>1. m.app \in App
      BY <1>3, MessageFields DEF BankInv, BankTypeOK
    <2>2. status[m.app] \in Preparing
      BY <1>7, <2>1 DEF Alone, TakenOn, Preparing, Touched
    <2>3. CASE m \in inflight
      BY <1>1, <2>2, <2>3 DEF EarlyRequestsUnrestricted
    <2>4. CASE m \notin inflight
      <3>1. CanAccess(m.by, m.app)
        BY <1>1, <1>2, <2>4, AdmittedWithAccess
      <3>2. branchOf[m.app] = NoBranch
        BY <1>1, <2>1, <2>2 DEF RowAgrees
      <3> QED BY <3>1, <3>2 DEF CanAccess
    <2> QED BY <2>3, <2>4
  <1> QED BY <1>3, <1>4, <1>8, <1>9, <1>10, <1>11 DEF WorkflowInv

LEMMA InitWorkflow == WorkflowInit => WorkflowInv
  <1> SUFFICES ASSUME WorkflowInit PROVE WorkflowInv
    OBVIOUS
  <1>1. ProgressInv /\ Typed
    BY InitProgress DEF WorkflowInit, ProgressInv
  <1>2. /\ \A a \in App : status[a] = "DRAFT" /\ row[a] = "absent" /\ branchOf[a] = NoBranch
        /\ offers = [a \in App |-> <<>>] /\ inflight = {} /\ today = FirstDay
        /\ configured \in BOOLEAN
        /\ staffDecided = [a \in App |-> FALSE] /\ adminDecided = [a \in App |-> FALSE]
    BY DEF WorkflowInit, Init, BankIdle
  <1>3. \A a \in App : RowAgrees(a) /\ ~BankActedOn(a)
    BY <1>2 DEF RowAgrees, BankActedOn, Preparing
  <1>4. BankTypeOK
    <2>1. today \in Day
      BY <1>2, BoundAssumption DEF Day
    <2> QED BY <1>1, <1>2, <2>1, EmptySeq DEF BankTypeOK, Typed
  <1>5. BankInv
    BY <1>2, <1>4 DEF BankInv, OnlyLatestActive, StatusMatchesOffer, SlotExclusive,
       OfferAtOwnBranch, UndecidedUntouched, Undecided
  <1>6. CountsUp /\ DecidedDossierComplete /\ EarlyRequestsUnrestricted
    BY <1>2, <1>3 DEF CountsUp, DecidedDossierComplete, BankActedOn, EarlyRequestsUnrestricted
  <1> QED BY <1>1, <1>3, <1>5, <1>6 DEF WorkflowInv, ProgressInv

LEMMA WorkflowStep == WorkflowInv /\ [WorkflowNext]_workflowVars => WorkflowInv'
  <1> SUFFICES ASSUME WorkflowInv, [WorkflowNext]_workflowVars PROVE WorkflowInv'
    OBVIOUS
  <1>1. CASE (\E a \in App : CustomerCancel(a)) \/ CustomerStep
    BY <1>1, CustomerSide, CustomerKeepsInv
  <1>2. CASE BankStep
    BY <1>2, BankKeepsInv
  <1>3. CASE UNCHANGED workflowVars
    BY <1>3, CustomerKeepsInv DEF workflowVars
  <1> QED BY <1>1, <1>2, <1>3 DEF WorkflowNext

(* What both sides rest on holds while they run on the same rows.           *)
THEOREM WorkflowInvHolds == WorkflowSpec => []WorkflowInv
  BY InitWorkflow, WorkflowStep, PTL DEF WorkflowSpec

(* Whatever the bank decided, and every appointment it gave, is about a     *)
(* dossier that is live, complete and has passed validation 1.              *)
THEOREM DecidedDossiersAreComplete == WorkflowSpec => []DecidedDossierComplete
  <1>1. WorkflowInv => DecidedDossierComplete
    BY DEF WorkflowInv
  <1> QED BY <1>1, WorkflowInvHolds, PTL

(* What the bank promises about its appointments, and the customer's side   *)
(* about the progress of a dossier, holds when both act on the same rows.   *)
THEOREM PromisesCompose ==
  WorkflowSpec => []( /\ SlotExclusive /\ StatusMatchesOffer /\ OnlyLatestActive
                      /\ OfferAtOwnBranch /\ ReschedulesCounted /\ ProgressEarned )
  <1>1. WorkflowInv => /\ SlotExclusive /\ StatusMatchesOffer /\ OnlyLatestActive
                       /\ OfferAtOwnBranch /\ ReschedulesCounted /\ ProgressEarned
    BY DEF WorkflowInv, BankInv, CountsUp, ReschedulesCounted
  <1> QED BY <1>1, WorkflowInvHolds, PTL

-----------------------------------------------------------------------------
(* The refinement.  The abstract state of an application is a function of   *)
(* its row, its status and its appointments.                                *)
Stage == [a \in App |-> StageOf(a)]
Held == [a \in App |-> HeldSlot(a)]
Changes == [a \in App |-> ChangesOf(a)]

StageFor(r, s) ==
  CASE r = "absent"  -> "new"
    [] r = "trashed" -> "deleted"
    [] r = "live" /\ s \in {"STAFF_REJECTED", "REJECTED", "CANCELLED"} -> "closed"
    [] r = "live" /\ s \in {"SUBMITTED", "STAFF_APPROVED"} -> "review"
    [] r = "live" /\ s = "APPOINTMENT_PROPOSED" -> "meeting"
    [] r = "live" /\ s = "APPOINTMENT_CONFIRMED" -> "agreed"
    [] OTHER -> "draft"

LEMMA Stages ==
  /\ \A s : StageFor("absent", s) = "new" /\ StageFor("trashed", s) = "deleted"
  /\ \A s \in {"STAFF_REJECTED", "REJECTED", "CANCELLED"} : StageFor("live", s) = "closed"
  /\ \A s \in {"SUBMITTED", "STAFF_APPROVED"} : StageFor("live", s) = "review"
  /\ StageFor("live", "APPOINTMENT_PROPOSED") = "meeting"
  /\ StageFor("live", "APPOINTMENT_CONFIRMED") = "agreed"
  /\ \A s \in Preparing : StageFor("live", s) = "draft"
  BY DEF StageFor, Preparing

LEMMA StageIsFor ==
  ASSUME NEW a \in App
  PROVE  StageOf(a) = StageFor(row[a], status[a]) /\ StageOf(a)' = StageFor(row'[a], status'[a])
  BY DEF StageOf, StageFor

(* A step about one application.                                            *)
LEMMA OneApplication ==
  ASSUME NEW a \in App,
         \A x \in App \ {a} : row'[x] = row[x] /\ status'[x] = status[x] /\ offers'[x] = offers[x]
  PROVE  /\ Stage' = [Stage EXCEPT ![a] = StageOf(a)']
         /\ Held' = [Held EXCEPT ![a] = HeldSlot(a)']
         /\ Changes' = [Changes EXCEPT ![a] = ChangesOf(a)']
  <1>1. \A x \in App \ {a} : StageOf(x)' = StageOf(x)
    BY StageIsFor
  <1>2. \A x \in App \ {a} : HeldSlot(x)' = HeldSlot(x) /\ ChangesOf(x)' = ChangesOf(x)
    BY DEF HeldSlot, ChangesOf, Latest
  <1> QED BY <1>1, <1>2 DEF Stage, Held, Changes

LEMMA NoApplication ==
  ASSUME \A x \in App : StageOf(x)' = StageOf(x), UNCHANGED offers
  PROVE  UNCHANGED <<Stage, Held, Changes>>
  <1>1. \A x \in App : HeldSlot(x)' = HeldSlot(x) /\ ChangesOf(x)' = ChangesOf(x)
    BY DEF HeldSlot, ChangesOf, Latest
  <1> QED BY <1>1 DEF Stage, Held, Changes

LEMMA LifecycleOf ==
  /\ Lifecycle!Next <=>
       \E a \in App :
         \/ Lifecycle!Prepare(a) \/ Lifecycle!Agree(a)
         \/ \E s \in Branch \X Day \X Time : Lifecycle!Book(a, s) \/ Lifecycle!Change(a, s)
  /\ \A a, from, to :
       Lifecycle!Advance(a, from, to) <=>
         Stage[a] \in from /\ Stage' = [Stage EXCEPT ![a] = to]
  /\ \A s : Lifecycle!Unheld(s) <=> \A x \in App : Held[x] # s
  /\ UNCHANGED Lifecycle!lifecycleVars <=> UNCHANGED <<Stage, Held, Changes>>
  BY DEF Lifecycle!Next, Lifecycle!Advance, Lifecycle!Unheld, Lifecycle!lifecycleVars,
         Stage, Held, Changes

(* The steps of the customer's side are about one application.              *)
LEMMA WritesOneDossier ==
  ASSUME Typed, Next
  PROVE  \E a \in App : \A x \in App \ {a} : row'[x] = row[x] /\ status'[x] = status[x]
  <1>1. ASSUME NEW a \in App, Create(a) \/ DeleteUnfinished(a) \/ Cancel(a)
        PROVE  \A x \in App \ {a} : row'[x] = row[x] /\ status'[x] = status[x]
    BY <1>1 DEF Create, DeleteUnfinished, Cancel, Typed
  <1>2. ASSUME NEW p \in Request, Serve(p)
        PROVE  \A x \in App \ {req[p].app} : row'[x] = row[x] /\ status'[x] = status[x]
    BY <1>2 DEF Typed, Serve, Receive, Abandon, SaveClient, SaveCreditRequest, SaveProject,
           SaveSection, SaveRefused, OpenTransaction, UploadDocument, DestroyDocument,
           CheckRequiredSections, VerifyDocument, ExhaustBudget, FinishValidation,
           ConfirmAndSubmit, ConfirmRefused
  <1>3. \A p \in Request : req[p].app \in App
    BY DEF Typed, Work
  <1> QED BY <1>1, <1>2, <1>3 DEF Next

(* How the steps of LoanLifecycle read on what the applications map to.     *)
LEMMA MapsToPrepareOrAgree ==
  ASSUME NEW a \in App, UNCHANGED <<Held, Changes>>,
         NEW to, Stage' = [Stage EXCEPT ![a] = to],
         \/ Stage[a] = "new" /\ to = "draft"
         \/ Stage[a] = "draft" /\ to \in {"deleted", "review", "closed"}
         \/ Stage[a] = "review" /\ to = "closed"
         \/ Stage[a] = "meeting" /\ to = "agreed"
  PROVE  Lifecycle!Next
  <1>1. CASE Stage[a] = "meeting" /\ to = "agreed"
    <2>1. Lifecycle!Agree(a)
      BY <1>1, LifecycleOf DEF Lifecycle!Agree, Held, Changes
    <2> QED BY <2>1, LifecycleOf
  <1>2. CASE ~(Stage[a] = "meeting" /\ to = "agreed")
    <2>1. Lifecycle!Prepare(a)
      BY <1>2, LifecycleOf DEF Lifecycle!Prepare, Held, Changes
    <2> QED BY <2>1, LifecycleOf
  <1> QED BY <1>1, <1>2

LEMMA MapsToBook ==
  ASSUME NEW a \in App, NEW s \in Branch \X Day \X Time, \A x \in App \ {a} : Held[x] # s,
         Stage[a] \in {"review", "meeting", "agreed"},
         NEW to \in {"meeting", "agreed"}, Stage' = [Stage EXCEPT ![a] = to],
         Held' = [Held EXCEPT ![a] = s], Changes' = Changes
  PROVE  Lifecycle!Next
  <1>1. Lifecycle!Unheld(s) \/ Held[a] = s
    BY LifecycleOf
  <1>2. Lifecycle!Book(a, s)
    BY <1>1, LifecycleOf DEF Lifecycle!Book, Held, Changes
  <1> QED BY <1>2, LifecycleOf

LEMMA MapsToChange ==
  ASSUME NEW a \in App, NEW s \in Branch \X Day \X Time, \A x \in App : Held[x] # s,
         Stage[a] = "meeting", Stage' = [Stage EXCEPT ![a] = "meeting"],
         Changes[a] < MaxReschedules, Held' = [Held EXCEPT ![a] = s],
         Changes' = [Changes EXCEPT ![a] = Changes[a] + 1]
  PROVE  Lifecycle!Next
  <1>1. Lifecycle!Unheld(s)
    BY LifecycleOf
  <1>2. Lifecycle!Change(a, s)
    BY <1>1, LifecycleOf DEF Lifecycle!Change, Held, Changes
  <1> QED BY <1>2, LifecycleOf

LEMMA InitRefines == WorkflowInit => Lifecycle!Init
  <1> SUFFICES ASSUME WorkflowInit PROVE Lifecycle!Init
    OBVIOUS
  <1>1. /\ \A a \in App : row[a] = "absent"
        /\ offers = [a \in App |-> <<>>]
    BY DEF WorkflowInit, Init, BankIdle
  <1>2. \A a \in App : StageOf(a) = "new" /\ HeldSlot(a) = NoSlot /\ ChangesOf(a) = 0
    BY <1>1, StageIsFor, Stages DEF HeldSlot, ChangesOf
  <1> QED BY <1>2 DEF Lifecycle!Init

(* The customer's side.                                                     *)
LEMMA CustomerRefines ==
  ASSUME WorkflowInv, [Next]_vars, UNCHANGED bankVars
  PROVE  Lifecycle!Next \/ UNCHANGED <<Stage, Held, Changes>>
  <1>1. /\ Typed /\ VerifiesSomething /\ offers' = offers
        /\ \A x \in App : RowAgrees(x)
    BY DEF WorkflowInv, bankVars
  <1>2. Effects
    BY <1>1, StepEffects
  <1>3. CASE UNCHANGED vars
    BY <1>1, <1>3, StageIsFor, NoApplication DEF vars
  <1>4. CASE Next
    <2>1. PICK a \in App : \A x \in App \ {a} : row'[x] = row[x] /\ status'[x] = status[x]
      BY <1>1, <1>4, WritesOneDossier
    <2>2. Stage' = [Stage EXCEPT ![a] = StageOf(a)']
      BY <1>1, <2>1, OneApplication
    <2>3. UNCHANGED <<Held, Changes>>
      BY <1>1 DEF Held, Changes, HeldSlot, ChangesOf, Latest
    <2>4. MovesOn(a) /\ RowAgrees(a)
      BY <1>1, <1>2 DEF Effects
    <2>5. Stage[a] = StageFor(row[a], status[a]) /\ StageOf(a)' = StageFor(row'[a], status'[a])
      BY StageIsFor DEF Stage
    <2>6. CASE StageOf(a)' = Stage[a]
      BY <2>2, <2>3, <2>6 DEF Stage
    <2>7. CASE status'[a] = status[a] /\ row[a] = "absent" /\ row'[a] = "live"
      <3>1. status'[a] \in Preparing
        BY <2>4, <2>7 DEF RowAgrees, Preparing
      <3>2. Stage[a] = "new" /\ StageOf(a)' = "draft"
        BY <2>5, <2>7, <3>1, Stages
      <3> QED BY <2>2, <2>3, <3>2, MapsToPrepareOrAgree
    <2>8. CASE /\ status'[a] = status[a] /\ row[a] = "live" /\ row'[a] = "trashed"
               /\ CanBeDeletedByCustomer(status[a])
      <3>1. status[a] \in Preparing
        BY <2>4, <2>8, PreparingStatuses DEF RowAgrees
      <3>2. Stage[a] = "draft" /\ StageOf(a)' = "deleted"
        BY <2>5, <2>8, <3>1, Stages
      <3> QED BY <2>2, <2>3, <3>2, MapsToPrepareOrAgree
    <2>9. CASE row[a] = "live" /\ row'[a] = "live" /\ Advances(a)
      <3>1. status[a] \in Preparing
        BY <2>4, <2>9, PreparingStatuses DEF RowAgrees, Advances, Preparing
      <3>2. status'[a] \in Preparing \cup {"SUBMITTED", "CANCELLED"}
        BY <2>9 DEF Advances, Preparing
      <3>3. Stage[a] = "draft" /\ StageOf(a)' \in {"draft", "review", "closed"}
        BY <2>5, <2>9, <3>1, <3>2, Stages
      <3> QED BY <2>2, <2>3, <2>6, <3>3, MapsToPrepareOrAgree
    <2>10. CASE status'[a] = status[a] /\ row'[a] = row[a]
      BY <2>5, <2>6, <2>10
    <2> QED BY <2>4, <2>7, <2>8, <2>9, <2>10 DEF MovesOn
  <1> QED BY <1>3, <1>4

(* The bank's side.  An application it takes on is live.                    *)
LEMMA TakenOnIsLive ==
  ASSUME WorkflowInv, BankNext, UNCHANGED dossierVars, NEW a \in App, ~Alone(a)
  PROVE  row[a] = "live" /\ row'[a] = "live" /\ TakenOn(a)
  <1>1. BankInv /\ Typed /\ RowAgrees(a) /\ row' = row
    BY DEF WorkflowInv, dossierVars
  <1>2. TakenOn(a)
    BY <1>1, BankTakesOn
  <1>3. status[a] # "DRAFT" /\ ~CanBeDeletedByCustomer(status[a])
    BY <1>2 DEF TakenOn, AppointmentStage, CanBeDeletedByCustomer
  <1> QED BY <1>1, <1>2, <1>3 DEF RowAgrees, Typed

LEMMA HeldIsBooked ==
  ASSUME BankInv, NEW x \in App, HeldSlot(x) # NoSlot
  PROVE  \E i \in DOMAIN offers[x] :
           /\ Active(offers[x][i])
           /\ HeldSlot(x) = <<offers[x][i].branch, offers[x][i].day, offers[x][i].time>>
  <1>1. offers[x] # <<>> /\ Active(Latest(offers, x)) /\ offers[x] \in Seq(Offer)
    BY DEF HeldSlot, BankInv, BankTypeOK
  <1>2. Len(offers[x]) \in DOMAIN offers[x]
    BY <1>1, EmptySeq, LenProperties
  <1> QED BY <1>1, <1>2 DEF HeldSlot, Latest

(* What a booking does to the application it is for.                        *)
LEMMA BookingMaps ==
  ASSUME WorkflowInv, UNCHANGED dossierVars, NEW a \in App, row[a] = "live",
         NEW rows \in Seq(Offer), NEW e \in Offer, NEW to, Books(a, rows, e, to)
  PROVE  /\ <<e.branch, e.day, e.time>> \in Branch \X Day \X Time
         /\ \A x \in App \ {a} : Held[x] # <<e.branch, e.day, e.time>>
         /\ to \in {"APPOINTMENT_PROPOSED", "APPOINTMENT_CONFIRMED"}
         /\ Stage' = [Stage EXCEPT ![a] =
                        IF to = "APPOINTMENT_PROPOSED" THEN "meeting" ELSE "agreed"]
         /\ Held' = [Held EXCEPT ![a] = <<e.branch, e.day, e.time>>]
         /\ Changes' = [Changes EXCEPT ![a] = e.resched]
  <1> DEFINE s == <<e.branch, e.day, e.time>>
  <1>1. /\ BankInv /\ row' = row /\ status \in [App -> Status]
        /\ offers \in [App -> Seq(Offer)]
    BY DEF WorkflowInv, BankInv, BankTypeOK, dossierVars
  <1>2. s \in Branch \X Day \X Time
    BY DEF Offer
  <1>3. /\ to \in {"APPOINTMENT_PROPOSED", "APPOINTMENT_CONFIRMED"}
        /\ status' = [status EXCEPT ![a] = to] /\ Active(e)
        /\ offers' = [offers EXCEPT ![a] = Append(rows, e)]
        /\ HeldByNoOther(a, e.branch, e.day, e.time)
    BY DEF Books, Active
  <1>4. \A x \in App \ {a} : row'[x] = row[x] /\ status'[x] = status[x] /\ offers'[x] = offers[x]
    BY <1>1, <1>3
  <1>5. status'[a] = to /\ offers'[a] = Append(rows, e)
    BY <1>1, <1>3
  <1>6. offers'[a] # <<>> /\ Latest(offers', a) = e
    BY <1>5, AppendRow DEF Latest
  <1>7. HeldSlot(a)' = s /\ ChangesOf(a)' = e.resched
    BY <1>3, <1>6 DEF HeldSlot, ChangesOf
  <1>8. StageOf(a)' = IF to = "APPOINTMENT_PROPOSED" THEN "meeting" ELSE "agreed"
    BY <1>1, <1>3, <1>5, StageIsFor, Stages
  <1>9. ASSUME NEW x \in App \ {a} PROVE HeldSlot(x) # s
    <2>1. CASE HeldSlot(x) = NoSlot
      BY <1>2, <2>1, NoSlotAssumption
    <2>2. CASE HeldSlot(x) # NoSlot
      <3>1. PICK i \in DOMAIN offers[x] :
              /\ Active(offers[x][i])
              /\ HeldSlot(x) = <<offers[x][i].branch, offers[x][i].day, offers[x][i].time>>
        BY <1>1, <2>2, HeldIsBooked
      <3> QED BY <1>3, <3>1 DEF HeldByNoOther
    <2> QED BY <2>1, <2>2
  <1>10. /\ Stage' = [Stage EXCEPT ![a] = StageOf(a)']
         /\ Held' = [Held EXCEPT ![a] = HeldSlot(a)']
         /\ Changes' = [Changes EXCEPT ![a] = ChangesOf(a)']
    BY <1>4, OneApplication
  <1> QED BY <1>2, <1>3, <1>7, <1>8, <1>9, <1>10 DEF Held

(* The stage of an application the bank has taken on, by its status.        *)
LEMMA BankStages ==
  ASSUME WorkflowInv, NEW a \in App, row[a] = "live"
  PROVE  /\ Undecided(a) <=> Stage[a] = "review"
         /\ status[a] = "APPOINTMENT_PROPOSED" <=> Stage[a] = "meeting"
         /\ status[a] = "APPOINTMENT_CONFIRMED" <=> Stage[a] = "agreed"
  <1>1. status[a] \in Preparing \cup {"SUBMITTED"} \cup Touched
    BY DEF WorkflowInv, RowAgrees
  <1>2. Stage[a] = StageFor("live", status[a])
    BY StageIsFor DEF Stage
  <1>3. CASE status[a] \in Preparing
    BY <1>2, <1>3, Stages DEF Preparing, Undecided
  <1>4. CASE status[a] \notin Preparing
    BY <1>1, <1>2, <1>4, Stages DEF Touched, Undecided
  <1> QED BY <1>3, <1>4

(* The staff's and the admin's decisions without an appointment.            *)
LEMMA DecisionRefines ==
  ASSUME WorkflowInv, BankNext, UNCHANGED dossierVars, NEW m \in inflight,
         StaffApprove(m) \/ StaffReject(m) \/ StaffCancel(m) \/ AdminReject(m)
  PROVE  Lifecycle!Next \/ UNCHANGED <<Stage, Held, Changes>>
  <1> DEFINE a == m.app
  <1>1. /\ BankInv /\ row' = row /\ status \in [App -> Status]
        /\ inflight \subseteq Message
    BY DEF WorkflowInv, BankInv, BankTypeOK, dossierVars
  <1>2. a \in App /\ m.by \in Staff /\ RoleOf(m.by) \in StaffRole
    BY <1>1, MessageFields
       DEF StaffApprove, StaffReject, StaffCancel, AdminReject, StaffOp
  <1>3. PICK to \in {"STAFF_APPROVED", "STAFF_REJECTED", "CANCELLED", "REJECTED"} :
          CanMove(status[a], to, RoleOf(m.by)) /\ status' = [status EXCEPT ![a] = to]
    BY DEF StaffApprove, StaffReject, StaffCancel, AdminReject, Moves
  <1>4. Undecided(a) /\ status'[a] = to
    BY <1>1, <1>2, <1>3, StaffMoves DEF AppointmentStage, Undecided
  <1>5. row[a] = "live"
    <2>1. RowAgrees(a) /\ row[a] \in {"absent", "live", "trashed"}
      BY <1>2 DEF WorkflowInv, Typed
    <2> QED BY <1>4, <2>1 DEF RowAgrees, Undecided, CanBeDeletedByCustomer
  <1>6. offers' = offers
    BY <1>1, DecisionsBookNothing
  <1>7. Stage[a] = "review"
    BY <1>2, <1>4, <1>5, BankStages
  <1>8. StageOf(a)' \in {"review", "closed"}
    BY <1>1, <1>2, <1>3, <1>4, <1>5, StageIsFor, Stages
  <1>9. Stage' = [Stage EXCEPT ![a] = StageOf(a)']
    BY <1>1, <1>2, <1>3, <1>6, OneApplication
  <1>10. UNCHANGED <<Held, Changes>>
    BY <1>6 DEF Held, Changes, HeldSlot, ChangesOf, Latest
  <1>11. CASE StageOf(a)' = "review"
    BY <1>2, <1>7, <1>9, <1>10, <1>11 DEF Stage
  <1>12. CASE StageOf(a)' = "closed"
    BY <1>2, <1>7, <1>9, <1>10, <1>12, MapsToPrepareOrAgree
  <1> QED BY <1>8, <1>11, <1>12

LEMMA AdminApproveRefines ==
  ASSUME WorkflowInv, UNCHANGED dossierVars, NEW m \in inflight, AdminApprove(m),
         row[m.app] = "live"
  PROVE  Lifecycle!Next
  <1>1. BankInv /\ m.app \in App /\ m.by \in Staff /\ RoleOf(m.by) \in StaffRole
    BY MessageFields DEF WorkflowInv, BankInv, BankTypeOK, AdminApprove, StaffOp
  <1>2. Undecided(m.app)
    BY <1>1, StaffMoves DEF AdminApprove, AppointmentStage, Undecided
  <1>3. PICK e \in Offer :
          Books(m.app, offers[m.app], e, "APPOINTMENT_PROPOSED") /\ e.resched = 0
    BY <1>1, AdminApproveBooks
  <1>4. Stage[m.app] = "review"
    BY <1>1, <1>2, BankStages
  <1>5. Changes[m.app] = 0
    BY <1>1, AdminApproveBooks DEF Changes, ChangesOf
  <1> DEFINE a == m.app
             s == <<e.branch, e.day, e.time>>
  <1>6. offers[a] \in Seq(Offer)
    BY <1>1 DEF BankInv, BankTypeOK
  <1>7. /\ s \in Branch \X Day \X Time
        /\ \A x \in App \ {a} : Held[x] # s
        /\ Stage' = [Stage EXCEPT ![a] = "meeting"]
        /\ Held' = [Held EXCEPT ![a] = s]
        /\ Changes' = [Changes EXCEPT ![a] = e.resched]
    BY <1>1, <1>3, <1>6, BookingMaps
  <1>8. Changes' = Changes
    BY <1>1, <1>3, <1>5, <1>7 DEF Changes
  <1> HIDE DEF s
  <1> QED BY <1>1, <1>4, <1>7, <1>8, MapsToBook

LEMMA AcceptRefines ==
  ASSUME WorkflowInv, UNCHANGED dossierVars, NEW m \in inflight, Accept(m),
         row[m.app] = "live"
  PROVE  Lifecycle!Next
  <1> DEFINE a == m.app
             n == m.attempt
  <1>1. BankInv /\ row' = row /\ status \in [App -> Status] /\ offers \in [App -> Seq(Offer)]
    BY DEF WorkflowInv, BankInv, BankTypeOK, dossierVars
  <1>2. /\ a \in App /\ offers[a] \in Seq(Offer) /\ n = Len(offers[a])
        /\ n \in DOMAIN offers[a] /\ Latest(offers, a).status = "proposed"
        /\ offers' = [offers EXCEPT ![a] = offers'[a]]
        /\ Len(offers'[a]) = n /\ DOMAIN offers'[a] = DOMAIN offers[a]
        /\ offers'[a][n] = [Latest(offers, a) EXCEPT !.status = "accepted"]
    BY <1>1, AcceptedRow
  <1>3. offers[a] # <<>> /\ Latest(offers, a) \in Offer /\ offers'[a] # <<>>
    BY <1>2, LenProperties, ElementOfSeq DEF Latest
  <1>4. /\ Latest(offers', a).status = "accepted"
        /\ Latest(offers', a).branch = Latest(offers, a).branch
        /\ Latest(offers', a).day = Latest(offers, a).day
        /\ Latest(offers', a).time = Latest(offers, a).time
        /\ Latest(offers', a).resched = Latest(offers, a).resched
    BY <1>2, <1>3 DEF Latest, Offer
  <1>5. HeldSlot(a)' = HeldSlot(a) /\ ChangesOf(a)' = ChangesOf(a)
    BY <1>2, <1>3, <1>4 DEF HeldSlot, ChangesOf, Active
  <1>6. status' = [status EXCEPT ![a] = "APPOINTMENT_CONFIRMED"]
    BY DEF Accept, Moves
  <1>7. status[a] = "APPOINTMENT_PROPOSED"
    BY <1>1, <1>2, <1>3 DEF BankInv, StatusMatchesOffer
  <1>8. Stage[a] = "meeting" /\ StageOf(a)' = "agreed"
    BY <1>1, <1>2, <1>6, <1>7, BankStages, StageIsFor, Stages
  <1>9. \A x \in App \ {a} : offers'[x] = offers[x]
    BY <1>1, <1>2, Zenon
  <1>10. /\ Stage' = [Stage EXCEPT ![a] = StageOf(a)']
         /\ Held' = [Held EXCEPT ![a] = HeldSlot(a)']
         /\ Changes' = [Changes EXCEPT ![a] = ChangesOf(a)']
    BY <1>1, <1>2, <1>6, <1>9, OneApplication
  <1>11. UNCHANGED <<Held, Changes>>
    BY <1>2, <1>5, <1>10 DEF Held, Changes
  <1> QED BY <1>2, <1>8, <1>10, <1>11, MapsToPrepareOrAgree

LEMMA RejectRefines ==
  ASSUME WorkflowInv, UNCHANGED dossierVars, NEW m \in inflight, Reject(m),
         row[m.app] = "live"
  PROVE  Lifecycle!Next
  <1> DEFINE a == m.app
  <1>1. BankInv
    BY DEF WorkflowInv
  <1>2. /\ a \in App /\ TurnedDown(a) \in Seq(Offer) /\ Len(offers[a]) \in DOMAIN offers[a]
        /\ Latest(offers, a).status = "proposed"
    BY <1>1, RejectBooks
  <1>3. PICK e \in Offer :
          /\ Books(a, TurnedDown(a), e, "APPOINTMENT_PROPOSED")
          /\ e.resched = Latest(offers, a).resched + 1
          /\ ~PreviouslyOffered(offers, a, e.day, e.time)
    BY <1>1, RejectBooks
  <1> DEFINE s == <<e.branch, e.day, e.time>>
  <1>4. /\ s \in Branch \X Day \X Time
        /\ \A x \in App \ {a} : Held[x] # s
        /\ Stage' = [Stage EXCEPT ![a] = "meeting"]
        /\ Held' = [Held EXCEPT ![a] = s]
        /\ Changes' = [Changes EXCEPT ![a] = e.resched]
    BY <1>2, <1>3, BookingMaps
  <1>5. offers[a] # <<>> /\ offers[a] \in Seq(Offer)
    BY <1>1, <1>2 DEF BankInv, BankTypeOK
  <1>6. status[a] = "APPOINTMENT_PROPOSED"
    BY <1>1, <1>2, <1>5 DEF BankInv, StatusMatchesOffer
  <1>7. Stage[a] = "meeting"
    BY <1>2, <1>6, BankStages
  <1>8. Held[a] # s
    <2>1. HeldSlot(a) # s
      BY <1>2, <1>3, <1>5 DEF HeldSlot, Latest, Active, PreviouslyOffered
    <2> QED BY <1>2, <2>1 DEF Held
  <1>9. Changes[a] = Latest(offers, a).resched
    BY <1>2, <1>5 DEF Changes, ChangesOf
  <1>10. Latest(offers, a).resched < MaxReschedules
    <2>1. m.attempt = Len(offers[a]) /\ offers[a][m.attempt].resched < MaxReschedules
      BY DEF Reject, IsCurrentAndProposed
    <2> QED BY <2>1 DEF Latest
  <1> HIDE DEF s
  <1> QED BY <1>2, <1>3, <1>4, <1>7, <1>8, <1>9, <1>10, MapsToChange

LEMMA ScheduleRefines ==
  ASSUME WorkflowInv, UNCHANGED dossierVars, NEW m \in inflight, NEW b \in Branch, NEW d \in Day,
         NEW t \in Time, NEW direct \in BOOLEAN, ScheduleManual(m, b, d, t, direct),
         row[m.app] = "live"
  PROVE  Lifecycle!Next
  <1> DEFINE a == m.app
  <1>1. BankInv /\ CountsUp /\ inflight \subseteq Message /\ offers \in [App -> Seq(Offer)]
    BY DEF WorkflowInv, BankInv, BankTypeOK
  <1>2. a \in App /\ CancelActive(offers[a]) \in Seq(Offer)
    BY <1>1, ScheduleBooks
  <1>3. PICK e \in Offer, to \in {"APPOINTMENT_CONFIRMED", "APPOINTMENT_PROPOSED"} :
          Books(a, CancelActive(offers[a]), e, to) /\ IsMaxResched(a, e.resched)
    BY <1>1, ScheduleBooks
  <1> DEFINE s == <<e.branch, e.day, e.time>>
             stage == IF to = "APPOINTMENT_PROPOSED" THEN "meeting" ELSE "agreed"
  <1>4. /\ s \in Branch \X Day \X Time
        /\ \A x \in App \ {a} : Held[x] # s
        /\ Stage' = [Stage EXCEPT ![a] = stage]
        /\ Held' = [Held EXCEPT ![a] = s]
        /\ Changes' = [Changes EXCEPT ![a] = e.resched]
    BY <1>2, <1>3, BookingMaps
  <1>5. Stage[a] \in {"review", "meeting", "agreed"}
    <2>1. PICK into \in {"APPOINTMENT_CONFIRMED", "APPOINTMENT_PROPOSED"} :
            CanMove(status[a], into, RoleOf(m.by))
      BY DEF ScheduleManual, Moves
    <2>2. RoleOf(m.by) \in StaffRole
      BY <1>1, MessageFields DEF ScheduleManual, StaffOp
    <2>3. status[a] \in {"STAFF_APPROVED", "APPROVED"} \cup AppointmentStage
      BY <2>1, <2>2, StaffMoves DEF AppointmentStage
    <2>4. status[a] \in {"STAFF_APPROVED", "APPOINTMENT_PROPOSED", "APPOINTMENT_CONFIRMED"}
      BY <1>2, <2>3 DEF WorkflowInv, RowAgrees, Preparing, Touched, AppointmentStage
    <2> QED BY <1>2, <2>4, BankStages DEF Undecided
  <1>6. e.resched = ChangesOf(a)
    <2>0. \A i \in DOMAIN offers[a] : offers[a][i].resched \in Nat
      BY <1>1, <1>2, CountOfRow
    <2>1. CASE offers[a] = <<>>
      <3>1. DOMAIN offers[a] = {}
        BY <2>1
      <3> QED BY <1>3, <2>1, <3>1 DEF IsMaxResched, ChangesOf
    <2>2. CASE offers[a] # <<>>
      <3>1. \A i \in DOMAIN offers[a] : offers[a][i].resched <= Latest(offers, a).resched
        BY <1>1, <1>2, <2>2 DEF CountsUp
      <3>2. Len(offers[a]) \in DOMAIN offers[a]
        BY <1>1, <1>2, <2>2, EmptySeq, LenProperties
      <3>3. Latest(offers, a).resched \in Nat /\ Latest(offers, a).resched <= e.resched
        BY <1>3, <2>0, <3>2 DEF Latest, IsMaxResched
      <3>4. e.resched \in Nat
        BY BoundAssumption DEF Offer
      <3>5. e.resched = 0 \/ e.resched <= Latest(offers, a).resched
        BY <1>3, <3>1 DEF IsMaxResched
      <3> QED BY <2>2, <3>3, <3>4, <3>5 DEF ChangesOf
    <2> QED BY <2>1, <2>2
  <1>7. Changes' = Changes
    BY <1>2, <1>4, <1>6 DEF Changes
  <1>8. stage \in {"meeting", "agreed"}
    OBVIOUS
  <1> HIDE DEF s, stage
  <1> QED BY <1>2, <1>4, <1>5, <1>7, <1>8, MapsToBook

LEMMA BankRefines ==
  ASSUME WorkflowInv, BankStep
  PROVE  Lifecycle!Next \/ UNCHANGED <<Stage, Held, Changes>>
  <1>1. BankInv /\ BankNext /\ UNCHANGED dossierVars /\ row' = row
    BY DEF WorkflowInv, BankStep, dossierVars
  <1>2. ASSUME UNCHANGED <<status, offers>> PROVE UNCHANGED <<Stage, Held, Changes>>
    BY <1>1, <1>2, StageIsFor, NoApplication
  <1>3. ASSUME NEW m \in inflight, Transact(m)
        PROVE  Lifecycle!Next \/ UNCHANGED <<Stage, Held, Changes>>
    <2>1. CASE Refuse(m)
      BY <1>2, <2>1 DEF Refuse
    <2>2. CASE StaffApprove(m) \/ StaffReject(m) \/ StaffCancel(m) \/ AdminReject(m)
      BY <1>1, <2>2, DecisionRefines
    <2>3. CASE row[m.app] # "live"
      <3>1. m.app \in App
        BY <1>1, MessageFields DEF BankInv, BankTypeOK
      <3>2. Alone(m.app)
        BY <1>1, <2>3, <3>1, TakenOnIsLive
      <3>3. UNCHANGED <<status, offers>>
        <4>1. status \in [App -> Status] /\ offers \in [App -> Seq(Offer)]
              /\ BankTypeOK'
          BY <1>1, TypeStep DEF BankInv, BankTypeOK
        <4>2. \A a \in App : status'[a] = status[a] /\ offers'[a] = offers[a]
          BY <1>1, <1>3, <3>2, WritesOwnApplication DEF Alone
        <4> QED BY <4>1, <4>2 DEF BankTypeOK
      <3> QED BY <1>2, <3>3
    <2> QED BY <1>1, <1>3, <2>1, <2>2, <2>3, AdminApproveRefines, AcceptRefines, RejectRefines,
               ScheduleRefines DEF Transact
  <1> QED BY <1>1, <1>2, <1>3, OnlyTransactionsWrite

LEMMA StepRefines ==
  WorkflowInv /\ [WorkflowNext]_workflowVars
    => Lifecycle!Next \/ UNCHANGED <<Stage, Held, Changes>>
  <1> SUFFICES ASSUME WorkflowInv, [WorkflowNext]_workflowVars
               PROVE  Lifecycle!Next \/ UNCHANGED <<Stage, Held, Changes>>
    OBVIOUS
  <1>1. CASE (\E a \in App : CustomerCancel(a)) \/ CustomerStep
    BY <1>1, CustomerSide, CustomerRefines
  <1>2. CASE BankStep
    BY <1>2, BankRefines
  <1>3. CASE UNCHANGED workflowVars
    BY <1>3, CustomerRefines DEF workflowVars
  <1> QED BY <1>1, <1>2, <1>3 DEF WorkflowNext

(* Whatever the customer and the bank do, in whatever order their requests  *)
(* run, an application lives as LoanLifecycle says: it is submitted, closed *)
(* or deleted once, its slot is nobody else's, and the customer changes it  *)
(* at most MaxReschedules times, each time to a slot no application holds.  *)
THEOREM WorkflowImplementsLifecycle == WorkflowSpec => ImplementsLifecycle
  <1>1. WorkflowInv /\ [WorkflowNext]_workflowVars => [Lifecycle!Next]_Lifecycle!lifecycleVars
    BY StepRefines, LifecycleOf
  <1> QED
    BY <1>1, InitRefines, WorkflowInvHolds, PTL
       DEF WorkflowSpec, ImplementsLifecycle, Lifecycle!Spec
=============================================================================
