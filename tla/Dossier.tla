------------------------------- MODULE Dossier -------------------------------
(***************************************************************************)
(* The customer's side of a credit application: the three sections, the     *)
(* documents, validation 1 with its AI checks, the final confirmation that  *)
(* locks and submits, cancellation and deletion.                            *)
(*                                                                         *)
(* An HTTP request is two or more steps.  Receive binds the route model:    *)
(* the request keeps the status it read, without a lock, and decides the    *)
(* early returns on that copy.  A later step runs the transaction, which    *)
(* sees the rows as they are by then; only CreditApplicationStateMachine    *)
(* re-reads the application row under its lock.                             *)
(***************************************************************************)
EXTENDS CreditApplication

CONSTANTS
  Request,        \* PHP workers: requests that can be in flight together
  Doc,            \* document ids, in the order verifyDocuments visits them
  Nom,            \* customer names
  NoNom,          \* a name not given yet
  LocalProvider   \* services.document_verification.provider = 'local'

ASSUME AppAssumption == App # {}
ASSUME DocAssumption == Doc \subseteq Nat
ASSUME NomAssumption == NoNom \notin Nom
ASSUME ProviderAssumption == LocalProvider \in BOOLEAN

VARIABLES
  row,         \* "absent", "live" or "trashed" (soft-deleted)
  section,     \* clients, credit_requests and projects: the assigned code and the name
  lastNumber,  \* application_number_counters.last_number of each prefix
  docs,        \* documents: "none" (no such row yet), "deleted", or the last AI verdict
  steps,       \* outcomes recorded in validation_steps
  forced,      \* the audit trail holds validation_1_forced
  req          \* what each worker has in hand; begun: its transaction has read, or
               \* its loop over the documents has judged one

dossierVars == <<row, section, lastNumber, docs, steps, forced, req>>
vars == <<status, branchOf, row, section, lastNumber, docs, steps, forced, req>>

Section == {"client", "credit", "project"}
Verdict == {"unverified", "valid", "invalid"}
Op == Section \cup {"upload", "destroy", "validate", "verify", "confirm", "idle"}

Unsaved == [code |-> 0, nom |-> NoNom]
Saved(a, k) == section[a][k] # Unsaved

(* The status a section must find, the one it completes, and the one the    *)
(* request ends in (saveProject moves on to READY_FOR_VALIDATION_1).        *)
Prerequisite(k) ==
  CASE k = "client" -> "DRAFT" [] k = "credit" -> "STEP_1_COMPLETED"
    [] k = "project" -> "STEP_2_COMPLETED"
Completes(k) ==
  CASE k = "client" -> "STEP_1_COMPLETED" [] k = "credit" -> "STEP_2_COMPLETED"
    [] k = "project" -> "STEP_3_COMPLETED"

EndsIn(k) == IF k = "project" THEN "READY_FOR_VALIDATION_1" ELSE Completes(k)

TypeOK ==
  /\ status \in [App -> Status]
  /\ branchOf \in [App -> Branch \cup {NoBranch}]
  /\ row \in [App -> {"absent", "live", "trashed"}]
  /\ section \in [App -> [Section -> [code : Nat, nom : Nom \cup {NoNom}]]]
  /\ lastNumber \in [Section -> Nat]
  /\ docs \in [App -> [Doc -> Verdict \cup {"none", "deleted"}]]
  /\ steps \in [App -> SUBSET {"passed", "failed"}]
  /\ forced \in [App -> BOOLEAN]
  /\ req \in [Request -> [op : Op, app : App, seen : Status, begun : BOOLEAN,
                          code : Nat, nom : Nom \cup {NoNom}, todo : SUBSET Doc,
                          rejected : SUBSET Doc, failed : SUBSET Doc]]

Nothing(a) == [op |-> "idle", app |-> a, seen |-> "DRAFT", begun |-> FALSE,
               code |-> 0, nom |-> NoNom, todo |-> {},
               rejected |-> {}, failed |-> {}]
Idle(p) == req[p].op = "idle"
Done(p) == req' = [req EXCEPT ![p] = Nothing(req[p].app)]

Init ==
  /\ status = [a \in App |-> "DRAFT"]
  /\ branchOf = [a \in App |-> NoBranch]
  /\ row = [a \in App |-> "absent"]
  /\ section = [a \in App |-> [k \in Section |-> Unsaved]]
  /\ lastNumber = [k \in Section |-> 0]
  /\ docs = [a \in App |-> [d \in Doc |-> "none"]]
  /\ steps = [a \in App |-> {}]
  /\ forced = [a \in App |-> FALSE]
  /\ req = [p \in Request |-> Nothing(CHOOSE a \in App : TRUE)]

-----------------------------------------------------------------------------
Create(a) ==
  /\ row[a] = "absent"
  /\ row' = [row EXCEPT ![a] = "live"]
  /\ UNCHANGED <<status, branchOf, section, lastNumber, docs, steps, forced, req>>

(* canBeDeletedByCustomer is asked of the locked row.                       *)
DeleteUnfinished(a) ==
  /\ row[a] = "live"
  /\ CanBeDeletedByCustomer(status[a])
  /\ row' = [row EXCEPT ![a] = "trashed"]
  /\ UNCHANGED <<status, branchOf, section, lastNumber, docs, steps, forced, req>>

(* Mutants of MayApply: the caller's check trusted without the transition   *)
(* table, and the row looked up with its trashed ones.                      *)
MayApplyUnchecked(a, to) == row[a] = "live"
MayApplyWithTrashed(a, to) == CanMove(status[a], to, "customer")

(* The state machine's apply() on a: the row is looked up again, so a       *)
(* soft-deleted application is not found and the transaction rolls back.    *)
MayApply(a, to) == row[a] = "live" /\ CanMove(status[a], to, "customer")

Cancel(a) ==
  /\ MayApply(a, "CANCELLED")
  /\ status' = [status EXCEPT ![a] = "CANCELLED"]
  /\ UNCHANGED <<branchOf, row, section, lastNumber, docs, steps, forced, req>>

-----------------------------------------------------------------------------
(* The checks a request makes on the model it bound: assertEditable,        *)
(* assertPreviousStepCompleted and the thresholds of the controllers.       *)
Admits(op, seen) ==
  CASE op \in Section            -> ~IsLocked(seen) /\ HasReached(seen, Prerequisite(op))
    [] op \in {"upload", "destroy"} -> ~IsLocked(seen)
    [] op = "validate"           -> ~IsLocked(seen) /\ HasReached(seen, "READY_FOR_VALIDATION_1")
    [] op = "confirm"            -> seen = "VALIDATION_1_COMPLETED"
    [] OTHER                     -> FALSE

Receive(p, a, op) ==
  /\ Idle(p) /\ row[a] = "live" /\ Admits(op, status[a])
  /\ req' = [req EXCEPT ![p] = [Nothing(a) EXCEPT !.op = op, !.seen = status[a]]]
  /\ UNCHANGED <<status, branchOf, row, section, lastNumber, docs, steps, forced>>

(* A request that dies or is refused before its transaction writes nothing. *)
Abandon(p) ==
  /\ ~Idle(p) /\ Done(p)
  /\ UNCHANGED <<status, branchOf, row, section, lastNumber, docs, steps, forced>>

-----------------------------------------------------------------------------
(* The first read of the transaction fixes its snapshot (REPEATABLE READ):  *)
(* the code found there decides whether a number is generated, and the      *)
(* client's name found there is the one that is copied.                     *)
OpenTransaction(p) ==
  LET r == req[p] IN
  /\ r.op \in Section /\ ~r.begun
  /\ req' = [req EXCEPT ![p].begun = TRUE, ![p].code = section[r.app][r.op].code,
                        ![p].nom = section[r.app]["client"].nom]
  /\ UNCHANGED <<status, branchOf, row, section, lastNumber, docs, steps, forced>>

(* Mutant of NextNumber: the number after the count of the saved rows.      *)
NextNumberByCount(k) == Cardinality({a \in App : row[a] = "live" /\ Saved(a, k)}) + 1

(* The counter row is locked and re-read: a locking read sees the latest.   *)
NextNumber(k) == lastNumber[k] + 1

(* bumpStatus asks the stale model whether the step is already behind it.   *)
Bumps(r) == ~HasReached(r.seen, Completes(r.op))

SaveSection(p, k, nom) ==
  LET r == req[p]
      a == r.app
      code == IF r.code = 0 THEN NextNumber(k) ELSE r.code
  IN /\ r.op = k /\ r.begun
     /\ Bumps(r) => MayApply(a, Completes(k))
     /\ section' = [section EXCEPT ![a][k] = [code |-> code, nom |-> nom]]
     /\ lastNumber' = [lastNumber EXCEPT ![k] = IF r.code = 0 THEN @ + 1 ELSE @]
     /\ status' = [status EXCEPT ![a] = IF Bumps(r) THEN EndsIn(k) ELSE @]
     /\ Done(p)
     /\ UNCHANGED <<branchOf, row, docs, steps, forced>>

SaveClient(p) == \E nom \in Nom : SaveSection(p, "client", nom)
SaveCreditRequest(p) == SaveSection(p, "credit", req[p].nom)
SaveProject(p) == SaveSection(p, "project", req[p].nom)

(* The transition was refused on the locked row: everything rolls back.     *)
SaveRefused(p) ==
  /\ req[p].op \in Section /\ req[p].begun
  /\ Bumps(req[p]) /\ ~MayApply(req[p].app, Completes(req[p].op))
  /\ Done(p)
  /\ UNCHANGED <<status, branchOf, row, section, lastNumber, docs, steps, forced>>

(* Document ids are given in increasing order and never used again.         *)
IsNextId(a, d) ==
  docs[a][d] = "none" /\ \A x \in Doc : x < d => docs[a][x] # "none"

Attached(a) == {d \in Doc : docs[a][d] \in Verdict}

UploadDocument(p, d) ==
  LET a == req[p].app IN
  /\ req[p].op = "upload" /\ IsNextId(a, d)
  /\ docs' = [docs EXCEPT ![a][d] = "unverified"]
  /\ Done(p)
  /\ UNCHANGED <<status, branchOf, row, section, lastNumber, steps, forced>>

DestroyDocument(p, d) ==
  LET a == req[p].app IN
  /\ req[p].op = "destroy" /\ d \in Attached(a)
  /\ docs' = [docs EXCEPT ![a][d] = "deleted"]
  /\ Done(p)
  /\ UNCHANGED <<status, branchOf, row, section, lastNumber, steps, forced>>

-----------------------------------------------------------------------------
(* Validation 1 runs outside any transaction: the sections are checked, the *)
(* documents still to judge are loaded, each is judged by a slow call, and  *)
(* the outcome is recorded before the status moves.  That a document is     *)
(* there is asked for unless the configuration of a demonstration turns it  *)
(* off (credit_documents.require_at_least_one_for_validation, true here).   *)
RequiredSections(a) ==
  (\A k \in Section : Saved(a, k)) /\ Attached(a) # {}

(* Mutant of RecordStep: only a failed run is recorded.                     *)
RecordFailedStep(a, outcome) ==
  steps' = [steps EXCEPT ![a] = IF outcome = "failed" THEN @ \cup {outcome} ELSE @]

RecordStep(a, outcome) == steps' = [steps EXCEPT ![a] = @ \cup {outcome}]

CheckRequiredSections(p) ==
  LET a == req[p].app
      toJudge == {d \in Doc : docs[a][d] \in {"unverified", "invalid"}}
  IN /\ req[p].op = "validate"
     /\ \/ /\ RequiredSections(a)
           /\ req' = [req EXCEPT ![p].op = "verify",
                 ![p].todo = IF LocalProvider THEN {} ELSE toJudge,
                 ![p].rejected = {d \in Doc : docs[a][d] = "invalid"}]
           /\ UNCHANGED steps
        \/ /\ ~RequiredSections(a)
           /\ RecordStep(a, "failed")
           /\ Done(p)
     /\ UNCHANGED <<status, branchOf, row, section, lastNumber, docs, forced>>

(* One document: a verdict is stored (only a column that differs from the   *)
(* loaded one is written); when the provider fails, a document loaded as    *)
(* rejected keeps blocking.                                                 *)
VerifyDocument(p, answer) ==
  LET r == req[p]
      d == CHOOSE x \in r.todo : \A y \in r.todo : x <= y
      blocks == answer = "invalid" \/ (answer = "unavailable" /\ d \in r.rejected)
  IN /\ r.op = "verify" /\ r.todo # {}
     /\ req' = [req EXCEPT ![p].begun = TRUE, ![p].todo = @ \ {d},
                           ![p].failed = IF blocks THEN @ \cup {d} ELSE @]
     /\ docs' = [docs EXCEPT ![r.app][d] =
                   IF \/ answer = "unavailable" \/ @ = "deleted"
                      \/ answer = "invalid" /\ d \in r.rejected
                     THEN @ ELSE answer]
     /\ UNCHANGED <<status, branchOf, row, section, lastNumber, steps, forced>>

(* The time budget of validation_budget_seconds ran out: the loop breaks,   *)
(* never before the first document, since the budget is at least a second.  *)
ExhaustBudget(p) ==
  /\ req[p].op = "verify" /\ req[p].begun /\ req[p].todo # {}
  /\ req' = [req EXCEPT ![p].todo = {}]
  /\ UNCHANGED <<status, branchOf, row, section, lastNumber, docs, steps, forced>>

FinishValidation(p, force) ==
  LET a == req[p].app
      passes == req[p].failed = {} \/ force
  IN /\ req[p].op = "verify" /\ req[p].todo = {}
     /\ RecordStep(a, IF passes THEN "passed" ELSE "failed")
     /\ forced' = [forced EXCEPT ![a] = @ \/ (passes /\ req[p].failed # {})]
     /\ status' = [status EXCEPT ![a] =
                     IF passes /\ MayApply(a, "VALIDATION_1_COMPLETED")
                       THEN "VALIDATION_1_COMPLETED" ELSE @]
     /\ Done(p)
     /\ UNCHANGED <<branchOf, row, section, lastNumber, docs>>

-----------------------------------------------------------------------------
(* confirmValidationTwoAndLock: VALIDATION_2, FINAL_LOCKED and SUBMITTED in *)
(* one transaction, so the two middle ones are never seen by anybody else.  *)
(* The branch is the best match, or none while no branch is configured.     *)
ConfirmAndSubmit(p, b) ==
  LET a == req[p].app IN
  /\ req[p].op = "confirm"
  /\ MayApply(a, "VALIDATION_2")
  /\ status' = [status EXCEPT ![a] = "SUBMITTED"]
  /\ branchOf' = [branchOf EXCEPT ![a] = b]
  /\ Done(p)
  /\ UNCHANGED <<row, section, lastNumber, docs, steps, forced>>

ConfirmRefused(p) ==
  /\ req[p].op = "confirm"
  /\ ~MayApply(req[p].app, "VALIDATION_2")
  /\ Done(p)
  /\ UNCHANGED <<status, branchOf, row, section, lastNumber, docs, steps, forced>>

-----------------------------------------------------------------------------
Serve(p) ==
  \/ \E a \in App, op \in Op : Receive(p, a, op)
  \/ Abandon(p)
  \/ SaveClient(p) \/ SaveCreditRequest(p) \/ SaveProject(p) \/ SaveRefused(p)
  \/ OpenTransaction(p)
  \/ \E d \in Doc : UploadDocument(p, d) \/ DestroyDocument(p, d)
  \/ CheckRequiredSections(p)
  \/ \E answer \in {"valid", "invalid", "unavailable"} : VerifyDocument(p, answer)
  \/ ExhaustBudget(p)
  \/ \E force \in BOOLEAN : FinishValidation(p, force)
  \/ \E b \in Branch \cup {NoBranch} : ConfirmAndSubmit(p, b)
  \/ ConfirmRefused(p)

Next ==
  \/ \E a \in App : Create(a) \/ DeleteUnfinished(a) \/ Cancel(a)
  \/ \E p \in Request : Serve(p)

Spec == Init /\ [][Next]_vars

-----------------------------------------------------------------------------
(* A status is earned: a dossier past a step has that section saved with    *)
(* its code, and one past validation 1 has a passed run on record and had a *)
(* document (which may be deleted by now).  The status moves and the rows   *)
(* it stands for are written by several requests that each decide on a      *)
(* stale copy.                                                              *)
ProgressEarned ==
  \A a \in App : status[a] # "CANCELLED" =>
    /\ \A k \in Section : HasReached(status[a], Completes(k)) => Saved(a, k)
    /\ HasReached(status[a], "VALIDATION_1_COMPLETED") =>
         "passed" \in steps[a] /\ \E d \in Doc : docs[a][d] # "none"

(* No two dossiers share a code, a soft-deleted dossier included.           *)
CodesUnique ==
  \A a, b \in App, k \in Section :
    a # b /\ Saved(a, k) /\ Saved(b, k) => section[a][k].code # section[b][k].code

(* The row of a soft-deleted dossier stays as it is, even under a request   *)
(* that bound it while it was live; so what is deleted was never validated. *)
(* (Its sections and documents may still be written by such a request.)     *)
TrashedStays ==
  [][\A a \in App : row[a] = "trashed" =>
       row'[a] = "trashed" /\ status'[a] = status[a] /\ CanBeDeletedByCustomer(status[a])]_vars

(* The status only moves forward in STATUS_ORDER on the customer's side: a  *)
(* late request never takes a dossier back.                                 *)
NoRegression ==
  [][\A a \in App : HasReached(status'[a], status[a])]_vars

-----------------------------------------------------------------------------
(* What the source's comments say, and the code does not ensure.            *)

(* assertEditable is "called at the top of every mutating action": once a   *)
(* dossier is locked the customer changes none of its sections.             *)
FrozenAfterLock ==
  [][\A a \in App : IsLocked(status[a]) => section'[a] = section[a]]_vars
=============================================================================
