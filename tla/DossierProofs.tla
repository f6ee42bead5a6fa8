---------------------------- MODULE DossierProofs ----------------------------
(***************************************************************************)
(* Proofs about Dossier, for any applications, documents, names, branches   *)
(* and requests in flight.                                                  *)
(***************************************************************************)
EXTENDS Dossier, WellFoundedInduction, TLAPS

USE DocAssumption, NomAssumption, ProviderAssumption, NoBranchAssumption, AppAssumption
    DEF DocAssumption, NomAssumption, ProviderAssumption, NoBranchAssumption, AppAssumption

Work ==
  [op : Op, app : App, seen : Status, begun : BOOLEAN,
   code : Nat, nom : Nom \cup {NoNom}, todo : SUBSET Doc,
   rejected : SUBSET Doc, failed : SUBSET Doc]
Row == [code : Nat, nom : Nom \cup {NoNom}]

-----------------------------------------------------------------------------
(* The statuses and the customer's moves among them.                        *)
LEMMA Positions ==
  /\ {"DRAFT", "STEP_1_COMPLETED", "STEP_2_COMPLETED", "STEP_3_COMPLETED",
      "READY_FOR_VALIDATION_1", "VALIDATION_1_COMPLETED", "VALIDATION_2", "SUBMITTED",
      "CANCELLED"} \subseteq Status
  /\ Position["DRAFT"] = 1 /\ Position["STEP_1_COMPLETED"] = 2
  /\ Position["STEP_2_COMPLETED"] = 3 /\ Position["STEP_3_COMPLETED"] = 4
  /\ Position["READY_FOR_VALIDATION_1"] = 5 /\ Position["VALIDATION_1_COMPLETED"] = 6
  /\ Position["VALIDATION_2"] = 7 /\ Position["SUBMITTED"] = 9 /\ Position["CANCELLED"] = 17
  /\ \A s \in Status : Position[s] \in 1..17
  BY DEF Status, Position

LEMMA PositionUnique ==
  ASSUME NEW s \in Status
  PROVE  /\ Position[s] = 1 => s = "DRAFT"
         /\ Position[s] = 2 => s = "STEP_1_COMPLETED"
         /\ Position[s] = 3 => s = "STEP_2_COMPLETED"
         /\ Position[s] = 5 => s = "READY_FOR_VALIDATION_1"
         /\ Position[s] = 6 => s = "VALIDATION_1_COMPLETED"
  BY DEF Status, Position

LEMMA CustomerMoves ==
  ASSUME NEW from \in Status, NEW to, CanMove(from, to, "customer")
  PROVE  /\ to = "STEP_1_COMPLETED" => from = "DRAFT"
         /\ to = "STEP_2_COMPLETED" => from = "STEP_1_COMPLETED"
         /\ to = "STEP_3_COMPLETED" => from = "STEP_2_COMPLETED"
         /\ to = "VALIDATION_1_COMPLETED" => from = "READY_FOR_VALIDATION_1"
         /\ to = "VALIDATION_2" => from = "VALIDATION_1_COMPLETED"
         /\ to = "CANCELLED" => Position[from] <= 7
  <1>1. <<from, to, "customer">> \in Transitions
    BY DEF CanMove, Satisfies
  <1>2. CASE to \in {"STEP_1_COMPLETED", "STEP_2_COMPLETED", "STEP_3_COMPLETED",
                     "VALIDATION_1_COMPLETED", "VALIDATION_2"}
    <2>1. Position[to] = Position[from] + 1
      BY <1>1, <1>2 DEF Transitions, AppointmentStage
    <2> QED BY <1>2, <2>1, Positions, PositionUnique
  <1>3. CASE to = "CANCELLED"
    BY <1>1, <1>3, Positions DEF Transitions, AppointmentStage
  <1> QED BY <1>2, <1>3

-----------------------------------------------------------------------------
(* Types.                                                                   *)
Typed ==
  /\ status \in [App -> Status]
  /\ branchOf \in [App -> Branch \cup {NoBranch}]
  /\ row \in [App -> {"absent", "live", "trashed"}]
  /\ section \in [App -> [Section -> Row]]
  /\ lastNumber \in [Section -> Nat]
  /\ docs \in [App -> [Doc -> Verdict \cup {"none", "deleted"}]]
  /\ steps \in [App -> SUBSET {"passed", "failed"}]
  /\ forced \in [App -> BOOLEAN]
  /\ req \in [Request -> Work]

LEMMA TypedIsTypeOK == Typed <=> TypeOK
  BY DEF TypeOK, Typed, Row, Work

LEMMA NothingTyped ==
  ASSUME NEW a \in App
  PROVE  /\ Nothing(a) \in Work
         /\ Nothing(a).op = "idle" /\ Nothing(a).app = a /\ Nothing(a).begun = FALSE
  BY Positions DEF Nothing, Work, Op, Section

LEMMA DoneTyped ==
  ASSUME Typed, NEW p \in Request, Done(p)
  PROVE  /\ req' \in [Request -> Work]
         /\ req'[p].op = "idle" /\ \A q \in Request : q # p => req'[q] = req[q]
  <1>1. req \in [Request -> Work] /\ req[p].app \in App
    BY DEF Typed, Work
  <1>2. Nothing(req[p].app) \in Work /\ Nothing(req[p].app).op = "idle"
    BY <1>1, NothingTyped
  <1> QED BY <1>1, <1>2 DEF Done

LEMMA InitTyped == Init => Typed
  <1> SUFFICES ASSUME Init PROVE Typed
    OBVIOUS
  <1> DEFINE a0 == CHOOSE a \in App : TRUE
  <1>1. a0 \in App
    OBVIOUS
  <1>2. Nothing(a0) \in Work
    BY <1>1, NothingTyped
  <1>3. req = [p \in Request |-> Nothing(a0)]
    BY DEF Init
  <1> HIDE DEF a0
  <1>4. Unsaved \in Row /\ "DRAFT" \in Status
    BY Positions DEF Unsaved, Row
  <1> QED BY <1>2, <1>3, <1>4 DEF Typed, Init, Verdict

(* A set of document ids that is not empty has a least one.                 *)
LEMMA LeastDoc ==
  ASSUME NEW S \in SUBSET Doc, S # {}
  PROVE  \E x \in S : \A y \in S : x <= y
  <1>1. PICK x \in S : \A y \in S : ~(<<y, x>> \in OpToRel(<, Nat))
    BY WFMin, NatLessThanWellFounded
  <1>2. \A y \in S : ~(y < x)
    BY <1>1 DEF OpToRel
  <1> QED BY <1>2

LEMMA SaveType ==
  ASSUME Typed, NEW p \in Request, NEW k \in Section, NEW nom \in Nom \cup {NoNom},
         SaveSection(p, k, nom)
  PROVE  Typed'
  <1> DEFINE a == req[p].app
             code == IF req[p].code = 0 THEN NextNumber(k) ELSE req[p].code
  <1>1. a \in App /\ req[p].code \in Nat
    BY DEF Typed, Work
  <1>2. code \in Nat
    BY <1>1 DEF Typed, NextNumber
  <1>3. EndsIn(k) \in Status
    BY Positions DEF EndsIn, Completes, Section
  <1>4. /\ section' = [section EXCEPT ![a][k] = [code |-> code, nom |-> nom]]
        /\ lastNumber' = [lastNumber EXCEPT ![k] = IF req[p].code = 0 THEN @ + 1 ELSE @]
        /\ status' = [status EXCEPT ![a] = IF Bumps(req[p]) THEN EndsIn(k) ELSE @]
        /\ Done(p) /\ UNCHANGED <<branchOf, row, docs, steps, forced>>
    BY DEF SaveSection
  <1> HIDE DEF a, code
  <1>5. [code |-> code, nom |-> nom] \in Row
    BY <1>2 DEF Row
  <1>6. section' \in [App -> [Section -> Row]]
    BY <1>1, <1>4, <1>5 DEF Typed
  <1>7. lastNumber' \in [Section -> Nat] /\ status' \in [App -> Status]
    <2>1. lastNumber' \in [Section -> Nat]
      BY <1>4 DEF Typed
    <2>2. status' \in [App -> Status]
      BY <1>1, <1>3, <1>4 DEF Typed
    <2> QED BY <2>1, <2>2
  <1>8. req' \in [Request -> Work]
    BY <1>4, DoneTyped
  <1> QED BY <1>4, <1>6, <1>7, <1>8 DEF Typed

LEMMA ServeType ==
  ASSUME Typed, NEW p \in Request, Serve(p)
  PROVE  Typed'
  <1>0. /\ req[p] \in Work /\ req[p].app \in App
        /\ req \in [Request -> Work] /\ status \in [App -> Status]
    BY DEF Typed, Work
  <1>1. ASSUME NEW a \in App, NEW op \in Op, Receive(p, a, op)
        PROVE  Typed'
    <2>1. [Nothing(a) EXCEPT !.op = op, !.seen = status[a]] \in Work
      <3>1. Nothing(a) \in Work /\ status[a] \in Status
        BY <1>0, NothingTyped
      <3> HIDE DEF Nothing
      <3> QED BY <3>1 DEF Work
    <2> QED BY <1>0, <1>1, <2>1 DEF Typed, Receive
  <1>2. CASE Abandon(p) \/ SaveRefused(p) \/ ConfirmRefused(p)
    <2>1. Done(p) /\ UNCHANGED <<status, branchOf, row, section, lastNumber, docs, steps, forced>>
      BY <1>2 DEF Abandon, SaveRefused, ConfirmRefused
    <2> QED BY <2>1, DoneTyped DEF Typed
  <1>3. CASE SaveClient(p)
    BY <1>3, SaveType DEF SaveClient, Section
  <1>4. CASE SaveCreditRequest(p) \/ SaveProject(p)
    <2>1. req[p].nom \in Nom \cup {NoNom}
      BY <1>0 DEF Work
    <2> QED BY <1>4, <2>1, SaveType DEF SaveCreditRequest, SaveProject, Section
  <1>5. CASE OpenTransaction(p)
    <2> DEFINE c == section[req[p].app][req[p].op].code
               n == section[req[p].app]["client"].nom
    <2>1. c \in Nat /\ n \in Nom \cup {NoNom}
      BY <1>0, <1>5 DEF Typed, OpenTransaction, Row, Section
    <2>2. req' = [req EXCEPT ![p].begun = TRUE, ![p].code = c, ![p].nom = n]
      BY <1>5 DEF OpenTransaction
    <2> HIDE DEF c, n
    <2>3. [req[p] EXCEPT !.begun = TRUE, !.code = c, !.nom = n] \in Work
      BY <1>0, <2>1 DEF Work
    <2>4. req' \in [Request -> Work]
      BY <1>0, <2>2, <2>3
    <2> QED BY <1>5, <2>4 DEF Typed, OpenTransaction
  <1>6. ASSUME NEW d \in Doc, UploadDocument(p, d) \/ DestroyDocument(p, d)
        PROVE  Typed'
    <2>1. docs' \in [App -> [Doc -> Verdict \cup {"none", "deleted"}]]
      <3>1. UploadDocument(p, d) => docs' = [docs EXCEPT ![req[p].app][d] = "unverified"]
        BY DEF UploadDocument
      <3>2. DestroyDocument(p, d) => docs' = [docs EXCEPT ![req[p].app][d] = "deleted"]
        BY DEF DestroyDocument
      <3>3. docs \in [App -> [Doc -> Verdict \cup {"none", "deleted"}]]
        BY DEF Typed
      <3>4. CASE UploadDocument(p, d)
        BY <1>0, <3>1, <3>3, <3>4 DEF Verdict
      <3>5. CASE DestroyDocument(p, d)
        BY <1>0, <3>2, <3>3, <3>5
      <3> QED BY <1>6, <3>4, <3>5
    <2>2. req' \in [Request -> Work]
      BY <1>6, DoneTyped DEF UploadDocument, DestroyDocument
    <2> QED BY <1>6, <2>1, <2>2 DEF Typed, UploadDocument, DestroyDocument
  <1>7. CASE CheckRequiredSections(p)
    <2> DEFINE t == IF LocalProvider THEN {}
                    ELSE {d \in Doc : docs[req[p].app][d] \in {"unverified", "invalid"}}
               j == {d \in Doc : docs[req[p].app][d] = "invalid"}
    <2>1. CASE /\ req' = [req EXCEPT ![p].op = "verify", ![p].todo = t, ![p].rejected = j]
               /\ UNCHANGED steps
      <3>1. t \in SUBSET Doc /\ j \in SUBSET Doc
        OBVIOUS
      <3> HIDE DEF t, j
      <3>2. [req[p] EXCEPT !.op = "verify", !.todo = t, !.rejected = j] \in Work
        BY <1>0, <3>1 DEF Work, Op
      <3>3. req' \in [Request -> Work]
        BY <1>0, <2>1, <3>2
      <3> QED BY <1>7, <2>1, <3>3 DEF Typed, CheckRequiredSections
    <2>2. CASE RecordStep(req[p].app, "failed") /\ Done(p)
      <3>1. steps' \in [App -> SUBSET {"passed", "failed"}]
        BY <2>2 DEF Typed, RecordStep
      <3>2. req' \in [Request -> Work]
        BY <2>2, DoneTyped
      <3> QED BY <1>7, <3>1, <3>2 DEF Typed, CheckRequiredSections
    <2> QED BY <1>7, <2>1, <2>2 DEF CheckRequiredSections
  <1>8. ASSUME NEW answer \in {"valid", "invalid", "unavailable"}, VerifyDocument(p, answer)
        PROVE  Typed'
    <2> DEFINE d == CHOOSE x \in req[p].todo : \A y \in req[p].todo : x <= y
               f == IF answer = "invalid" \/ (answer = "unavailable" /\ d \in req[p].rejected)
                    THEN req[p].failed \cup {d} ELSE req[p].failed
    <2>1. req[p].todo \in SUBSET Doc /\ req[p].todo # {} /\ req[p].failed \in SUBSET Doc
      BY <1>0, <1>8 DEF VerifyDocument, Work
    <2>2. d \in Doc
      <3>1. \E x \in req[p].todo : \A y \in req[p].todo : x <= y
        BY <2>1, LeastDoc
      <3> QED BY <2>1, <3>1
    <2>3. /\ req' = [req EXCEPT ![p].begun = TRUE, ![p].todo = @ \ {d},
                     ![p].failed = IF answer = "invalid"
                                        \/ (answer = "unavailable" /\ d \in req[p].rejected)
                                   THEN @ \cup {d} ELSE @]
          /\ docs' = [docs EXCEPT ![req[p].app][d] =
                        IF \/ answer = "unavailable" \/ @ = "deleted"
                           \/ answer = "invalid" /\ d \in req[p].rejected
                          THEN @ ELSE answer]
      BY <1>8 DEF VerifyDocument
    <2> HIDE DEF d
    <2>4. docs' \in [App -> [Doc -> Verdict \cup {"none", "deleted"}]]
      BY <1>0, <2>2, <2>3 DEF Typed, Verdict
    <2>5. f \in SUBSET Doc
      BY <2>1, <2>2
    <2>6. req' = [req EXCEPT ![p].begun = TRUE, ![p].todo = req[p].todo \ {d}, ![p].failed = f]
      BY <1>0, <2>3
    <2> HIDE DEF f
    <2>7. [req[p] EXCEPT !.begun = TRUE, !.todo = req[p].todo \ {d}, !.failed = f] \in Work
      BY <1>0, <2>1, <2>5 DEF Work
    <2>8. req' \in [Request -> Work]
      BY <1>0, <2>6, <2>7
    <2> QED BY <1>8, <2>4, <2>8 DEF Typed, VerifyDocument
  <1>9. CASE ExhaustBudget(p)
    <2>1. [req[p] EXCEPT !.todo = {}] \in Work
      BY <1>0 DEF Work
    <2>2. req' \in [Request -> Work]
      BY <1>0, <1>9, <2>1 DEF ExhaustBudget
    <2> QED BY <1>9, <2>2 DEF Typed, ExhaustBudget
  <1>10. ASSUME NEW force \in BOOLEAN, FinishValidation(p, force)
         PROVE  Typed'
    <2>1. steps' \in [App -> SUBSET {"passed", "failed"}]
      BY <1>10 DEF Typed, FinishValidation, RecordStep
    <2>2. forced' \in [App -> BOOLEAN]
      BY <1>10 DEF Typed, FinishValidation
    <2>3. status' \in [App -> Status]
      BY <1>0, <1>10, Positions DEF FinishValidation
    <2>4. req' \in [Request -> Work]
      BY <1>10, DoneTyped DEF FinishValidation
    <2> QED BY <1>10, <2>1, <2>2, <2>3, <2>4 DEF Typed, FinishValidation
  <1>11. ASSUME NEW b \in Branch \cup {NoBranch}, ConfirmAndSubmit(p, b)
         PROVE  Typed'
    <2>1. status' \in [App -> Status] /\ branchOf' \in [App -> Branch \cup {NoBranch}]
      BY <1>0, <1>11, Positions DEF Typed, ConfirmAndSubmit
    <2>2. req' \in [Request -> Work]
      BY <1>11, DoneTyped DEF ConfirmAndSubmit
    <2> QED BY <1>11, <2>1, <2>2 DEF Typed, ConfirmAndSubmit
  <1> QED
    BY <1>1, <1>2, <1>3, <1>4, <1>5, <1>6, <1>7, <1>8, <1>9, <1>10, <1>11 DEF Serve

LEMMA TypedStep == Typed /\ [Next]_vars => Typed'
  <1> SUFFICES ASSUME Typed, [Next]_vars PROVE Typed'
    OBVIOUS
  <1>1. ASSUME NEW a \in App, Create(a) \/ DeleteUnfinished(a) \/ Cancel(a)
        PROVE  Typed'
    <2>1. CASE Create(a)
      BY <2>1 DEF Typed, Create
    <2>2. CASE DeleteUnfinished(a)
      BY <2>2 DEF Typed, DeleteUnfinished
    <2>3. CASE Cancel(a)
      BY <2>3, Positions DEF Typed, Cancel
    <2> QED BY <1>1, <2>1, <2>2, <2>3
  <1>2. CASE UNCHANGED vars
    BY <1>2 DEF Typed, vars
  <1> QED BY <1>1, <1>2, ServeType DEF Next

(* The rows, the codes and what the workers have in hand keep their types.  *)
THEOREM DossierTypeCorrect == Spec => []TypeOK
  BY InitTyped, TypedStep, TypedIsTypeOK, PTL DEF Spec

-----------------------------------------------------------------------------
(* Codes.                                                                   *)

(* A code that was saved was drawn from the counter.                        *)
Drawn == \A a \in App, k \in Section :
  /\ section[a][k].code <= lastNumber[k]
  /\ Saved(a, k) => section[a][k].code # 0

(* A code that a transaction has read belongs to its dossier alone: the     *)
(* counter has passed it, and no other dossier has or will save it.         *)
HoldsCode(p) == req[p].op \in Section /\ req[p].begun /\ req[p].code # 0
CodeInHand(p) == HoldsCode(p) =>
  /\ req[p].code <= lastNumber[req[p].op]
  /\ \A b \in App : b # req[p].app => section[b][req[p].op].code # req[p].code
  /\ \A q \in Request : HoldsCode(q) /\ req[q].op = req[p].op /\ req[q].app # req[p].app
       => req[q].code # req[p].code

CodeInv == Typed /\ Drawn /\ CodesUnique /\ \A p \in Request : CodeInHand(p)

LEMMA InitCodes == Init => CodeInv
  <1> SUFFICES ASSUME Init PROVE CodeInv
    OBVIOUS
  <1>1. \A a \in App, k \in Section : section[a][k] = Unsaved /\ lastNumber[k] = 0
    BY DEF Init
  <1>2. Drawn /\ CodesUnique
    BY <1>1 DEF Drawn, CodesUnique, Saved, Unsaved
  <1>3. \A p \in Request : req[p].op \notin Section
    BY DEF Init, Nothing, Section
  <1> QED BY <1>2, <1>3, InitTyped DEF CodeInv, CodeInHand, HoldsCode

(* A step that saves nothing, and reads no code, disturbs none.             *)
LEMMA OtherKeepsCodes ==
  ASSUME CodeInv, Typed', UNCHANGED <<section, lastNumber>>,
         \A p \in Request :
           HoldsCode(p)' => /\ HoldsCode(p) /\ req'[p].op = req[p].op
                            /\ req'[p].app = req[p].app /\ req'[p].code = req[p].code
  PROVE  CodeInv'
  <1>1. Drawn' /\ CodesUnique'
    BY DEF CodeInv, Drawn, CodesUnique, Saved
  <1>2. \A p \in Request : CodeInHand(p)'
    BY DEF CodeInv, CodeInHand
  <1> QED BY <1>1, <1>2 DEF CodeInv

LEMMA SaveKeepsCodes ==
  ASSUME CodeInv, Typed', NEW p \in Request, NEW k \in Section, NEW nom \in Nom \cup {NoNom},
         SaveSection(p, k, nom)
  PROVE  CodeInv'
  <1> DEFINE a == req[p].app
             c == IF req[p].code = 0 THEN NextNumber(k) ELSE req[p].code
  <1>1. /\ Typed /\ Drawn /\ CodesUnique /\ CodeInHand(p)
        /\ req[p] \in Work /\ a \in App /\ req[p].code \in Nat /\ req[p].op = k /\ req[p].begun
    BY DEF CodeInv, Typed, Work, SaveSection
  <1>2. /\ section' = [section EXCEPT ![a][k] = [code |-> c, nom |-> nom]]
        /\ lastNumber' = [lastNumber EXCEPT ![k] = IF req[p].code = 0 THEN @ + 1 ELSE @]
        /\ Done(p)
    BY DEF SaveSection
  <1>3. /\ lastNumber[k] \in Nat /\ lastNumber \in [Section -> Nat]
        /\ \A b \in App : section[b][k].code \in Nat
    BY DEF CodeInv, Typed, Row
  <1>4. /\ lastNumber'[k] \in Nat /\ lastNumber[k] <= lastNumber'[k]
        /\ req[p].code = 0 => lastNumber'[k] = lastNumber[k] + 1
        /\ \A j \in Section : j # k => lastNumber'[j] = lastNumber[j]
    BY <1>2, <1>3
  (* The code written is new or the dossier's own. *)
  <1>5. /\ c \in Nat /\ c # 0 /\ c <= lastNumber'[k]
        /\ \A b \in App : b # a => section[b][k].code # c
        /\ \A q \in Request : HoldsCode(q) /\ req[q].op = k /\ req[q].app # a => req[q].code # c
    <2>1. CASE req[p].code = 0
      <3>1. c = lastNumber[k] + 1
        BY <2>1 DEF NextNumber
      <3>2. \A b \in App : section[b][k].code <= lastNumber[k]
        BY <1>1 DEF Drawn
      <3>3. \A q \in Request : HoldsCode(q) /\ req[q].op = k => req[q].code <= lastNumber[k]
        BY DEF CodeInv, CodeInHand
      <3> HIDE DEF c, a
      <3> QED BY <1>3, <1>4, <2>1, <3>1, <3>2, <3>3
    <2>2. CASE req[p].code # 0
      <3>1. HoldsCode(p) /\ c = req[p].code
        BY <1>1, <2>2 DEF HoldsCode
      <3>2. /\ req[p].code <= lastNumber[req[p].op]
            /\ \A b \in App : b # req[p].app => section[b][req[p].op].code # req[p].code
            /\ \A q \in Request : HoldsCode(q) /\ req[q].op = req[p].op /\ req[q].app # req[p].app
                 => req[q].code # req[p].code
        BY <1>1, <3>1 DEF CodeInHand
      <3> HIDE DEF c
      <3>3. c \in Nat /\ c # 0 /\ c <= lastNumber'[k]
        BY <1>1, <1>3, <1>4, <2>2, <3>1, <3>2
      <3> QED BY <1>1, <3>1, <3>2, <3>3
    <2> QED BY <2>1, <2>2
  <1> HIDE DEF a, c
  <1>6. /\ section'[a][k] = [code |-> c, nom |-> nom] /\ section'[a][k].code = c
        /\ \A b \in App, j \in Section : (b # a \/ j # k) => section'[b][j] = section[b][j]
    BY <1>1, <1>2 DEF Typed
  <1>7. Drawn'
    <2> SUFFICES ASSUME NEW b \in App, NEW j \in Section
                 PROVE  section'[b][j].code <= lastNumber'[j]
                        /\ (section'[b][j] # Unsaved => section'[b][j].code # 0)
      BY DEF Drawn, Saved
    <2>1. CASE b = a /\ j = k
      BY <1>5, <1>6, <2>1
    <2>2. CASE b # a \/ j # k
      <3>1. section[b][j].code <= lastNumber[j] /\ (section[b][j] # Unsaved => section[b][j].code # 0)
        BY <1>1 DEF Drawn, Saved
      <3>2. section[b][j].code \in Nat /\ lastNumber[j] \in Nat
        BY <1>1 DEF Typed, Row
      <3>3. lastNumber[j] <= lastNumber'[j] /\ lastNumber'[j] \in Nat
        BY <1>3, <1>4, <3>2
      <3>4. section'[b][j] = section[b][j]
        BY <1>6, <2>2
      <3> QED BY <3>1, <3>2, <3>3, <3>4
    <2> QED BY <2>1, <2>2
  <1>8. CodesUnique'
    <2> SUFFICES ASSUME NEW x \in App, NEW y \in App, NEW j \in Section, x # y,
                        section'[x][j] # Unsaved, section'[y][j] # Unsaved
                 PROVE  section'[x][j].code # section'[y][j].code
      BY DEF CodesUnique, Saved
    <2>1. CASE j = k /\ (x = a \/ y = a)
      BY <1>5, <1>6, <2>1
    <2>2. CASE ~(j = k /\ (x = a \/ y = a))
      BY <1>1, <1>6, <2>2 DEF CodesUnique, Saved
    <2> QED BY <2>1, <2>2
  <1>9. req'[p].op = "idle" /\ \A q \in Request : q # p => req'[q] = req[q]
    BY <1>1, <1>2, DoneTyped
  <1>10. ASSUME NEW q \in Request, HoldsCode(q)'
         PROVE  /\ HoldsCode(q) /\ req'[q] = req[q]
    BY <1>9, <1>10 DEF HoldsCode, Section
  <1>11. ASSUME NEW q \in Request
         PROVE  CodeInHand(q)'
    <2> SUFFICES ASSUME HoldsCode(q)'
                 PROVE  /\ req'[q].code <= lastNumber'[req'[q].op]
                        /\ \A b \in App : b # req'[q].app =>
                             section'[b][req'[q].op].code # req'[q].code
                        /\ \A o \in Request : HoldsCode(o)' /\ req'[o].op = req'[q].op
                                                /\ req'[o].app # req'[q].app
                             => req'[o].code # req'[q].code
      BY DEF CodeInHand
    <2>1. HoldsCode(q) /\ req'[q] = req[q]
      BY <1>10
    <2>2. /\ req[q].op \in Section /\ req[q].code \in Nat
          /\ req[q].code <= lastNumber[req[q].op]
          /\ \A b \in App : b # req[q].app => section[b][req[q].op].code # req[q].code
      BY <2>1 DEF CodeInv, CodeInHand, HoldsCode, Typed, Work
    <2>3. req[q].code <= lastNumber'[req[q].op]
      <3>1. lastNumber[req[q].op] \in Nat /\ lastNumber'[req[q].op] \in Nat
        BY <2>2 DEF CodeInv, Typed
      <3>2. lastNumber[req[q].op] <= lastNumber'[req[q].op]
        BY <1>3, <1>4, <2>2, <3>1
      <3> QED BY <2>2, <3>1, <3>2
    <2>4. ASSUME NEW b \in App, b # req[q].app
          PROVE  section'[b][req[q].op].code # req[q].code
      <3>1. CASE b = a /\ req[q].op = k
        BY <1>5, <1>6, <2>1, <2>4, <3>1
      <3>2. CASE b # a \/ req[q].op # k
        BY <1>6, <2>2, <2>4, <3>2
      <3> QED BY <3>1, <3>2
    <2>5. ASSUME NEW o \in Request, HoldsCode(o)', req'[o].op = req'[q].op, req'[o].app # req'[q].app
          PROVE  req'[o].code # req'[q].code
      <3>1. HoldsCode(o) /\ req'[o] = req[o]
        BY <1>10, <2>5
      <3> QED BY <2>1, <2>5, <3>1 DEF CodeInv, CodeInHand
    <2> QED BY <2>1, <2>3, <2>4, <2>5
  <1> QED BY <1>7, <1>8, <1>11 DEF CodeInv

LEMMA OpenKeepsCodes ==
  ASSUME CodeInv, Typed', NEW p \in Request, OpenTransaction(p)
  PROVE  CodeInv'
  <1> DEFINE a == req[p].app
             k == req[p].op
             c == section[a][k].code
  <1>1. /\ req[p] \in Work /\ a \in App /\ k \in Section
        /\ Typed /\ Drawn /\ CodesUnique /\ UNCHANGED <<section, lastNumber>>
    BY DEF CodeInv, Typed, Work, OpenTransaction
  <1>2. /\ req'[p].op = k /\ req'[p].app = a /\ req'[p].code = c
        /\ \A q \in Request : q # p => req'[q] = req[q]
    BY <1>1 DEF OpenTransaction, Typed, Work
  <1> HIDE DEF a, k
  <1>3. c # 0 => /\ c <= lastNumber[k] /\ Saved(a, k)
                 /\ \A b \in App : b # a => section[b][k].code # c
    <2>1. c <= lastNumber[k]
      BY <1>1 DEF Drawn
    <2>2. c # 0 => Saved(a, k)
      BY DEF Saved, Unsaved
    <2>3. ASSUME NEW b \in App, b # a, c # 0
          PROVE  section[b][k].code # c
      <3>1. section[b][k].code # 0 => Saved(b, k)
        BY DEF Saved, Unsaved
      <3> QED BY <1>1, <2>2, <2>3, <3>1 DEF CodesUnique
    <2> QED BY <2>1, <2>2, <2>3
  <1>4. ASSUME NEW q \in Request, NEW o \in Request, q # p \/ o # p,
               HoldsCode(q)', HoldsCode(o)', req'[o].op = req'[q].op, req'[o].app # req'[q].app
        PROVE  req'[o].code # req'[q].code
    <2>1. CASE q # p /\ o # p
      <3>1. HoldsCode(q) /\ HoldsCode(o) /\ req'[q] = req[q] /\ req'[o] = req[o]
        BY <1>2, <1>4, <2>1 DEF HoldsCode
      <3> QED BY <1>4, <3>1 DEF CodeInv, CodeInHand
    <2>2. CASE q = p /\ o # p
      <3>1. HoldsCode(o) /\ req'[o] = req[o]
        BY <1>2, <1>4, <2>2 DEF HoldsCode
      <3>2. \A b \in App : b # req[o].app => section[b][req[o].op].code # req[o].code
        BY <3>1 DEF CodeInv, CodeInHand
      <3> QED BY <1>1, <1>2, <1>4, <2>2, <3>1, <3>2
    <2>3. CASE q # p /\ o = p
      <3>1. HoldsCode(q) /\ req'[q] = req[q]
        BY <1>2, <1>4, <2>3 DEF HoldsCode
      <3>2. \A b \in App : b # req[q].app => section[b][req[q].op].code # req[q].code
        BY <3>1 DEF CodeInv, CodeInHand
      <3> QED BY <1>1, <1>2, <1>4, <2>3, <3>1, <3>2
    <2> QED BY <1>4, <2>1, <2>2, <2>3
  <1>5. ASSUME NEW q \in Request
        PROVE  CodeInHand(q)'
    <2>1. CASE q = p
      BY <1>1, <1>2, <1>3, <1>4, <2>1 DEF CodeInHand, HoldsCode
    <2>2. CASE q # p
      <3>1. req'[q] = req[q] /\ CodeInHand(q)
        BY <1>2, <2>2 DEF CodeInv
      <3> QED BY <1>1, <1>4, <2>2, <3>1 DEF CodeInHand, HoldsCode
    <2> QED BY <2>1, <2>2
  <1>6. Drawn' /\ CodesUnique'
    BY <1>1 DEF Drawn, CodesUnique, Saved
  <1> QED BY <1>5, <1>6 DEF CodeInv

(* A worker that finishes, begins or judges documents disturbs no code.     *)
LEMMA WorkerKeepsCodes ==
  ASSUME CodeInv, Typed', NEW p \in Request, UNCHANGED <<section, lastNumber>>,
         \A q \in Request : q # p => req'[q] = req[q],
         req'[p].op \notin Section \/ ~req'[p].begun
  PROVE  CodeInv'
  BY OtherKeepsCodes DEF HoldsCode

LEMMA ServeKeepsCodes ==
  ASSUME CodeInv, Typed', NEW p \in Request, Serve(p)
  PROVE  CodeInv'
  <1>0. /\ Typed /\ req \in [Request -> Work] /\ req[p] \in Work
        /\ {"idle", "verify"} \cap Section = {}
    BY DEF CodeInv, Typed, Section
  <1>1. ASSUME Done(p), UNCHANGED <<section, lastNumber>>
        PROVE  CodeInv'
    BY <1>0, <1>1, DoneTyped, WorkerKeepsCodes
  <1>2. ASSUME NEW a \in App, NEW op \in Op, Receive(p, a, op)
        PROVE  CodeInv'
    <2>1. /\ req'[p].begun = FALSE /\ \A q \in Request : q # p => req'[q] = req[q]
          /\ UNCHANGED <<section, lastNumber>>
      <3>1. req' = [req EXCEPT ![p] = [Nothing(a) EXCEPT !.op = op, !.seen = status[a]]]
        BY <1>2 DEF Receive
      <3>2. [Nothing(a) EXCEPT !.op = op, !.seen = status[a]].begun = FALSE
        BY DEF Nothing
      <3> QED BY <1>0, <1>2, <3>1, <3>2 DEF Receive
    <2> QED BY <2>1, WorkerKeepsCodes
  <1>3. CASE Abandon(p) \/ SaveRefused(p) \/ ConfirmRefused(p)
    BY <1>1, <1>3 DEF Abandon, SaveRefused, ConfirmRefused
  <1>4. CASE SaveClient(p)
    BY <1>4, SaveKeepsCodes DEF SaveClient, Section
  <1>5. CASE SaveCreditRequest(p) \/ SaveProject(p)
    <2>1. req[p].nom \in Nom \cup {NoNom}
      BY <1>0 DEF Work
    <2> QED BY <1>5, <2>1, SaveKeepsCodes DEF SaveCreditRequest, SaveProject, Section
  <1>6. CASE OpenTransaction(p)
    BY <1>6, OpenKeepsCodes
  <1>7. ASSUME NEW d \in Doc, UploadDocument(p, d) \/ DestroyDocument(p, d)
        PROVE  CodeInv'
    BY <1>1, <1>7 DEF UploadDocument, DestroyDocument
  <1>8. CASE CheckRequiredSections(p)
    <2>1. CASE RequiredSections(req[p].app)
      <3>1. /\ req'[p].op = "verify" /\ \A q \in Request : q # p => req'[q] = req[q]
            /\ UNCHANGED <<section, lastNumber>>
        <4> DEFINE t == IF LocalProvider THEN {}
                        ELSE {d \in Doc : docs[req[p].app][d] \in {"unverified", "invalid"}}
                   j == {d \in Doc : docs[req[p].app][d] = "invalid"}
        <4>1. /\ req' = [req EXCEPT ![p].op = "verify", ![p].todo = t, ![p].rejected = j]
              /\ UNCHANGED <<section, lastNumber>>
          BY <1>8, <2>1 DEF CheckRequiredSections
        <4> HIDE DEF t, j
        <4> QED BY <1>0, <4>1 DEF Work
      <3> QED BY <1>0, <3>1, WorkerKeepsCodes
    <2>2. CASE ~RequiredSections(req[p].app)
      BY <1>1, <1>8, <2>2 DEF CheckRequiredSections
    <2> QED BY <2>1, <2>2
  <1>9. ASSUME NEW answer \in {"valid", "invalid", "unavailable"}, VerifyDocument(p, answer)
        PROVE  CodeInv'
    <2>1. /\ req'[p].op = "verify" /\ \A q \in Request : q # p => req'[q] = req[q]
          /\ UNCHANGED <<section, lastNumber>>
      BY <1>0, <1>9 DEF VerifyDocument, Work
    <2> QED BY <1>0, <2>1, WorkerKeepsCodes
  <1>10. CASE ExhaustBudget(p)
    <2>1. /\ req'[p].op = "verify" /\ \A q \in Request : q # p => req'[q] = req[q]
          /\ UNCHANGED <<section, lastNumber>>
      BY <1>0, <1>10 DEF ExhaustBudget, Work
    <2> QED BY <1>0, <2>1, WorkerKeepsCodes
  <1>11. ASSUME NEW force \in BOOLEAN, FinishValidation(p, force)
         PROVE  CodeInv'
    BY <1>1, <1>11 DEF FinishValidation
  <1>12. ASSUME NEW b \in Branch \cup {NoBranch}, ConfirmAndSubmit(p, b)
         PROVE  CodeInv'
    BY <1>1, <1>12 DEF ConfirmAndSubmit
  <1> QED
    BY <1>2, <1>3, <1>4, <1>5, <1>6, <1>7, <1>8, <1>9, <1>10, <1>11, <1>12 DEF Serve

LEMMA CodeStep == CodeInv /\ [Next]_vars => CodeInv'
  <1> SUFFICES ASSUME CodeInv, [Next]_vars PROVE CodeInv'
    OBVIOUS
  <1>1. Typed'
    BY TypedStep DEF CodeInv
  <1>2. ASSUME UNCHANGED <<section, lastNumber, req>>
        PROVE  CodeInv'
    <2>1. \A p \in Request : HoldsCode(p)' <=> HoldsCode(p)
      BY <1>2 DEF HoldsCode
    <2> QED BY <1>1, <1>2, <2>1, OtherKeepsCodes
  <1>3. ASSUME NEW a \in App, Create(a) \/ DeleteUnfinished(a) \/ Cancel(a)
        PROVE  CodeInv'
    BY <1>2, <1>3 DEF Create, DeleteUnfinished, Cancel
  <1>4. CASE UNCHANGED vars
    BY <1>2, <1>4 DEF vars
  <1> QED BY <1>1, <1>3, <1>4, ServeKeepsCodes DEF Next

(* No two dossiers share a code, however the requests that number them      *)
(* interleave, and whichever of them is deleted.                            *)
THEOREM CodesAreUnique == Spec => []CodesUnique
  <1>1. CodeInv => CodesUnique
    BY DEF CodeInv
  <1> QED BY <1>1, InitCodes, CodeStep, PTL DEF Spec

-----------------------------------------------------------------------------
(* The status.                                                              *)

(* A worker judges documents of a dossier that has, or had, one.            *)
HadDocument(a) == \E d \in Doc : docs[a][d] # "none"
VerifiesSomething == \A p \in Request : req[p].op = "verify" => HadDocument(req[p].app)

(* What is deleted was never validated.                                     *)
TrashedUnfinished == \A a \in App : row[a] = "trashed" => CanBeDeletedByCustomer(status[a])

ProgressInv == Typed /\ ProgressEarned /\ VerifiesSomething /\ TrashedUnfinished

(* What a step keeps, and how it may move a dossier.                        *)
Kept ==
  /\ \A a \in App, k \in Section : Saved(a, k) => Saved(a, k)'
  /\ \A a \in App : steps[a] \subseteq steps'[a]
  /\ \A a \in App, d \in Doc : docs[a][d] # "none" => docs'[a][d] # "none"
  /\ \A p \in Request : req'[p].op = "verify" =>
       (req[p].op = "verify" /\ req'[p].app = req[p].app) \/ HadDocument(req'[p].app)

Advances(a) ==
  \/ Position[status[a]] <= 7 /\ status'[a] = "CANCELLED"
  \/ status[a] = "DRAFT" /\ status'[a] = "STEP_1_COMPLETED" /\ Saved(a, "client")'
  \/ status[a] = "STEP_1_COMPLETED" /\ status'[a] = "STEP_2_COMPLETED" /\ Saved(a, "credit")'
  \/ /\ status[a] = "STEP_2_COMPLETED" /\ status'[a] = "READY_FOR_VALIDATION_1"
     /\ Saved(a, "project")'
  \/ /\ status[a] = "READY_FOR_VALIDATION_1" /\ status'[a] = "VALIDATION_1_COMPLETED"
     /\ "passed" \in steps'[a] /\ HadDocument(a)
  \/ status[a] = "VALIDATION_1_COMPLETED" /\ status'[a] = "SUBMITTED"

MovesOn(a) ==
  \/ status'[a] = status[a] /\ row'[a] = row[a]
  \/ status'[a] = status[a] /\ row[a] = "absent" /\ row'[a] = "live"
  \/ /\ status'[a] = status[a] /\ row[a] = "live" /\ row'[a] = "trashed"
     /\ CanBeDeletedByCustomer(status[a])
  \/ row[a] = "live" /\ row'[a] = "live" /\ Advances(a)

Effects == Kept /\ \A a \in App : MovesOn(a)

(* A step of a worker that writes neither rows nor statuses.                *)
LEMMA QuietEffects ==
  ASSUME Typed, NEW p \in Request, UNCHANGED <<status, row, section, steps, docs>>,
         \A q \in Request : q # p => req'[q] = req[q],
         req'[p].op = "verify" =>
           (req[p].op = "verify" /\ req'[p].app = req[p].app) \/ HadDocument(req'[p].app)
  PROVE  Effects
  BY DEF Effects, Kept, MovesOn, Saved

LEMMA SaveEffects ==
  ASSUME Typed, NEW p \in Request, NEW k \in Section, NEW nom, SaveSection(p, k, nom)
  PROVE  Effects
  <1>0. PICK a \in App : a = req[p].app
    BY DEF Typed, Work
  <1> DEFINE c == IF req[p].code = 0 THEN NextNumber(k) ELSE req[p].code
  <1>1. /\ a \in App /\ req[p].code \in Nat /\ status[a] \in Status /\ lastNumber[k] \in Nat
        /\ section \in [App -> [Section -> Row]] /\ status \in [App -> Status]
    BY DEF Typed, Work
  <1>2. c # 0
    BY <1>1 DEF NextNumber
  <1>3. /\ Bumps(req[p]) => MayApply(a, Completes(k))
        /\ section' = [section EXCEPT ![a][k] = [code |-> c, nom |-> nom]]
        /\ status' = [status EXCEPT ![a] = IF Bumps(req[p]) THEN EndsIn(k) ELSE @]
        /\ Done(p) /\ UNCHANGED <<branchOf, row, docs, steps, forced>>
    BY <1>0 DEF SaveSection
  <1> HIDE DEF c
  <1>4. [code |-> c, nom |-> nom] # Unsaved
    BY <1>2 DEF Unsaved
  <1>5. /\ Saved(a, k)'
        /\ \A b \in App, j \in Section : Saved(b, j) => Saved(b, j)'
    <2>1. /\ section'[a][k] = [code |-> c, nom |-> nom]
          /\ \A b \in App, j \in Section : (b # a \/ j # k) => section'[b][j] = section[b][j]
      <3>1. section \in [App -> [Section -> Row]] /\ a \in App
        BY <1>1
      <3>2. section' = [section EXCEPT ![a][k] = [code |-> c, nom |-> nom]]
        BY <1>3
      <3> QED BY <3>1, <3>2
    <2>2. Saved(a, k)'
      BY <1>4, <2>1 DEF Saved
    <2>3. ASSUME NEW b \in App, NEW j \in Section, Saved(b, j)
          PROVE  Saved(b, j)'
      <3>1. CASE b = a /\ j = k
        BY <2>2, <3>1
      <3>2. CASE b # a \/ j # k
        <4>1. section'[b][j] = section[b][j]
          BY <2>1, <3>2
        <4> QED BY <2>3, <4>1 DEF Saved
      <3> QED BY <3>1, <3>2
    <2> QED BY <2>2, <2>3
  <1>6. req'[p].op = "idle" /\ \A q \in Request : q # p => req'[q] = req[q]
    BY <1>3, DoneTyped
  <1>7. Kept
    BY <1>3, <1>5, <1>6 DEF Kept
  <1>8. ASSUME NEW b \in App
        PROVE  MovesOn(b)
    <2>1. CASE b # a \/ ~Bumps(req[p])
      BY <1>1, <1>3, <2>1 DEF MovesOn
    <2>2. CASE b = a /\ Bumps(req[p])
      <3>1. row[a] = "live" /\ row'[a] = "live" /\ CanMove(status[a], Completes(k), "customer")
        BY <1>3, <2>2 DEF MayApply
      <3>2. status'[a] = EndsIn(k)
        BY <1>1, <1>3, <2>2
      <3>3. Advances(a)
        <4>1. CASE k = "client"
          <5>1. Completes(k) = "STEP_1_COMPLETED" /\ EndsIn(k) = "STEP_1_COMPLETED"
            BY <4>1 DEF Completes, EndsIn
          <5> QED BY <1>1, <1>5, <3>1, <3>2, <4>1, <5>1, CustomerMoves DEF Advances
        <4>2. CASE k = "credit"
          <5>1. Completes(k) = "STEP_2_COMPLETED" /\ EndsIn(k) = "STEP_2_COMPLETED"
            BY <4>2 DEF Completes, EndsIn
          <5> QED BY <1>1, <1>5, <3>1, <3>2, <4>2, <5>1, CustomerMoves DEF Advances
        <4>3. CASE k = "project"
          <5>1. Completes(k) = "STEP_3_COMPLETED" /\ EndsIn(k) = "READY_FOR_VALIDATION_1"
            BY <4>3 DEF Completes, EndsIn
          <5> QED BY <1>1, <1>5, <3>1, <3>2, <4>3, <5>1, CustomerMoves DEF Advances
        <4> QED BY <4>1, <4>2, <4>3 DEF Section
      <3> QED BY <2>2, <3>1, <3>3 DEF MovesOn
    <2> QED BY <2>1, <2>2
  <1> QED BY <1>7, <1>8 DEF Effects

LEMMA FinishEffects ==
  ASSUME Typed, VerifiesSomething, NEW p \in Request, NEW force \in BOOLEAN,
         FinishValidation(p, force)
  PROVE  Effects
  <1>0. PICK a \in App : a = req[p].app
    BY DEF Typed, Work
  <1> DEFINE passes == req[p].failed = {} \/ force
  <1>1. a \in App /\ status \in [App -> Status] /\ steps \in [App -> SUBSET {"passed", "failed"}]
    BY DEF Typed, Work
  <1>2. /\ req[p].op = "verify"
        /\ RecordStep(a, IF passes THEN "passed" ELSE "failed")
        /\ status' = [status EXCEPT ![a] = IF passes /\ MayApply(a, "VALIDATION_1_COMPLETED")
                                           THEN "VALIDATION_1_COMPLETED" ELSE @]
        /\ Done(p) /\ UNCHANGED <<row, section, docs>>
    BY <1>0 DEF FinishValidation
  <1>3. HadDocument(a)
    BY <1>0, <1>2 DEF VerifiesSomething
  <1> HIDE DEF passes
  <1>4. /\ \A b \in App : steps[b] \subseteq steps'[b]
        /\ passes => "passed" \in steps'[a]
    BY <1>1, <1>2 DEF RecordStep
  <1>5. req'[p].op = "idle" /\ \A q \in Request : q # p => req'[q] = req[q]
    BY <1>2, DoneTyped
  <1>6. Kept
    BY <1>2, <1>4, <1>5 DEF Kept, Saved
  <1>7. ASSUME NEW b \in App
        PROVE  MovesOn(b)
    <2>1. CASE b = a /\ passes /\ MayApply(a, "VALIDATION_1_COMPLETED")
      <3>1. status'[a] = "VALIDATION_1_COMPLETED" /\ row'[a] = row[a] /\ row[a] = "live"
        BY <1>1, <1>2, <2>1 DEF MayApply
      <3>2. status[a] = "READY_FOR_VALIDATION_1"
        BY <1>1, <2>1, CustomerMoves DEF MayApply
      <3> QED BY <1>3, <1>4, <2>1, <3>1, <3>2 DEF MovesOn, Advances
    <2>2. CASE ~(b = a /\ passes /\ MayApply(a, "VALIDATION_1_COMPLETED"))
      BY <1>1, <1>2, <2>2 DEF MovesOn
    <2> QED BY <2>1, <2>2
  <1> QED BY <1>6, <1>7 DEF Effects

LEMMA ConfirmEffects ==
  ASSUME Typed, NEW p \in Request, NEW b \in Branch \cup {NoBranch}, ConfirmAndSubmit(p, b)
  PROVE  Effects
  <1>0. PICK a \in App : a = req[p].app
    BY DEF Typed, Work
  <1>1. a \in App /\ status \in [App -> Status]
    BY DEF Typed, Work
  <1>2. /\ MayApply(a, "VALIDATION_2") /\ status' = [status EXCEPT ![a] = "SUBMITTED"]
        /\ Done(p) /\ UNCHANGED <<row, section, docs, steps>>
    BY <1>0 DEF ConfirmAndSubmit
  <1>3. row[a] = "live" /\ status[a] = "VALIDATION_1_COMPLETED"
    BY <1>1, <1>2, CustomerMoves DEF MayApply
  <1>4. req'[p].op = "idle" /\ \A q \in Request : q # p => req'[q] = req[q]
    BY <1>2, DoneTyped
  <1>5. Kept
    BY <1>2, <1>4 DEF Kept, Saved
  <1>6. \A x \in App : MovesOn(x)
    BY <1>1, <1>2, <1>3 DEF MovesOn, Advances
  <1> QED BY <1>5, <1>6 DEF Effects

LEMMA ServeEffects ==
  ASSUME Typed, VerifiesSomething, NEW p \in Request, Serve(p)
  PROVE  Effects
  <1>0. req \in [Request -> Work] /\ req[p] \in Work
    BY DEF Typed
  <1>1. ASSUME Done(p), UNCHANGED <<status, row, section, steps, docs>>
        PROVE  Effects
    BY <1>0, <1>1, DoneTyped, QuietEffects
  <1>2. ASSUME NEW a \in App, NEW op \in Op, Receive(p, a, op)
        PROVE  Effects
    <2>1. req' = [req EXCEPT ![p] = [Nothing(a) EXCEPT !.op = op, !.seen = status[a]]]
      BY <1>2 DEF Receive
    <2>2. [Nothing(a) EXCEPT !.op = op, !.seen = status[a]].op = op
      BY DEF Nothing
    <2>3. op # "verify"
      BY <1>2 DEF Receive, Admits, Section
    <2>4. req'[p].op = op /\ \A q \in Request : q # p => req'[q] = req[q]
      BY <1>0, <2>1, <2>2
    <2> QED BY <1>2, <2>3, <2>4, QuietEffects DEF Receive
  <1>3. CASE Abandon(p) \/ SaveRefused(p) \/ ConfirmRefused(p)
    BY <1>1, <1>3 DEF Abandon, SaveRefused, ConfirmRefused
  <1>4. CASE SaveClient(p) \/ SaveCreditRequest(p) \/ SaveProject(p)
    BY <1>4, SaveEffects DEF SaveClient, SaveCreditRequest, SaveProject, Section
  <1>5. CASE OpenTransaction(p)
    <2>1. /\ req'[p].op = req[p].op /\ req[p].op # "verify"
          /\ \A q \in Request : q # p => req'[q] = req[q]
          /\ UNCHANGED <<status, row, section, steps, docs>>
      BY <1>0, <1>5 DEF OpenTransaction, Work, Section
    <2> QED BY <2>1, QuietEffects
  <1>6. ASSUME NEW d \in Doc, UploadDocument(p, d) \/ DestroyDocument(p, d)
        PROVE  Effects
    <2>1. /\ Done(p) /\ UNCHANGED <<status, row, section, steps>>
          /\ docs' = [docs EXCEPT ![req[p].app][d] = "unverified"]
               \/ docs' = [docs EXCEPT ![req[p].app][d] = "deleted"]
      BY <1>6 DEF UploadDocument, DestroyDocument
    <2>2. \A a \in App, x \in Doc : docs[a][x] # "none" => docs'[a][x] # "none"
      <3>1. docs \in [App -> [Doc -> Verdict \cup {"none", "deleted"}]]
        BY DEF Typed
      <3>2. CASE docs' = [docs EXCEPT ![req[p].app][d] = "unverified"]
        BY <3>1, <3>2
      <3>3. CASE docs' = [docs EXCEPT ![req[p].app][d] = "deleted"]
        BY <3>1, <3>3
      <3> QED BY <2>1, <3>2, <3>3
    <2>3. req'[p].op = "idle" /\ \A q \in Request : q # p => req'[q] = req[q]
      BY <2>1, DoneTyped
    <2> QED BY <2>1, <2>2, <2>3 DEF Effects, Kept, MovesOn, Saved
  <1>7. CASE CheckRequiredSections(p)
    <2>1. CASE RequiredSections(req[p].app)
      <3> DEFINE t == IF LocalProvider THEN {}
                      ELSE {d \in Doc : docs[req[p].app][d] \in {"unverified", "invalid"}}
                 j == {d \in Doc : docs[req[p].app][d] = "invalid"}
      <3>1. /\ req' = [req EXCEPT ![p].op = "verify", ![p].todo = t, ![p].rejected = j]
            /\ UNCHANGED <<status, row, section, steps, docs>>
        BY <1>7, <2>1 DEF CheckRequiredSections
      <3> HIDE DEF t, j
      <3>2. req'[p].app = req[p].app /\ \A q \in Request : q # p => req'[q] = req[q]
        BY <1>0, <3>1 DEF Work
      <3>3. HadDocument(req[p].app)
        BY <2>1 DEF RequiredSections, Attached, Verdict, HadDocument
      <3> QED BY <3>1, <3>2, <3>3, QuietEffects
    <2>2. CASE ~RequiredSections(req[p].app)
      <3>1. /\ RecordStep(req[p].app, "failed") /\ Done(p)
            /\ UNCHANGED <<status, row, section, docs>>
        BY <1>7, <2>2 DEF CheckRequiredSections
      <3>2. \A a \in App : steps[a] \subseteq steps'[a]
        BY <3>1 DEF RecordStep, Typed
      <3>3. req'[p].op = "idle" /\ \A q \in Request : q # p => req'[q] = req[q]
        BY <3>1, DoneTyped
      <3> QED BY <3>1, <3>2, <3>3 DEF Effects, Kept, MovesOn, Saved
    <2> QED BY <2>1, <2>2
  <1>8. ASSUME NEW answer \in {"valid", "invalid", "unavailable"}, VerifyDocument(p, answer)
        PROVE  Effects
    <2> DEFINE d == CHOOSE x \in req[p].todo : \A y \in req[p].todo : x <= y
    <2>1. /\ docs' = [docs EXCEPT ![req[p].app][d] =
                        IF \/ answer = "unavailable" \/ @ = "deleted"
                           \/ answer = "invalid" /\ d \in req[p].rejected
                          THEN @ ELSE answer]
          /\ UNCHANGED <<status, row, section, steps>>
      BY <1>8 DEF VerifyDocument
    <2>2. req[p].op = "verify" /\ req'[p].op = "verify" /\ req'[p].app = req[p].app
          /\ \A q \in Request : q # p => req'[q] = req[q]
      BY <1>0, <1>8 DEF VerifyDocument, Work
    <2> HIDE DEF d
    <2>3. \A a \in App, x \in Doc : docs[a][x] # "none" => docs'[a][x] # "none"
      BY <2>1 DEF Typed
    <2> QED BY <2>1, <2>2, <2>3 DEF Effects, Kept, MovesOn, Saved
  <1>9. CASE ExhaustBudget(p)
    <2>1. /\ req[p].op = "verify" /\ req'[p].app = req[p].app
          /\ \A q \in Request : q # p => req'[q] = req[q]
          /\ UNCHANGED <<status, row, section, steps, docs>>
      BY <1>0, <1>9 DEF ExhaustBudget, Work
    <2> QED BY <2>1, QuietEffects
  <1>10. ASSUME NEW force \in BOOLEAN, FinishValidation(p, force)
         PROVE  Effects
    BY <1>10, FinishEffects
  <1>11. ASSUME NEW b \in Branch \cup {NoBranch}, ConfirmAndSubmit(p, b)
         PROVE  Effects
    BY <1>11, ConfirmEffects
  <1> QED
    BY <1>2, <1>3, <1>4, <1>5, <1>6, <1>7, <1>8, <1>9, <1>10, <1>11 DEF Serve

LEMMA StepEffects == Typed /\ VerifiesSomething /\ [Next]_vars => Effects
  <1> SUFFICES ASSUME Typed, VerifiesSomething, [Next]_vars PROVE Effects
    OBVIOUS
  <1>1. ASSUME NEW a \in App, Create(a)
        PROVE  Effects
    BY <1>1 DEF Create, Effects, Kept, MovesOn, Saved, Typed
  <1>2. ASSUME NEW a \in App, DeleteUnfinished(a)
        PROVE  Effects
    BY <1>2 DEF DeleteUnfinished, Effects, Kept, MovesOn, Saved, Typed
  <1>3. ASSUME NEW a \in App, Cancel(a)
        PROVE  Effects
    <2>1. Position[status[a]] <= 7
      BY <1>3, CustomerMoves DEF Cancel, MayApply, Typed
    <2> QED BY <1>3, <2>1 DEF Cancel, MayApply, Effects, Kept, MovesOn, Advances, Saved, Typed
  <1>4. CASE UNCHANGED vars
    BY <1>4 DEF vars, Effects, Kept, MovesOn, Saved
  <1> QED BY <1>1, <1>2, <1>3, <1>4, ServeEffects DEF Next

LEMMA InitProgress == Init => ProgressInv
  <1> SUFFICES ASSUME Init PROVE ProgressInv
    OBVIOUS
  <1>1. \A a \in App : status[a] = "DRAFT" /\ row[a] = "absent"
    BY DEF Init
  <1>2. ProgressEarned
    BY <1>1, Positions DEF ProgressEarned, HasReached, Completes, Section
  <1>3. VerifiesSomething
    BY DEF Init, Nothing, VerifiesSomething
  <1> QED BY <1>1, <1>2, <1>3, InitTyped DEF ProgressInv, TrashedUnfinished

(* The positions where the sections and validation 1 are due.               *)
LEMMA Thresholds ==
  /\ Position[Completes("client")] = 2 /\ Position[Completes("credit")] = 3
  /\ Position[Completes("project")] = 4
  BY Positions DEF Completes

LEMMA ProgressStep == ProgressInv /\ [Next]_vars => ProgressInv'
  <1> SUFFICES ASSUME ProgressInv, [Next]_vars PROVE ProgressInv'
    OBVIOUS
  <1>1. Typed /\ Typed' /\ ProgressEarned /\ VerifiesSomething /\ TrashedUnfinished
    BY TypedStep DEF ProgressInv
  <1>2. Effects
    BY <1>1, StepEffects
  <1>3. VerifiesSomething'
    <2>1. \A a \in App : HadDocument(a) => HadDocument(a)'
      BY <1>2 DEF Effects, Kept, HadDocument
    <2>2. \A p \in Request : req'[p].app \in App
      BY <1>1 DEF Typed, Work
    <2>3. ASSUME NEW p \in Request, req'[p].op = "verify"
          PROVE  HadDocument(req'[p].app)
      BY <1>1, <1>2, <2>3 DEF VerifiesSomething, Effects, Kept
    <2>4. \A p \in Request : HadDocument(req'[p].app) => HadDocument(req[p].app)'
      BY <1>2, <2>2 DEF Effects, Kept, HadDocument
    <2> QED BY <2>3, <2>4 DEF VerifiesSomething
  <1>4. TrashedUnfinished'
    BY <1>1, <1>2 DEF TrashedUnfinished, Effects, MovesOn, Typed
  <1>5. ProgressEarned'
    <2> SUFFICES ASSUME NEW a \in App, status'[a] # "CANCELLED"
                 PROVE  /\ \A k \in Section :
                             HasReached(status'[a], Completes(k)) => Saved(a, k)'
                        /\ HasReached(status'[a], "VALIDATION_1_COMPLETED") =>
                             "passed" \in steps'[a] /\ \E d \in Doc : docs'[a][d] # "none"
      BY DEF ProgressEarned
    <2>1. /\ \A k \in Section : Saved(a, k) => Saved(a, k)'
          /\ "passed" \in steps[a] => "passed" \in steps'[a]
          /\ HadDocument(a) => \E d \in Doc : docs'[a][d] # "none"
      BY <1>2 DEF Effects, Kept, HadDocument
    <2>2. status[a] # "CANCELLED" =>
            /\ \A k \in Section : HasReached(status[a], Completes(k)) => Saved(a, k)
            /\ HasReached(status[a], "VALIDATION_1_COMPLETED") =>
                 "passed" \in steps[a] /\ HadDocument(a)
      BY <1>1 DEF ProgressEarned, HadDocument
    <2>3. CASE status'[a] = status[a]
      BY <2>1, <2>2, <2>3
    <2>4. CASE Advances(a)
      <3>1. CASE status[a] = "DRAFT" /\ status'[a] = "STEP_1_COMPLETED" /\ Saved(a, "client")'
        BY <3>1, Positions, Thresholds DEF HasReached, Section
      <3>2. CASE /\ status[a] = "STEP_1_COMPLETED" /\ status'[a] = "STEP_2_COMPLETED"
                 /\ Saved(a, "credit")'
        BY <2>1, <2>2, <3>2, Positions, Thresholds DEF HasReached, Section
      <3>3. CASE /\ status[a] = "STEP_2_COMPLETED" /\ status'[a] = "READY_FOR_VALIDATION_1"
                 /\ Saved(a, "project")'
        BY <2>1, <2>2, <3>3, Positions, Thresholds DEF HasReached, Section
      <3>4. CASE /\ status[a] = "READY_FOR_VALIDATION_1"
                 /\ status'[a] = "VALIDATION_1_COMPLETED"
                 /\ "passed" \in steps'[a] /\ HadDocument(a)
        BY <2>1, <2>2, <3>4, Positions, Thresholds DEF HasReached, Section
      <3>5. CASE status[a] = "VALIDATION_1_COMPLETED" /\ status'[a] = "SUBMITTED"
        BY <2>1, <2>2, <3>5, Positions, Thresholds DEF HasReached, Section
      <3> QED BY <2>4, <3>1, <3>2, <3>3, <3>4, <3>5 DEF Advances
    <2> QED BY <1>2, <2>3, <2>4 DEF Effects, MovesOn
  <1> QED BY <1>1, <1>3, <1>4, <1>5 DEF ProgressInv

(* A status is earned: no interleaving of requests that decide on stale     *)
(* copies takes a dossier past a section it has not saved, or past a        *)
(* validation it has not passed.                                            *)
THEOREM ProgressIsEarned == Spec => []ProgressEarned
  <1>1. ProgressInv => ProgressEarned
    BY DEF ProgressInv
  <1> QED BY <1>1, InitProgress, ProgressStep, PTL DEF Spec

(* The row of a deleted dossier stays deleted and its status never moves.   *)
(* (A save or an upload that had bound it may still write a section or a    *)
(* document of it.)                                                         *)
THEOREM DeletedStays == Spec => TrashedStays
  <1> DEFINE Stays == \A a \in App : row[a] = "trashed" =>
                        row'[a] = "trashed" /\ status'[a] = status[a]
                          /\ CanBeDeletedByCustomer(status[a])
  <1>1. ProgressInv /\ [Next]_vars => [Stays]_vars
    <2> SUFFICES ASSUME ProgressInv, [Next]_vars PROVE Stays
      OBVIOUS
    <2>1. Effects
      BY StepEffects DEF ProgressInv
    <2> QED BY <2>1 DEF ProgressInv, TrashedUnfinished, Effects, MovesOn
  <1> QED BY <1>1, InitProgress, ProgressStep, PTL DEF Spec, TrashedStays

(* A late request never takes a dossier back in STATUS_ORDER.               *)
THEOREM StatusOnlyAdvances == Spec => NoRegression
  <1> DEFINE Forward == \A a \in App : HasReached(status'[a], status[a])
  <1>1. ProgressInv /\ [Next]_vars => [Forward]_vars
    <2> SUFFICES ASSUME ProgressInv, [Next]_vars, NEW a \in App
                 PROVE  HasReached(status'[a], status[a])
      OBVIOUS
    <2>1. status[a] \in Status /\ MovesOn(a)
      BY StepEffects DEF ProgressInv, Typed, Effects
    <2>2. CASE status'[a] = status[a]
      BY <2>1, <2>2, Positions DEF HasReached
    <2>3. CASE Advances(a)
      BY <2>1, <2>3, Positions DEF HasReached, Advances
    <2> QED BY <2>1, <2>2, <2>3 DEF MovesOn
  <1> QED BY <1>1, InitProgress, ProgressStep, PTL DEF Spec, NoRegression
=============================================================================
