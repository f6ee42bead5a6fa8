---------------------------- MODULE PortalProofs ----------------------------
(***************************************************************************)
(* Proofs about the pages of the portals: Wizard, for any entries and      *)
(* documents and any card a document may belong to; Review, for any        *)
(* dossiers and reads out; AppointmentPage, for any dossiers, slots and    *)
(* reads out; Listings, for any of its pages, lists of any length that     *)
(* change any number of times, and any number of loads out.                *)
(***************************************************************************)
EXTENDS Listings, Review, AppointmentPage, Wizard, Integers, SequenceTheorems,
        WellFoundedInduction, TLAPS

-----------------------------------------------------------------------------
(* The customer's application form.                                        *)

Place == Form \cup {"validation", "detail", "elsewhere", "idle"}
Copy == [status : Standing \cup {"none"}, kept : [Form -> Nat], docs : SUBSET File]
Verdict == {"none", "unverified", "valid", "invalid", "deleted"}

Save == [of : Form \cup {"none"}, entry : Nat, stage : {"none", "sent", "saved", "refused"}]
Loop == [of : {"none", "client", "credit"}, left : Int, doc : File \cup {0},
         stage : {"none", "sent", "stored", "failed"}, here : BOOLEAN]
Withdrawal ==
  [doc : File \cup {0}, stage : {"none", "sent", "removed", "refused"}, here : BOOLEAN]
DeedOut == [deed : {"none", "check", "force", "confirm"},
            stage : {"none", "sent", "judging", "answered", "documents", "incomplete", "refused"},
            docs : SUBSET File, copy : Copy, here : BOOLEAN]

SavingOK == saving \in Save /\ (saving.stage # "none" => saving.of \in Form)
UploadOK == upload \in Loop
RemovalOK == removal \in Withdrawal
ControlOK == control \in DeedOut
PageOK ==
  /\ step \in Place /\ read \in {"none", "sent", "answered"}
  /\ answer \in Copy /\ copy \in Copy /\ typed \in Nat /\ card \subseteq File
ServerOK ==
  /\ standing \in Standing /\ kept \in [Form -> Nat] /\ verdicts \in [File -> Verdict]
  /\ strayed \in BOOLEAN
Typed == SavingOK /\ UploadOK /\ RemovalOK /\ ControlOK /\ PageOK /\ ServerOK

-----------------------------------------------------------------------------
(* The statuses in their order.                                            *)
LEMMA Ranks ==
  /\ Standing = {"DRAFT", "STEP_1_COMPLETED", "STEP_2_COMPLETED", "READY_FOR_VALIDATION_1",
                 "VALIDATION_1_COMPLETED", "SUBMITTED"}
  /\ Rank("DRAFT") = 1 /\ Rank("STEP_1_COMPLETED") = 2 /\ Rank("STEP_2_COMPLETED") = 3
  /\ Rank("READY_FOR_VALIDATION_1") = 4 /\ Rank("VALIDATION_1_COMPLETED") = 5
  /\ Rank("SUBMITTED") = 6
  <1>1. DOMAIN Progress = 1..6
    BY DEF Progress
  <1>2. /\ Progress[1] = "DRAFT" /\ Progress[2] = "STEP_1_COMPLETED"
        /\ Progress[3] = "STEP_2_COMPLETED" /\ Progress[4] = "READY_FOR_VALIDATION_1"
        /\ Progress[5] = "VALIDATION_1_COMPLETED" /\ Progress[6] = "SUBMITTED"
    BY DEF Progress
  <1>3. \A i \in 1..6 : i = 1 \/ i = 2 \/ i = 3 \/ i = 4 \/ i = 5 \/ i = 6
    OBVIOUS
  <1>4. ASSUME NEW i \in 1..6 PROVE Rank(Progress[i]) = i
    <2>1. \A j \in 1..6 : Progress[j] = Progress[i] => j = i
      BY <1>2, <1>3
    <2> QED BY <2>1, <1>1 DEF Rank
  <1>5. /\ Rank(Progress[1]) = 1 /\ Rank(Progress[2]) = 2 /\ Rank(Progress[3]) = 3
        /\ Rank(Progress[4]) = 4 /\ Rank(Progress[5]) = 5 /\ Rank(Progress[6]) = 6
    BY <1>4
  <1> QED BY <1>1, <1>2, <1>3, <1>5 DEF Standing

(* A status reached stays reached along the order.                         *)
LEMMA PastIsOrder ==
  /\ \A s \in Standing : Past(s, s)
  /\ \A s, t, u \in Standing : Past(s, t) /\ Past(t, u) => Past(s, u)
  /\ \A s, t \in Standing : ~Past(s, t) => Past(t, s)
  <1>1. \A s \in Standing : Rank(s) \in Nat
    BY Ranks
  <1> QED BY <1>1 DEF Past

(* Leaving a page changes no request but in whom it reports to.            *)
LEMMA OpenTyped ==
  ASSUME Typed, NEW s \in Place, Open(s)
  PROVE  /\ PageOK' /\ UploadOK' /\ RemovalOK' /\ ControlOK'
         /\ ~upload'.here /\ ~removal'.here /\ ~control'.here
         /\ upload'.of = upload.of /\ upload'.stage = upload.stage /\ upload'.doc = upload.doc
         /\ removal'.doc = removal.doc /\ removal'.stage = removal.stage
         /\ control'.stage = control.stage /\ control'.docs = control.docs
         /\ control'.copy = control.copy /\ control'.deed = control.deed
  <1> USE DEF Typed, Open
  <1>1. PageOK'
    BY DEF PageOK, NoCopy, Copy, Form
  <1>2. UploadOK'
    BY DEF UploadOK, Loop
  <1>3. /\ ~upload'.here /\ upload'.of = upload.of
        /\ upload'.stage = upload.stage /\ upload'.doc = upload.doc
    BY DEF UploadOK, Loop
  <1>4. RemovalOK'
    BY DEF RemovalOK, Withdrawal
  <1>5. ~removal'.here /\ removal'.doc = removal.doc /\ removal'.stage = removal.stage
    BY DEF RemovalOK, Withdrawal
  <1>6. ControlOK'
    BY DEF ControlOK, DeedOut
  <1>7. /\ ~control'.here /\ control'.stage = control.stage /\ control'.deed = control.deed
        /\ control'.docs = control.docs /\ control'.copy = control.copy
    BY DEF ControlOK, DeedOut
  <1> QED BY <1>1, <1>2, <1>3, <1>4, <1>5, <1>6, <1>7

(* What was not out is not out on the next page either.                    *)
LEMMA NothingStaysNothing ==
  ASSUME NEW s, Open(s)
  PROVE  /\ upload = NoUpload => upload' = NoUpload
         /\ removal = NoRemoval => removal' = NoRemoval
         /\ control = NoControl => control' = NoControl
  <1>1. [NoUpload EXCEPT !.here = FALSE] = NoUpload
    <2>1. NoUpload = [NoUpload EXCEPT !.here = NoUpload.here]
      BY Zenon DEF NoUpload
    <2> QED BY <2>1 DEF NoUpload
  <1>2. [NoRemoval EXCEPT !.here = FALSE] = NoRemoval
    <2>1. NoRemoval = [NoRemoval EXCEPT !.here = NoRemoval.here]
      BY Zenon DEF NoRemoval
    <2> QED BY <2>1 DEF NoRemoval
  <1>3. [NoControl EXCEPT !.here = FALSE] = NoControl
    <2>1. NoControl = [NoControl EXCEPT !.here = NoControl.here]
      BY Zenon DEF NoControl
    <2> QED BY <2>1 DEF NoControl
  <1> QED BY <1>1, <1>2, <1>3 DEF Open

(* The customer's documents as a set and the answer that carries them.     *)
LEMMA ResourceTyped ==
  ASSUME NEW st \in Standing, NEW v \in [File -> Verdict], kept \in [Form -> Nat]
  PROVE  Resource(st, v) \in Copy /\ Resource(st, v).status = st
  BY DEF Resource, Copy

(* What stands for nothing out is of its type.                             *)
LEMMA NothingTyped ==
  /\ NoCopy \in Copy /\ NoSave \in Save /\ NoUpload \in Loop
  /\ NoRemoval \in Withdrawal /\ NoControl \in DeedOut
  <1>1. NoCopy \in Copy
    BY DEF NoCopy, Copy
  <1>2. NoSave \in Save
    BY DEF Save, NoSave
  <1>3. NoUpload \in Loop
    BY DEF Loop, NoUpload
  <1>4. NoRemoval \in Withdrawal
    BY DEF Withdrawal, NoRemoval
  <1>5. NoControl \in DeedOut
    BY <1>1 DEF DeedOut, NoControl
  <1> QED BY <1>1, <1>2, <1>3, <1>4, <1>5

(* Going from page to page, reading, typing, opening a dialog.             *)
LEMMA PagesTyped ==
  ASSUME Typed,
         \/ \E s \in Form \cup {"validation", "detail", "elsewhere"} : GoTo(s)
         \/ Resume \/ AnswerRead \/ FailRead \/ FillPage
         \/ \E e \in Entry : Type(e)
         \/ AskToForce \/ AskToConfirm \/ ClosePopup
  PROVE  Typed'
  <1>1. CASE \E s \in Form \cup {"validation", "detail", "elsewhere"} : GoTo(s)
    BY <1>1, OpenTyped DEF GoTo, Typed, Place, SavingOK, ServerOK, server, Loose
  <1>2. CASE Resume
    <2>1. ResumeAt(copy.status) \in Place
      BY DEF ResumeAt, Place, Form
    <2> QED BY <1>2, <2>1, OpenTyped DEF Resume, Typed, SavingOK, ServerOK, server, Loose
  <1>3. CASE AnswerRead
    <2>1. Resource(standing, verdicts) \in Copy
      BY ResourceTyped DEF Typed, ServerOK
    <2> QED BY <1>3, <2>1 DEF AnswerRead, Typed, PageOK, SavingOK, UploadOK, RemovalOK,
                              ControlOK, ServerOK, out, server
  <1>4. CASE FailRead
    BY <1>4 DEF FailRead, Typed, PageOK, SavingOK, UploadOK, RemovalOK, ControlOK, ServerOK,
                out, server
  <1>5. CASE FillPage
    <2>1. typed' \in Nat /\ card' \subseteq File
      BY <1>5 DEF FillPage, Typed, PageOK, Copy
    <2> QED BY <1>5, <2>1, NothingTyped DEF FillPage, Typed, PageOK, SavingOK, UploadOK,
                              RemovalOK, ControlOK, ServerOK, out, server
  <1>6. CASE \E e \in Entry : Type(e)
    BY <1>6, WizardAssumption DEF WizardAssumption, Type, Typed, PageOK, SavingOK, UploadOK,
             RemovalOK, ControlOK, ServerOK, out, server
  <1>7. CASE AskToForce \/ AskToConfirm \/ ClosePopup
    BY <1>7 DEF AskToForce, AskToConfirm, ClosePopup, Typed, PageOK, SavingOK, UploadOK,
                RemovalOK, ControlOK, ServerOK, out, server
  <1> QED BY <1>1, <1>2, <1>3, <1>4, <1>5, <1>6, <1>7

(* Which page offers what.                                                 *)
LEMMA NextOnForms ==
  /\ "next" \in Controls => step \in Form
  /\ "choose" \in Controls => step \in {"client", "credit"} /\ upload = NoUpload
  /\ "remove" \in Controls => step \in {"client", "credit"}
  /\ "resume" \in Controls => step = "detail" /\ copy # NoCopy
  <1> USE DEF Controls, Form
  <1>1. CASE step = "client"
    BY <1>1 DEF ClientFields, PersonalCard, ClientBar, Given, NextButton, IdentityBox,
                DiplomaBox,
                FileInput, Listed
  <1>2. CASE step = "credit"
    BY <1>2 DEF CreditFields, AmountInputs, FinancingBoxes, CreditBar, Given, NextButton,
                DocumentUploadBox, FileInput, Listed
  <1>3. CASE step = "project"
    BY <1>3 DEF ProjectFields, ProjectBar, Given, NextButton
  <1>4. CASE step = "validation"
    BY <1>4 DEF Given, ValidationControls, ErrorList, SubmitArea, ForceDialog, ConfirmDialog
  <1>5. CASE step = "detail"
    BY <1>5 DEF Given, Summary
  <1>6. CASE step \notin {"client", "credit", "project", "validation", "detail"}
    BY <1>6
  <1> QED BY <1>1, <1>2, <1>3, <1>4, <1>5, <1>6

(* Saving a section.                                                       *)
LEMMA SavesTyped ==
  ASSUME Typed, SubmitForm \/ SaveForm \/ LoseSave \/ MoveOn \/ StayWithError
  PROVE  Typed'
  <1> USE DEF Typed
  <1>1. CASE SubmitForm
    <2>1. step \in Form
      BY <1>1, NextOnForms DEF SubmitForm
    <2>2. SavingOK'
      BY <1>1, <2>1 DEF SubmitForm, SavingOK, Save, PageOK
    <2> QED BY <1>1, <2>2 DEF SubmitForm, PageOK, UploadOK, RemovalOK, ControlOK, ServerOK,
                page, server
  <1>2. CASE SaveForm
    <2>1. SavingOK'
      BY <1>2 DEF SaveForm, SavingOK, Save
    <2>2. ServerOK'
      <3>1. Gives[saving.of] \in Standing \/ saving.of \notin Form
        BY Ranks DEF Gives, Form
      <3> QED BY <1>2, <3>1 DEF SaveForm, SavingOK, Save, ServerOK
    <2> QED BY <1>2, <2>1, <2>2 DEF SaveForm, PageOK, UploadOK, RemovalOK, ControlOK, page
  <1>3. CASE LoseSave
    <2>1. SavingOK'
      BY <1>3 DEF LoseSave, SavingOK, Save
    <2> QED BY <1>3, <2>1 DEF LoseSave, PageOK, UploadOK, RemovalOK, ControlOK, ServerOK,
                page, server
  <1>4. CASE MoveOn
    <2>1. SavingOK'
      BY <1>4, NothingTyped DEF MoveOn, SavingOK, NoSave
    <2>2. After[saving.of] \in Place
      BY <1>4 DEF MoveOn, SavingOK, After, Form, Place
    <2> QED BY <1>4, <2>1, <2>2, OpenTyped DEF MoveOn, PageOK, UploadOK, RemovalOK, ControlOK,
                ServerOK, page, server
  <1>5. CASE StayWithError
    <2>1. SavingOK'
      BY <1>5, NothingTyped DEF StayWithError, SavingOK, NoSave
    <2> QED BY <1>5, <2>1 DEF StayWithError, PageOK, UploadOK, RemovalOK, ControlOK, ServerOK,
                page, server
  <1> QED BY <1>1, <1>2, <1>3, <1>4, <1>5

(* Uploading to a card.                                                    *)
LEMMA UploadsTyped ==
  ASSUME Typed,
         \/ \E n \in 1..Cardinality(File) : ChooseFiles(n)
         \/ \E d \in File : StoreDocument(d)
         \/ FailUpload \/ ListDocument
  PROVE  Typed'
  <1> USE DEF Typed
  <1>1. CASE \E n \in 1..Cardinality(File) : ChooseFiles(n)
    <2>1. PICK n \in 1..Cardinality(File) : ChooseFiles(n)
      BY <1>1
    <2>2. UploadOK'
      BY <2>1, NextOnForms DEF ChooseFiles, UploadOK, Loop
    <2> QED BY <2>1, <2>2 DEF ChooseFiles, PageOK, SavingOK, RemovalOK, ControlOK, ServerOK,
                              page, server
  <1>2. CASE \E d \in File : StoreDocument(d)
    <2>1. PICK d \in File : StoreDocument(d)
      BY <1>2
    <2>2. UploadOK'
      BY <2>1 DEF StoreDocument, UploadOK, Loop
    <2>3. ServerOK'
      BY <2>1 DEF StoreDocument, ServerOK, Verdict
    <2> QED BY <2>1, <2>2, <2>3 DEF StoreDocument, PageOK, SavingOK, RemovalOK, ControlOK, page
  <1>3. CASE FailUpload
    <2>1. UploadOK'
      BY <1>3 DEF FailUpload, UploadOK, Loop
    <2> QED BY <1>3, <2>1 DEF FailUpload, PageOK, SavingOK, RemovalOK, ControlOK, ServerOK,
                              page, server
  <1>4. CASE ListDocument
    <2>1. UploadOK'
      <3>1. CASE upload.left = 1
        BY <1>4, <3>1, NothingTyped DEF ListDocument, NextFile, UploadOK
      <3>2. CASE upload.left # 1
        <4>1. upload.left - 1 \in Int
          BY DEF UploadOK, Loop
        <4>2. upload' = [upload EXCEPT !.left = upload.left - 1, !.doc = 0, !.stage = "sent"]
          BY <1>4, <3>2 DEF ListDocument, NextFile
        <4> QED BY <4>1, <4>2 DEF UploadOK, Loop
      <3> QED BY <3>1, <3>2
    <2>2. card' \subseteq File
      BY <1>4 DEF ListDocument, PageOK, UploadOK, Loop
    <2> QED BY <1>4, <2>1, <2>2 DEF ListDocument, PageOK, SavingOK, RemovalOK, ControlOK,
                                    ServerOK, server
  <1> QED BY <1>1, <1>2, <1>3, <1>4

(* Removing from a card.                                                   *)
LEMMA RemovalsTyped ==
  ASSUME Typed,
         \/ \E d \in File : RemoveDocument(d)
         \/ DropDocument \/ LoseRemoval \/ UnlistDocument
  PROVE  Typed'
  <1> USE DEF Typed
  <1>1. CASE \E d \in File : RemoveDocument(d)
    <2>1. RemovalOK'
      BY <1>1 DEF RemoveDocument, RemovalOK, Withdrawal
    <2> QED BY <1>1, <2>1 DEF RemoveDocument, PageOK, SavingOK, UploadOK, ControlOK, ServerOK,
                              page, server
  <1>2. CASE DropDocument
    <2>1. RemovalOK'
      BY <1>2 DEF DropDocument, RemovalOK, Withdrawal
    <2>2. ServerOK'
      BY <1>2 DEF DropDocument, ServerOK, Verdict
    <2> QED BY <1>2, <2>1, <2>2 DEF DropDocument, PageOK, SavingOK, UploadOK, ControlOK, page
  <1>3. CASE LoseRemoval
    <2>1. RemovalOK'
      BY <1>3 DEF LoseRemoval, RemovalOK, Withdrawal
    <2> QED BY <1>3, <2>1 DEF LoseRemoval, PageOK, SavingOK, UploadOK, ControlOK, ServerOK,
                              page, server
  <1>4. CASE UnlistDocument
    BY <1>4, NothingTyped DEF UnlistDocument, PageOK, SavingOK, UploadOK, RemovalOK, ControlOK,
                              ServerOK, server
  <1> QED BY <1>1, <1>2, <1>3, <1>4

(* Validation 1 and the submission.                                        *)
LEMMA ControlsTyped ==
  ASSUME Typed,
         \/ RunCheck \/ ForceCheck \/ Confirm \/ BeginCheck \/ Lock \/ LoseControl \/ ShowControl
         \/ \E good, bad, held \in SUBSET control.docs : EndCheck(good, bad, held)
  PROVE  Typed'
  <1> USE DEF Typed
  <1>1. CASE RunCheck \/ ForceCheck \/ Confirm
    <2>1. PICK deed \in {"check", "force", "confirm"} : Send(deed)
      BY <1>1 DEF RunCheck, ForceCheck, Confirm
    <2>2. ControlOK'
      BY <2>1, NothingTyped DEF Send, ControlOK, DeedOut
    <2> QED BY <2>1, <2>2 DEF Send, PageOK, SavingOK, UploadOK, RemovalOK, ServerOK, server
  <1>2. CASE BeginCheck
    <2>1. ControlOK'
      BY <1>2 DEF BeginCheck, ControlOK, DeedOut, Filed
    <2> QED BY <1>2, <2>1 DEF BeginCheck, PageOK, SavingOK, UploadOK, RemovalOK, ServerOK,
                              page, server
  <1>3. CASE Lock
    <2>1. "SUBMITTED" \in Standing
      BY Ranks
    <2>2. Resource("SUBMITTED", verdicts) \in Copy
      BY <2>1, ResourceTyped DEF ServerOK
    <2>3. ControlOK'
      BY <1>3, <2>2 DEF Lock, ControlOK, DeedOut
    <2> QED BY <1>3, <2>1, <2>3 DEF Lock, PageOK, SavingOK, UploadOK, RemovalOK, ServerOK, page
  <1>4. CASE LoseControl
    <2>1. ControlOK'
      BY <1>4, NothingTyped DEF LoseControl, ControlOK, DeedOut
    <2> QED BY <1>4, <2>1 DEF LoseControl, PageOK, SavingOK, UploadOK, RemovalOK, ServerOK,
                              page, server
  <1>5. CASE ShowControl
    <2>1. copy' \in Copy
      BY <1>5 DEF ShowControl, PageOK, ControlOK, DeedOut
    <2> QED BY <1>5, <2>1, NothingTyped DEF ShowControl, PageOK, SavingOK, UploadOK, RemovalOK,
                                            ControlOK, ServerOK, server
  <1>6. CASE \E good, bad, held \in SUBSET control.docs : EndCheck(good, bad, held)
    <2>1. PICK good, bad, held \in SUBSET control.docs : EndCheck(good, bad, held)
      BY <1>6
    <2>2. standing' \in Standing /\ verdicts' \in [File -> Verdict] /\ UNCHANGED kept
      BY <2>1, Ranks DEF EndCheck, ServerOK, Verdict
    <2>3. \/ control' = [control EXCEPT !.stage = "answered", !.copy = Resource(standing', verdicts')]
          \/ control' = [control EXCEPT !.stage = "documents", !.copy = NoCopy]
      BY <2>1 DEF EndCheck
    <2>4. Resource(standing', verdicts') \in Copy
      BY <2>2, ResourceTyped DEF ServerOK
    <2>5. ControlOK'
      BY <2>3, <2>4, NothingTyped DEF ControlOK, DeedOut
    <2> QED BY ZenonT(40), <2>1, <2>2, <2>5 DEF EndCheck, PageOK, SavingOK, UploadOK, RemovalOK, ServerOK,
                page
  <1> QED BY <1>1, <1>2, <1>3, <1>4, <1>5, <1>6

(* Every variable keeps its type.                                          *)
LEMMA TypedNext == Typed /\ [WizardNext]_wizardVars => Typed'
  <1> SUFFICES ASSUME Typed, [WizardNext]_wizardVars PROVE Typed'
    OBVIOUS
  <1>1. CASE WizardNext
    BY <1>1, PagesTyped, SavesTyped, UploadsTyped, RemovalsTyped, ControlsTyped DEF WizardNext
  <1>2. CASE UNCHANGED wizardVars
    BY <1>2 DEF wizardVars, page, out, server, Typed, PageOK, SavingOK, UploadOK, RemovalOK,
                ControlOK, ServerOK
  <1> QED BY <1>1, <1>2

(* The empty page is typed.                                                *)
LEMMA TypedInit == WizardInit \/ WizardIdle => Typed
  <1> SUFFICES ASSUME Empty, step \in {"elsewhere", "idle"} PROVE Typed
    BY DEF WizardInit, WizardIdle
  <1>1. PageOK /\ ServerOK
    BY NothingTyped, Ranks DEF Empty, PageOK, ServerOK, Place, Verdict
  <1> QED BY <1>1, NothingTyped DEF Empty, Typed, SavingOK, UploadOK, RemovalOK, ControlOK,
              NoSave

-----------------------------------------------------------------------------
(* The server never takes a dossier back, and neither a saved section nor a*)
(* copy of the dossier is ahead of it.                                     *)
Reached(c) == c = NoCopy \/ (c.status \in Standing /\ Past(standing, c.status))

LedInv ==
  /\ saving.stage = "saved" => Past(standing, Gives[saving.of])
  /\ Reached(copy) /\ Reached(answer) /\ Reached(control.copy)

(* A copy of the dossier stays behind it.                                  *)
LEMMA ReachedStays ==
  ASSUME NEW c, Reached(c), standing \in Standing, standing' \in Standing,
         Past(standing', standing)
  PROVE  c = NoCopy \/ (c.status \in Standing /\ Past(standing', c.status))
  BY PastIsOrder DEF Reached

(* The dossier never goes back to an earlier status.                       *)
LEMMA NeverBack ==
  ASSUME Typed, [WizardNext]_wizardVars
  PROVE  Past(standing', standing)
  <1> USE PastIsOrder DEF Typed, ServerOK
  <1>1. CASE UNCHANGED standing
    BY <1>1
  <1>2. CASE SaveForm
    <2>1. Gives[saving.of] \in Standing
      BY <1>2, Ranks DEF SaveForm, SavingOK, Gives, Form
    <2> QED BY <1>2, <2>1 DEF SaveForm
  <1>3. CASE Lock
    BY <1>3, Ranks DEF Lock, Past
  <1>4. CASE \E good, bad, held \in SUBSET control.docs : EndCheck(good, bad, held)
    BY <1>4, Ranks DEF EndCheck
  <1>5. CASE WizardNext
    <2>1. \/ UNCHANGED standing \/ SaveForm \/ Lock
          \/ \E good, bad, held \in SUBSET control.docs : EndCheck(good, bad, held)
      BY <1>5 DEF WizardNext, GoTo, Resume, AnswerRead, FailRead, FillPage, Type, SubmitForm,
                  LoseSave, MoveOn, StayWithError, ChooseFiles, StoreDocument, RemoveDocument,
                  FailUpload, ListDocument, DropDocument, LoseRemoval, UnlistDocument, Send,
                  RunCheck, ForceCheck, Confirm, AskToForce, AskToConfirm, ClosePopup,
                  BeginCheck, LoseControl, ShowControl, server
    <2> QED BY <2>1, <1>1, <1>2, <1>3, <1>4
  <1> QED BY <1>1, <1>5 DEF wizardVars, server

(* The copies on the way are those of before, or the dossier as it is.     *)
LEMMA CopiesHandedOn ==
  ASSUME Typed, [WizardNext]_wizardVars
  PROVE  /\ copy' \in {copy, NoCopy, answer, control.copy}
         /\ answer' \in {answer, NoCopy, Resource(standing, verdicts)}
         /\ control'.copy \in {control.copy, NoCopy, Resource(standing', verdicts')}
  <1> USE DEF Typed
  <1> DEFINE Handed ==
        /\ copy' \in {copy, NoCopy, answer, control.copy}
        /\ answer' \in {answer, NoCopy, Resource(standing, verdicts)}
        /\ control'.copy \in {control.copy, NoCopy, Resource(standing', verdicts')}
  <1>1. ASSUME NEW s \in Place, Open(s) PROVE Handed
    BY <1>1, OpenTyped DEF Open
  <1>2. CASE \/ \E s \in Form \cup {"validation", "detail", "elsewhere"} : GoTo(s)
             \/ Resume \/ MoveOn
    <2>1. CASE \E s \in Form \cup {"validation", "detail", "elsewhere"} : GoTo(s)
      BY <1>1, <2>1 DEF GoTo, Place
    <2>2. CASE Resume
      BY <1>1, <2>2 DEF Resume, ResumeAt, Place, Form
    <2>3. CASE MoveOn
      <3>1. After[saving.of] \in Place
        BY <2>3 DEF MoveOn, SavingOK, After, Form, Place
      <3> QED BY <1>1, <2>3, <3>1 DEF MoveOn, page
    <2> QED BY <1>2, <2>1, <2>2, <2>3
  <1>3. CASE \/ AnswerRead \/ FailRead \/ FillPage \/ \E e \in Entry : Type(e)
             \/ SubmitForm \/ SaveForm \/ LoseSave \/ StayWithError
             \/ AskToForce \/ AskToConfirm \/ ClosePopup
    BY <1>3 DEF AnswerRead, FailRead, FillPage, Type, SubmitForm, SaveForm, LoseSave,
                StayWithError, AskToForce, AskToConfirm, ClosePopup, page, out
  <1>4. CASE \/ \E n \in 1..Cardinality(File) : ChooseFiles(n)
             \/ \E d \in File : StoreDocument(d) \/ RemoveDocument(d)
             \/ FailUpload \/ ListDocument \/ DropDocument \/ LoseRemoval \/ UnlistDocument
    BY <1>4 DEF ChooseFiles, StoreDocument, RemoveDocument, FailUpload, ListDocument,
                DropDocument, LoseRemoval, UnlistDocument, page
  <1>5. CASE RunCheck \/ ForceCheck \/ Confirm
    <2>1. PICK deed \in {"check", "force", "confirm"} : Send(deed)
      BY <1>5 DEF RunCheck, ForceCheck, Confirm
    <2>2. control'.copy = NoCopy
      BY <2>1, NothingTyped DEF Send, NoControl
    <2> QED BY <2>1, <2>2 DEF Send
  <1>6. CASE BeginCheck
    <2>1. control'.copy = control.copy
      BY <1>6 DEF BeginCheck, ControlOK, DeedOut
    <2> QED BY <1>6, <2>1 DEF BeginCheck, page
  <1>7. CASE Lock
    <2>1. CASE standing = "VALIDATION_1_COMPLETED"
      <3>1. control'.copy = Resource("SUBMITTED", verdicts)
        BY <1>7, <2>1 DEF Lock, ControlOK, DeedOut
      <3>2. Resource("SUBMITTED", verdicts) = Resource(standing', verdicts')
        BY <1>7, <2>1 DEF Lock, Resource
      <3> QED BY <1>7, <3>1, <3>2 DEF Lock, page
    <2>2. CASE standing # "VALIDATION_1_COMPLETED"
      <3>1. control'.copy = control.copy
        BY <1>7, <2>2 DEF Lock, ControlOK, DeedOut
      <3> QED BY <1>7, <3>1 DEF Lock, page
    <2> QED BY <2>1, <2>2
  <1>8. CASE LoseControl
    <2>1. control'.copy = NoCopy
      BY <1>8 DEF LoseControl, ControlOK, DeedOut
    <2> QED BY <1>8, <2>1 DEF LoseControl, page
  <1>9. CASE ShowControl
    <2>1. control'.copy = NoCopy
      BY <1>9 DEF ShowControl, NoControl
    <2> QED BY <1>9, <2>1 DEF ShowControl
  <1>10. CASE \E good, bad, held \in SUBSET control.docs : EndCheck(good, bad, held)
    <2>1. \/ control' = [control EXCEPT !.stage = "answered", !.copy = Resource(standing', verdicts')]
          \/ control' = [control EXCEPT !.stage = "documents", !.copy = NoCopy]
      BY <1>10 DEF EndCheck
    <2>2. control'.copy \in {NoCopy, Resource(standing', verdicts')}
      BY <2>1 DEF ControlOK, DeedOut
    <2> QED BY <1>10, <2>2 DEF EndCheck, page
  <1>11. CASE UNCHANGED wizardVars
    BY <1>11 DEF wizardVars, page, out
  <1> QED BY <1>2, <1>3, <1>4, <1>5, <1>6, <1>7, <1>8, <1>9, <1>10, <1>11 DEF WizardNext

(* Every step keeps sections and copies behind the dossier.                *)
LEMMA LedNext ==
  ASSUME Typed, LedInv, [WizardNext]_wizardVars
  PROVE  LedInv'
  <1>1. standing \in Standing /\ standing' \in Standing /\ Past(standing', standing)
    BY TypedNext, NeverBack DEF Typed, ServerOK
  <1>2. saving'.stage = "saved" => Past(standing', Gives[saving'.of])
    <2>1. CASE SaveForm
      <3>1. Gives[saving.of] \in Standing
        BY <2>1, Ranks DEF SaveForm, Typed, SavingOK, Gives, Form
      <3>2. saving'.stage = "saved" =>
              saving'.of = saving.of /\ Past(standing', Gives[saving.of])
        BY <2>1, <3>1, PastIsOrder DEF SaveForm, Typed, SavingOK, Save
      <3> QED BY <3>2
    <2>2. CASE saving' = saving \/ saving'.stage # "saved"
      <3>1. saving.stage = "saved" => Gives[saving.of] \in Standing
        BY Ranks DEF Typed, SavingOK, Gives, Form
      <3> QED BY <2>2, <3>1, <1>1, PastIsOrder DEF LedInv
    <2>3. saving' = saving \/ saving'.stage # "saved" \/ SaveForm
      <3>1. LoseSave => saving'.stage # "saved"
        BY DEF LoseSave, Typed, SavingOK, Save
      <3>2. SubmitForm \/ MoveOn \/ StayWithError => saving'.stage # "saved"
        BY DEF SubmitForm, MoveOn, StayWithError, NoSave
      <3> QED
        BY <3>1, <3>2 DEF WizardNext, GoTo, Resume, AnswerRead, FailRead, FillPage, Type,
              ChooseFiles, StoreDocument, RemoveDocument, FailUpload, ListDocument,
              DropDocument, LoseRemoval, UnlistDocument, Send, RunCheck, ForceCheck, Confirm,
              AskToForce, AskToConfirm, ClosePopup, BeginCheck, Lock, LoseControl, ShowControl,
              EndCheck, wizardVars, out
    <2> QED BY <2>1, <2>2, <2>3
  <1>3. ASSUME NEW c, Reached(c)
        PROVE  c = NoCopy \/ (c.status \in Standing /\ Past(standing', c.status))
    BY <1>1, <1>3, ReachedStays
  <1>4. Resource(standing, verdicts).status = standing
        /\ Resource(standing', verdicts').status = standing'
    BY DEF Resource
  <1>5. Reached(copy)'
    BY <1>3, CopiesHandedOn DEF LedInv, Reached
  <1>6. Reached(answer)'
    BY <1>1, <1>3, <1>4, CopiesHandedOn DEF LedInv, Reached
  <1>7. Reached(control.copy)'
    BY <1>1, <1>3, <1>4, PastIsOrder, CopiesHandedOn DEF LedInv, Reached
  <1> QED BY <1>2, <1>5, <1>6, <1>7 DEF LedInv

(* Nothing is read or saved yet.                                           *)
LEMMA LedInit == WizardInit \/ WizardIdle => LedInv
  <1> SUFFICES ASSUME Empty PROVE LedInv
    BY DEF WizardInit, WizardIdle
  <1>1. control.copy = NoCopy
    BY DEF Empty, NoControl
  <1>2. saving.stage = "none"
    BY DEF Empty, NoSave
  <1> QED BY <1>1, <1>2 DEF LedInv, Reached, Empty

(* One customer at a form, or none.                                        *)
WizardSpec == (WizardInit \/ WizardIdle) /\ [][WizardNext]_wizardVars

(* A save that moves the customer, and the button that resumes the dossier,*)
(* lead to a step the server takes, however long the answer was on its way *)
(* and wherever the customer had gone.                                     *)
THEOREM SavesLeadOn == WizardSpec => LedToAnOpenStep
  <1> DEFINE Led ==
        /\ saving # NoSave /\ saving' = NoSave /\ step' # step
             => Past(standing, Needs[step'])
        /\ step = "detail" /\ copy # NoCopy
             => Past(standing, Needs[ResumeAt(copy.status)])
  <1>1. Typed /\ LedInv /\ [WizardNext]_wizardVars => [Led]_wizardVars
    <2> SUFFICES ASSUME Typed, LedInv, [WizardNext]_wizardVars PROVE Led
      OBVIOUS
    <2>1. ASSUME copy # NoCopy PROVE Past(standing, Needs[ResumeAt(copy.status)])
      <3>1. copy.status \in Standing /\ Past(standing, copy.status)
        BY <2>1 DEF LedInv, Reached
      <3>2. /\ Needs[ResumeAt(copy.status)] \in Standing
            /\ Past(copy.status, Needs[ResumeAt(copy.status)])
        BY <3>1, Ranks DEF Past, Needs, ResumeAt
      <3> QED BY <3>1, <3>2, PastIsOrder DEF Typed, ServerOK
    <2>2. ASSUME saving # NoSave, saving' = NoSave, step' # step
          PROVE  Past(standing, Needs[step'])
      <3>1. MoveOn
        <4>1. ~SaveForm /\ ~LoseSave
          BY <2>2 DEF SaveForm, LoseSave, page
        <4>2. ~SubmitForm /\ ~StayWithError
          BY <2>2 DEF SubmitForm, StayWithError, page
        <4> QED BY <2>2, <4>1, <4>2 DEF WizardNext, GoTo, Resume, AnswerRead, FailRead,
              FillPage, Type, ChooseFiles, StoreDocument, RemoveDocument, FailUpload,
              ListDocument, DropDocument, LoseRemoval, UnlistDocument, Send, RunCheck,
              ForceCheck, Confirm, AskToForce, AskToConfirm, ClosePopup, BeginCheck, Lock,
              LoseControl, ShowControl, EndCheck, wizardVars, out
      <3>2. step' = After[saving.of] /\ saving.of \in Form
        BY <2>2, <3>1 DEF MoveOn, Open, page, Typed, SavingOK
      <3>3. Needs[After[saving.of]] = Gives[saving.of]
        BY <3>2 DEF Needs, After, Gives, Form
      <3> QED BY <3>1, <3>2, <3>3 DEF MoveOn, LedInv
    <2> QED BY <2>1, <2>2
  <1> HIDE DEF Led
  <1>2. Typed /\ LedInv /\ [WizardNext]_wizardVars => (Typed /\ LedInv)'
    BY TypedNext, LedNext
  <1>3. WizardInit \/ WizardIdle => Typed /\ LedInv
    BY TypedInit, LedInit
  <1>4. WizardSpec => [][Led]_wizardVars
    BY <1>1, <1>2, <1>3, PTL DEF WizardSpec
  <1> QED BY <1>4 DEF LedToAnOpenStep, Led

-----------------------------------------------------------------------------
(* A page that found no request out, and had each of its own answered, is  *)
(* alone in what it asks; it asks nothing before it has its dossier.       *)
Alone ==
  /\ copy = NoCopy => ~Loose
  /\ saving # NoSave => saving.of = step
  /\ upload # NoUpload => upload.here
  /\ removal # NoRemoval => removal.here
  /\ control # NoControl => control.here

(* What a request reports to is on the page it was sent from.              *)
Reports ==
  /\ read # "none" => copy = NoCopy
  /\ upload.here => upload.of = step /\ upload.stage # "none"
  /\ removal.here => step \in {"client", "credit"}
  /\ control.here => step = "validation" /\ copy # NoCopy
  /\ upload.stage = "none" => upload = NoUpload
  /\ removal.stage = "none" => removal = NoRemoval
  /\ control.stage = "none" => control = NoControl
  /\ \A d \in control.docs : verdicts[d] # "none"

Stored == IF upload.stage = "stored" THEN {upload.doc} ELSE {}
Removed == IF removal.stage = "removed" THEN {removal.doc} ELSE {}

(* The card lags behind the server by the answers on their way.            *)
CardInv ==
  /\ upload.stage # "stored" => upload.doc = 0
  /\ upload.stage = "stored" =>
       upload.doc \in Filed /\ CardOf[upload.doc] = step /\ upload.doc \notin card
  /\ removal # NoRemoval => removal.doc \in card
  /\ \A d \in Removed : verdicts[d] = "deleted"
  /\ card = ({d \in Filed : CardOf[d] = step} \ Stored) \cup Removed

ValidationInv ==
  (IF control.stage = "answered" THEN control.copy ELSE copy) = Resource(standing, verdicts)

OwnInv ==
  /\ Reports
  /\ ~strayed => /\ Alone
                 /\ read = "answered" => answer = Resource(standing, verdicts)
                 /\ copy # NoCopy /\ step \in {"client", "credit"} => CardInv
                 /\ copy # NoCopy /\ step = "validation" => ValidationInv

OwnState == <<step, read, answer, copy, card, saving, upload, removal, control, strayed, server>>

(* A step that leaves the page, its requests and the server as they are.   *)
LEMMA OwnStays == OwnInv /\ UNCHANGED OwnState => OwnInv'
  <1> SUFFICES ASSUME OwnInv, UNCHANGED OwnState PROVE OwnInv'
    OBVIOUS
  <1>1. Resource(standing, verdicts)' = Resource(standing, verdicts) /\ Filed' = Filed
        /\ Stored' = Stored /\ Removed' = Removed /\ Loose' = Loose
    BY DEF OwnState, server, Resource, Filed, Stored, Removed, Loose
  <1>2. Reports'
    BY DEF OwnInv, OwnState, server, Reports
  <1>3. Alone => Alone'
    BY <1>1 DEF OwnState, server, Alone
  <1>4. CardInv => CardInv'
    BY <1>1 DEF OwnState, server, CardInv
  <1>5. ValidationInv => ValidationInv'
    BY <1>1 DEF OwnState, server, ValidationInv
  <1> QED BY <1>1, <1>2, <1>3, <1>4, <1>5 DEF OwnInv, OwnState, server

(* A page just opened is alone unless a request was out.                   *)
LEMMA OwnOpened ==
  ASSUME Typed, OwnInv, NEW s \in Place, Open(s), UNCHANGED server,
         \/ saving' = saving /\ strayed' = Loose
         \/ saving' = NoSave
             /\ strayed' = (upload # NoUpload \/ removal # NoRemoval \/ control # NoControl)
  PROVE  OwnInv'
  <1>1. copy' = NoCopy /\ read' \in {"none", "sent"}
    BY DEF Open
  <1>2. Reports'
    BY <1>1, OpenTyped, NothingStaysNothing DEF OwnInv, Reports, server
  <1>3. ~strayed' => ~Loose'
    BY NothingStaysNothing DEF Loose
  <1>4. ~strayed' => Alone'
    BY <1>3 DEF Alone, Loose
  <1> QED BY <1>1, <1>2, <1>4 DEF OwnInv

(* Going from page to page, reading, typing, opening a dialog.             *)
LEMMA OwnPages ==
  ASSUME Typed, OwnInv,
         \/ \E s \in Form \cup {"validation", "detail", "elsewhere"} : GoTo(s)
         \/ Resume \/ MoveOn \/ AnswerRead \/ FailRead \/ FillPage
         \/ \E e \in Entry : Type(e)
         \/ AskToForce \/ AskToConfirm \/ ClosePopup
  PROVE  OwnInv'
  <1>1. CASE \E s \in Form \cup {"validation", "detail", "elsewhere"} : GoTo(s)
    BY <1>1, OwnOpened DEF GoTo, Place
  <1>2. CASE Resume
    BY <1>2, OwnOpened DEF Resume, ResumeAt, Place, Form
  <1>3. CASE MoveOn
    <2>1. CASE step = After[saving.of]
      <3>1. UNCHANGED <<page, upload, removal, control, strayed, server>> /\ saving' = NoSave
        BY <1>3, <2>1 DEF MoveOn
      <3>2. Resource(standing, verdicts)' = Resource(standing, verdicts) /\ Filed' = Filed
            /\ Stored' = Stored /\ Removed' = Removed /\ (Loose' => Loose)
        BY <3>1 DEF page, server, Resource, Filed, Stored, Removed, Loose
      <3>3. Reports' /\ (Alone => Alone') /\ (CardInv => CardInv')
            /\ (ValidationInv => ValidationInv')
        BY <3>1, <3>2 DEF page, server, OwnInv, Reports, Alone, CardInv, ValidationInv
      <3> QED BY <3>1, <3>2, <3>3 DEF OwnInv, page
    <2>2. CASE step # After[saving.of]
      <3>1. After[saving.of] \in Place
        BY <1>3 DEF MoveOn, Typed, SavingOK, After, Form, Place
      <3> QED BY <1>3, <2>2, <3>1, OwnOpened DEF MoveOn
    <2> QED BY <2>1, <2>2
  <1>4. CASE AnswerRead \/ FailRead
    <2>1. /\ UNCHANGED <<step, copy, card, out, strayed, server>> /\ read = "sent"
          /\ read' = "answered" => answer' = Resource(standing, verdicts)
      BY <1>4 DEF AnswerRead, FailRead
    <2>2. Resource(standing, verdicts)' = Resource(standing, verdicts) /\ Filed' = Filed
          /\ Stored' = Stored /\ Removed' = Removed /\ Loose' = Loose
      BY <2>1 DEF out, server, Resource, Filed, Stored, Removed, Loose
    <2>3. Reports'
      BY <2>1 DEF OwnInv, Reports, out, server
    <2>4. (Alone => Alone') /\ (CardInv => CardInv') /\ (ValidationInv => ValidationInv')
      BY <2>1, <2>2 DEF out, server, Alone, CardInv, ValidationInv
    <2> QED BY <2>1, <2>2, <2>3, <2>4 DEF OwnInv
  <1>5. CASE FillPage
    <2>1. /\ UNCHANGED <<step, out, strayed, server>> /\ read = "answered" /\ read' = "none"
          /\ copy' = answer /\ card' = {d \in answer.docs : CardOf[d] = step}
      BY <1>5 DEF FillPage
    <2>2. Resource(standing, verdicts)' = Resource(standing, verdicts) /\ Filed' = Filed
          /\ Stored' = Stored /\ Removed' = Removed /\ Loose' = Loose
      BY <2>1 DEF out, server, Resource, Filed, Stored, Removed, Loose
    <2>3. copy = NoCopy
      BY <2>1 DEF OwnInv, Reports
    <2>4. Reports'
      BY <2>1, <2>3 DEF OwnInv, Reports, out, server
    <2> SUFFICES ASSUME ~strayed PROVE Alone' /\ CardInv' /\ ValidationInv'
      BY <2>1, <2>4 DEF OwnInv
    <2>5. Alone /\ ~Loose /\ answer = Resource(standing, verdicts)
      BY <2>1, <2>3 DEF OwnInv, Alone
    <2>6. Alone'
      BY <2>1, <2>2, <2>5 DEF Alone, out
    <2>7. card' = {d \in Filed : CardOf[d] = step}
      BY <2>1, <2>5 DEF Resource, Filed
    <2>8. upload.stage = "none" /\ upload.doc = 0 /\ removal.stage = "none" /\ control.stage = "none"
      BY <2>5 DEF Loose, NoUpload, NoRemoval, NoControl
    <2>9. CardInv'
      BY <2>1, <2>2, <2>5, <2>7, <2>8 DEF CardInv, Stored, Removed, out, Loose
    <2>10. ValidationInv'
      BY <2>1, <2>2, <2>5, <2>8 DEF ValidationInv, out
    <2> QED BY <2>6, <2>9, <2>10
  <1>6. CASE (\E e \in Entry : Type(e)) \/ AskToForce \/ AskToConfirm \/ ClosePopup
    BY <1>6, OwnStays DEF OwnState, Type, AskToForce, AskToConfirm, ClosePopup, out
  <1> QED BY <1>1, <1>2, <1>3, <1>4, <1>5, <1>6

(* Nothing is asked before the dossier is on the page.                     *)
LEMMA AskedWithDossier ==
  /\ Controls # {} => copy # NoCopy
  /\ "check" \in Controls \/ "force" \in Controls \/ "confirm" \in Controls => step = "validation"
  <1> USE DEF Controls, Given
  <1>1. CASE step = "client"
    BY <1>1 DEF ClientFields, PersonalCard, ClientBar, Editable, NextButton, IdentityBox,
                DiplomaBox, FileInput, Listed
  <1>2. CASE step = "credit"
    BY <1>2 DEF CreditFields, AmountInputs, FinancingBoxes, CreditBar, Editable, NextButton,
                DocumentUploadBox, FileInput, Listed
  <1>3. CASE step = "project"
    BY <1>3 DEF ProjectFields, ProjectBar, Editable, NextButton
  <1>4. CASE step = "validation"
    BY <1>4 DEF Ready, Editable
  <1>5. CASE step = "detail"
    BY <1>5 DEF Summary
  <1>6. CASE step \notin {"client", "credit", "project", "validation", "detail"}
    BY <1>6
  <1> QED BY <1>1, <1>2, <1>3, <1>4, <1>5, <1>6

(* Saving a section.                                                       *)
LEMMA OwnSaves ==
  ASSUME Typed, OwnInv, SubmitForm \/ SaveForm \/ LoseSave \/ StayWithError
  PROVE  OwnInv'
  <1>1. UNCHANGED <<page, upload, removal, control, verdicts>>
    BY DEF SubmitForm, SaveForm, LoseSave, StayWithError, server
  <1>2. Filed' = Filed /\ Stored' = Stored /\ Removed' = Removed
    BY <1>1 DEF Filed, Stored, Removed
  <1>3. Reports'
    BY <1>1 DEF page, OwnInv, Reports
  <1>4. CardInv => CardInv'
    BY <1>1, <1>2 DEF page, CardInv
  <1>5. ~strayed' => ~strayed /\ Alone'
    <2>1. CASE SubmitForm
      <3>1. copy # NoCopy /\ saving'.of = step
        BY <2>1, AskedWithDossier DEF SubmitForm
      <3> QED BY <2>1, <3>1, <1>1 DEF SubmitForm, OwnInv, Alone, page
    <2>2. CASE SaveForm
      <3>1. saving # NoSave /\ saving'.of = saving.of /\ UNCHANGED strayed
        BY <2>2 DEF SaveForm, NoSave, Typed, SavingOK, Save
      <3> QED BY <3>1, <1>1 DEF OwnInv, Alone, page, Loose
    <2>3. CASE LoseSave
      <3>1. saving # NoSave /\ saving'.of = saving.of /\ (strayed => strayed')
        BY <2>3 DEF LoseSave, NoSave, Typed, SavingOK, Save, ServerOK
      <3> QED BY <3>1, <1>1 DEF OwnInv, Alone, page, Loose
    <2>4. CASE StayWithError
      BY <2>4, <1>1 DEF StayWithError, OwnInv, Alone, page, Loose
    <2> QED BY <2>1, <2>2, <2>3, <2>4
  <1>6. ASSUME ~strayed, ~SaveForm PROVE Resource(standing, verdicts)' = Resource(standing, verdicts)
    BY <1>6, <1>1 DEF SubmitForm, LoseSave, StayWithError, server, Resource
  <1>7. ASSUME ~strayed, SaveForm PROVE copy # NoCopy /\ step \in Form
    BY <1>7 DEF SaveForm, OwnInv, Alone, Loose, NoSave, Typed, SavingOK
  <1>8. ~strayed' /\ read' = "answered" => answer' = Resource(standing, verdicts)'
    BY <1>1, <1>5, <1>6, <1>7 DEF OwnInv, Reports, page
  <1>9. ~strayed' /\ copy' # NoCopy /\ step' = "validation" => ValidationInv'
    BY <1>1, <1>5, <1>6, <1>7 DEF OwnInv, ValidationInv, page, Form
  <1> QED BY <1>1, <1>3, <1>4, <1>5, <1>8, <1>9 DEF OwnInv, page

(* What goes on at a card leaves the rest of the page as it is.            *)
AtCard ==
  /\ UNCHANGED <<step, read, answer, copy, saving, control, standing, kept>>
  /\ strayed => strayed'
  /\ ~strayed /\ ~strayed' => UNCHANGED verdicts \/ (copy # NoCopy /\ step \in {"client", "credit"})

(* It is enough to look at the card.                                       *)
LEMMA OwnAtCard ==
  ASSUME OwnInv, AtCard, Reports', ~strayed' => Alone',
         ~strayed' /\ copy # NoCopy /\ step \in {"client", "credit"} => CardInv',
         strayed' \in BOOLEAN, strayed \in BOOLEAN
  PROVE  OwnInv'
  <1>1. UNCHANGED verdicts => Resource(standing, verdicts)' = Resource(standing, verdicts)
    BY DEF AtCard, Resource
  <1>2. ~strayed' /\ read' = "answered" => answer' = Resource(standing, verdicts)'
    BY <1>1 DEF OwnInv, AtCard, Reports
  <1>3. ~strayed' /\ copy' # NoCopy /\ step' = "validation" => ValidationInv'
    BY <1>1 DEF OwnInv, AtCard, ValidationInv
  <1> QED BY <1>2, <1>3 DEF OwnInv, AtCard

(* Uploading to a card: the file stored and not listed yet is the only one *)
(* missing on it.                                                          *)
LEMMA OwnUploads ==
  ASSUME Typed, OwnInv,
         \/ \E n \in 1..Cardinality(File) : ChooseFiles(n)
         \/ \E d \in File : StoreDocument(d)
         \/ FailUpload \/ ListDocument
  PROVE  OwnInv'
  <1>0. strayed' \in BOOLEAN /\ strayed \in BOOLEAN
    BY UploadsTyped DEF Typed, ServerOK
  <1>own. ASSUME ~strayed, upload # NoUpload
        PROVE  upload.here /\ upload.of = step /\ step \in {"client", "credit"} /\ copy # NoCopy
               /\ CardInv
    <2>1. upload.here /\ copy # NoCopy
      BY <1>own DEF OwnInv, Alone, Loose
    <2>2. upload.of = step
      BY <2>1 DEF OwnInv, Reports
    <2>3. step \in {"client", "credit"}
      BY <2>2 DEF Typed, UploadOK, Loop, PageOK, Place, Form
    <2> QED BY <1>own, <2>1, <2>2, <2>3 DEF OwnInv
  <1>1. CASE \E n \in 1..Cardinality(File) : ChooseFiles(n)
    <2>1. PICK n \in 1..Cardinality(File) : ChooseFiles(n)
      BY <1>1
    <2>2. copy # NoCopy /\ step \in {"client", "credit"} /\ upload = NoUpload
      BY <2>1, NextOnForms, AskedWithDossier DEF ChooseFiles
    <2>3. AtCard /\ UNCHANGED <<removal, verdicts, card, strayed>>
      BY <2>1 DEF ChooseFiles, AtCard, page, server
    <2>4. upload'.here /\ upload'.of = step /\ upload'.stage = "sent" /\ upload'.doc = 0
      BY <2>1 DEF ChooseFiles
    <2>5. Reports'
      BY <2>3, <2>4 DEF AtCard, OwnInv, Reports
    <2>6. ~strayed' => Alone'
      BY <2>2, <2>3, <2>4 DEF AtCard, OwnInv, Alone
    <2>7. ~strayed' => CardInv'
      <3>1. Stored = {} /\ Stored' = {} /\ Removed' = Removed /\ Filed' = Filed
        BY <2>2, <2>3, <2>4 DEF Stored, Removed, Filed, NoUpload
      <3> QED BY <2>2, <2>3, <2>4, <3>1 DEF OwnInv, CardInv, AtCard
    <2> QED BY <1>0, <2>3, <2>5, <2>6, <2>7, OwnAtCard
  <1>2. CASE \E d \in File : StoreDocument(d)
    <2>1. PICK d \in File : StoreDocument(d)
      BY <1>2
    <2>2. /\ upload # NoUpload /\ upload.stage = "sent" /\ verdicts[d] = "none"
          /\ CardOf[d] = upload.of /\ verdicts' = [verdicts EXCEPT ![d] = "unverified"]
          /\ UNCHANGED <<removal, card, strayed>>
      <3>1. upload.stage = "sent"
        BY <2>1 DEF StoreDocument
      <3>2. upload # NoUpload
        BY <3>1 DEF NoUpload
      <3> QED BY <2>1, <3>1, <3>2 DEF StoreDocument, page
    <2>3. AtCard
      <3>1. UNCHANGED <<step, read, answer, copy, saving, control, standing, kept>>
        BY <2>1 DEF StoreDocument, page
      <3>2. ~strayed => copy # NoCopy /\ step \in {"client", "credit"}
        BY <2>2, <1>own
      <3> QED BY <2>2, <3>1, <3>2 DEF AtCard
    <2>4. /\ upload'.here = upload.here /\ upload'.of = upload.of
          /\ upload'.stage = "stored" /\ upload'.doc = d
      BY <2>1 DEF StoreDocument, Typed, UploadOK, Loop
    <2>5. \A e \in File : verdicts'[e] = IF e = d THEN "unverified" ELSE verdicts[e]
      BY <2>2 DEF Typed, ServerOK
    <2>6. Reports'
      BY <2>2, <2>3, <2>4, <2>5 DEF AtCard, OwnInv, Reports, Typed, ControlOK, DeedOut
    <2>7. ~strayed' => Alone'
      BY <2>2, <2>3, <2>4, <1>own DEF AtCard, OwnInv, Alone, Loose
    <2>8. ~strayed' => CardInv'
      <3> SUFFICES ASSUME ~strayed PROVE CardInv'
        BY <2>2
      <3>1. CardInv /\ upload.of = step /\ Stored = {} /\ Stored' = {d} /\ Removed' = Removed
        BY <2>2, <2>4, <1>own DEF Stored, Removed
      <3>2. Filed' = Filed \cup {d} /\ d \notin Filed
        BY <2>2, <2>5 DEF Filed
      <3>3. d \notin Removed
        BY <2>2, <3>1 DEF CardInv
      <3>4. \A e \in Removed : e \in File /\ e # d /\ verdicts'[e] = "deleted"
        BY <2>2, <2>5, <3>1, <3>3 DEF CardInv, Removed, Typed, RemovalOK, PageOK, NoRemoval
      <3>5. d \notin card
        BY <3>1, <3>2, <3>3 DEF CardInv
      <3>6. card' = ({e \in Filed' : CardOf[e] = step} \ Stored') \cup Removed'
        BY <2>2, <3>1, <3>2 DEF CardInv
      <3> QED BY <2>2, <2>3, <2>4, <3>1, <3>2, <3>4, <3>5, <3>6 DEF CardInv, AtCard
    <2> QED BY <1>0, <2>3, <2>6, <2>7, <2>8, OwnAtCard
  <1>3. CASE FailUpload
    <2>1. /\ upload # NoUpload /\ upload'.here = upload.here /\ upload'.of = upload.of
          /\ upload'.stage = "failed" /\ upload'.doc = 0
          /\ UNCHANGED <<removal, verdicts, card>>
          /\ ~strayed' => ~strayed /\ upload.stage = "sent"
      <3>1. upload # NoUpload
        BY <1>3 DEF FailUpload, NoUpload
      <3>2. /\ upload'.here = upload.here /\ upload'.of = upload.of
            /\ upload'.stage = "failed" /\ upload'.doc = 0
        BY <1>3 DEF FailUpload, Typed, UploadOK, Loop
      <3>3. ~strayed' => ~strayed /\ upload.stage = "sent"
        BY <1>3 DEF FailUpload, Typed, ServerOK
      <3> QED BY <1>3, <3>1, <3>2, <3>3 DEF FailUpload, page, server
    <2>2. AtCard
      BY <1>3, <2>1 DEF FailUpload, AtCard, page, server, Typed, ServerOK
    <2>3. Reports'
      BY <2>1, <2>2 DEF AtCard, OwnInv, Reports
    <2>4. ~strayed' => Alone'
      BY <2>1, <2>2, <1>own DEF AtCard, OwnInv, Alone, Loose
    <2>5. ~strayed' => CardInv'
      <3> SUFFICES ASSUME ~strayed, upload.stage = "sent" PROVE CardInv'
        BY <2>1
      <3>1. Stored = {} /\ Stored' = {} /\ Removed' = Removed /\ Filed' = Filed /\ CardInv
        BY <2>1, <1>own DEF Stored, Removed, Filed
      <3> QED BY <2>1, <2>2, <3>1 DEF CardInv, AtCard
    <2> QED BY <1>0, <2>2, <2>3, <2>4, <2>5, OwnAtCard
  <1>4. CASE ListDocument
    <2>1. /\ upload # NoUpload /\ UNCHANGED <<removal, verdicts, strayed>>
          /\ upload.stage \in {"stored", "failed"}
          /\ card' = IF upload.here /\ upload.doc # 0 THEN card \cup {upload.doc} ELSE card
      BY <1>4 DEF ListDocument, NoUpload, server
    <2>2. AtCard
      BY <1>4 DEF ListDocument, AtCard, server
    <2>3. \/ upload' = NoUpload
          \/ /\ upload'.here = upload.here /\ upload'.of = upload.of
             /\ upload'.stage = "sent" /\ upload'.doc = 0
      <3>1. CASE upload.left = 1
        BY <1>4, <3>1 DEF ListDocument, NextFile
      <3>2. CASE upload.left # 1
        <4>1. upload' = [upload EXCEPT !.left = upload.left - 1, !.doc = 0, !.stage = "sent"]
          BY <1>4, <3>2 DEF ListDocument, NextFile
        <4> QED BY <4>1 DEF Typed, UploadOK, Loop
      <3> QED BY <3>1, <3>2
    <2>4. upload'.stage \in {"none", "sent"} /\ upload'.doc = 0
      BY <2>3 DEF NoUpload
    <2>5. Reports'
      <3>1. NoUpload.here = FALSE
        BY DEF NoUpload
      <3>2. upload'.here => upload'.of = step /\ upload'.stage = "sent"
        BY <2>3, <3>1 DEF OwnInv, Reports
      <3>3. upload'.stage = "none" => upload' = NoUpload
        BY <2>3
      <3> QED BY <2>1, <2>2, <3>2, <3>3 DEF AtCard, OwnInv, Reports
    <2>6. ~strayed' => Alone'
      BY <2>1, <2>2, <2>3, <1>own DEF AtCard, OwnInv, Alone, Loose
    <2>7. ~strayed' => CardInv'
      <3> SUFFICES ASSUME ~strayed PROVE CardInv'
        BY <2>1
      <3>1. CardInv /\ upload.here /\ Stored' = {} /\ Removed' = Removed /\ Filed' = Filed
        BY <2>1, <2>4, <1>own DEF Stored, Removed, Filed
      <3>2. upload.stage = "stored" => upload.doc \in Filed /\ upload.doc # 0
        BY <3>1, WizardAssumption DEF WizardAssumption, CardInv, Filed
      <3>3. card' = card \cup Stored
        BY <2>1, <3>1, <3>2 DEF CardInv, Stored
      <3>4. Stored \subseteq {e \in Filed : CardOf[e] = step}
        BY <3>1 DEF Stored, CardInv
      <3>5. card' = {e \in Filed : CardOf[e] = step} \cup Removed
        BY <3>1, <3>3, <3>4 DEF CardInv
      <3> QED BY <2>1, <2>2, <2>4, <3>1, <3>3, <3>5 DEF CardInv, AtCard
    <2> QED BY <1>0, <2>2, <2>5, <2>6, <2>7, OwnAtCard
  <1> QED BY <1>1, <1>2, <1>3, <1>4

(* Removing from a card: the document removed is the only one too many on  *)
(* it.                                                                     *)
LEMMA OwnRemovals ==
  ASSUME Typed, OwnInv,
         \/ \E d \in File : RemoveDocument(d)
         \/ DropDocument \/ LoseRemoval \/ UnlistDocument
  PROVE  OwnInv'
  <1>0. strayed' \in BOOLEAN /\ strayed \in BOOLEAN
    BY RemovalsTyped DEF Typed, ServerOK
  <1>own. ASSUME ~strayed, removal # NoRemoval
        PROVE  removal.here /\ step \in {"client", "credit"} /\ copy # NoCopy /\ CardInv
    <2>1. removal.here /\ copy # NoCopy
      BY <1>own DEF OwnInv, Alone, Loose
    <2>2. step \in {"client", "credit"}
      BY <2>1 DEF OwnInv, Reports
    <2> QED BY <1>own, <2>1, <2>2 DEF OwnInv
  <1>1. CASE \E d \in File : RemoveDocument(d)
    <2>1. PICK d \in File : RemoveDocument(d)
      BY <1>1
    <2>2. copy # NoCopy /\ step \in {"client", "credit"} /\ removal = NoRemoval /\ d \in card
      BY <2>1, NextOnForms, AskedWithDossier DEF RemoveDocument
    <2>3. AtCard /\ UNCHANGED <<upload, verdicts, card, strayed>>
      BY <2>1 DEF RemoveDocument, AtCard, page, server
    <2>4. removal'.here /\ removal'.stage = "sent" /\ removal'.doc = d
      BY <2>1 DEF RemoveDocument
    <2>5. Reports'
      BY <2>2, <2>3, <2>4 DEF AtCard, OwnInv, Reports
    <2>6. ~strayed' => Alone'
      BY <2>2, <2>3, <2>4 DEF AtCard, OwnInv, Alone
    <2>7. ~strayed' => CardInv'
      <3>1. Stored' = Stored /\ Removed = {} /\ Removed' = {} /\ Filed' = Filed
        BY <2>2, <2>3, <2>4 DEF Stored, Removed, Filed, NoRemoval
      <3> QED BY <2>2, <2>3, <2>4, <3>1 DEF OwnInv, CardInv, AtCard
    <2> QED BY <1>0, <2>3, <2>5, <2>6, <2>7, OwnAtCard
  <1>2. CASE DropDocument
    <2>1. /\ removal # NoRemoval /\ removal.stage = "sent" /\ UNCHANGED <<upload, card, strayed>>
          /\ removal'.here = removal.here /\ removal'.doc = removal.doc
      <3>1. removal # NoRemoval
        BY <1>2 DEF DropDocument, NoRemoval
      <3>2. removal'.here = removal.here /\ removal'.doc = removal.doc
        BY <1>2 DEF DropDocument, Typed, RemovalOK, Withdrawal
      <3> QED BY <1>2, <3>1, <3>2 DEF DropDocument, page
    <2>2. AtCard
      <3>1. UNCHANGED <<step, read, answer, copy, saving, control, standing, kept>>
        BY <1>2 DEF DropDocument, page
      <3>2. ~strayed => copy # NoCopy /\ step \in {"client", "credit"}
        BY <2>1, <1>own
      <3> QED BY <2>1, <3>1, <3>2 DEF AtCard
    <2>3. \/ /\ removal'.stage = "removed" /\ removal.doc \in Filed
             /\ \A e \in File : verdicts'[e] = IF e = removal.doc THEN "deleted" ELSE verdicts[e]
          \/ removal'.stage = "refused" /\ UNCHANGED verdicts
      BY <1>2 DEF DropDocument, Typed, RemovalOK, Withdrawal, ServerOK
    <2>4. Reports'
      BY <2>1, <2>2, <2>3 DEF AtCard, OwnInv, Reports, Typed, ControlOK, DeedOut
    <2>5. ~strayed' => Alone'
      BY <2>1, <2>2, <2>3, <1>own DEF AtCard, OwnInv, Alone, Loose
    <2>6. ~strayed' => CardInv'
      <3> SUFFICES ASSUME ~strayed PROVE CardInv'
        BY <2>1
      <3>1. CardInv /\ removal.doc \in card /\ Stored' = Stored /\ Removed = {}
        BY <2>1, <1>own DEF CardInv, Stored, Removed
      <3>2. CASE removal'.stage = "refused" /\ UNCHANGED verdicts
        <4>1. Removed' = {} /\ Filed' = Filed
          BY <3>2 DEF Removed, Filed
        <4> QED BY <2>1, <2>2, <3>1, <4>1 DEF CardInv, AtCard
      <3>3. CASE /\ removal'.stage = "removed" /\ removal.doc \in Filed
                 /\ \A e \in File :
                      verdicts'[e] = IF e = removal.doc THEN "deleted" ELSE verdicts[e]
        <4>1. Removed' = {removal.doc} /\ Filed' = Filed \ {removal.doc}
          BY <2>1, <3>3 DEF Removed, Filed
        <4>2. upload.stage = "stored" => upload.doc # removal.doc
          BY <3>1 DEF CardInv
        <4>3. CardOf[removal.doc] = step
          BY <3>1 DEF CardInv
        <4>4. verdicts'[removal.doc] = "deleted"
          BY <3>3 DEF Filed
        <4>5. card' = ({e \in Filed' : CardOf[e] = step} \ Stored') \cup Removed'
          BY <2>1, <3>1, <4>1 DEF CardInv
        <4> QED BY <2>1, <2>2, <3>1, <4>1, <4>2, <4>4, <4>5 DEF CardInv, AtCard
      <3> QED BY <2>3, <3>2, <3>3
    <2> QED BY <1>0, <2>2, <2>4, <2>5, <2>6, OwnAtCard
  <1>3. CASE LoseRemoval
    <2>1. /\ removal # NoRemoval /\ removal'.here = removal.here /\ removal'.doc = removal.doc
          /\ removal'.stage = "refused" /\ UNCHANGED <<upload, verdicts, card>>
          /\ ~strayed' => ~strayed /\ removal.stage = "sent"
      <3>1. removal # NoRemoval
        BY <1>3 DEF LoseRemoval, NoRemoval
      <3>2. /\ removal'.here = removal.here /\ removal'.doc = removal.doc
            /\ removal'.stage = "refused"
        BY <1>3 DEF LoseRemoval, Typed, RemovalOK, Withdrawal
      <3>3. ~strayed' => ~strayed /\ removal.stage = "sent"
        BY <1>3 DEF LoseRemoval, Typed, ServerOK
      <3> QED BY <1>3, <3>1, <3>2, <3>3 DEF LoseRemoval, page, server
    <2>2. AtCard
      BY <1>3, <2>1 DEF LoseRemoval, AtCard, page, server, Typed, ServerOK
    <2>3. Reports'
      BY <2>1, <2>2 DEF AtCard, OwnInv, Reports
    <2>4. ~strayed' => Alone'
      BY <2>1, <2>2, <1>own DEF AtCard, OwnInv, Alone, Loose
    <2>5. ~strayed' => CardInv'
      <3> SUFFICES ASSUME ~strayed, removal.stage = "sent" PROVE CardInv'
        BY <2>1
      <3>1. Stored' = Stored /\ Removed = {} /\ Removed' = {} /\ Filed' = Filed /\ CardInv
        BY <2>1, <1>own DEF Stored, Removed, Filed
      <3> QED BY <2>1, <2>2, <3>1 DEF CardInv, AtCard
    <2> QED BY <1>0, <2>2, <2>3, <2>4, <2>5, OwnAtCard
  <1>4. CASE UnlistDocument
    <2>1. /\ removal # NoRemoval /\ removal' = NoRemoval /\ UNCHANGED <<upload, verdicts, strayed>>
          /\ removal.stage \in {"removed", "refused"}
          /\ card' = IF removal.here /\ removal.stage = "removed" THEN card \ {removal.doc} ELSE card
      BY <1>4 DEF UnlistDocument, NoRemoval, server
    <2>2. AtCard
      BY <1>4 DEF UnlistDocument, AtCard, server
    <2>3. ~NoRemoval.here /\ NoRemoval.stage = "none"
      BY DEF NoRemoval
    <2>4. Reports'
      BY <2>1, <2>2, <2>3 DEF AtCard, OwnInv, Reports
    <2>5. ~strayed' => Alone'
      BY <2>1, <2>2, <1>own DEF AtCard, OwnInv, Alone, Loose
    <2>6. ~strayed' => CardInv'
      <3> SUFFICES ASSUME ~strayed PROVE CardInv'
        BY <2>1
      <3>1. CardInv /\ removal.here /\ Stored' = Stored /\ Removed' = {} /\ Filed' = Filed
        BY <2>1, <2>3, <1>own DEF Stored, Removed, Filed
      <3>2. card' = card \ Removed
        BY <2>1, <3>1 DEF Removed
      <3>3. \A d \in Removed : d \notin Filed
        BY <3>1 DEF CardInv, Filed
      <3>4. card' = {e \in Filed : CardOf[e] = step} \ Stored
        BY <3>1, <3>2, <3>3 DEF CardInv
      <3> QED BY <2>1, <2>2, <3>1, <3>2, <3>4 DEF CardInv, AtCard
    <2> QED BY <1>0, <2>2, <2>4, <2>5, <2>6, OwnAtCard
  <1> QED BY <1>1, <1>2, <1>3, <1>4

(* What goes on at validation 1 leaves the cards and sections as they are. *)
AtValidation ==
  /\ UNCHANGED <<step, read, answer, card, saving, upload, removal, kept>>
  /\ ~strayed' => ~strayed
  /\ ~strayed' => UNCHANGED <<copy, standing, verdicts>> \/ (copy # NoCopy /\ step = "validation")

(* It is enough to look at the copy on the page.                           *)
LEMMA OwnAtValidation ==
  ASSUME OwnInv, AtValidation, Reports', ~strayed' => Alone',
         ~strayed' /\ copy' # NoCopy /\ step = "validation" => ValidationInv'
  PROVE  OwnInv'
  <1>1. ASSUME UNCHANGED <<copy, standing, verdicts>>
        PROVE  /\ Resource(standing, verdicts)' = Resource(standing, verdicts)
               /\ CardInv => CardInv'
    BY <1>1 DEF AtValidation, Resource, CardInv, Filed, Stored, Removed
  <1>2. ~strayed' /\ read' = "answered" => answer' = Resource(standing, verdicts)'
    BY <1>1 DEF OwnInv, AtValidation, Reports
  <1>3. ~strayed' /\ copy' # NoCopy /\ step' \in {"client", "credit"} => CardInv'
    BY <1>1 DEF OwnInv, AtValidation
  <1> QED BY <1>2, <1>3 DEF OwnInv, AtValidation

(* Validation 1 and the submission.                                        *)
LEMMA OwnControls ==
  ASSUME Typed, OwnInv,
         \/ RunCheck \/ ForceCheck \/ Confirm \/ BeginCheck \/ Lock \/ LoseControl \/ ShowControl
         \/ \E good, bad, held \in SUBSET control.docs : EndCheck(good, bad, held)
  PROVE  OwnInv'
  <1>own. ASSUME ~strayed, control # NoControl
        PROVE  control.here /\ step = "validation" /\ copy # NoCopy /\ ValidationInv
    BY <1>own DEF OwnInv, Alone, Reports
  <1>busy. control.stage # "none" => control # NoControl
    BY DEF NoControl
  <1>bool. strayed \in BOOLEAN
    BY DEF Typed, ServerOK
  <1>1. CASE RunCheck \/ ForceCheck \/ Confirm
    <2>1. PICK deed \in {"check", "force", "confirm"} : Send(deed)
      BY <1>1 DEF RunCheck, ForceCheck, Confirm
    <2>2. step = "validation" /\ copy # NoCopy
      BY <1>1, AskedWithDossier DEF RunCheck, ForceCheck, Confirm
    <2>3. AtValidation /\ UNCHANGED <<copy, standing, verdicts, strayed>> /\ control = NoControl
      BY <2>1 DEF Send, AtValidation, server
    <2>4. control'.here /\ control'.stage = "sent" /\ control'.docs = {}
      BY <2>1 DEF Send, NoControl
    <2>5. Reports'
      BY <2>2, <2>3, <2>4 DEF AtValidation, OwnInv, Reports
    <2>6. ~strayed' => Alone'
      BY <2>2, <2>3, <2>4 DEF AtValidation, OwnInv, Alone
    <2>7. ~strayed' => ValidationInv'
      <3>1. Resource(standing, verdicts)' = Resource(standing, verdicts)
        BY <2>3 DEF AtValidation, Resource
      <3>2. control.stage = "none"
        BY <2>3 DEF NoControl
      <3> QED BY <2>2, <2>3, <2>4, <3>1, <3>2 DEF OwnInv, ValidationInv
    <2> QED BY <2>3, <2>5, <2>6, <2>7, OwnAtValidation
  <1>2. CASE BeginCheck
    <2>1. /\ control # NoControl /\ control.stage = "sent" /\ control'.here = control.here
          /\ control'.stage \in {"refused", "incomplete", "judging"}
          /\ control'.docs = {d \in Filed : verdicts[d] # "valid"}
      BY <1>2, <1>busy DEF BeginCheck, Typed, ControlOK, DeedOut
    <2>2. AtValidation /\ UNCHANGED <<copy, standing, verdicts, strayed>>
      BY <1>2 DEF BeginCheck, AtValidation, page, server
    <2>3. Reports'
      BY <2>1, <2>2 DEF AtValidation, OwnInv, Reports, Filed
    <2>4. ~strayed' => Alone'
      BY <2>1, <2>2, <1>own DEF AtValidation, OwnInv, Alone
    <2>5. ~strayed' => ValidationInv'
      <3>1. Resource(standing, verdicts)' = Resource(standing, verdicts)
        BY <2>2 DEF AtValidation, Resource
      <3> QED BY <1>own, <2>1, <2>2, <3>1 DEF ValidationInv
    <2> QED BY <2>2, <2>3, <2>4, <2>5, OwnAtValidation
  <1>3. CASE Lock
    <2>1. /\ control # NoControl /\ control.stage = "sent" /\ control'.here = control.here
          /\ control'.docs = control.docs /\ UNCHANGED <<copy, verdicts, strayed>>
      BY <1>3, <1>busy DEF Lock, Typed, ControlOK, DeedOut, page
    <2>2. \/ control'.stage = "refused" /\ UNCHANGED standing
          \/ /\ control'.stage = "answered" /\ standing' = "SUBMITTED"
             /\ control'.copy = Resource("SUBMITTED", verdicts)
      BY <1>3 DEF Lock, Typed, ControlOK, DeedOut
    <2>3. AtValidation
      <3>1. UNCHANGED <<step, read, answer, card, saving, upload, removal, kept>>
        BY <1>3 DEF Lock, page
      <3> QED BY <2>1, <3>1, <1>own DEF AtValidation
    <2>4. Reports'
      BY <2>1, <2>2, <2>3 DEF AtValidation, OwnInv, Reports
    <2>5. ~strayed' => Alone'
      BY <2>1, <2>2, <2>3, <1>own DEF AtValidation, OwnInv, Alone
    <2>6. ~strayed' => ValidationInv'
      <3>1. Resource(standing, verdicts)' = Resource(standing', verdicts)
        BY <2>1, <2>3 DEF AtValidation, Resource
      <3> QED BY <1>own, <2>1, <2>2, <3>1 DEF ValidationInv
    <2> QED BY <2>3, <2>4, <2>5, <2>6, OwnAtValidation
  <1>4. CASE LoseControl
    <2>1. /\ control # NoControl /\ control'.here = control.here /\ control'.docs = control.docs
          /\ control'.stage = "refused" /\ UNCHANGED <<copy, standing, verdicts>>
      BY <1>4, <1>busy DEF LoseControl, Typed, ControlOK, DeedOut, page, server
    <2>2. AtValidation /\ (~strayed' => control.stage # "answered")
      BY <1>4, <1>bool DEF LoseControl, AtValidation, page, server
    <2>3. Reports'
      BY <2>1, <2>2 DEF AtValidation, OwnInv, Reports
    <2>4. ~strayed' => Alone'
      BY <2>1, <2>2, <1>own DEF AtValidation, OwnInv, Alone
    <2>5. ~strayed' => ValidationInv'
      <3>1. Resource(standing, verdicts)' = Resource(standing, verdicts)
        BY <2>1, <2>2 DEF AtValidation, Resource
      <3>2. ~strayed' => ~strayed
        BY <2>2 DEF AtValidation
      <3> QED BY <1>own, <2>1, <2>2, <3>1, <3>2 DEF ValidationInv
    <2> QED BY <2>2, <2>3, <2>4, <2>5, OwnAtValidation
  <1>5. CASE ShowControl
    <2>1. /\ control # NoControl /\ control' = NoControl /\ UNCHANGED <<strayed, standing, verdicts>>
          /\ copy' = IF control.here /\ control.stage = "answered" THEN control.copy ELSE copy
      BY <1>5, <1>busy DEF ShowControl, server
    <2>2. AtValidation
      BY <1>5, <2>1, <1>own DEF ShowControl, AtValidation, server
    <2>3. ~NoControl.here /\ NoControl.stage = "none" /\ NoControl.docs = {}
      BY DEF NoControl
    <2>4. Reports'
      <3>1. read # "none" => copy' = NoCopy
        BY <2>1 DEF OwnInv, Reports
      <3> QED BY <2>1, <2>2, <2>3, <3>1 DEF AtValidation, OwnInv, Reports
    <2>5. ~strayed' => ValidationInv' /\ copy' # NoCopy
      <3>1. Resource(standing, verdicts)' = Resource(standing, verdicts)
        BY <2>1, <2>2 DEF AtValidation, Resource
      <3>2. Resource(standing, verdicts) # NoCopy
        BY Ranks DEF Resource, NoCopy, Typed, ServerOK
      <3> QED BY <1>own, <2>1, <2>3, <3>1, <3>2 DEF ValidationInv
    <2>6. ~strayed' => Alone'
      BY <2>1, <2>2, <2>5 DEF AtValidation, OwnInv, Alone
    <2> QED BY <2>2, <2>4, <2>5, <2>6, OwnAtValidation
  <1>6. CASE \E good, bad, held \in SUBSET control.docs : EndCheck(good, bad, held)
    <2>1. PICK good, bad, held \in SUBSET control.docs : EndCheck(good, bad, held)
      BY <1>6
    <2>2. /\ control # NoControl /\ control.stage = "judging"
          /\ UNCHANGED <<copy, strayed>>
      BY <2>1, <1>busy DEF EndCheck, page
    <2>3. AtValidation
      <3>1. UNCHANGED <<step, read, answer, card, saving, upload, removal, kept>>
        BY <2>1 DEF EndCheck, page
      <3> QED BY <2>2, <3>1, <1>own DEF AtValidation
    <2>4. \A d \in File : (verdicts'[d] \in {"unverified", "valid", "invalid"}
                           <=> verdicts[d] \in {"unverified", "valid", "invalid"})
                        /\ (verdicts[d] # "none" => verdicts'[d] # "none")
      <3>1. \A d \in good \cup bad : verdicts[d] \in Verdict \ {"none"}
        BY DEF OwnInv, Reports, Typed, ControlOK, DeedOut, ServerOK
      <3>2. ASSUME NEW d \in File
            PROVE  \/ verdicts'[d] = verdicts[d]
                   \/ d \in good \cup bad /\ verdicts[d] # "deleted"
                      /\ verdicts'[d] \in {"valid", "invalid"}
        <4>1. verdicts' = [e \in File |->
                IF e \notin good \cup bad \/ verdicts[e] = "deleted" THEN verdicts[e]
                ELSE IF e \in good THEN "valid" ELSE "invalid"]
          BY <2>1 DEF EndCheck
        <4> QED BY <4>1
      <3> QED BY <3>1, <3>2 DEF Verdict
    <2>5. \/ control' = [control EXCEPT !.stage = "answered", !.copy = Resource(standing', verdicts')]
          \/ /\ control' = [control EXCEPT !.stage = "documents", !.copy = NoCopy]
             /\ UNCHANGED standing
      BY <2>1 DEF EndCheck
    <2>6. control'.here = control.here /\ control'.docs = control.docs
      BY <2>5 DEF Typed, ControlOK, DeedOut
    <2>7. \/ control'.stage = "answered" /\ control'.copy = Resource(standing', verdicts')
          \/ control'.stage = "documents" /\ UNCHANGED standing
      BY <2>5 DEF Typed, ControlOK, DeedOut
    <2>8. Reports'
      BY <2>2, <2>3, <2>4, <2>6, <2>7 DEF AtValidation, OwnInv, Reports, Typed, ControlOK, DeedOut
    <2>9. ~strayed' => Alone'
      BY <2>2, <2>3, <2>6, <1>own DEF AtValidation, OwnInv, Alone
    <2>10. ~strayed' => ValidationInv'
      <3>1. Resource(standing, verdicts)' = Resource(standing', verdicts')
        BY <2>3 DEF AtValidation, Resource
      <3>2. UNCHANGED standing => Resource(standing', verdicts') = Resource(standing, verdicts)
        BY <2>4 DEF Resource
      <3> QED BY <1>own, <2>2, <2>7, <3>1, <3>2 DEF ValidationInv
    <2> QED BY <2>3, <2>8, <2>9, <2>10, OwnAtValidation
  <1> QED BY <1>1, <1>2, <1>3, <1>4, <1>5, <1>6

(* Every step of the pages keeps the invariant.                            *)
LEMMA OwnNext == Typed /\ OwnInv /\ [WizardNext]_wizardVars => OwnInv'
  <1> SUFFICES ASSUME Typed, OwnInv, [WizardNext]_wizardVars PROVE OwnInv'
    OBVIOUS
  <1>1. CASE WizardNext
    BY <1>1, OwnPages, OwnSaves, OwnUploads, OwnRemovals, OwnControls DEF WizardNext
  <1>2. CASE UNCHANGED wizardVars
    BY <1>2, OwnStays DEF wizardVars, page, out, OwnState
  <1> QED BY <1>1, <1>2

(* Nothing is out yet.                                                     *)
LEMMA OwnInit == WizardInit \/ WizardIdle => OwnInv
  <1> SUFFICES ASSUME Empty PROVE OwnInv
    BY DEF WizardInit, WizardIdle
  <1>1. Reports
    BY DEF Empty, Reports, NoUpload, NoRemoval, NoControl
  <1>2. Alone
    BY DEF Empty, Alone, Loose
  <1> QED BY <1>1, <1>2 DEF Empty, OwnInv

(* Every page of the form keeps its parts of the dossier in step with the  *)
(* server.                                                                 *)
THEOREM FormInvariant == WizardSpec => [](Typed /\ OwnInv)
  <1>1. WizardInit \/ WizardIdle => Typed /\ OwnInv
    BY TypedInit, OwnInit
  <1>2. Typed /\ OwnInv /\ [WizardNext]_wizardVars => (Typed /\ OwnInv)'
    BY TypedNext, OwnNext
  <1> QED BY <1>1, <1>2, PTL DEF WizardSpec

(* The card of a step that has no request out lists what the server has for*)
(* it, after any number of files chosen together, failed or removed, under *)
(* the same proviso as what is submitted below.                            *)
THEOREM CardsKeepUp == WizardSpec => []CardShowsServer
  <1>1. Typed /\ OwnInv => CardShowsServer
    <2> SUFFICES ASSUME OwnInv, step \in {"client", "credit"}, copy # NoCopy,
                        upload = NoUpload, removal = NoRemoval, ~strayed
                 PROVE  card = {d \in Filed : CardOf[d] = step}
      BY DEF CardShowsServer
    <2>1. CardInv /\ Stored = {} /\ Removed = {}
      BY DEF OwnInv, Stored, Removed, NoUpload, NoRemoval
    <2> QED BY <2>1 DEF CardInv
  <1> QED BY <1>1, FormInvariant, PTL

(* The customer submits the dossier he has before him, whatever was        *)
(* uploaded, saved and judged on his way there, unless a request of an     *)
(* earlier page was out when this one was opened, or one went unanswered.  *)
THEOREM SubmitsWhatIsShown == WizardSpec => TransmitsWhatIsShown
  <1> DEFINE Shown ==
        control = NoControl /\ control'.deed = "confirm" /\ ~strayed
          => copy = [status |-> standing, kept |-> kept, docs |-> Filed]
  <1>1. Typed /\ OwnInv /\ [WizardNext]_wizardVars => [Shown]_wizardVars
    <2> SUFFICES ASSUME Typed, OwnInv, WizardNext, control = NoControl,
                        control'.deed = "confirm", ~strayed
                 PROVE  copy = [status |-> standing, kept |-> kept, docs |-> Filed]
      OBVIOUS
    <2>1. control.stage = "none" /\ control.deed = "none"
      BY DEF NoControl
    <2>2. Confirm
      <3>1. control' # control
        BY <2>1
      <3>2. \A s \in Place : ~Open(s)
        BY <2>1, OpenTyped
      <3>3. ~GoTo("client") /\ ~GoTo("credit") /\ ~GoTo("project") /\ ~GoTo("validation")
            /\ ~GoTo("detail") /\ ~GoTo("elsewhere")
        BY <3>2 DEF GoTo, Place, Form
      <3>4. ~Resume /\ ~MoveOn
        BY <3>1, <3>2 DEF Resume, ResumeAt, MoveOn, After, Typed, SavingOK, Place, Form
      <3>5. ~RunCheck /\ ~ForceCheck
        BY DEF RunCheck, ForceCheck, Send, NoControl
      <3>6. /\ ~BeginCheck /\ ~Lock /\ ~LoseControl /\ ~ShowControl
            /\ ~\E good, bad, held \in SUBSET control.docs : EndCheck(good, bad, held)
        BY <2>1 DEF BeginCheck, Lock, LoseControl, ShowControl, EndCheck
      <3> QED BY <3>1, <3>3, <3>4, <3>5, <3>6 DEF WizardNext, AnswerRead, FailRead, FillPage,
            Type, SubmitForm, SaveForm, LoseSave, StayWithError, ChooseFiles, StoreDocument,
            RemoveDocument, FailUpload, ListDocument, DropDocument, LoseRemoval,
            UnlistDocument, AskToForce, AskToConfirm, ClosePopup, out, Form
    <2>3. step = "validation" /\ copy # NoCopy
      BY <2>2, AskedWithDossier DEF Confirm
    <2>4. copy = Resource(standing, verdicts)
      BY <2>1, <2>3 DEF OwnInv, ValidationInv
    <2> QED BY <2>4 DEF Resource, Filed
  <1> HIDE DEF Shown
  <1>2. WizardSpec => [][Shown]_wizardVars
    BY <1>1, FormInvariant, PTL DEF WizardSpec
  <1> QED BY <1>2 DEF TransmitsWhatIsShown, Shown

-----------------------------------------------------------------------------
(* The decision pages.                                                     *)

(* A set of reads out has an oldest one.                                   *)
LEMMA LeastRead ==
  ASSUME NEW S \in SUBSET Nat, S # {}
  PROVE  \E x \in S : \A y \in S : x <= y
  <1>1. PICK x \in S : \A y \in S : ~(<<y, x>> \in OpToRel(<, Nat))
    BY WFMin, NatLessThanWellFounded
  <1>2. \A y \in S : ~(y < x)
    BY <1>1 DEF OpToRel
  <1> QED BY <1>2

ReviewSpec == (ReviewInit \/ ReviewIdle) /\ [][ReviewNext]_reviewVars

ReadOut == [slot : Nat, stage : {"sent", "answered"}, status : ReviewedStatus \cup {Nothing}]
Decision == [deed : Deed \cup {"none"}, stage : {"none", "sent", "answered"},
             status : ReviewedStatus \cup {Nothing}]

ReviewTyped ==
  /\ desk \in {"staff", "admin", "none"}
  /\ status \in [App -> Status] /\ status[Of] \in ReviewedStatus
  /\ opened \in ReviewedStatus \cup {Nothing}
  /\ reading \subseteq ReadOut /\ decision \in Decision
  /\ decided \in ReviewedStatus \cup {Nothing}
  /\ overlap \in {"no", "yes", "ending"}

(* A decision is out only from a page, and a read that has been answered   *)
(* carries a status.                                                       *)
ReviewShape ==
  /\ decision.stage = "none" <=> decision = NoDecision
  /\ decision.deed = "none" <=> decision = NoDecision
  /\ Posting => desk # "none"
  /\ \A r \in reading : r.stage = "answered" => r.status \in ReviewedStatus

(* The server has taken what the page was told, or will be told, it has    *)
(* taken, and goes on from there only.                                     *)
ServerReached ==
  /\ decided # Nothing => HasReached(status[Of], decided)
  /\ decision.stage = "answered" =>
       decision.status = Target[desk][decision.deed] /\ HasReached(status[Of], decision.status)

(* Unless requests overlap, a read is out alone, and its answer is not     *)
(* older than the decision the page was told of.                           *)
OneAtATime ==
  overlap # "yes" =>
    /\ \A r, s \in reading : r = s
    /\ reading # {} => ~Posting
    /\ \A r \in reading :
         r.stage = "answered" /\ decided # Nothing => HasReached(r.status, decided)

PageReached == overlap = "no" /\ decided # Nothing => opened # Nothing /\ HasReached(opened, decided)

ReviewInv == ReviewTyped /\ ReviewShape /\ ServerReached /\ OneAtATime /\ PageReached

LEMMA StaffDecide ==
  ASSUME NEW role \in StaffRole, NEW from, NEW to, CanMove(from, to, role)
  PROVE  \/ from = "SUBMITTED" /\ to \in {"STAFF_APPROVED", "STAFF_REJECTED", "CANCELLED"}
         \/ from = "STAFF_APPROVED"
              /\ to \in {"APPROVED", "REJECTED", "CANCELLED"} \cup AppointmentStage
         \/ from \in {"APPROVED", "APPOINTMENT_PROPOSED"} /\ to \in AppointmentStage
         \/ from \in {"APPOINTMENT_CONFIRMED", "APPOINTMENT_LOCKED"}
              /\ to \in {"APPOINTMENT_CONFIRMED", "APPOINTMENT_PROPOSED"}
  <1>1. PICK kind \in Satisfies(role) : <<from, to, kind>> \in Transitions
    BY DEF CanMove
  <1>2. kind \in {"staff", "admin"}
    BY <1>1 DEF Satisfies, StaffRole
  <1> QED
    BY <1>1, <1>2 DEF Transitions, AppointmentStage

LEMMA ReviewPositions ==
  /\ ReviewedStatus \subseteq Status /\ Nothing \notin ReviewedStatus /\ Of \in App
  /\ \A s \in ReviewedStatus : Position[s] \in Nat
  /\ Position["SUBMITTED"] = 9 /\ Position["STAFF_APPROVED"] = 10
  /\ Position["STAFF_REJECTED"] = 11 /\ Position["APPROVED"] = 12
  /\ Position["REJECTED"] = 13 /\ Position["CANCELLED"] = 17
  <1>1. Of \in App
    BY ReviewAssumption DEF Of
  <1>2. ReviewedStatus \subseteq Status
    BY DEF ReviewedStatus, Status, Position
  <1>3. Nothing \notin ReviewedStatus
    BY <1>2, ReviewAssumption
  <1> QED BY <1>1, <1>2, <1>3 DEF ReviewedStatus, Position

LEMMA DeedTargets ==
  ASSUME NEW d \in {"staff", "admin"}, NEW deed \in Deed
  PROVE  Target[d][deed] \in ReviewedStatus /\ RoleAt[d] \in StaffRole
  BY DEF Deed, Target, StaffTarget, AdminTarget, ReviewedStatus, RoleAt, StaffRole

(* A move among the statuses of the review goes up.                        *)
LEMMA MovesUp ==
  ASSUME NEW role \in StaffRole, NEW from \in ReviewedStatus, NEW to \in ReviewedStatus,
         CanMove(from, to, role)
  PROVE  \A s \in ReviewedStatus : HasReached(from, s) => HasReached(to, s)
  <1>1. Position[from] <= Position[to]
    BY StaffDecide, ReviewPositions DEF ReviewedStatus, AppointmentStage
  <1> QED BY <1>1, ReviewPositions DEF HasReached

LEMMA ReviewInitInv == ReviewInit \/ ReviewIdle => ReviewInv
  <1> SUFFICES ASSUME ReviewInit \/ ReviewIdle PROVE ReviewInv
    OBVIOUS
  <1>1. /\ status[Of] \in {"SUBMITTED", "STAFF_APPROVED"} /\ status \in [App -> ReviewedStatus]
        /\ opened = Nothing /\ decision = NoDecision /\ decided = Nothing /\ overlap = "no"
        /\ desk \in {"staff", "admin", "none"} /\ (reading = {} \/ reading = {Read(1)})
    BY ReviewPositions DEF ReviewInit, ReviewIdle, ReviewClosed, ReviewedStatus
  <1>2. NoDecision \in Decision /\ Read(1) \in ReadOut /\ Read(1).stage = "sent"
    BY DEF NoDecision, Decision, Read, ReadOut
  <1>3. ReviewTyped
    BY <1>1, <1>2, ReviewPositions DEF ReviewTyped, ReviewedStatus
  <1> QED BY <1>1, <1>2, <1>3 DEF ReviewInv, ReviewShape, ServerReached, OneAtATime, PageReached,
             Posting, NoDecision

(* A read is sent: alone, or it overlaps.                                  *)
LEMMA SendReadKeeps ==
  ASSUME ReviewInv, SendRead,
         UNCHANGED <<status, branchOf, desk, reviewed, dialog, posted>>
  PROVE  ReviewInv'
  <1>1. UNCHANGED <<status, desk, opened, decision, decided>>
    BY DEF reviewed, posted
  <1>2. PICK n \in FreeReads : reading' = reading \cup {Read(n)}
    <2>1. FreeReads # {} /\ FreeReads \subseteq 1..MaxReads
      BY DEF SendRead, FreeReads
    <2>2. FreeReads \in SUBSET Nat
      BY <2>1, ReviewAssumption
    <2>3. \E n \in FreeReads : \A r \in FreeReads : n <= r
      BY <2>1, <2>2, LeastRead
    <2>4. (CHOOSE s \in FreeReads : \A r \in FreeReads : s <= r) \in FreeReads
      BY <2>3
    <2> QED BY <2>4 DEF SendRead
  <1>3. Read(n) \in ReadOut /\ Read(n).stage = "sent"
    BY <1>2 DEF FreeReads, Read, ReadOut
  <1>4. overlap' = IF reading # {} \/ Posting THEN "yes"
                   ELSE IF overlap = "no" THEN "no" ELSE "ending"
    BY DEF SendRead
  <1>5. ReviewTyped'
    BY <1>1, <1>2, <1>3, <1>4 DEF ReviewInv, ReviewTyped
  <1>6. ReviewShape' /\ ServerReached'
    BY <1>1, <1>2, <1>3 DEF ReviewInv, ReviewShape, ServerReached, Posting
  <1>7. OneAtATime'
    BY <1>1, <1>2, <1>3, <1>4 DEF OneAtATime, Posting
  <1>8. PageReached'
    BY <1>1, <1>4 DEF ReviewInv, PageReached
  <1> QED BY <1>5, <1>6, <1>7, <1>8 DEF ReviewInv

(* The server answers a read: its status has reached what the page knows.  *)
LEMMA ServeReadKeeps ==
  ASSUME ReviewInv, NEW r \in reading, ServeRead(r)
  PROVE  ReviewInv'
  <1>1. UNCHANGED <<status, desk, opened, decision, decided, overlap>>
    BY DEF ServeRead, reviewed, posted
  <1> DEFINE q == [r EXCEPT !.stage = "answered", !.status = status[Of]]
  <1>2. reading' = (reading \ {r}) \cup {q}
    BY DEF ServeRead
  <1>3. q \in ReadOut /\ q.stage = "answered" /\ q.status = status[Of] /\ q.status \in ReviewedStatus
    BY DEF ReviewInv, ReviewTyped, ReadOut
  <1> HIDE DEF q
  <1>4. ReviewTyped' /\ ReviewShape' /\ ServerReached'
    BY <1>1, <1>2, <1>3 DEF ReviewInv, ReviewTyped, ReviewShape, ServerReached, Posting
  <1>5. OneAtATime'
    BY <1>1, <1>2, <1>3 DEF ReviewInv, OneAtATime, ServerReached, Posting
  <1>6. PageReached'
    BY <1>1 DEF ReviewInv, PageReached
  <1> QED BY <1>4, <1>5, <1>6 DEF ReviewInv

LEMMA ReadEndsKeeps ==
  ASSUME ReviewInv, NEW r \in reading, ShowRead(r) \/ ShowReadFailure(r)
  PROVE  ReviewInv'
  <1>1. UNCHANGED <<status, desk, decision, decided>> /\ reading' = reading \ {r}
    BY DEF ShowRead, ShowReadFailure, ReadEnds, posted
  <1>2. \/ /\ opened' = r.status /\ r.stage = "answered"
           /\ overlap' = IF overlap = "ending" /\ reading = {r} THEN "no" ELSE overlap
        \/ opened' = opened /\ overlap' = overlap
    BY DEF ShowRead, ShowReadFailure
  <1>3. r.stage = "answered" => r.status \in ReviewedStatus
    BY DEF ReviewInv, ReviewShape
  <1>4. ReviewTyped' /\ ReviewShape' /\ ServerReached'
    BY <1>1, <1>2, <1>3 DEF ReviewInv, ReviewTyped, ReviewShape, ServerReached, Posting
  <1>5. OneAtATime'
    BY <1>1, <1>2 DEF ReviewInv, OneAtATime, Posting
  <1>6. PageReached'
    BY <1>1, <1>2, <1>3, ReviewPositions DEF ReviewInv, OneAtATime, PageReached
  <1> QED BY <1>4, <1>5, <1>6 DEF ReviewInv

LEMMA CloseKeeps ==
  ASSUME ReviewInv, CloseReview
  PROVE  ReviewInv'
  <1>1. /\ desk' = "none" /\ reading' = {} /\ opened' = Nothing /\ decision' = NoDecision
        /\ decided' = Nothing /\ overlap' = "no" /\ status' = status
    BY DEF CloseReview
  <1>2. NoDecision \in Decision
    BY DEF NoDecision, Decision
  <1> QED BY <1>1, <1>2 DEF ReviewInv, ReviewTyped, ReviewShape, ServerReached, OneAtATime,
             PageReached, Posting, NoDecision

(* The user decides: the reads out overlap with the decision.              *)
LEMMA DecideKeeps ==
  ASSUME ReviewInv, NEW deed \in Deed, Decide(deed)
  PROVE  ReviewInv'
  <1>1. /\ UNCHANGED <<status, desk, opened, reading, decided>> /\ desk # "none"
        /\ decision' = [deed |-> deed, stage |-> "sent", status |-> Nothing]
        /\ overlap' = IF reading # {} THEN "yes" ELSE overlap
    BY DEF Decide, OnPage
  <1>2. deed # "none" /\ decision' \in Decision
    BY <1>1 DEF Deed, Decision
  <1> QED BY <1>1, <1>2 DEF ReviewInv, ReviewTyped, ReviewShape, ServerReached, OneAtATime,
             PageReached, Posting, NoDecision

LEMMA ServeDecisionKeeps ==
  ASSUME ReviewInv, ServeDecision
  PROVE  ReviewInv'
  <1> DEFINE to == Target[desk][decision.deed]
  <1>1. /\ decision.stage = "sent" /\ CanMove(status[Of], to, RoleAt[desk])
        /\ status' = [status EXCEPT ![Of] = to]
        /\ decision' = [decision EXCEPT !.stage = "answered", !.status = to]
        /\ UNCHANGED <<desk, opened, reading, decided, overlap>>
    BY DEF ServeDecision, reviewed, asked
  <1>2. desk \in {"staff", "admin"} /\ decision.deed \in Deed
    BY <1>1 DEF ReviewInv, ReviewTyped, ReviewShape, Posting, Decision, NoDecision
  <1>3. to \in ReviewedStatus /\ to \in Status /\ RoleAt[desk] \in StaffRole
    BY <1>2, DeedTargets, ReviewPositions
  <1> HIDE DEF to
  <1>4. status' \in [App -> Status] /\ status'[Of] = to
    BY <1>1, <1>3, ReviewPositions DEF ReviewInv, ReviewTyped
  <1>5. decision' \in Decision /\ decision'.stage = "answered" /\ decision'.status = to
        /\ decision'.deed = decision.deed
    BY <1>1, <1>3 DEF ReviewInv, ReviewTyped, Decision
  <1>6. decided # Nothing => HasReached(status'[Of], decided)
    BY <1>1, <1>3, <1>4, MovesUp DEF ReviewInv, ReviewTyped, ServerReached
  <1>7. HasReached(to, to)
    BY <1>3, ReviewPositions DEF HasReached
  <1>8. ReviewTyped'
    BY <1>1, <1>3, <1>4, <1>5 DEF ReviewInv, ReviewTyped
  <1>9. ReviewShape'
    BY <1>1, <1>2, <1>5 DEF ReviewInv, ReviewTyped, ReviewShape, Posting, NoDecision
  <1>10. ServerReached'
    BY <1>1, <1>4, <1>5, <1>6, <1>7 DEF ServerReached, to
  <1>11. OneAtATime' /\ PageReached'
    BY <1>1 DEF ReviewInv, OneAtATime, PageReached, Posting
  <1> QED BY <1>8, <1>9, <1>10, <1>11 DEF ReviewInv

LEMMA DecisionEndsKeeps ==
  ASSUME ReviewInv, ShowDecision \/ ShowRefusal
  PROVE  ReviewInv'
  <1>1. /\ UNCHANGED <<status, desk, reading, overlap>> /\ decision' = NoDecision /\ Posting
        /\ \/ /\ decision.stage = "answered" /\ opened' = decision.status
              /\ decided' = Target[desk][decision.deed]
           \/ UNCHANGED <<opened, decided>>
    BY DEF ShowDecision, ShowRefusal, asked, Posting
  <1>2. NoDecision \in Decision
    BY DEF NoDecision, Decision
  <1>3. overlap # "yes" => reading = {}
    BY <1>1 DEF ReviewInv, OneAtATime
  <1>4. decision.stage = "answered" =>
          /\ decision.status = Target[desk][decision.deed] /\ HasReached(status[Of], decision.status)
          /\ decision.status \in ReviewedStatus /\ HasReached(decision.status, decision.status)
    <2>1. SUFFICES ASSUME decision.stage = "answered" PROVE decision.status \in ReviewedStatus
      BY ReviewPositions DEF ReviewInv, ServerReached, HasReached
    <2>2. desk \in {"staff", "admin"} /\ decision.deed \in Deed
      BY <2>1 DEF ReviewInv, ReviewTyped, ReviewShape, Posting, Decision, NoDecision
    <2> QED BY <2>1, <2>2, DeedTargets DEF ReviewInv, ServerReached
  <1>5. ReviewTyped'
    BY <1>1, <1>2, <1>4 DEF ReviewInv, ReviewTyped
  <1>6. ReviewShape' /\ ServerReached' /\ OneAtATime'
    BY <1>1, <1>3, <1>4 DEF ReviewInv, ReviewShape, ServerReached, OneAtATime, Posting, NoDecision
  <1>7. PageReached'
    BY <1>1, <1>4, ReviewPositions DEF ReviewInv, PageReached
  <1> QED BY <1>5, <1>6, <1>7 DEF ReviewInv

LEMMA OthersDecideKeeps ==
  ASSUME ReviewInv, OthersDecide
  PROVE  ReviewInv'
  <1>1. PICK to \in ReviewedStatus, role \in StaffRole :
          CanMove(status[Of], to, role) /\ status' = [status EXCEPT ![Of] = to]
    BY DEF OthersDecide
  <1>2. UNCHANGED <<desk, opened, reading, decision, decided, overlap>>
    BY DEF OthersDecide, reviewed, asked, posted
  <1>3. status' \in [App -> Status] /\ status'[Of] = to
    BY <1>1, ReviewPositions DEF ReviewInv, ReviewTyped
  <1>4. \A s \in ReviewedStatus : HasReached(status[Of], s) => HasReached(status'[Of], s)
    BY <1>1, <1>3, MovesUp DEF ReviewInv, ReviewTyped
  <1>5. decision.stage = "answered" => decision.status \in ReviewedStatus
    <2>1. SUFFICES ASSUME decision.stage = "answered" PROVE decision.status \in ReviewedStatus
      OBVIOUS
    <2>2. desk \in {"staff", "admin"} /\ decision.deed \in Deed
      BY <2>1 DEF ReviewInv, ReviewTyped, ReviewShape, Posting, Decision, NoDecision
    <2> QED BY <2>1, <2>2, DeedTargets DEF ReviewInv, ServerReached
  <1>6. ReviewTyped' /\ ReviewShape'
    BY <1>1, <1>2, <1>3 DEF ReviewInv, ReviewTyped, ReviewShape, Posting
  <1>7. ServerReached'
    BY <1>2, <1>4, <1>5 DEF ReviewInv, ReviewTyped, ServerReached
  <1>8. OneAtATime' /\ PageReached'
    BY <1>2 DEF ReviewInv, OneAtATime, PageReached, Posting
  <1> QED BY <1>6, <1>7, <1>8 DEF ReviewInv

LEMMA ReviewStep == ReviewInv /\ [ReviewNext]_reviewVars => ReviewInv'
  <1> SUFFICES ASSUME ReviewInv, [ReviewNext]_reviewVars PROVE ReviewInv'
    OBVIOUS
  <1> DEFINE Same == UNCHANGED <<status, desk, opened, reading, decision, decided, overlap>>
  <1>1. Same => ReviewInv'
    BY DEF ReviewInv, ReviewTyped, ReviewShape, ServerReached, OneAtATime, PageReached, Posting
  <1>2. CASE UNCHANGED reviewVars
    <2>1. Same
      BY <1>2 DEF reviewVars, reviewed, asked, posted
    <2> QED BY <1>1, <2>1
  <1>3. CASE LookAside \/ OpenPreview \/ CloseDialog \/ \E deed \in Deed : OpenDialog(deed)
    <2>1. Same
      BY <1>3 DEF LookAside, OpenPreview, CloseDialog, OpenDialog, reviewed, asked, posted
    <2> QED BY <1>1, <2>1
  <1>4. CASE RefreshReview \/ LookAgain
    BY <1>4, SendReadKeeps DEF RefreshReview, LookAgain
  <1>5. CASE \E r \in reading : ServeRead(r) \/ ShowRead(r) \/ ShowReadFailure(r)
    BY <1>5, ServeReadKeeps, ReadEndsKeeps
  <1>6. CASE LeaveReview \/ DenyReview
    BY <1>6, CloseKeeps DEF LeaveReview, DenyReview
  <1>7. CASE \E deed \in Deed : Decide(deed)
    BY <1>7, DecideKeeps
  <1>8. CASE ServeDecision \/ ShowDecision \/ ShowRefusal \/ OthersDecide
    BY <1>8, ServeDecisionKeeps, DecisionEndsKeeps, OthersDecideKeeps
  <1> HIDE DEF Same
  <1> QED BY <1>2, <1>3, <1>4, <1>5, <1>6, <1>7, <1>8 DEF ReviewNext

(* A page that was told its decision was taken shows it, or what followed, *)
(* unless a read overlapped with another request.                          *)
THEOREM DecisionsAreShown == ReviewSpec => []DecisionShown
  <1>1. ReviewInv => DecisionShown
    BY DEF ReviewInv, PageReached, DecisionShown
  <1> QED BY <1>1, ReviewInitInv, ReviewStep, PTL DEF ReviewSpec

(* A dialog is opened, and the admin's page decides at once, only for what *)
(* the state machine permits to the role of its user in the status on the  *)
(* page.  (A staff dialog that is open when a poll changes the status can  *)
(* still be confirmed.)                                                    *)
THEOREM OffersPermitted == ReviewSpec => OffersArePermitted
  <1> DEFINE Permitted ==
        \A deed \in Deed :
          \/ dialog # deed /\ dialog' = deed
          \/ desk = "admin" /\ ~Posting /\ decision'.deed = deed
          => CanMove(opened, Target[desk][deed], RoleAt[desk])
  <1>1. ReviewInv /\ [ReviewNext]_reviewVars => [Permitted]_reviewVars
    <2> SUFFICES ASSUME ReviewInv, ReviewNext, NEW deed \in Deed,
                        \/ dialog # deed /\ dialog' = deed
                        \/ desk = "admin" /\ ~Posting /\ decision'.deed = deed
                 PROVE  CanMove(opened, Target[desk][deed], RoleAt[desk])
      OBVIOUS
    <2>1. ASSUME CanDecide, desk \in {"staff", "admin"}
          PROVE  CanMove(opened, Target[desk][deed], RoleAt[desk])
      BY <2>1 DEF CanDecide, CanMove, Transitions, Satisfies, Target, StaffTarget, AdminTarget,
         RoleAt, Deed
    <2>2. desk \in {"staff", "admin", "none"} /\ deed \notin {"none", "preview"}
      BY DEF ReviewInv, ReviewTyped, Deed
    <2>3. ASSUME dialog # deed, dialog' = deed
          PROVE  CanDecide /\ desk # "none"
      BY <2>2, <2>3
         DEF ReviewNext, RefreshReview, LookAside, LookAgain, ServeRead, ShowRead,
             ShowReadFailure, LeaveReview, DenyReview, CloseReview, OpenPreview, CloseDialog,
             OpenDialog, Decide, ServeDecision, ShowDecision, ShowRefusal, OthersDecide, OnPage
    <2>4. ASSUME desk = "admin", ~Posting, decision'.deed = deed
          PROVE  CanDecide
      <3>1. decision = NoDecision /\ decision.stage = "none" /\ decision.deed = "none"
        BY <2>4 DEF ReviewInv, ReviewShape, Posting, NoDecision
      <3>2. decision' # decision /\ decision' # NoDecision
        BY <2>2, <2>4, <3>1
      <3>3. \E d \in Deed : Decide(d)
        BY <2>4, <3>1, <3>2
           DEF ReviewNext, RefreshReview, LookAside, LookAgain, ServeRead, ShowRead,
               ShowReadFailure, LeaveReview, DenyReview, CloseReview, OpenPreview, CloseDialog,
               OpenDialog, ServeDecision, ShowDecision, ShowRefusal, OthersDecide, posted, Posting
      <3> QED BY <2>4, <3>3 DEF Decide, DialogMounted
    <2> QED BY <2>1, <2>2, <2>3, <2>4
  <1>2. ReviewSpec => [][Permitted]_reviewVars
    BY <1>1, ReviewInitInv, ReviewStep, PTL DEF ReviewSpec
  <1> QED BY <1>2 DEF OffersArePermitted


-----------------------------------------------------------------------------
(* The customer's page of appointments.                                    *)

AppointmentsSpec ==
  (AppointmentsInit \/ AppointmentsIdle) /\ [][AppointmentsNext]_appointmentVars

Proposal == [of : Dossier \cup {0}, slot : Nat, accepted : BOOLEAN, left : Int]
Detail == [id : Nat, of : Dossier, offer : Proposal]
Answer == [deed : {"none", "accept", "change"}, of : Dossier \cup {0},
           stage : {"none", "sent", "answered"}, offer : Proposal]

AppointmentsTyped ==
  /\ picked \in Dossier \cup {0} /\ offer \in Proposal /\ details \subseteq Detail
  /\ request \in Answer /\ changing \in BOOLEAN
  /\ crossed \in {"no", "yes", "ending"} /\ missed \in BOOLEAN
  /\ slot \in [Dossier -> Nat] /\ changes \in [Dossier -> Nat] /\ moved \subseteq Dossier
  /\ stages \in [Dossier -> Stage] /\ stage \in [Dossier -> Stage]

(* An answer is asked of a dossier that is picked, and a change of a slot  *)
(* that is shown.                                                          *)
AsksOfShown ==
  /\ Answering => request.of \in Dossier
  /\ changing => picked # 0 /\ offer # NoOffer

(* The offer is of dossier d and stands, but for a move by the staff.      *)
Stands(o, d) == o.of = d /\ o # NoOffer /\ (o.slot = slot[d] \/ d \in moved)

AnswerStands == request.stage = "answered" => Stands(request.offer, request.of)

(* Unless requests overlap, one is out at most, of the dossier picked, and *)
(* what it is answered stands.                                             *)
OneOut ==
  crossed # "yes" =>
    /\ \A r, s \in details : r = s
    /\ Answering => details = {} /\ request.of = picked
    /\ \A r \in details : r.of = picked /\ (r.offer # NoOffer => Stands(r.offer, picked))

ShownStands ==
  crossed = "no" /\ ~missed /\ details = {} /\ ~Answering /\ offer # NoOffer => Stands(offer, picked)

AppointmentsInv == AppointmentsTyped /\ AsksOfShown /\ AnswerStands /\ OneOut /\ ShownStands

LEMMA AppointmentsInitInv == AppointmentsInit \/ AppointmentsIdle => AppointmentsInv
  <1> SUFFICES ASSUME AppointmentsInit \/ AppointmentsIdle PROVE AppointmentsInv
    OBVIOUS
  <1>1. Nowhere /\ stage \in [Dossier -> Stage]
    BY DEF AppointmentsInit, AppointmentsIdle, Stage
  <1>2. NoOffer \in Proposal /\ NoRequest \in Answer
    BY DEF NoOffer, NoRequest, Proposal, Answer
  <1>3. AppointmentsTyped
    BY <1>1, <1>2 DEF Nowhere, AppointmentsTyped, Stage
  <1> QED BY <1>1, <1>3 DEF Nowhere, AppointmentsInv, AsksOfShown, AnswerStands, OneOut,
             ShownStands, Answering, NoRequest

(* What the bank has to say of a dossier.                                  *)
LEMMA OfferOfStands ==
  ASSUME AppointmentsTyped, NEW d \in Dossier
  PROVE  /\ OfferOf(d) \in Proposal /\ OfferOf(d) # NoOffer
         /\ OfferOf(d).of = d /\ OfferOf(d).slot = slot[d]
  <1>1. OfferOf(d) \in Proposal /\ OfferOf(d).of = d /\ OfferOf(d).slot = slot[d]
    BY AppointmentAssumption DEF OfferOf, Proposal, AppointmentsTyped
  <1> QED BY <1>1, AppointmentAssumption DEF NoOffer

(* An appointment is read: alone, or requests overlap.                     *)
LEMMA ReadDetailsKeeps ==
  ASSUME AppointmentsInv, NEW d \in Dossier, ReadDetails(d), picked' = d,
         stages' \in [Dossier -> Stage], UNCHANGED <<offer, changing, request, bank>>
  PROVE  AppointmentsInv'
  <1>1. PICK n \in Nat : details' = details \cup {[id |-> n, of |-> d, offer |-> NoOffer]}
    <2>1. FreeDetails # {} /\ FreeDetails \in SUBSET Nat
      BY AppointmentAssumption DEF ReadDetails, FreeDetails
    <2>2. \E s \in FreeDetails : \A r \in FreeDetails : s <= r
      BY <2>1, LeastRead
    <2>3. (CHOOSE s \in FreeDetails : \A r \in FreeDetails : s <= r) \in Nat
      BY <2>1, <2>2
    <2> QED BY <2>3 DEF ReadDetails
  <1>2. /\ crossed' = IF details # {} \/ Answering THEN "yes"
                      ELSE IF crossed = "no" THEN "no" ELSE "ending"
        /\ missed' = missed
    BY DEF ReadDetails, Answering
  <1>3. UNCHANGED <<slot, moved, stage, changes>>
    BY DEF bank
  <1> DEFINE q == [id |-> n, of |-> d, offer |-> NoOffer]
  <1>4. q \in Detail /\ q.of = d /\ q.offer = NoOffer /\ d # 0
    BY AppointmentAssumption DEF Detail, NoOffer, Proposal
  <1> HIDE DEF q
  <1>5. details' = details \cup {q}
    BY <1>1 DEF q
  <1>6. AppointmentsTyped'
    BY <1>2, <1>3, <1>4, <1>5 DEF AppointmentsInv, AppointmentsTyped
  <1>7. AsksOfShown' /\ AnswerStands'
    BY <1>3, <1>4 DEF AppointmentsInv, AsksOfShown, AnswerStands, Answering, Stands
  <1>8. OneOut' /\ ShownStands'
    BY <1>2, <1>3, <1>4, <1>5 DEF OneOut, ShownStands, Answering, Stands
  <1> QED BY <1>6, <1>7, <1>8 DEF AppointmentsInv

LEMMA ShowApplicationsKeeps ==
  ASSUME AppointmentsInv, ShowApplications
  PROVE  AppointmentsInv'
  <1>1. stages' = stage /\ UNCHANGED <<offer, changing, request, bank>>
    BY DEF ShowApplications
  <1>2. CASE Eligible(stage) = {}
    <2>1. UNCHANGED <<picked, details, missed, crossed, slot, changes, moved, stage>>
      BY <1>1, <1>2 DEF ShowApplications, reads, bank
    <2> QED BY <1>1, <2>1 DEF AppointmentsInv, AppointmentsTyped, AsksOfShown, AnswerStands,
               OneOut, ShownStands, Answering, Stands
  <1>3. CASE Eligible(stage) # {}
    <2>1. picked' = FirstOf(Eligible(stage)) /\ ReadDetails(picked')
      BY <1>3 DEF ShowApplications
    <2>2. Eligible(stage) \in SUBSET Nat /\ Eligible(stage) \subseteq Dossier
      BY AppointmentAssumption DEF Eligible
    <2>3. \E d \in Eligible(stage) : \A e \in Eligible(stage) : d <= e
      BY <1>3, <2>2, LeastRead
    <2>4. FirstOf(Eligible(stage)) \in Dossier
      BY <2>2, <2>3 DEF FirstOf
    <2>5. stages' \in [Dossier -> Stage]
      BY <1>1 DEF AppointmentsInv, AppointmentsTyped
    <2> QED BY <1>1, <2>1, <2>4, <2>5, ReadDetailsKeeps
  <1> QED BY <1>2, <1>3

(* The dialog of a change, and a list of dossiers that does not come.      *)
LEMMA DialogKeeps ==
  ASSUME AppointmentsInv, FailApplications \/ KeepSlot \/ AskForChange
  PROVE  AppointmentsInv'
  <1>1. /\ UNCHANGED <<picked, offer, stages, details, missed, crossed, request, bank>>
        /\ \/ changing' = changing \/ changing' = FALSE
           \/ changing' = TRUE /\ picked # 0 /\ offer # NoOffer
    BY DEF FailApplications, KeepSlot, AskForChange, OfferStands, Planning, reads
  <1>2. UNCHANGED <<slot, changes, moved, stage>>
    BY <1>1 DEF bank
  <1>3. changing' \in BOOLEAN /\ (changing' => picked # 0 /\ offer # NoOffer)
    <2>1. CASE changing' = changing
      BY <2>1 DEF AppointmentsInv, AppointmentsTyped, AsksOfShown
    <2>2. CASE changing' = FALSE
      BY <2>2
    <2>3. CASE changing' = TRUE /\ picked # 0 /\ offer # NoOffer
      BY <2>3
    <2> QED BY <1>1, <2>1, <2>2, <2>3
  <1>4. AppointmentsTyped' /\ AsksOfShown'
    BY <1>1, <1>2, <1>3 DEF AppointmentsInv, AppointmentsTyped, AsksOfShown, Answering
  <1>5. AnswerStands' /\ OneOut' /\ ShownStands'
    BY <1>1, <1>2 DEF AppointmentsInv, AnswerStands, OneOut, ShownStands, Answering, Stands
  <1> QED BY <1>4, <1>5 DEF AppointmentsInv

LEMMA PickDossierKeeps ==
  ASSUME AppointmentsInv, NEW d \in Dossier, PickDossier(d)
  PROVE  AppointmentsInv'
  <1>1. /\ ReadDetails(d) /\ picked' = d /\ stages' = stages
        /\ UNCHANGED <<offer, changing, request, bank>>
    BY DEF PickDossier
  <1>2. stages' \in [Dossier -> Stage]
    BY <1>1 DEF AppointmentsInv, AppointmentsTyped
  <1> QED BY <1>1, <1>2, ReadDetailsKeeps

LEMMA ServeDetailsKeeps ==
  ASSUME AppointmentsInv, NEW r \in details, ServeDetails(r)
  PROVE  AppointmentsInv'
  <1> DEFINE q == [r EXCEPT !.offer = OfferOf(r.of)]
  <1>1. details' = (details \ {r}) \cup {q} /\ r.offer = NoOffer
    BY DEF ServeDetails
  <1>2. UNCHANGED <<picked, offer, stages, changing, missed, crossed, request>>
    BY DEF ServeDetails, onPage
  <1>3. UNCHANGED <<slot, changes, moved, stage>>
    BY DEF ServeDetails, bank
  <1>4. r \in Detail /\ r.of \in Dossier
    BY DEF AppointmentsInv, AppointmentsTyped, Detail
  <1>5. OfferOf(r.of) \in Proposal /\ Stands(OfferOf(r.of), r.of)
    BY <1>4, OfferOfStands DEF AppointmentsInv, Stands
  <1>6. q \in Detail /\ q.of = r.of /\ Stands(q.offer, r.of)
    BY <1>4, <1>5 DEF Detail
  <1> HIDE DEF q
  <1>7. AppointmentsTyped'
    BY <1>1, <1>2, <1>3, <1>6 DEF AppointmentsInv, AppointmentsTyped
  <1>8. AsksOfShown' /\ AnswerStands'
    BY <1>2, <1>3 DEF AppointmentsInv, AsksOfShown, AnswerStands, Answering, Stands
  <1>9. OneOut'
    BY <1>1, <1>2, <1>3, <1>6 DEF AppointmentsInv, OneOut, Answering, Stands
  <1>10. ShownStands'
    BY <1>1, <1>2, <1>3 DEF AppointmentsInv, ShownStands, Answering, Stands
  <1> QED BY <1>7, <1>8, <1>9, <1>10 DEF AppointmentsInv

(* What a read alone brings to the page stands.                            *)
LEMMA DetailsEndKeeps ==
  ASSUME AppointmentsInv, NEW r \in details, ShowDetails(r) \/ FailDetails(r)
  PROVE  AppointmentsInv'
  <1>1. /\ details' = details \ {r}
        /\ \/ /\ r.offer # NoOffer /\ offer' = r.offer /\ missed' = FALSE
              /\ crossed' = IF crossed = "ending" /\ details = {r} THEN "no" ELSE crossed
           \/ missed' = TRUE /\ UNCHANGED <<offer, crossed>>
    BY DEF ShowDetails, FailDetails, onPage
  <1>2. UNCHANGED <<picked, stages, changing, request>>
    BY DEF ShowDetails, FailDetails, onPage
  <1>3. UNCHANGED <<slot, changes, moved, stage>>
    BY DEF ShowDetails, FailDetails, bank
  <1>4. r.offer \in Proposal
    BY DEF AppointmentsInv, AppointmentsTyped, Detail
  <1>5. AppointmentsTyped'
    BY <1>1, <1>2, <1>3, <1>4 DEF AppointmentsInv, AppointmentsTyped
  <1>6. AsksOfShown' /\ AnswerStands'
    BY <1>1, <1>2, <1>3 DEF AppointmentsInv, AsksOfShown, AnswerStands, Answering, Stands
  <1>7. OneOut'
    BY <1>1, <1>2, <1>3 DEF AppointmentsInv, OneOut, Answering, Stands
  <1>8. ShownStands'
    BY <1>1, <1>2, <1>3 DEF AppointmentsInv, OneOut, ShownStands, Answering, Stands
  <1> QED BY <1>5, <1>6, <1>7, <1>8 DEF AppointmentsInv

LEMMA SendAnswerKeeps ==
  ASSUME AppointmentsInv, AcceptOffer \/ ChangeSlot
  PROVE  AppointmentsInv'
  <1>1. PICK deed \in {"accept", "change"} : SendAnswer(deed) /\ picked # 0
    BY DEF AcceptOffer, ChangeSlot, OfferStands, Planning, AppointmentsInv, AsksOfShown
  <1>2. /\ request' = [deed |-> deed, of |-> picked, stage |-> "sent", offer |-> NoOffer]
        /\ crossed' = IF details # {} THEN "yes" ELSE crossed
        /\ UNCHANGED <<picked, offer, stages, changing, details, missed, bank>>
    BY <1>1 DEF SendAnswer
  <1>3. UNCHANGED <<slot, changes, moved, stage>>
    BY <1>2 DEF bank
  <1>4. NoOffer \in Proposal
    BY DEF NoOffer, Proposal
  <1>5. request' \in Answer /\ request'.stage = "sent" /\ request'.of = picked
    BY <1>2, <1>4 DEF AppointmentsInv, AppointmentsTyped, Answer
  <1>6. AppointmentsTyped'
    BY <1>2, <1>3, <1>5 DEF AppointmentsInv, AppointmentsTyped
  <1>7. AsksOfShown' /\ AnswerStands' /\ ShownStands'
    BY <1>1, <1>2, <1>3, <1>5
       DEF AppointmentsInv, AppointmentsTyped, AsksOfShown, AnswerStands, ShownStands, Answering
  <1>8. OneOut'
    BY <1>2, <1>3, <1>5 DEF AppointmentsInv, OneOut, Answering, Stands
  <1> QED BY <1>6, <1>7, <1>8 DEF AppointmentsInv

LEMMA ServeAcceptKeeps ==
  ASSUME AppointmentsInv, ServeAccept
  PROVE  AppointmentsInv'
  <1> DEFINE d == request.of
  <1> DEFINE said == [OfferOf(d) EXCEPT !.accepted = TRUE]
  <1>1. /\ request.stage = "sent" /\ stage' = [stage EXCEPT ![d] = "confirmed"]
        /\ request' = [request EXCEPT !.stage = "answered", !.offer = said]
    BY DEF ServeAccept, ServerSays
  <1>2. UNCHANGED <<picked, offer, stages, changing, details, missed, crossed>>
    BY DEF ServeAccept, onPage, reads
  <1>3. UNCHANGED <<slot, changes, moved>>
    BY DEF ServeAccept
  <1>4. d \in Dossier /\ Answering /\ request \in Answer
    BY <1>1 DEF Answering, AppointmentsInv, AsksOfShown, AppointmentsTyped
  <1>5. /\ OfferOf(d) \in Proposal /\ OfferOf(d).of = d /\ OfferOf(d).slot = slot[d]
    BY <1>4, OfferOfStands DEF AppointmentsInv
  <1>6. said \in Proposal /\ said.of = d /\ said.slot = slot[d] /\ said # NoOffer
    <2>1. said \in Proposal /\ said.of = d /\ said.slot = slot[d]
      BY <1>5 DEF Proposal
    <2> QED BY <2>1, <1>4, AppointmentAssumption DEF NoOffer
  <1> HIDE DEF said
  <1>7. /\ request' \in Answer /\ request'.stage = "answered" /\ request'.of = d
        /\ request'.offer = said
    BY <1>1, <1>4, <1>6 DEF Answer
  <1>8. AppointmentsTyped'
    BY <1>1, <1>2, <1>3, <1>7 DEF AppointmentsInv, AppointmentsTyped, Stage
  <1>9. AsksOfShown' /\ AnswerStands' /\ ShownStands'
    BY <1>2, <1>3, <1>4, <1>6, <1>7
       DEF AppointmentsInv, AsksOfShown, AnswerStands, ShownStands, Answering, Stands
  <1>10. OneOut'
    BY <1>2, <1>3, <1>4, <1>7 DEF AppointmentsInv, OneOut, Answering, Stands
  <1> QED BY <1>8, <1>9, <1>10 DEF AppointmentsInv

(* Another slot is found: no read is out unless requests overlap.          *)
LEMMA ServeChangeKeeps ==
  ASSUME AppointmentsInv, ServeChange
  PROVE  AppointmentsInv'
  <1> DEFINE d == request.of
  <1> DEFINE said == [of |-> d, slot |-> slot[d] + 1, accepted |-> FALSE,
                      left |-> MaxChanges - changes'[d]]
  <1>1. /\ request.stage = "sent" /\ slot' = [slot EXCEPT ![d] = @ + 1]
        /\ changes' = [changes EXCEPT ![d] = @ + 1]
        /\ request' = [request EXCEPT !.stage = "answered", !.offer = said]
    BY DEF ServeChange, ServerSays
  <1>2. UNCHANGED <<picked, offer, stages, changing, details, missed, crossed>>
    BY DEF ServeChange, onPage, reads
  <1>3. UNCHANGED <<stage, moved>>
    BY DEF ServeChange
  <1>4. d \in Dossier /\ Answering /\ request \in Answer
    BY <1>1 DEF Answering, AppointmentsInv, AsksOfShown, AppointmentsTyped
  <1>5. slot' \in [Dossier -> Nat] /\ changes' \in [Dossier -> Nat]
        /\ slot'[d] = slot[d] + 1 /\ slot[d] \in Nat
    BY <1>1, <1>4 DEF AppointmentsInv, AppointmentsTyped
  <1>6. said \in Proposal /\ said.of = d /\ said.slot = slot'[d] /\ said # NoOffer
    <2>1. slot[d] + 1 \in Nat /\ changes'[d] \in Nat /\ MaxChanges \in Nat
      BY <1>4, <1>5, AppointmentAssumption
    <2>2. MaxChanges - changes'[d] \in Int
      BY <2>1
    <2>3. said \in Proposal
      BY <1>4, <2>1, <2>2 DEF Proposal
    <2> QED BY <2>3, <1>4, <1>5, AppointmentAssumption DEF NoOffer
  <1> HIDE DEF said
  <1>7. /\ request' \in Answer /\ request'.stage = "answered" /\ request'.of = d
        /\ request'.offer = said
    BY <1>1, <1>4, <1>6 DEF Answer
  <1>8. AppointmentsTyped'
    BY <1>2, <1>3, <1>5, <1>7 DEF AppointmentsInv, AppointmentsTyped
  <1>9. AsksOfShown' /\ AnswerStands' /\ ShownStands'
    BY <1>2, <1>3, <1>4, <1>6, <1>7
       DEF AppointmentsInv, AsksOfShown, AnswerStands, ShownStands, Answering, Stands
  <1>10. OneOut'
    BY <1>2, <1>3, <1>4, <1>7 DEF AppointmentsInv, OneOut, Answering, Stands
  <1> QED BY <1>8, <1>9, <1>10 DEF AppointmentsInv

LEMMA AnswerEndsKeeps ==
  ASSUME AppointmentsInv, ShowAnswer \/ ShowNoAnswer
  PROVE  AppointmentsInv'
  <1>1. request' = NoRequest /\ NoRequest \in Answer /\ NoRequest.stage = "none" /\ Answering
    BY DEF ShowAnswer, ShowNoAnswer, NoRequest, NoOffer, Answer, Proposal, Answering
  <1>2. UNCHANGED <<picked, details, missed, slot, changes, moved, stage>>
    BY DEF ShowAnswer, ShowNoAnswer, reads, bank
  <1>3. \/ /\ request.stage = "answered" /\ offer' = request.offer /\ crossed' = crossed
           /\ stages' = [stages EXCEPT ![request.of] =
                           IF request.deed = "accept" THEN "confirmed" ELSE "proposed"]
           /\ changing' = (changing /\ request.deed # "change")
        \/ crossed' = "yes" /\ UNCHANGED <<offer, stages, changing>>
    BY DEF ShowAnswer, ShowNoAnswer, reads
  <1>4. request.stage = "answered" => Stands(request.offer, request.of) /\ request.offer \in Proposal
    BY DEF AppointmentsInv, AppointmentsTyped, AnswerStands, Answer
  <1>5. stages' \in [Dossier -> Stage] /\ changing' \in BOOLEAN /\ (changing' => changing)
    <2>1. CASE crossed' = "yes" /\ UNCHANGED <<offer, stages, changing>>
      BY <2>1 DEF AppointmentsInv, AppointmentsTyped
    <2>2. CASE /\ stages' = [stages EXCEPT ![request.of] =
                               IF request.deed = "accept" THEN "confirmed" ELSE "proposed"]
               /\ changing' = (changing /\ request.deed # "change")
      BY <2>2 DEF AppointmentsInv, AppointmentsTyped, Stage
    <2> QED BY <1>3, <2>1, <2>2
  <1>6. AppointmentsTyped'
    BY <1>1, <1>2, <1>3, <1>4, <1>5 DEF AppointmentsInv, AppointmentsTyped
  <1>7. AsksOfShown' /\ AnswerStands'
    BY <1>1, <1>2, <1>3, <1>4, <1>5 DEF AppointmentsInv, AsksOfShown, AnswerStands, Answering, Stands
  <1>8. OneOut' /\ ShownStands'
    BY <1>1, <1>2, <1>3, <1>4 DEF AppointmentsInv, OneOut, ShownStands, Answering, Stands
  <1> QED BY <1>6, <1>7, <1>8 DEF AppointmentsInv

LEMMA StaffMovesKeeps ==
  ASSUME AppointmentsInv, NEW d \in Dossier, StaffMoves(d)
  PROVE  AppointmentsInv'
  <1>1. /\ slot' = [slot EXCEPT ![d] = @ + 1] /\ moved' = moved \cup {d}
        /\ stage' \in [Dossier -> Stage] /\ changes' = changes
    BY DEF StaffMoves, AppointmentsInv, AppointmentsTyped, Stage
  <1>2. UNCHANGED <<picked, offer, stages, changing, details, missed, crossed, request>>
    BY DEF StaffMoves, onPage, reads
  <1>3. slot' \in [Dossier -> Nat] /\ \A e \in Dossier \ {d} : slot'[e] = slot[e]
    BY <1>1 DEF AppointmentsInv, AppointmentsTyped
  <1>4. \A o, e : e \in Dossier /\ o.of = e /\ (o.slot = slot[e] \/ e \in moved)
                    => o.slot = slot'[e] \/ e \in moved'
    BY <1>1, <1>3
  <1>5. AppointmentsTyped'
    BY <1>1, <1>2, <1>3 DEF AppointmentsInv, AppointmentsTyped
  <1>6. AsksOfShown' /\ AnswerStands'
    BY <1>1, <1>2, <1>4 DEF AppointmentsInv, AsksOfShown, AnswerStands, Answering, Stands
  <1>7. \A r \in details : r.of \in Dossier
    BY DEF AppointmentsInv, AppointmentsTyped, Detail
  <1>8. OneOut'
    BY <1>1, <1>2, <1>4, <1>7 DEF AppointmentsInv, OneOut, Answering, Stands
  <1>9. ShownStands'
    BY <1>1, <1>2, <1>4 DEF AppointmentsInv, AppointmentsTyped, ShownStands, Answering, Stands
  <1> QED BY <1>5, <1>6, <1>8, <1>9 DEF AppointmentsInv

LEMMA LeaveAppointmentsKeeps ==
  ASSUME AppointmentsInv, LeaveAppointments
  PROVE  AppointmentsInv'
  <1>1. /\ picked' = 0 /\ offer' = NoOffer /\ details' = {} /\ request' = NoRequest
        /\ missed' = FALSE /\ crossed' = "no" /\ moved' = {} /\ ~changing
        /\ stages' = [d \in Dossier |-> "studied"]
        /\ UNCHANGED <<changing, stage, slot, changes>>
    BY DEF LeaveAppointments
  <1>2. NoOffer \in Proposal /\ NoRequest \in Answer /\ NoRequest.stage = "none"
    BY DEF NoOffer, NoRequest, Proposal, Answer
  <1>3. AppointmentsTyped'
    BY <1>1, <1>2 DEF AppointmentsInv, AppointmentsTyped, Stage
  <1> QED BY <1>1, <1>2, <1>3 DEF AppointmentsInv, AsksOfShown, AnswerStands, OneOut,
             ShownStands, Answering

LEMMA AppointmentsStep == AppointmentsInv /\ [AppointmentsNext]_appointmentVars => AppointmentsInv'
  <1> SUFFICES ASSUME AppointmentsInv, [AppointmentsNext]_appointmentVars PROVE AppointmentsInv'
    OBVIOUS
  <1>1. CASE UNCHANGED appointmentVars
    <2>1. /\ UNCHANGED <<picked, offer, stages, changing, details, missed, crossed, request>>
          /\ UNCHANGED <<slot, changes, moved, stage>>
      BY <1>1 DEF appointmentVars, onPage, reads, bank
    <2> QED BY <2>1 DEF AppointmentsInv, AppointmentsTyped, AsksOfShown, AnswerStands,
               OneOut, ShownStands, Answering, Stands
  <1>2. CASE ShowApplications \/ FailApplications \/ AskForChange \/ KeepSlot
    BY <1>2, ShowApplicationsKeeps, DialogKeeps
  <1>3. CASE \E d \in Dossier : PickDossier(d) \/ StaffMoves(d)
    BY <1>3, PickDossierKeeps, StaffMovesKeeps
  <1>4. CASE \E r \in details : ServeDetails(r) \/ ShowDetails(r) \/ FailDetails(r)
    BY <1>4, ServeDetailsKeeps, DetailsEndKeeps
  <1>5. CASE AcceptOffer \/ ChangeSlot \/ ServeAccept \/ ServeChange
    BY <1>5, SendAnswerKeeps, ServeAcceptKeeps, ServeChangeKeeps
  <1>6. CASE ShowAnswer \/ ShowNoAnswer \/ LeaveAppointments
    BY <1>6, AnswerEndsKeeps, LeaveAppointmentsKeeps
  <1> QED BY <1>1, <1>2, <1>3, <1>4, <1>5, <1>6 DEF AppointmentsNext

(* The slot a customer confirms is the one on the page of the dossier      *)
(* picked, unless the staff moved it, a read was out or failed, or requests*)
(* overlapped or went unanswered.                                          *)
THEOREM ShownIsConfirmed == AppointmentsSpec => ConfirmsWhatIsShown
  <1> DEFINE AsShown ==
        request'.stage = "sent" /\ request' # request /\ crossed = "no" /\ ~missed /\ details = {}
          => offer.of = picked /\ (offer.slot = slot[picked] \/ picked \in moved)
  <1>1. AppointmentsInv /\ [AppointmentsNext]_appointmentVars => [AsShown]_appointmentVars
    <2> SUFFICES ASSUME AppointmentsInv, AppointmentsNext, request'.stage = "sent",
                        request' # request, crossed = "no", ~missed, details = {}
                 PROVE  offer.of = picked /\ (offer.slot = slot[picked] \/ picked \in moved)
      OBVIOUS
    <2>1. AcceptOffer \/ ChangeSlot
      <3>1. ~ServeAccept /\ ~ServeChange
        BY DEF ServeAccept, ServeChange, ServerSays, AppointmentsInv, AppointmentsTyped, Answer
      <3>2. ~ShowAnswer /\ ~ShowNoAnswer /\ ~LeaveAppointments
        BY DEF ShowAnswer, ShowNoAnswer, LeaveAppointments, NoRequest
      <3>3. ~ShowApplications /\ ~FailApplications /\ ~AskForChange /\ ~KeepSlot
        BY DEF ShowApplications, FailApplications, AskForChange, KeepSlot
      <3>4. ~\E d \in Dossier : PickDossier(d) \/ StaffMoves(d)
        BY DEF PickDossier, StaffMoves
      <3> QED BY <3>1, <3>2, <3>3, <3>4 DEF AppointmentsNext
    <2>2. ~Answering /\ offer # NoOffer
      BY <2>1 DEF AcceptOffer, ChangeSlot, OfferStands, AppointmentsInv, AsksOfShown
    <2> QED BY <2>2 DEF AppointmentsInv, ShownStands, Stands
  <1>2. AppointmentsSpec => [][AsShown]_appointmentVars
    BY <1>1, AppointmentsInitInv, AppointmentsStep, PTL DEF AppointmentsSpec
  <1> QED BY <1>2 DEF ConfirmsWhatIsShown

-----------------------------------------------------------------------------
(* The lists and dashboards.                                               *)

(* Pages whose pager waits for the load.                                   *)
PatientPagers == {"securityUsers", "securityActivity", "securityData"}

Suits(p, profile) ==
  /\ profile.appends => profile.after = "patch" /\ profile.blanks = "never" /\ ~profile.perTab
  /\ p = "clientApplications" <=> profile.appends
  /\ profile.perTab => p = "securityData"
  /\ profile.own => p = "staffActivity"
  /\ profile.after = "reloadLater" => p = "adminBanned"
  /\ p \in PatientPagers => "loading" \in profile.raise["query"] \cap profile.raise["enter"]

RegionsSuit(p, profile) ==
  \A r \in profile.regions :
    /\ "more" \in r.deeds \/ "create" \in r.deeds => p = "clientApplications"
    /\ p = "clientApplications" =>
         {"filter", "submit", "window", "prev", "next", "refresh", "scan"} \cap r.deeds = {}
    /\ "next" \in r.deeds => p \in HastyPagers \/ (p \in PatientPagers /\ "loading" \in r.off)

(* A page that claims to be empty hides its list under the first load, and *)
(* under any load that drops the error.                                    *)
ClaimsSuit(p, profile) ==
  p \notin HastyPages /\ profile.says \in {"empty", "emptyUnlessError"} =>
    /\ profile.spinner \in {"list", "page", "pageIfEmpty", "listIfEmpty"}
    /\ profile.blanks # "onPartFailure" /\ ~profile.perTab /\ profile.after # "patch"
    /\ "loading" \in profile.raise["enter"]
    /\ profile.forgets = "onLoad" =>
         "loading" \in profile.raise["query"] \cap profile.raise["refresh"] /\ ~profile.polls
    /\ profile.forgets = "onRefresh" => "logsLoading" \in profile.raise["refresh"]

LEMMA Profiles ==
  /\ Profile["staffDashboard"] = StaffDashboard
  /\ Profile["staffAppointments"] = StaffAppointments
  /\ Profile["staffActivity"] = StaffActivity
  /\ Profile["staffReports"] = StaffReports
  /\ Profile["staffAnalytics"] = StaffAnalytics
  /\ Profile["adminSidebar"] = AdminSidebar
  /\ Profile["adminHome"] = AdminHome
  /\ Profile["adminApplications"] = AdminApplications
  /\ Profile["adminAppointments"] = AdminAppointments
  /\ Profile["adminActivity"] = AdminActivity
  /\ Profile["adminReports"] = AdminReports
  /\ Profile["adminAnalytics"] = AdminAnalytics
  /\ Profile["adminBanned"] = AdminBanned
  /\ Profile["securityUsers"] = SecurityUsers
  /\ Profile["securityActivity"] = SecurityActivity
  /\ Profile["securityAlerts"] = SecurityAlerts
  /\ Profile["securityNetwork"] = SecurityNetwork
  /\ Profile["securityData"] = SecurityData
  /\ Profile["securityHome"] = SecurityHome
  /\ Profile["clientApplications"] = ClientApplications
  /\ Profile["clientHome"] = ClientHome
  BY DEF Profile

LEMMA ProfilesSuit == \A p \in DOMAIN Profile : Suits(p, Profile[p]) /\ ClaimsSuit(p, Profile[p])
  <1> USE Profiles DEF Suits, ClaimsSuit, PatientPagers, HastyPages, Plain
  <1>1. Suits("staffDashboard", StaffDashboard) /\ ClaimsSuit("staffDashboard", StaffDashboard)
    BY DEF StaffDashboard
  <1>2. Suits("staffAppointments", StaffAppointments) /\ ClaimsSuit("staffAppointments", StaffAppointments)
    BY DEF StaffAppointments
  <1>3. Suits("staffActivity", StaffActivity) /\ ClaimsSuit("staffActivity", StaffActivity)
    BY DEF StaffActivity
  <1>4. Suits("staffReports", StaffReports) /\ ClaimsSuit("staffReports", StaffReports)
    BY DEF StaffReports
  <1>5. Suits("staffAnalytics", StaffAnalytics) /\ ClaimsSuit("staffAnalytics", StaffAnalytics)
    BY DEF StaffAnalytics
  <1>6. Suits("adminSidebar", AdminSidebar) /\ ClaimsSuit("adminSidebar", AdminSidebar)
    BY DEF AdminSidebar
  <1>7. Suits("adminHome", AdminHome) /\ ClaimsSuit("adminHome", AdminHome)
    BY DEF AdminHome
  <1>8. Suits("adminApplications", AdminApplications) /\ ClaimsSuit("adminApplications", AdminApplications)
    BY ZenonT(40) DEF AdminApplications
  <1>9. Suits("adminAppointments", AdminAppointments) /\ ClaimsSuit("adminAppointments", AdminAppointments)
    BY DEF AdminAppointments
  <1>10. Suits("adminActivity", AdminActivity) /\ ClaimsSuit("adminActivity", AdminActivity)
    BY DEF AdminActivity
  <1>11. Suits("adminReports", AdminReports) /\ ClaimsSuit("adminReports", AdminReports)
    BY DEF AdminReports
  <1>12. Suits("adminAnalytics", AdminAnalytics) /\ ClaimsSuit("adminAnalytics", AdminAnalytics)
    BY DEF AdminAnalytics
  <1>13. Suits("adminBanned", AdminBanned) /\ ClaimsSuit("adminBanned", AdminBanned)
    <2>1. /\ AdminBanned.appends = FALSE /\ AdminBanned.after = "reloadLater"
          /\ AdminBanned.own = FALSE /\ AdminBanned.perTab = FALSE
          /\ AdminBanned.spinner = "pageIfEmpty" /\ AdminBanned.blanks = "never"
          /\ AdminBanned.forgets = "onLoad" /\ AdminBanned.polls = FALSE
      BY DEF AdminBanned
    <2>2. AdminBanned.raise.query = {"loading"} /\ AdminBanned.raise.refresh = {"loading"}
          /\ AdminBanned.raise.enter = {"loading"}
      BY ZenonT(40) DEF AdminBanned
    <2> QED BY <2>1, <2>2
  <1>14. Suits("securityUsers", SecurityUsers) /\ ClaimsSuit("securityUsers", SecurityUsers)
    BY ZenonT(40) DEF SecurityUsers, Security
  <1>15. Suits("securityActivity", SecurityActivity) /\ ClaimsSuit("securityActivity", SecurityActivity)
    BY ZenonT(40) DEF SecurityActivity, Security
  <1>16. Suits("securityAlerts", SecurityAlerts) /\ ClaimsSuit("securityAlerts", SecurityAlerts)
    BY DEF SecurityAlerts, Security
  <1>17. Suits("securityNetwork", SecurityNetwork) /\ ClaimsSuit("securityNetwork", SecurityNetwork)
    BY DEF SecurityNetwork, Security
  <1>18. Suits("securityData", SecurityData) /\ ClaimsSuit("securityData", SecurityData)
    BY ZenonT(40) DEF SecurityData, Security
  <1>19. Suits("securityHome", SecurityHome) /\ ClaimsSuit("securityHome", SecurityHome)
    BY DEF SecurityHome, Security
  <1>20. Suits("clientApplications", ClientApplications) /\ ClaimsSuit("clientApplications", ClientApplications)
    BY DEF ClientApplications
  <1>21. Suits("clientHome", ClientHome) /\ ClaimsSuit("clientHome", ClientHome)
    BY DEF ClientHome
  <1> HIDE DEF Suits, ClaimsSuit
  <1> QED BY <1>1, <1>2, <1>3, <1>4, <1>5, <1>6, <1>7, <1>8, <1>9, <1>10, <1>11,
     <1>12, <1>13, <1>14, <1>15, <1>16, <1>17, <1>18, <1>19, <1>20, <1>21 DEF
     Profile

LEMMA AllRegionsSuit == \A p \in DOMAIN Profile : RegionsSuit(p, Profile[p])
  <1> USE Profiles DEF RegionsSuit, PatientPagers, HastyPagers, Region, Bar, Panel, Rows, Plain
  <1>1. RegionsSuit("staffDashboard", StaffDashboard)
    BY DEF StaffDashboard, StaffDashboardList, StaffDashboardSearch,
       StaffDashboardTabs, StaffHeaderNav
  <1>2. RegionsSuit("staffAppointments", StaffAppointments)
    BY DEF StaffAppointments, StaffAppointmentsBranches, StaffAppointmentsFigures,
       StaffAppointmentsFilters, StaffAppointmentsPager, StaffAppointmentsRefresh,
       StaffAppointmentsTable, StaffAppointmentsTabs
  <1>3. RegionsSuit("staffActivity", StaffActivity)
    BY DEF StaffActivity, StaffActivityCharts, StaffActivityExport,
       StaffActivityFigures, StaffActivityInspector, StaffActivityPager,
       StaffActivityPeriod, StaffActivityRefresh, StaffActivityReset,
       StaffActivitySearch, StaffActivityTable
  <1>4. RegionsSuit("staffReports", StaffReports)
    BY DEF StaffReports, StaffHeaderNav
  <1>5. RegionsSuit("staffAnalytics", StaffAnalytics)
    BY DEF StaffAnalytics, StaffAnalyticsExport, StaffAnalyticsPeriod,
       StaffAnalyticsRefresh
  <1>6. RegionsSuit("adminSidebar", AdminSidebar)
    BY DEF AdminSidebar, AdminNotifications, AdminSidebarNav
  <1>7. RegionsSuit("adminHome", AdminHome)
    BY DEF AdminHome, AdminHomeCharts, AdminHomeFigures, AdminHomePeriod,
       AdminHomeQueue, AdminHomeRefresh
  <1>8. RegionsSuit("adminApplications", AdminApplications)
    BY DEF AdminApplications, AdminApplicationsPager, AdminApplicationsRefresh,
       AdminApplicationsSearch, AdminApplicationsTable, AdminApplicationsTabs
  <1>9. RegionsSuit("adminAppointments", AdminAppointments)
    BY DEF AdminAppointments, AdminAppointmentsBranches, AdminAppointmentsFigures,
       AdminAppointmentsFilters, AdminAppointmentsPager, AdminAppointmentsRefresh,
       AdminAppointmentsTable, AdminAppointmentsTabs
  <1>10. RegionsSuit("adminActivity", AdminActivity)
    BY DEF AdminActivity, AdminActivityDevice, AdminActivityExport,
       AdminActivityFigures, AdminActivityFilters, AdminActivityInspector,
       AdminActivityPacks, AdminActivityPager, AdminActivityPeriod,
       AdminActivityTable, AdminActivityTabs
  <1>11. RegionsSuit("adminReports", AdminReports)
    BY DEF AdminReports
  <1>12. RegionsSuit("adminAnalytics", AdminAnalytics)
    BY DEF AdminAnalytics, AdminAnalyticsControls, AdminAnalyticsExport,
       AdminAnalyticsRefresh
  <1>13. RegionsSuit("adminBanned", AdminBanned)
    BY DEF AdminBanned, AdminBannedConfirm, AdminBannedDialog, AdminBannedPager,
       AdminBannedRefresh, AdminBannedSearch, AdminBannedTable
  <1>14. RegionsSuit("securityUsers", SecurityUsers)
    BY DEF SecurityUsers, Security, SecuritySidebarNav, SecurityUsersConfirm,
       SecurityUsersFilters, SecurityUsersPager, SecurityUsersRefresh,
       SecurityUsersStaff, SecurityUsersSuspend, SecurityUsersTable
  <1>15. RegionsSuit("securityActivity", SecurityActivity)
    BY DEF SecurityActivity, Security, SecurityActivityDevice,
       SecurityActivityExport, SecurityActivityFilters, SecurityActivityPager,
       SecurityActivityRefresh, SecurityActivityTable
  <1>16. RegionsSuit("securityAlerts", SecurityAlerts)
    BY DEF SecurityAlerts, Security, SecurityAlertsCounters, SecurityAlertsRefresh,
       SecurityAlertsScan, SecurityAlertsSeverity, SecurityAlertsSuspended
  <1>17. RegionsSuit("securityNetwork", SecurityNetwork)
    BY DEF SecurityNetwork, Security, SecurityNetworkAgent, SecurityNetworkPorts,
       SecurityNetworkRefresh, SecurityNetworkScan, SecurityNetworkSockets,
       SecurityNetworkTabs, SecurityNetworkTraffic
  <1>18. RegionsSuit("securityData", SecurityData)
    BY DEF SecurityData, Security, SecurityDataPager, SecurityDataRefresh,
       SecurityDataSearch, SecurityDataTables, SecurityDataTabs
  <1>19. RegionsSuit("securityHome", SecurityHome)
    BY DEF SecurityHome, Security, SecurityHomeCards, SecurityHomeRefresh,
       SecuritySidebarNav
  <1>20. RegionsSuit("clientApplications", ClientApplications)
    BY DEF ClientApplications, ClientApplicationsCreate, ClientApplicationsDelete,
       ClientApplicationsList, ClientApplicationsMore, ClientHeaderNav
  <1>21. RegionsSuit("clientHome", ClientHome)
    BY DEF ClientHome, ClientHeaderNav, ClientHomeAccount, ClientHomeActions,
       ClientHomeApplications, ClientHomeAppointments, ClientHomeMessages,
       ClientHomeNotifications
  <1> HIDE DEF RegionsSuit
  <1> QED BY <1>1, <1>2, <1>3, <1>4, <1>5, <1>6, <1>7, <1>8, <1>9, <1>10, <1>11,
     <1>12, <1>13, <1>14, <1>15, <1>16, <1>17, <1>18, <1>19, <1>20, <1>21 DEF
     Profile

-----------------------------------------------------------------------------
(* The inductive invariant. *)

ListingSpec == (ListingInit \/ ListingIdle) /\ [][ListingNext]_listingVars

Filter == DOMAIN PagesOf[1]
QueryAt == [filter : Filter, page : Nat \ {0}]
RowSet == [filter : Filter, pages : SUBSET Nat, version : Nat, own : BOOLEAN]
CommandOut == [stage : {"none", "sent", "applied", "late"}, query : QueryAt, read : Nat,
               deed : Deeds \cup {"none"}]

LoadOut(n, down) ==
  [slot : {n}, query : QueryAt, more : BOOLEAN, stage : {"sent", "answered"},
   version : Nat, own : BOOLEAN, takesDown : {down}]
IsLoad(l) == \E n, down : l \in LoadOut(n, down)

ListingTyped ==
  /\ listing \in DOMAIN Profile
  /\ query \in QueryAt /\ shown \in RowSet /\ aside \in RowSet
  /\ \A l \in loads : IsLoad(l)
  /\ command \in CommandOut
  /\ error \in BOOLEAN /\ failed \in BOOLEAN /\ inView \in BOOLEAN
  /\ done \in {"no", "data", "known"} /\ raced \in {"no", "yes", "ending"}

(* Nothing on the page or on its way is newer than the data.               *)
Dated ==
  /\ version \in Nat /\ version < Len(PagesOf)
  /\ shown.version <= version /\ aside.version <= version /\ command.read <= version
  /\ \A l \in loads : l.version <= version

(* Unless requests overlap, a load is out alone, and without a command.    *)
OneLoad ==
  raced # "yes" =>
    /\ \A k, l \in loads : k = l
    /\ loads # {} => ~Underway

(* What is loaded after a command, or by a timer, is what was asked for;   *)
(* only the customer's list has more rows to load, and nothing to scan.    *)
Handlers ==
  /\ where # "on" => loads = {} /\ command.stage = "none"
  /\ raced = "no" /\ Underway => command.query = query
  /\ command.stage = "late" => Page.after = "reloadLater"
  /\ ~inView => Page.polls
  /\ \A l \in loads : l.more => Page.appends
  /\ Page.appends => command.deed # "scan"

Settled == shown.filter = query.filter /\ shown.pages = {query.page}

(* A load that is out alone asks for what the controls stand at, and a     *)
(* patient page without such a load, but for one of a timer, shows it.     *)
ControlsLead ==
  where = "on" /\ listing \notin StalePages /\ ~Page.appends =>
    /\ raced # "yes" => \A l \in loads : l.query = query
    /\ raced = "no" /\ ~failed /\ loads = {} => Settled
    /\ raced = "no" /\ ~failed /\ listing \in PatientPagers /\ "loading" \notin up => Settled

(* The customer's list, page below page.                                   *)
AppendedRows ==
  where = "on" /\ Page.appends =>
    /\ query.filter = 1 /\ shown.filter = 1
    /\ \A l \in loads : l.query.filter = 1 /\ (~l.more => l.query = FirstQuery)
    /\ raced = "no" =>
         /\ \/ shown.pages = 1..query.page
            \/ shown.pages = {} /\ (loads # {} \/ failed) /\ \A l \in loads : ~l.more
         /\ \A l \in loads : l.more =>
              /\ l.query.page = query.page + 1
              /\ version = 0 => l.query.page <= PagesAt(0, 1)
         /\ done = "known" => shown.own

(* What the user changed is in what is read after.                         *)
OwnRead ==
  where = "on" =>
    /\ raced # "yes" /\ done = "known" => \A l \in loads : l.stage = "answered" => l.own
    /\ raced = "no" /\ Underway /\ Page.after = "optimistic" => shown.own
    /\ raced = "no" /\ ~failed /\ loads = {} /\ done = "known" /\ command.stage # "late"
         => shown.own

(* Before there is an answer or an error, the list is hidden.              *)
HiddenAtFirst ==
  where = "on" /\ listing \notin HastyPages /\ Page.says \in {"empty", "emptyUnlessError"}
    => Answered \/ error \/ {"loading", "logsLoading"} \cap up # {}

ListingInv ==
  /\ ListingTyped /\ Dated /\ OneLoad /\ Handlers /\ ControlsLead /\ AppendedRows
  /\ OwnRead /\ HiddenAtFirst

LEMMA LoadTyped ==
  ASSUME NEW l, IsLoad(l)
  PROVE  /\ l.query \in QueryAt /\ l.more \in BOOLEAN /\ l.stage \in {"sent", "answered"}
         /\ l.version \in Nat /\ l.own \in BOOLEAN
  BY DEF IsLoad, LoadOut

LEMMA Here ==
  ASSUME ListingTyped
  PROVE  Suits(listing, Page) /\ ClaimsSuit(listing, Page) /\ RegionsSuit(listing, Page)
  BY ProfilesSuit, AllRegionsSuit DEF ListingTyped, Page

(* What is offered, a region of the page offers.                           *)
LEMMA OffersRegion ==
  ASSUME ListingTyped, NEW deed \in Deeds, Offers(deed)
  PROVE  where = "on" /\ \E r \in Page.regions : deed \in r.deeds /\ r.off \cap up = {}
  <1>1. PICK r \in Holding[listing][deed] : r.off \cap up = {}
    BY DEF Offers
  <1>2. r \in Profile[listing].regions /\ deed \in r.deeds
    BY DEF ListingTyped, Holding
  <1> QED BY <1>1, <1>2 DEF Offers, Page

LEMMA PagesListed ==
  ASSUME NEW v \in Nat, v < Len(PagesOf), NEW f \in Filter
  PROVE  PagesAt(v, f) \in Nat
  <1>1. v + 1 \in DOMAIN PagesOf
    BY ListingAssumption
  <1>2. PagesOf[v + 1] \in [Filter -> Nat]
    BY <1>1, ListingAssumption DEF Filter
  <1> QED BY <1>2 DEF PagesAt

LEMMA LastPages ==
  ASSUME ListingTyped, Dated
  PROVE  /\ LastPage \in Nat \ {0}
         /\ LastPage > 1 => shown.pages # {} /\ LastPage = PagesAt(shown.version, shown.filter)
  <1>1. shown.version \in Nat /\ shown.version < Len(PagesOf) /\ shown.filter \in Filter
    BY ListingAssumption DEF ListingTyped, Dated, RowSet
  <1>2. PagesAt(shown.version, shown.filter) \in Nat
    BY <1>1, PagesListed
  <1> QED BY <1>2 DEF LastPage

LEMMA LoadSent ==
  ASSUME NEW cause, NEW q \in QueryAt, NEW flags, SendLoad(cause, q, flags)
  PROVE  /\ \E l : /\ IsLoad(l) /\ loads' = loads \cup {l} /\ l.query = q /\ l.stage = "sent"
                   /\ (l.more <=> cause = "more") /\ l.version = 0
         /\ error' \in BOOLEAN
  <1>1. \A n, down : /\ IsLoad(Load(n, q, cause, down)) /\ Load(n, q, cause, down).query = q
                     /\ Load(n, q, cause, down).stage = "sent"
                     /\ Load(n, q, cause, down).version = 0
                     /\ (Load(n, q, cause, down).more <=> cause = "more")
    BY DEF IsLoad, LoadOut, Load
  <1>2. \E n, down : loads' = loads \cup {Load(n, q, cause, down)}
    BY DEF SendLoad
  <1>3. error' \in BOOLEAN
    BY DEF SendLoad
  <1> QED BY <1>1, <1>2, <1>3

LEMMA FirstQueryTyped ==
  FirstQuery \in QueryAt /\ NoRows \in RowSet /\ TakenForEmpty \in RowSet /\ NoCommand \in CommandOut
  <1>1. 1 \in Filter
    BY ListingAssumption DEF Filter
  <1>2. FirstQuery \in QueryAt
    BY <1>1 DEF FirstQuery, QueryAt
  <1>3. NoRows \in RowSet /\ TakenForEmpty \in RowSet
    <2>1. NoRows \in RowSet
      BY <1>1 DEF NoRows, RowSet
    <2>2. TakenForEmpty \in RowSet
      BY <2>1 DEF TakenForEmpty, RowSet
    <2> QED BY <2>1, <2>2
  <1>4. NoCommand \in CommandOut
    BY <1>2 DEF NoCommand, CommandOut
  <1> QED BY <1>2, <1>3, <1>4

LEMMA ListingInitInv == ListingInit \/ ListingIdle => ListingInv
  <1> SUFFICES ASSUME ListingInit \/ ListingIdle PROVE ListingInv
    OBVIOUS
  <1>1. /\ listing \in DOMAIN Profile
        /\ query = FirstQuery /\ shown = NoRows /\ aside = NoRows
        /\ error = FALSE /\ failed = FALSE /\ command = NoCommand /\ inView = TRUE
        /\ version = 0 /\ done = "no" /\ raced = "no"
    BY ListingAssumption DEF ListingInit, ListingIdle
  <1>2. \/ /\ where = "on" /\ loads = {Load(1, FirstQuery, "enter", TakenDown("enter"))}
           /\ up = Page.raise["enter"]
        \/ where = "idle" /\ loads = {}
    BY DEF ListingInit, ListingIdle
  <1> DEFINE first == Load(1, FirstQuery, "enter", TakenDown("enter"))
  <1>3. IsLoad(first) /\ first.query = FirstQuery /\ ~first.more /\ first.stage = "sent"
        /\ first.version = 0
    BY FirstQueryTyped DEF Load, IsLoad, LoadOut
  <1> HIDE DEF first
  <1>4. loads = {first} \/ loads = {}
    BY <1>2 DEF first
  <1>5. ListingTyped
    BY <1>1, <1>3, <1>4, FirstQueryTyped DEF ListingTyped
  <1>6. Dated
    BY <1>1, <1>3, <1>4, ListingAssumption DEF Dated, NoRows, NoCommand
  <1>7. OneLoad /\ Handlers
    BY <1>1, <1>2, <1>3, <1>4 DEF OneLoad, Handlers, Underway, NoCommand
  <1>8. where = "on" => loads = {first} /\ up = Page.raise["enter"]
    BY <1>2 DEF first
  <1>9. ControlsLead /\ HiddenAtFirst
    BY <1>1, <1>3, <1>5, <1>8, Here
       DEF ControlsLead, HiddenAtFirst, Suits, ClaimsSuit
  <1>10. AppendedRows /\ OwnRead
    BY <1>1, <1>3, <1>8
       DEF AppendedRows, OwnRead, NoRows, FirstQuery, Underway, NoCommand
  <1> QED BY <1>5, <1>6, <1>7, <1>9, <1>10 DEF ListingInv

-----------------------------------------------------------------------------
(* Loads that are sent. *)

(* A load goes out, from the controls or a timer, for what the controls    *)
(* stand at after it, except on the pages known for it and the customer's, *)
(* whose list starts again from its first page.                            *)
LoadGoes(cause, q) ==
  /\ where = "on" /\ StartLoad(cause, q, {})
  /\ \/ UNCHANGED <<query, shown, aside>>
     \/ /\ cause = "query" /\ ~Page.appends /\ query' \in QueryAt
        /\ UNCHANGED <<shown, aside>> \/ (Page.perTab /\ shown' = aside /\ aside' = shown)
  /\ q = query' \/ listing \in StalePages \/ Page.appends
  /\ Page.appends => q = FirstQuery
  /\ cause = "poll" => Page.polls
  /\ up \ {"succeeded"} \subseteq up' /\ Page.raise[cause] \subseteq up'
  /\ command' \in {command, NoCommand} /\ inView' \in BOOLEAN /\ (inView => inView')
  /\ UNCHANGED <<pageIs, data, failed>>

LEMMA LoadGoesKeeps ==
  ASSUME ListingInv, NEW cause \in {"enter", "query", "refresh", "poll"}, NEW q \in QueryAt,
         LoadGoes(cause, q)
  PROVE  ListingInv'
  <1>1. PICK l : /\ IsLoad(l) /\ loads' = loads \cup {l} /\ l.query = q /\ l.stage = "sent"
                 /\ ~l.more /\ l.version = 0
    BY LoadSent DEF LoadGoes, StartLoad
  <1>2. /\ listing' = listing /\ where' = where /\ version' = version /\ done' = done
        /\ failed' = failed /\ Page' = Page /\ where = "on"
    BY DEF LoadGoes, pageIs, data, Page
  <1>3. error' \in BOOLEAN
    BY LoadSent DEF LoadGoes, StartLoad
  <1>4. /\ raced' = IF loads # {} \/ Underway THEN "yes"
                    ELSE IF raced = "no" THEN "no" ELSE "ending"
    BY DEF LoadGoes, StartLoad
  <1>5. Suits(listing, Page) /\ ClaimsSuit(listing, Page)
    BY Here DEF ListingInv
  <1>6. /\ command' \in {command, NoCommand} /\ NoCommand \in CommandOut
        /\ NoCommand.stage = "none" /\ NoCommand.deed = "none" /\ NoCommand.read = 0
    BY FirstQueryTyped DEF LoadGoes, NoCommand
  <1>7. raced' # "yes" => loads = {} /\ ~Underway /\ ~Underway' /\ (raced' = "no" => raced = "no")
    BY <1>4, <1>6 DEF Underway
  <1>8. ListingTyped'
    <2>1. query' \in QueryAt /\ shown' \in RowSet /\ aside' \in RowSet
      BY DEF LoadGoes, ListingInv, ListingTyped
    <2>2. command' \in CommandOut /\ inView' \in BOOLEAN
      BY <1>6 DEF LoadGoes, ListingInv, ListingTyped
    <2> QED BY <1>1, <1>2, <1>3, <1>4, <2>1, <2>2 DEF ListingInv, ListingTyped
  <1>9. Dated'
    <2>1. shown'.version <= version /\ aside'.version <= version
      BY DEF LoadGoes, ListingInv, Dated
    <2> QED BY <1>1, <1>2, <1>6, <2>1 DEF ListingInv, Dated
  <1>10. OneLoad' /\ Handlers'
    <2>1. OneLoad'
      BY <1>1, <1>7 DEF OneLoad
    <2>2. /\ raced' = "no" /\ Underway' => command'.query = query'
          /\ \A k \in loads' : k.more => Page.appends
      BY <1>1, <1>7 DEF ListingInv, Handlers
    <2>3. ~inView' => Page.polls
      BY DEF LoadGoes, ListingInv, ListingTyped, Handlers
    <2>4. /\ command'.stage = "late" => Page.after = "reloadLater"
          /\ Page.appends => command'.deed # "scan"
      BY <1>6 DEF ListingInv, Handlers
    <2> QED BY <1>2, <2>1, <2>2, <2>3, <2>4 DEF Handlers
  <1>11. ControlsLead'
    <2> SUFFICES ASSUME listing \notin StalePages, ~Page.appends
                 PROVE  /\ raced' # "yes" => \A k \in loads' : k.query = query'
                        /\ raced' = "no" /\ ~failed /\ listing \in PatientPagers
                             /\ "loading" \notin up' => Settled'
      BY <1>1, <1>2 DEF ControlsLead
    <2>1. raced' # "yes" => \A k \in loads' : k.query = query'
      BY <1>1, <1>7 DEF LoadGoes
    <2>2. ASSUME raced' = "no", ~failed, listing \in PatientPagers, "loading" \notin up'
          PROVE  Settled'
      <3>1. cause # "query"
        BY <1>5, <2>2 DEF LoadGoes, Suits
      <3>2. query' = query /\ shown' = shown
        BY <3>1 DEF LoadGoes
      <3> QED BY <1>2, <1>7, <2>2, <3>2 DEF ListingInv, ControlsLead, Settled
    <2> QED BY <2>1, <2>2
  <1>12. AppendedRows'
    <2> SUFFICES ASSUME Page.appends
                 PROVE  AppendedRows'
      BY <1>2 DEF AppendedRows
    <2>1. query' = query /\ shown' = shown /\ l.query = FirstQuery
      BY <1>1, <1>5 DEF LoadGoes, Suits
    <2> QED BY <1>1, <1>2, <1>7, <2>1 DEF ListingInv, AppendedRows, FirstQuery
  <1>13. OwnRead'
    BY <1>1, <1>2, <1>7 DEF OwnRead
  <1>14. HiddenAtFirst'
    <2> SUFFICES ASSUME listing \notin HastyPages, Page.says \in {"empty", "emptyUnlessError"},
                        ~Answered', ~error'
                 PROVE  {"loading", "logsLoading"} \cap up' # {}
      BY <1>2 DEF HiddenAtFirst
    <2>1. shown' = shown
      BY <1>5 DEF LoadGoes, ClaimsSuit
    <2>2. ~Answered
      BY <2>1 DEF Answered
    <2>3. CASE error
      <3>1. Page.forgets = "onLoad" \/ (Page.forgets = "onRefresh" /\ cause = "refresh")
        BY <2>3 DEF LoadGoes, StartLoad, SendLoad
      <3>2. {"loading", "logsLoading"} \cap Page.raise[cause] # {}
        BY <1>5, <3>1 DEF LoadGoes, ClaimsSuit
      <3> QED BY <3>2 DEF LoadGoes
    <2>4. CASE ~error
      BY <1>2, <2>2, <2>4 DEF LoadGoes, ListingInv, HiddenAtFirst
    <2> QED BY <2>3, <2>4
  <1> QED BY <1>8, <1>9, <1>10, <1>11, <1>12, <1>13, <1>14 DEF ListingInv

LEMMA ChoiceGoes ==
  ASSUME ListingInv,
         \/ \E f \in DOMAIN PagesOf[1] : ChooseFilter(f) \/ SubmitSearch(f)
         \/ GoPrevious \/ GoNext
  PROVE  \E q \in QueryAt : LoadGoes("query", q)
  <1>1. \E deed \in {"filter", "submit", "prev", "next"} : Offers(deed)
    BY DEF ChooseFilter, SubmitSearch, GoPrevious, GoNext
  <1>2. where = "on" /\ ~Page.appends
    <2>1. PICK deed \in {"filter", "submit", "prev", "next"} : Offers(deed)
      BY <1>1
    <2>2. PICK r \in Page.regions : deed \in r.deeds
      BY <2>1, OffersRegion DEF ListingInv, Deeds
    <2> QED BY <2>1, <2>2, Here DEF ListingInv, RegionsSuit, Suits, Offers
  <1>3. /\ StartLoad("query", query', {}) /\ up' = up \cup Page.raise["query"]
        /\ UNCHANGED <<pageIs, data, failed, command, inView>> /\ inView \in BOOLEAN
        /\ UNCHANGED <<shown, aside>> \/ (Page.perTab /\ shown' = aside /\ aside' = shown)
    BY DEF ChooseFilter, SubmitSearch, GoPrevious, GoNext, Ask, RaiseFor, screen,
       ListingInv, ListingTyped
  <1>4. query' \in QueryAt
    <2>1. LastPage \in Nat \ {0} /\ query \in QueryAt
      BY LastPages DEF ListingInv, ListingTyped
    <2>2. CASE \E f \in DOMAIN PagesOf[1] : ChooseFilter(f) \/ SubmitSearch(f)
      BY <2>2 DEF ChooseFilter, SubmitSearch, Ask, QueryAt, Filter
    <2>3. CASE GoPrevious
      BY <2>1, <2>3 DEF GoPrevious, Ask, QueryAt
    <2>4. CASE GoNext
      BY <2>1, <2>4 DEF GoNext, Ask, QueryAt
    <2> QED BY <2>2, <2>3, <2>4
  <1> QED BY <1>2, <1>3, <1>4 DEF LoadGoes

LEMMA ChoiceKeeps ==
  ASSUME ListingInv,
         \/ \E f \in DOMAIN PagesOf[1] : ChooseFilter(f) \/ SubmitSearch(f)
         \/ GoPrevious \/ GoNext
  PROVE  ListingInv'
  BY ChoiceGoes, LoadGoesKeeps

LEMMA SameQueryKeeps ==
  ASSUME ListingInv, ChoosePeriod \/ Refresh \/ Poll \/ LookBack
  PROVE  ListingInv'
  <1>1. where = "on" /\ Suits(listing, Page) /\ RegionsSuit(listing, Page)
    BY Here DEF ListingInv, ChoosePeriod, Refresh, Poll, LookBack, Offers
  <1>2. query \in QueryAt /\ FirstQuery \in QueryAt
    BY FirstQueryTyped DEF ListingInv, ListingTyped
  <1>3. CASE ChoosePeriod \/ Refresh
    <2>1. \E deed \in {"window", "refresh"} : Offers(deed)
      BY <1>3 DEF ChoosePeriod, Refresh
    <2>2. ~Page.appends
      <3>1. PICK r \in Page.regions : "window" \in r.deeds \/ "refresh" \in r.deeds
        BY <2>1, OffersRegion DEF ListingInv, Deeds
      <3> QED BY <1>1, <3>1 DEF RegionsSuit, Suits
    <2>3. /\ UNCHANGED <<query, shown, aside, pageIs, data, failed, command, inView>>
          /\ inView \in BOOLEAN
      BY <1>3 DEF ChoosePeriod, Refresh, rows, screen, ListingInv, ListingTyped
    <2>4. \/ Page.own /\ StartLoad("enter", FirstQuery, {}) /\ up' = up \cup Page.raise["enter"]
          \/ StartLoad("query", query, {}) /\ up' = up \cup Page.raise["query"]
          \/ StartLoad("refresh", query, {}) /\ up' = up \cup Page.raise["refresh"]
      BY <1>3 DEF ChoosePeriod, Refresh, RaiseFor
    <2>5. Page.own => listing \in StalePages
      BY <1>1 DEF Suits, StalePages
    <2>6. \/ LoadGoes("enter", FirstQuery) \/ LoadGoes("query", query) \/ LoadGoes("refresh", query)
      BY <1>1, <2>2, <2>3, <2>4, <2>5 DEF LoadGoes
    <2> QED BY <1>2, <2>6, LoadGoesKeeps
  <1>4. CASE Poll \/ LookBack
    <2>1. /\ StartLoad("poll", PollQuery, {}) /\ up' = up \cup Page.raise["poll"]
          /\ UNCHANGED <<query, shown, aside, pageIs, data, failed, command>>
          /\ Page.polls
      BY <1>4 DEF Poll, LookBack, rows, screen, RaiseFor, ListingInv, Handlers
    <2>2. inView' \in BOOLEAN /\ (inView => inView')
      BY <1>4 DEF Poll, LookBack, screen, ListingInv, ListingTyped
    <2>3. LoadGoes("poll", PollQuery) /\ PollQuery \in QueryAt
      BY <1>1, <1>2, <2>1, <2>2 DEF LoadGoes, PollQuery
    <2> QED BY <2>3, LoadGoesKeeps
  <1> QED BY <1>3, <1>4

LEMMA TimerFiresKeeps ==
  ASSUME ListingInv, TimerFires
  PROVE  ListingInv'
  <1>1. /\ StartLoad("query", command.query, {})
        /\ up' = (up \ {"succeeded"}) \cup Page.raise["query"]
        /\ command' = NoCommand /\ command.stage = "late"
        /\ UNCHANGED <<query, shown, aside, pageIs, data, failed, inView>>
    BY DEF TimerFires, rows
  <1>2. /\ Page.after = "reloadLater" /\ Suits(listing, Page) /\ command.query \in QueryAt
        /\ where = "on" /\ inView \in BOOLEAN
    BY <1>1, Here DEF ListingInv, ListingTyped, Handlers, CommandOut
  <1>3. LoadGoes("query", command.query)
    BY <1>1, <1>2 DEF LoadGoes, Suits, StalePages
  <1> QED BY <1>2, <1>3, LoadGoesKeeps

(* The customer asks for more of his list.                                 *)
LEMMA LoadMoreKeeps ==
  ASSUME ListingInv, LoadMore
  PROVE  ListingInv'
  <1>1. where = "on" /\ Page.appends
    <2>1. PICK r \in Page.regions : "more" \in r.deeds
      BY OffersRegion DEF LoadMore, ListingInv, Deeds
    <2> QED BY <2>1, Here DEF ListingInv, RegionsSuit, Suits, LoadMore, Offers
  <1> DEFINE q == [query EXCEPT !.page = @ + 1]
  <1>2. q \in QueryAt /\ q.filter = query.filter /\ q.page = query.page + 1
    BY DEF ListingInv, ListingTyped, QueryAt
  <1>3. StartLoad("more", q, {})
    BY DEF LoadMore
  <1> HIDE DEF q
  <1>4. PICK l : /\ IsLoad(l) /\ loads' = loads \cup {l} /\ l.query = q /\ l.stage = "sent"
                 /\ l.more /\ l.version = 0
    BY <1>2, <1>3, LoadSent DEF StartLoad
  <1>5. error' \in BOOLEAN
    BY <1>2, <1>3, LoadSent DEF StartLoad
  <1>6. /\ UNCHANGED <<listing, where, query, shown, aside, failed, command, inView, version, done>>
        /\ Page' = Page /\ Underway' = Underway
    BY DEF LoadMore, pageIs, rows, screen, data, Page, Underway
  <1>7. /\ raced' = IF loads # {} \/ Underway THEN "yes"
                    ELSE IF raced = "no" THEN "no" ELSE "ending"
    BY <1>3 DEF StartLoad
  <1>8. ListingTyped' /\ Dated'
    BY <1>4, <1>5, <1>6, <1>7 DEF ListingInv, ListingTyped, Dated
  <1>9. OneLoad' /\ Handlers'
    BY <1>1, <1>4, <1>6, <1>7 DEF ListingInv, OneLoad, Handlers
  <1>10. ControlsLead' /\ OwnRead'
    BY <1>1, <1>4, <1>6, <1>7 DEF ListingInv, ControlsLead, OwnRead
  <1>11. AppendedRows'
    <2>1. /\ query.filter = 1 /\ shown.filter = 1
          /\ \A k \in loads : k.query.filter = 1 /\ (~k.more => k.query = FirstQuery)
      BY <1>1 DEF ListingInv, AppendedRows
    <2>2. query.page + 1 <= LastPage /\ LastPage > 1
      BY LastPages DEF LoadMore, ListingInv, ListingTyped, QueryAt
    <2>3. shown.pages # {} /\ LastPage = PagesAt(shown.version, shown.filter)
      BY <2>2, LastPages DEF ListingInv
    <2>4. version = 0 => q.page <= PagesAt(0, 1)
      BY <1>2, <2>1, <2>2, <2>3 DEF ListingInv, ListingTyped, RowSet, Dated
    <2>5. raced' = "no" => raced = "no" /\ loads = {}
      BY <1>7
    <2> QED BY <1>1, <1>2, <1>4, <1>6, <2>1, <2>3, <2>4, <2>5 DEF ListingInv, AppendedRows
  <1>12. HiddenAtFirst'
    <2>1. listing \in HastyPages
      BY <1>1, Here DEF ListingInv, Suits, HastyPages
    <2> QED BY <1>6, <2>1 DEF HiddenAtFirst
  <1> QED BY <1>8, <1>9, <1>10, <1>11, <1>12 DEF ListingInv

(* The load that follows a command: alone if the command was.              *)
LEMMA ReloadAfterKeeps ==
  ASSUME ListingInv, ReloadAfter
  PROVE  ListingInv'
  <1>1. /\ SendLoad("query", command.query, {"running"}) /\ command.stage = "applied"
        /\ Page.after = "reload" /\ command' = NoCommand
        /\ up' = up \cup Page.raise["query"]
        /\ raced' = IF loads # {} \/ raced # "no" THEN "yes" ELSE "no"
    BY DEF ReloadAfter, RaiseFor
  <1>2. command.query \in QueryAt /\ Underway /\ where = "on"
    BY <1>1 DEF ListingInv, ListingTyped, CommandOut, Handlers, Underway
  <1>3. PICK l : /\ IsLoad(l) /\ loads' = loads \cup {l} /\ l.query = command.query
                 /\ l.stage = "sent" /\ ~l.more /\ l.version = 0
    <2> DEFINE q == command.query
    <2> DEFINE running == {"running"}
    <2>1. SendLoad("query", q, running) /\ q \in QueryAt
      BY <1>1, <1>2
    <2> HIDE DEF q, running
    <2>2. \E l : /\ IsLoad(l) /\ loads' = loads \cup {l} /\ l.query = q
                 /\ l.stage = "sent" /\ (l.more <=> "query" = "more") /\ l.version = 0
      BY <2>1, LoadSent
    <2> QED BY <2>2 DEF q
  <1>4. error' \in BOOLEAN
    BY <1>1, <1>2, LoadSent
  <1>5. /\ UNCHANGED <<listing, where, query, shown, aside, failed, inView, version>>
        /\ Page' = Page /\ done' \in {done, "known"}
    BY DEF ReloadAfter, pageIs, rows, Page, Known
  <1>6. /\ ~Page.appends /\ Suits(listing, Page) /\ ClaimsSuit(listing, Page)
        /\ NoCommand \in CommandOut /\ NoCommand.stage = "none" /\ NoCommand.deed = "none"
        /\ NoCommand.read = 0
    BY <1>1, Here, FirstQueryTyped DEF ListingInv, Suits, NoCommand
  <1>7. raced' # "yes" => raced = "no" /\ loads = {} /\ command.query = query
    BY <1>1, <1>2 DEF ListingInv, Handlers
  <1>8. ListingTyped' /\ Dated'
    BY <1>1, <1>3, <1>4, <1>5, <1>6 DEF ListingInv, ListingTyped, Dated
  <1>9. OneLoad' /\ Handlers'
    BY <1>1, <1>2, <1>3, <1>5, <1>6, <1>7 DEF ListingInv, OneLoad, Handlers, Underway
  <1>10. ControlsLead'
    BY <1>1, <1>3, <1>5, <1>6, <1>7 DEF ControlsLead, Suits
  <1>11. AppendedRows'
    BY <1>5, <1>6 DEF AppendedRows
  <1>12. OwnRead'
    BY <1>1, <1>3, <1>5, <1>6, <1>7 DEF OwnRead, Underway
  <1>13. HiddenAtFirst'
    <2> SUFFICES ASSUME listing \notin HastyPages, Page.says \in {"empty", "emptyUnlessError"},
                        ~Answered', ~error'
                 PROVE  {"loading", "logsLoading"} \cap up' # {}
      BY <1>5 DEF HiddenAtFirst
    <2>1. ~Answered
      BY <1>5 DEF Answered
    <2>2. CASE error
      <3>1. Page.forgets = "onLoad"
        BY <1>1, <2>2 DEF SendLoad
      <3> QED BY <1>1, <1>6, <3>1 DEF ClaimsSuit
    <2>3. CASE ~error
      BY <1>1, <1>2, <2>1, <2>3 DEF ListingInv, HiddenAtFirst
    <2> QED BY <2>2, <2>3
  <1> QED BY <1>8, <1>9, <1>10, <1>11, <1>12, <1>13 DEF ListingInv

-----------------------------------------------------------------------------
(* Loads that end. *)

LEMMA ReadRowsKeeps ==
  ASSUME ListingInv, NEW l \in loads, ReadRows(l)
  PROVE  ListingInv'
  <1> DEFINE k == [l EXCEPT !.stage = "answered", !.version = version, !.own = done # "no"]
  <1>1. loads' = (loads \ {l}) \cup {k} /\ IsLoad(l)
    BY DEF ReadRows, ListingInv, ListingTyped
  <1>2. /\ UNCHANGED <<listing, where, query, shown, aside, error, failed, inView, version, done,
                       up, command, raced>>
        /\ Page' = Page /\ Underway' = Underway
    BY DEF ReadRows, pageIs, rows, notes, screen, data, Page, Underway
  <1>3. /\ IsLoad(k) /\ k.query = l.query /\ k.more = l.more /\ k.version = version
        /\ (k.own <=> done # "no")
    <2>1. version \in Nat
      BY DEF ListingInv, Dated
    <2>2. PICK n, down : l \in LoadOut(n, down)
      BY <1>1 DEF IsLoad
    <2>3. k \in LoadOut(n, down) /\ k.query = l.query /\ k.more = l.more
          /\ k.version = version /\ (k.own <=> done # "no")
      BY <2>1, <2>2 DEF LoadOut
    <2> HIDE DEF k
    <2> QED BY <2>3 DEF IsLoad
  <1> HIDE DEF k
  <1>4. ListingTyped' /\ Dated'
    BY <1>1, <1>2, <1>3 DEF ListingInv, ListingTyped, Dated
  <1>5. OneLoad' /\ Handlers'
    BY <1>1, <1>2, <1>3 DEF ListingInv, OneLoad, Handlers
  <1>6. ControlsLead'
    BY <1>1, <1>2, <1>3 DEF ListingInv, ControlsLead, Settled
  <1>7. AppendedRows'
    BY <1>1, <1>2, <1>3 DEF ListingInv, AppendedRows, PagesAt
  <1>8. OwnRead'
    BY <1>1, <1>2, <1>3 DEF ListingInv, OwnRead
  <1>9. HiddenAtFirst'
    BY <1>2 DEF ListingInv, HiddenAtFirst, Answered
  <1> QED BY <1>4, <1>5, <1>6, <1>7, <1>8, <1>9 DEF ListingInv

(* The rows of a load that was out alone are those the controls stand at.  *)
LEMMA ShowRowsKeeps ==
  ASSUME ListingInv, NEW l \in loads, ShowRows(l)
  PROVE  ListingInv'
  <1>1. /\ UNCHANGED <<listing, where, front, inView, version, done, command>>
        /\ Page' = Page /\ Underway' = Underway /\ loads' = loads \ {l} /\ failed' = FALSE
        /\ l.stage = "answered" /\ where = "on"
    BY DEF ShowRows, Ended, pageIs, screen, data, Page, Underway, ListingInv, Handlers
  <1>2. /\ error' \in BOOLEAN
        /\ raced' = IF raced = "ending" /\ loads = {l} /\ ~l.more THEN "no" ELSE raced
        /\ query' = IF Page.appends THEN l.query ELSE query
    BY DEF ShowRows
  <1>3. \/ /\ Page.perTab /\ l.query.filter # query.filter
           /\ aside' = Rows1(l) /\ shown' = shown
        \/ /\ ~(Page.perTab /\ l.query.filter # query.filter)
           /\ shown' = (IF l.more THEN RowsBelow(l) ELSE Rows1(l)) /\ aside' = aside
    BY DEF ShowRows
  <1>4. /\ l.query \in QueryAt /\ l.own \in BOOLEAN /\ l.version \in Nat
        /\ Suits(listing, Page) /\ ClaimsSuit(listing, Page) /\ l.version <= version
        /\ (l.more => Page.appends)
    BY Here, LoadTyped DEF ListingInv, ListingTyped, Dated, Handlers
  <1>5. /\ Rows1(l) \in RowSet /\ Rows1(l).filter = l.query.filter /\ Rows1(l).own = l.own
        /\ Rows1(l).pages = {l.query.page} /\ Rows1(l).version = l.version
    BY <1>4 DEF Rows1, RowSet, QueryAt
  <1>6. /\ RowsBelow(l) \in RowSet /\ RowsBelow(l).filter = shown.filter
        /\ RowsBelow(l).own = (shown.own /\ l.own) /\ RowsBelow(l).version = l.version
        /\ RowsBelow(l).pages = shown.pages \cup {l.query.page}
    BY <1>4 DEF RowsBelow, RowSet, QueryAt, ListingInv, ListingTyped
  <1>7. raced' # "yes" => raced # "yes" /\ loads' = {} /\ ~Underway
    BY <1>1, <1>2 DEF ListingInv, OneLoad
  <1>8. raced' = "no" /\ raced # "no" => ~l.more
    BY <1>2
  <1>9. ListingTyped'
    <2>1. shown' \in RowSet /\ aside' \in RowSet
      BY <1>3, <1>5, <1>6 DEF ListingInv, ListingTyped
    <2>2. query' \in QueryAt
      BY <1>2, <1>4 DEF ListingInv, ListingTyped
    <2> QED BY <1>1, <1>2, <2>1, <2>2 DEF ListingInv, ListingTyped
  <1>10. Dated'
    BY <1>1, <1>3, <1>4, <1>5, <1>6 DEF ListingInv, Dated
  <1>11. OneLoad' /\ Handlers'
    BY <1>1, <1>4, <1>7 DEF ListingInv, OneLoad, Handlers
  <1>12. raced' = "no" /\ ~Page.appends /\ listing \notin StalePages => Settled'
    <2> SUFFICES ASSUME raced' = "no", ~Page.appends, listing \notin StalePages PROVE Settled'
      OBVIOUS
    <2>1. l.query = query /\ ~l.more
      BY <1>1, <1>4, <1>7 DEF ListingInv, ControlsLead
    <2> QED BY <1>2, <1>3, <1>5, <2>1 DEF Settled
  <1>13. ControlsLead'
    BY <1>1, <1>7, <1>12 DEF ControlsLead
  <1>14. AppendedRows'
    <2> SUFFICES ASSUME Page.appends PROVE AppendedRows'
      BY <1>1 DEF AppendedRows
    <2>1. query' = l.query /\ shown' = (IF l.more THEN RowsBelow(l) ELSE Rows1(l))
      BY <1>2, <1>3, <1>4 DEF Suits
    <2>2. /\ shown.filter = 1 /\ l.query.filter = 1 /\ (~l.more => l.query = FirstQuery)
          /\ \A k \in loads' : k.query.filter = 1 /\ (~k.more => k.query = FirstQuery)
      BY <1>1 DEF ListingInv, AppendedRows
    <2>3. query'.filter = 1 /\ shown'.filter = 1
      BY <1>5, <1>6, <2>1, <2>2
    <2>4. ASSUME raced' = "no" PROVE shown'.pages = 1..query'.page
      <3>1. CASE l.more
        <4>1. raced = "no"
          BY <1>8, <2>4, <3>1
        <4>2. shown.pages = 1..query.page /\ l.query.page = query.page + 1
          BY <1>1, <3>1, <4>1 DEF ListingInv, AppendedRows
        <4>3. query.page \in Nat /\ (1..query.page) \cup {query.page + 1} = 1..(query.page + 1)
          BY DEF ListingInv, ListingTyped, QueryAt
        <4>4. shown' = RowsBelow(l) /\ query' = l.query
          BY <2>1, <3>1
        <4>5. shown'.pages = (1..query.page) \cup {query.page + 1}
          BY <1>6, <4>2, <4>4
        <4>6. query'.page = query.page + 1
          BY <4>2, <4>4
        <4> QED BY <4>3, <4>5, <4>6
      <3>2. CASE ~l.more
        <4>1. shown' = Rows1(l) /\ query' = FirstQuery /\ l.query = FirstQuery
          BY <2>1, <2>2, <3>2
        <4>2. FirstQuery.page = 1
          BY DEF FirstQuery
        <4>3. shown'.pages = {1} /\ query'.page = 1
          BY <1>5, <4>1, <4>2
        <4> QED BY <4>3
      <3> QED BY <3>1, <3>2
    <2>5. ASSUME raced' = "no", done = "known" PROVE shown'.own
      <3>1. l.own
        BY <1>1, <1>7, <2>5 DEF ListingInv, OwnRead
      <3>2. l.more => shown.own
        BY <1>1, <1>8, <2>5 DEF ListingInv, AppendedRows
      <3> QED BY <1>4, <1>5, <1>6, <2>1, <3>1, <3>2
    <2> QED BY <1>1, <1>7, <2>2, <2>3, <2>4, <2>5 DEF AppendedRows
  <1>15. OwnRead'
    <2>1. ASSUME raced' = "no", done = "known" PROVE shown'.own
      <3>1. l.own
        BY <1>1, <1>7, <2>1 DEF ListingInv, OwnRead
      <3>2. CASE Page.appends
        BY <1>1, <1>14, <2>1, <3>2 DEF AppendedRows
      <3>3. CASE ~Page.appends /\ ~Page.perTab
        BY <1>3, <1>4, <1>5, <3>1, <3>3
      <3>4. CASE ~Page.appends /\ Page.perTab
        <4>1. l.query = query
          BY <1>1, <1>4, <1>7, <2>1, <3>4 DEF ListingInv, ControlsLead, Suits, StalePages
        <4> QED BY <1>3, <1>4, <1>5, <3>1, <3>4, <4>1
      <3> QED BY <3>2, <3>3, <3>4
    <2> QED BY <1>1, <1>7, <2>1 DEF OwnRead
  <1>16. HiddenAtFirst'
    <2> SUFFICES ASSUME listing \notin HastyPages, Page.says \in {"empty", "emptyUnlessError"}
                 PROVE  Answered'
      BY <1>1 DEF HiddenAtFirst
    <2>1. ~Page.perTab
      BY <1>4 DEF ClaimsSuit
    <2>2. l.query.page \in shown'.pages /\ l.query.page > 0
      BY <1>3, <1>4, <1>5, <1>6, <2>1 DEF QueryAt
    <2> QED BY <2>2 DEF Answered
  <1> QED BY <1>9, <1>10, <1>11, <1>13, <1>14, <1>15, <1>16 DEF ListingInv

LEMMA FailureKeeps ==
  ASSUME ListingInv, NEW l \in loads, ShowPart(l) \/ ShowFailure(l)
  PROVE  ListingInv'
  <1>1. /\ UNCHANGED <<listing, where, query, aside, inView, version, done, command, raced>>
        /\ Page' = Page /\ Underway' = Underway /\ loads' = loads \ {l} /\ failed' = TRUE
        /\ where = "on"
    BY DEF ShowPart, ShowFailure, Ended, pageIs, screen, data, Page, Underway, ListingInv,
       Handlers
  <1>2. shown' = shown \/ (Page.blanks # "never" /\ shown' \in {NoRows, TakenForEmpty})
    BY DEF ShowPart, ShowFailure
  <1>3. error' \in BOOLEAN /\ (Page.blanks # "onPartFailure" => error')
    BY DEF ShowPart, ShowFailure, ListingInv, ListingTyped
  <1>4. Suits(listing, Page) /\ ClaimsSuit(listing, Page)
    BY Here DEF ListingInv
  <1>5. shown' \in RowSet /\ (shown' = shown \/ shown'.version = 0)
    <2>1. NoRows.version = 0
      BY DEF NoRows
    <2>2. TakenForEmpty.version = 0
      BY <2>1, FirstQueryTyped DEF TakenForEmpty, RowSet
    <2> QED BY <1>2, <2>1, <2>2, FirstQueryTyped DEF ListingInv, ListingTyped
  <1>6. ListingTyped' /\ Dated'
    BY <1>1, <1>3, <1>5 DEF ListingInv, ListingTyped, Dated
  <1>7. OneLoad' /\ Handlers'
    BY <1>1 DEF ListingInv, OneLoad, Handlers
  <1>8. ControlsLead'
    BY <1>1 DEF ListingInv, ControlsLead
  <1>9. AppendedRows'
    <2> SUFFICES ASSUME Page.appends PROVE AppendedRows'
      BY <1>1 DEF AppendedRows
    <2>1. shown' = shown
      BY <1>2, <1>4 DEF Suits
    <2> QED BY <1>1, <2>1 DEF ListingInv, AppendedRows, PagesAt
  <1>10. OwnRead'
    BY <1>1 DEF ListingInv, OwnRead, OneLoad
  <1>11. HiddenAtFirst'
    BY <1>1, <1>3, <1>4 DEF HiddenAtFirst, ClaimsSuit
  <1> QED BY <1>6, <1>7, <1>8, <1>9, <1>10, <1>11 DEF ListingInv

(* A page that is left, or gives way to the form to sign in.               *)
LEMMA UnmountKeeps ==
  ASSUME ListingInv, NEW to \in {"left", "login"}, Unmount(to)
  PROVE  ListingInv'
  <1>1. /\ where' = to /\ query' = FirstQuery /\ shown' = NoRows /\ aside' = NoRows
        /\ loads' = {} /\ error' = FALSE /\ failed' = FALSE /\ command' = NoCommand
        /\ inView' = TRUE /\ raced' = "no" /\ UNCHANGED <<listing, version, done>>
    BY DEF Unmount, data
  <1>2. NoRows.version = 0 /\ NoCommand.read = 0 /\ NoCommand.stage = "none"
        /\ NoCommand.deed = "none"
    BY DEF NoRows, NoCommand
  <1>3. ListingTyped'
    BY <1>1, FirstQueryTyped DEF ListingInv, ListingTyped
  <1>4. Dated'
    BY <1>1, <1>2 DEF ListingInv, Dated
  <1> QED BY <1>1, <1>2, <1>3, <1>4 DEF ListingInv, OneLoad, Handlers, ControlsLead, AppendedRows, OwnRead,
             HiddenAtFirst, Underway

-----------------------------------------------------------------------------
(* What the user does besides, and the commands. *)

LEMMA ScreenKeeps ==
  ASSUME ListingInv, LookAway \/ Inspect \/ OpenQuestion \/ Dismiss \/ TurnTab
  PROVE  ListingInv'
  <1>1. /\ UNCHANGED <<pageIs, rows, requests, notes, data, command>>
        /\ inView' \in BOOLEAN /\ (inView' = inView \/ Page.polls)
    BY DEF LookAway, Inspect, OpenQuestion, Dismiss, TurnTab, Front, ListingInv, ListingTyped
  <1>2. /\ UNCHANGED <<listing, where, query, shown, aside, loads, up, raced, error, failed,
                       version, done, command>>
        /\ Page' = Page /\ Underway' = Underway
    BY <1>1 DEF pageIs, rows, requests, notes, data, Page, Underway
  <1>3. ListingTyped' /\ Dated' /\ OneLoad' /\ Handlers'
    BY <1>1, <1>2 DEF ListingInv, ListingTyped, Dated, OneLoad, Handlers
  <1>4. ControlsLead' /\ AppendedRows' /\ OwnRead' /\ HiddenAtFirst'
    BY <1>2 DEF ListingInv, ControlsLead, AppendedRows, OwnRead, HiddenAtFirst, Settled, Answered,
       PagesAt
  <1> QED BY <1>3, <1>4 DEF ListingInv

LEMMA DataChangesKeeps ==
  ASSUME ListingInv, DataChanges
  PROVE  ListingInv'
  <1>1. /\ UNCHANGED <<listing, where, query, shown, aside, loads, up, raced, error, failed,
                       inView, done, command>>
        /\ Page' = Page /\ Underway' = Underway
        /\ version' = version + 1 /\ version' < Len(PagesOf)
    BY DEF DataChanges, pageIs, rows, requests, notes, screen, Page, Underway
  <1>2. version \in Nat /\ version' \in Nat /\ version <= version' /\ version' # 0
    BY <1>1 DEF ListingInv, Dated
  <1>3. ListingTyped' /\ OneLoad' /\ Handlers'
    BY <1>1 DEF ListingInv, ListingTyped, OneLoad, Handlers
  <1>4. Dated'
    <2>1. /\ shown.version \in Nat /\ aside.version \in Nat /\ command.read \in Nat
          /\ \A l \in loads : l.version \in Nat
      BY LoadTyped DEF ListingInv, ListingTyped, RowSet, CommandOut
    <2> QED BY <1>1, <1>2, <2>1 DEF ListingInv, Dated
  <1>5. ControlsLead' /\ AppendedRows' /\ OwnRead' /\ HiddenAtFirst'
    BY <1>1, <1>2 DEF ListingInv, ControlsLead, AppendedRows, OwnRead, HiddenAtFirst, Settled,
       Answered, PagesAt
  <1> QED BY <1>3, <1>4, <1>5 DEF ListingInv

(* A command starts alone, or overlaps. *)
LEMMA StartCommandKeeps ==
  ASSUME ListingInv, NEW deed \in Change \cup {"create", "export"}, StartCommand(deed)
  PROVE  ListingInv'
  <1>1. /\ UNCHANGED <<listing, where, query, aside, loads, failed, inView, version, done>>
        /\ Page' = Page /\ command.stage = "none" /\ up \subseteq up'
        /\ command' = [stage |-> "sent", deed |-> deed, query |-> query, read |-> 0]
        /\ raced' = IF loads # {} THEN "yes" ELSE raced
    BY DEF StartCommand, pageIs, screen, data, Page
  <1>2. shown' = IF Page.after = "optimistic" THEN [shown EXCEPT !.own = TRUE] ELSE shown
    BY DEF StartCommand
  <1>3. error' = (error /\ ~(deed = "create" \/ (deed = "export" /\ Page.says = "never")))
    BY DEF StartCommand
  <1>4. /\ deed \in Deeds /\ where = "on" /\ Suits(listing, Page)
        /\ deed = "create" => listing = "clientApplications"
        /\ deed = "scan" => ~Page.appends
    <2>1. deed \in Deeds /\ Offers(deed)
      BY DEF Change, Deeds, StartCommand
    <2>2. PICK r \in Page.regions : deed \in r.deeds
      BY <2>1, OffersRegion DEF ListingInv
    <2> QED BY <2>1, <2>2, Here DEF ListingInv, RegionsSuit, Suits, Offers
  <1>5. /\ command' \in CommandOut /\ command'.stage = "sent" /\ command'.deed = deed
        /\ command'.query = query /\ command'.read = 0
    BY <1>1, <1>4 DEF CommandOut, ListingInv, ListingTyped
  <1>6. /\ shown' \in RowSet /\ shown'.filter = shown.filter /\ shown'.pages = shown.pages
        /\ shown'.version = shown.version /\ (shown.own => shown'.own)
        /\ Page.after = "optimistic" => shown'.own
    BY <1>2 DEF ListingInv, ListingTyped, RowSet
  <1>7. raced' # "yes" => raced' = raced /\ loads = {}
    BY <1>1
  <1>8. ListingTyped' /\ Dated'
    <2>1. error' \in BOOLEAN /\ raced' \in {"no", "yes", "ending"}
      BY <1>1, <1>3 DEF ListingInv, ListingTyped
    <2> QED BY <1>1, <1>5, <1>6, <2>1 DEF ListingInv, ListingTyped, Dated
  <1>9. OneLoad' /\ Handlers'
    BY <1>1, <1>4, <1>5, <1>7 DEF ListingInv, OneLoad, Handlers
  <1>10. ControlsLead'
    BY <1>1, <1>6, <1>7 DEF ListingInv, ControlsLead, Settled
  <1>11. AppendedRows'
    BY <1>1, <1>6, <1>7 DEF ListingInv, AppendedRows
  <1>12. OwnRead'
    BY <1>1, <1>6, <1>7 DEF ListingInv, OwnRead
  <1>13. HiddenAtFirst'
    <2> SUFFICES ASSUME listing \notin HastyPages, Page.says \in {"empty", "emptyUnlessError"}
                 PROVE  Answered' \/ error' \/ {"loading", "logsLoading"} \cap up' # {}
      BY <1>1 DEF HiddenAtFirst
    <2>1. error' = error
      BY <1>3, <1>4 DEF HastyPages, ListingInv, ListingTyped
    <2> QED BY <1>1, <1>4, <1>6, <2>1 DEF ListingInv, HiddenAtFirst, Answered
  <1> QED BY <1>8, <1>9, <1>10, <1>11, <1>12, <1>13 DEF ListingInv

LEMMA ApplyCommandKeeps ==
  ASSUME ListingInv, ApplyCommand
  PROVE  ListingInv'
  <1>1. /\ UNCHANGED <<listing, where, query, shown, aside, loads, up, raced, error, failed,
                       inView, version>>
        /\ Page' = Page /\ command.stage = "sent"
        /\ command' = [command EXCEPT !.stage = "applied", !.read = version]
        /\ done' \in {done, "data"}
    BY DEF ApplyCommand, pageIs, rows, requests, notes, screen, Page
  <1>2. /\ command' \in CommandOut /\ command'.stage = "applied"
        /\ command'.deed = command.deed /\ command'.query = command.query
        /\ command'.read = version /\ version \in Nat
    BY <1>1 DEF CommandOut, ListingInv, ListingTyped, Dated
  <1>3. Underway /\ Underway' /\ (done' = "known" => done = "known")
    BY <1>1, <1>2 DEF Underway
  <1>4. ListingTyped' /\ Dated'
    BY <1>1, <1>2 DEF ListingInv, ListingTyped, Dated
  <1>5. OneLoad' /\ Handlers'
    BY <1>1, <1>2, <1>3 DEF ListingInv, OneLoad, Handlers
  <1>6. ControlsLead' /\ AppendedRows' /\ HiddenAtFirst'
    BY <1>1, <1>3 DEF ListingInv, ControlsLead, AppendedRows, HiddenAtFirst, Settled, Answered,
       PagesAt
  <1>7. OwnRead'
    BY <1>1, <1>2, <1>3 DEF ListingInv, OwnRead
  <1> QED BY <1>4, <1>5, <1>6, <1>7 DEF ListingInv

(* A command that ends hides nothing that was to be seen. *)
LEMMA FlagsApart ==
  \A deed : "loading" \notin FlagsOf(deed) /\ "logsLoading" \notin FlagsOf(deed)
  BY DEF FlagsOf

LEMMA SettlingKeeps ==
  ASSUME ListingInv, CommandEnds \/ SetTimer \/ CommandFails
  PROVE  ListingInv'
  <1>1. /\ UNCHANGED <<listing, where, query, shown, aside, loads, raced, failed, inView, version>>
        /\ Page' = Page /\ Underway /\ done' \in {done, "known"}
        /\ error' \in BOOLEAN /\ (error => error')
    BY DEF CommandEnds, SetTimer, CommandFails, pageIs, rows, notes, screen, data, Page,
       Underway, Known, ListingInv, ListingTyped
  <1>2. {"loading", "logsLoading"} \cap up \subseteq up'
        /\ up' \cap {"loading", "logsLoading"} \subseteq up
    BY FlagsApart DEF CommandEnds, SetTimer, CommandFails
  <1>3. /\ command' \in CommandOut /\ command'.deed \in {command.deed, "none"}
        /\ command'.read \in {command.read, 0}
        /\ \/ command'.stage = "none"
           \/ command'.stage = "late" /\ Page.after = "reloadLater"
    <2>1. NoCommand \in CommandOut /\ NoCommand.deed = "none" /\ NoCommand.read = 0
          /\ NoCommand.stage = "none"
      BY FirstQueryTyped DEF NoCommand
    <2>2. CASE SetTimer
      BY <2>2 DEF SetTimer, CommandOut, ListingInv, ListingTyped
    <2>3. CASE CommandEnds \/ CommandFails
      BY <2>1, <2>3 DEF CommandEnds, CommandFails
    <2> QED BY <2>2, <2>3
  <1>4. ~Underway' /\ where = "on"
    BY <1>1, <1>3 DEF ListingInv, Handlers, Underway
  <1>5. done' = done \/ command'.stage = "late" \/ Page.after = "optimistic"
    <2>1. CASE CommandEnds
      BY <2>1 DEF CommandEnds, Known, Change
    <2>2. CASE SetTimer
      BY <2>2 DEF SetTimer, CommandOut, ListingInv, ListingTyped
    <2>3. CASE CommandFails
      BY <2>3 DEF CommandFails, data
    <2> QED BY <2>1, <2>2, <2>3
  <1>6. Suits(listing, Page) /\ (raced # "yes" => loads = {})
    BY <1>1, Here DEF ListingInv, OneLoad
  <1>7. ListingTyped' /\ Dated'
    <2>1. version \in Nat
      BY DEF ListingInv, Dated
    <2> QED BY <1>1, <1>3, <2>1 DEF ListingInv, ListingTyped, Dated
  <1>8. OneLoad' /\ Handlers'
    BY <1>1, <1>3, <1>4 DEF ListingInv, OneLoad, Handlers
  <1>9. ControlsLead'
    BY <1>1, <1>2 DEF ListingInv, ControlsLead, Settled
  <1>10. AppendedRows'
    <2> SUFFICES ASSUME Page.appends PROVE AppendedRows'
      BY <1>1 DEF AppendedRows
    <2>1. done' = done
      BY <1>3, <1>5, <1>6 DEF Suits
    <2> QED BY <1>1, <2>1 DEF ListingInv, AppendedRows, PagesAt
  <1>11. OwnRead'
    <2>1. ASSUME raced = "no", ~failed, loads = {}, done' = "known", command'.stage # "late"
          PROVE  shown.own
      <3>1. CASE done' = done
        <4>1. command.stage # "late"
          BY <1>1 DEF Underway
        <4> QED BY <1>4, <2>1, <3>1, <4>1 DEF ListingInv, OwnRead
      <3>2. CASE Page.after = "optimistic"
        BY <1>1, <1>4, <2>1, <3>2 DEF ListingInv, OwnRead
      <3> QED BY <1>5, <2>1, <3>1, <3>2
    <2> QED BY <1>1, <1>4, <1>6, <2>1 DEF OwnRead
  <1>12. HiddenAtFirst'
    BY <1>1, <1>2 DEF ListingInv, HiddenAtFirst, Answered
  <1> QED BY <1>7, <1>8, <1>9, <1>10, <1>11, <1>12 DEF ListingInv

(* The rows a command changes on the page. *)
LEMMA PatchRowsKeeps ==
  ASSUME ListingInv, PatchRows
  PROVE  ListingInv'
  <1>1. /\ UNCHANGED <<listing, where, query, aside, loads, raced, failed, inView, version>>
        /\ Page' = Page /\ Underway /\ shown' = Patched /\ done' \in {done, "known"}
        /\ error' \in BOOLEAN /\ command' = NoCommand /\ Page.after = "patch"
    BY DEF PatchRows, pageIs, screen, Page, Underway, Known, ListingInv, ListingTyped
  <1>2. "loading" \in up => "loading" \in up'
    BY FlagsApart DEF PatchRows
  <1>3. /\ NoCommand \in CommandOut /\ NoCommand.deed = "none" /\ NoCommand.read = 0
        /\ NoCommand.stage = "none" /\ where = "on" /\ ClaimsSuit(listing, Page)
    BY <1>1, FirstQueryTyped, Here DEF NoCommand, ListingInv, Handlers, Underway
  <1>4. ~Underway' /\ (raced # "yes" => loads = {})
    BY <1>1, <1>3 DEF ListingInv, OneLoad, Underway
  <1>5. CASE command.deed = "scan"
    <2> DEFINE found == [filter |-> query.filter, pages |-> {query.page},
                         version |-> command.read, own |-> TRUE]
    <2>1. found \in RowSet /\ found.own /\ found.version <= version
          /\ found.filter = query.filter /\ found.pages = {query.page}
      BY DEF RowSet, ListingInv, ListingTyped, QueryAt, CommandOut, Dated
    <2>2. shown' = found
      BY <1>1, <1>5 DEF Patched
    <2> HIDE DEF found
    <2>3. ~Page.appends
      BY <1>5 DEF ListingInv, Handlers
    <2>4. ListingTyped' /\ Dated'
      BY <1>1, <1>3, <2>1, <2>2 DEF ListingInv, ListingTyped, Dated
    <2>5. OneLoad' /\ Handlers'
      BY <1>1, <1>3, <1>4 DEF ListingInv, OneLoad, Handlers
    <2>6. ControlsLead' /\ AppendedRows'
      BY <1>1, <2>1, <2>2, <2>3 DEF ListingInv, ControlsLead, AppendedRows, Settled
    <2>7. OwnRead' /\ HiddenAtFirst'
      BY <1>1, <1>3, <1>4, <2>1, <2>2 DEF OwnRead, HiddenAtFirst, ClaimsSuit
    <2> QED BY <2>4, <2>5, <2>6, <2>7 DEF ListingInv
  <1>6. CASE command.deed # "scan"
    <2>1. /\ shown' \in RowSet /\ shown'.own /\ shown'.version = shown.version
          /\ shown'.filter = shown.filter /\ shown'.pages = shown.pages
      BY <1>1, <1>6 DEF Patched, RowSet, ListingInv, ListingTyped
    <2>2. ListingTyped' /\ Dated'
      BY <1>1, <1>3, <2>1 DEF ListingInv, ListingTyped, Dated
    <2>3. OneLoad' /\ Handlers'
      BY <1>1, <1>3, <1>4 DEF ListingInv, OneLoad, Handlers
    <2>4. ControlsLead' /\ AppendedRows'
      BY <1>1, <1>2, <2>1 DEF ListingInv, ControlsLead, AppendedRows, Settled, PagesAt
    <2>5. OwnRead' /\ HiddenAtFirst'
      BY <1>1, <1>3, <1>4, <2>1 DEF OwnRead, HiddenAtFirst, ClaimsSuit
    <2> QED BY <2>2, <2>3, <2>4, <2>5 DEF ListingInv
  <1> QED BY <1>5, <1>6

-----------------------------------------------------------------------------
(* Every step. *)

LEMMA ListingStep == ListingInv /\ [ListingNext]_listingVars => ListingInv'
  <1> SUFFICES ASSUME ListingInv, [ListingNext]_listingVars PROVE ListingInv'
    OBVIOUS
  <1>1. CASE \E f \in DOMAIN PagesOf[1] : ChooseFilter(f) \/ SubmitSearch(f)
    BY <1>1, ChoiceKeeps
  <1>2. CASE GoPrevious \/ GoNext
    BY <1>2, ChoiceKeeps
  <1>3. CASE ChoosePeriod \/ Refresh \/ Poll \/ LookBack
    BY <1>3, SameQueryKeeps
  <1>4. CASE LoadMore
    BY <1>4, LoadMoreKeeps
  <1>5. CASE \E l \in loads : ReadRows(l)
    BY <1>5, ReadRowsKeeps
  <1>6. CASE \E l \in loads : ShowRows(l)
    BY <1>6, ShowRowsKeeps
  <1>7. CASE \E l \in loads : ShowPart(l) \/ ShowFailure(l)
    BY <1>7, FailureKeeps
  <1>8. CASE (\E l \in loads : SignOut(l)) \/ LeaveListing \/ OpenCreated
    <2>1. Unmount("left") \/ Unmount("login")
      BY <1>8 DEF SignOut, LeaveListing, OpenCreated
    <2> QED BY <2>1, UnmountKeeps
  <1>9. CASE LookAway \/ Inspect \/ OpenQuestion \/ Dismiss \/ TurnTab
    BY <1>9, ScreenKeeps
  <1>10. CASE \E deed \in Change \cup {"create", "export"} : StartCommand(deed)
    BY <1>10, StartCommandKeeps
  <1>11. CASE ApplyCommand
    BY <1>11, ApplyCommandKeeps
  <1>12. CASE CommandEnds \/ SetTimer \/ CommandFails
    BY <1>12, SettlingKeeps
  <1>13. CASE PatchRows
    BY <1>13, PatchRowsKeeps
  <1>14. CASE ReloadAfter
    BY <1>14, ReloadAfterKeeps
  <1>15. CASE TimerFires
    BY <1>15, TimerFiresKeeps
  <1>16. CASE DataChanges
    BY <1>16, DataChangesKeeps
  <1>17. CASE UNCHANGED listingVars
    <2>1. /\ UNCHANGED <<listing, where, query, shown, aside, loads, up, raced, error, failed,
                         inView, version, done, command>>
          /\ Page' = Page /\ Underway' = Underway
      BY <1>17 DEF listingVars, pageIs, rows, requests, notes, screen, data, Page, Underway
    <2> QED BY <2>1 DEF ListingInv, ListingTyped, Dated, OneLoad, Handlers, ControlsLead,
               AppendedRows, OwnRead, HiddenAtFirst, Settled, Answered, PagesAt
  <1> QED BY <1>1, <1>2, <1>3, <1>4, <1>5, <1>6, <1>7, <1>8, <1>9, <1>10, <1>11, <1>12,
             <1>13, <1>14, <1>15, <1>16, <1>17 DEF ListingNext

(* In every state the page has the rows, the flags and the requests out     *)
(* that its profile and its controls leave it.                             *)
THEOREM ListingInvHolds == ListingSpec => []ListingInv
  BY ListingInitInv, ListingStep, PTL DEF ListingSpec

(* The rows of a page that has nothing out and no failure on it are those   *)
(* its filter, search and page number stand for, unless requests           *)
(* overlapped or the page is one of StalePages.                            *)
THEOREM RowsMatch == ListingSpec => []RowsMatchControls
  <1>1. ListingInv => RowsMatchControls
    <2> SUFFICES ASSUME ListingInv, Quiet, ~failed, raced = "no", listing \notin StalePages
                 PROVE  shown.filter = query.filter /\ shown.pages = PagesAsked
      BY DEF RowsMatchControls
    <2>1. CASE Page.appends
      BY <2>1 DEF ListingInv, AppendedRows, Quiet, PagesAsked
    <2>2. CASE ~Page.appends
      BY <2>2 DEF ListingInv, ControlsLead, Settled, Quiet, PagesAsked
    <2> QED BY <2>1, <2>2
  <1> QED BY <1>1, ListingInvHolds, PTL

(* A page says that there is nothing only when it has an answer or shows an *)
(* error with it, unless it is one of HastyPages.                          *)
THEOREM NothingIsSaidEarly == ListingSpec => []NothingMeansNothing
  <1>1. ListingInv => NothingMeansNothing
    <2> SUFFICES ASSUME ListingInv, SaysNothing, listing \notin HastyPages
                 PROVE  Answered \/ error
      BY DEF NothingMeansNothing
    <2>1. where = "on" /\ ~ListHidden /\ ~HasRows
      BY DEF SaysNothing
    <2>2. Page.says \in {"empty", "emptyUnlessError"} \/ (Page.says = "answeredEmpty" /\ Answered)
      BY DEF SaysNothing
    <2>3. CASE Page.says \in {"empty", "emptyUnlessError"}
      <3>1. Page.spinner \in {"list", "page", "pageIfEmpty", "listIfEmpty"}
        BY <2>3, Here DEF ListingInv, ClaimsSuit
      <3>2. Blank
        BY <2>1, <2>3 DEF Blank
      <3>3. "loading" \notin up /\ "logsLoading" \notin up
        BY <2>1, <3>1, <3>2 DEF ListHidden, PageHidden
      <3> QED BY <2>1, <2>3, <3>3 DEF ListingInv, HiddenAtFirst
    <2> QED BY <2>2, <2>3
  <1> QED BY <1>1, ListingInvHolds, PTL

(* A change the page knows to be done is on it when nothing is out, unless  *)
(* requests overlapped or the last load failed.                            *)
THEOREM OwnChangesAreShown == ListingSpec => []OwnChangesShown
  <1>1. ListingInv => OwnChangesShown
    BY DEF ListingInv, OwnRead, OwnChangesShown, Quiet
  <1> QED BY <1>1, ListingInvHolds, PTL

PagerAsk ==
  query' # query /\ version = 0 /\ raced = "no" /\ ~failed
    => \/ listing \in HastyPagers
       \/ query'.page \in {1} \cup 1..PagesAt(0, query'.filter)
       \/ query'.filter = query.filter /\ query'.page < query.page

(* The pager of a page that waits for its load goes by the pages of the    *)
(* list it shows.                                                          *)
LEMMA NextPageExists ==
  ASSUME ListingInv, GoNext, version = 0, raced = "no", ~failed, listing \notin HastyPagers
  PROVE  query'.page \in 1..PagesAt(0, query'.filter)
  <1>1. PICK r \in Page.regions : "next" \in r.deeds /\ r.off \cap up = {}
    BY OffersRegion DEF GoNext, ListingInv, Deeds
  <1>2. listing \in PatientPagers /\ "loading" \notin up /\ where = "on"
    BY <1>1, Here DEF ListingInv, RegionsSuit, GoNext, Offers
  <1>3. ~Page.appends /\ listing \notin StalePages
    BY <1>2, Here DEF ListingInv, Suits, PatientPagers, StalePages
  <1>4. shown.filter = query.filter /\ shown.pages = {query.page}
    BY <1>2, <1>3 DEF ListingInv, ControlsLead, Settled
  <1>5. PagerAt = query.page /\ query.page \in Nat \ {0} /\ query \in QueryAt
    BY <1>4 DEF PagerAt, ListingInv, ListingTyped, QueryAt
  <1>6. LastPage \in Nat /\ LastPage > 1 /\ query.page < LastPage
    BY <1>5, LastPages DEF GoNext, ListingInv
  <1>7. LastPage = PagesAt(0, query.filter)
    <2>1. shown.version = 0
      BY DEF ListingInv, ListingTyped, Dated, RowSet
    <2> QED BY <1>4, <1>6, <2>1, LastPages DEF ListingInv
  <1>8. query'.page = query.page + 1 /\ query'.filter = query.filter
    BY <1>5, <1>6 DEF GoNext, Ask, QueryAt
  <1> QED BY <1>5, <1>6, <1>7, <1>8

LEMMA PagerStep == ListingInv /\ [ListingNext]_listingVars => PagerAsk
  <1> SUFFICES ASSUME ListingInv, [ListingNext]_listingVars, query' # query,
                      version = 0, raced = "no", ~failed, listing \notin HastyPagers
               PROVE  \/ query'.page \in {1} \cup 1..PagesAt(0, query'.filter)
                      \/ query'.filter = query.filter /\ query'.page < query.page
    BY DEF PagerAsk
  <1>1. CASE \E f \in DOMAIN PagesOf[1] : ChooseFilter(f) \/ SubmitSearch(f)
    BY <1>1 DEF ChooseFilter, SubmitSearch, Ask
  <1>2. CASE GoPrevious
    <2>1. query \in QueryAt /\ query' = [query EXCEPT !.page = IF @ > 1 THEN @ - 1 ELSE 1]
      BY <1>2 DEF GoPrevious, Ask, ListingInv, ListingTyped
    <2> QED BY <2>1 DEF QueryAt
  <1>3. CASE GoNext
    BY <1>3, NextPageExists
  <1>4. CASE \E l \in loads : ShowRows(l)
    <2>1. PICK l \in loads : ShowRows(l)
      BY <1>4
    <2>2. Page.appends /\ query' = l.query /\ where = "on" /\ l.query \in QueryAt
      BY <2>1, LoadTyped DEF ShowRows, ListingInv, ListingTyped, Handlers
    <2>3. CASE l.more
      <3>1. /\ l.query.filter = 1 /\ l.query.page <= PagesAt(0, 1)
            /\ l.query.page \in Nat \ {0}
        BY <2>2, <2>3 DEF ListingInv, AppendedRows, QueryAt
      <3>2. PagesAt(0, 1) \in Nat
        BY PagesListed, ListingAssumption DEF ListingInv, Dated, Filter
      <3> QED BY <2>2, <3>1, <3>2
    <2>4. CASE ~l.more
      BY <2>2, <2>4 DEF ListingInv, AppendedRows, FirstQuery
    <2> QED BY <2>3, <2>4
  <1>5. CASE (\E l \in loads : SignOut(l)) \/ LeaveListing \/ OpenCreated
    BY <1>5 DEF SignOut, LeaveListing, OpenCreated, Unmount, FirstQuery
  <1>6. CASE \/ ChoosePeriod \/ Refresh \/ LoadMore \/ Poll \/ LookAway \/ LookBack
             \/ \E l \in loads : ReadRows(l) \/ ShowPart(l) \/ ShowFailure(l)
             \/ Inspect \/ OpenQuestion \/ Dismiss \/ TurnTab
             \/ \E deed \in Change \cup {"create", "export"} : StartCommand(deed)
             \/ ApplyCommand \/ CommandEnds \/ PatchRows \/ ReloadAfter
             \/ SetTimer \/ TimerFires \/ CommandFails \/ DataChanges
             \/ UNCHANGED listingVars
    <2>1. query' = query
      BY <1>6 DEF ChoosePeriod, Refresh, LoadMore, Poll, LookAway, LookBack, ReadRows, ShowPart,
         ShowFailure, Inspect, OpenQuestion, Dismiss, TurnTab, Front, StartCommand, ApplyCommand,
         CommandEnds, PatchRows, ReloadAfter, SetTimer, TimerFires, CommandFails, DataChanges,
         listingVars, rows
    <2> QED BY <2>1
  <1> QED BY <1>1, <1>2, <1>3, <1>4, <1>5, <1>6 DEF ListingNext

(* While the data stays as it is, a pager asks for the first page, for one  *)
(* the filtered list has, or for an earlier one, unless requests overlapped,*)
(* the last one failed, or the page is one of HastyPagers.                  *)
THEOREM PagesAskedExist == ListingSpec => PagerAsksExistingPage
  <1>1. ListingInv /\ [ListingNext]_listingVars => [PagerAsk]_listingVars
    BY PagerStep
  <1> QED BY <1>1, ListingInvHolds, PTL DEF ListingSpec, PagerAsksExistingPage, PagerAsk

=============================================================================
