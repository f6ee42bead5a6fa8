------------------------------- MODULE Wizard -------------------------------
(***************************************************************************)
(* The pages on which a customer fills in one dossier: the three sections,  *)
(* the cards that take documents, the page of validation 1 and submission,  *)
(* and the summary that leads back to the step to resume.  Each page reads  *)
(* the dossier once, when it is opened, and nothing cancels a request of a  *)
(* page that is left: a save goes on and moves the customer when it ends,   *)
(* a loop of uploads goes on to its last file.  The server's handlers are   *)
(* those of Dossier.tla, taken in one step each, validation 1 in two.       *)
(* Bound: of saves, loops of uploads, removals and checks one each is out   *)
(* (a page sees to it itself, but for removals and for what others left).   *)
(***************************************************************************)
EXTENDS Naturals, FiniteSets

CONSTANTS
  Entry,     \* what may be entered in a section, numbers from 1
  File,      \* ids of documents, in the order they are given
  CardOf     \* the step whose card takes the document

Form == {"client", "credit", "project"}

ASSUME WizardAssumption ==
  /\ Entry \subseteq Nat \ {0} /\ File \subseteq Nat \ {0}
  /\ CardOf \in [File -> {"client", "credit"}]

VARIABLES
  step,      \* the page: a form, "validation", "detail", "elsewhere", or "idle"
  read,      \* the page's read: "none", "sent" or "answered"
  answer,    \* what the server answered to it
  copy,      \* the dossier on the page, or NoCopy
  typed,     \* what stands in the form, 0 for nothing
  card,      \* documents listed on the card of the page
  listed,    \* validation 1's errors on the page: "none", "documents", "incomplete"
  popup,     \* "none", "force" or "confirm": what the dialog asks
  saving,    \* the save under way
  upload,    \* the loop of uploads under way
  removal,   \* the removal under way
  control,   \* validation 1 or the submission under way
  strayed,   \* a request of an earlier page was out when this one was opened, or
             \* one of this page's went unanswered
  standing,  \* the server's: the dossier's status
  kept,      \* what is saved in each section
  verdicts   \* the documents and what validation 1 said of them

page == <<step, read, answer, copy, typed, card, listed, popup>>
out == <<saving, upload, removal, control>>
server == <<standing, kept, verdicts>>
wizardVars == <<page, out, strayed, server>>

Progress == <<"DRAFT", "STEP_1_COMPLETED", "STEP_2_COMPLETED", "READY_FOR_VALIDATION_1",
              "VALIDATION_1_COMPLETED", "SUBMITTED">>
Standing == {Progress[i] : i \in DOMAIN Progress}
Rank(st) == CHOOSE i \in DOMAIN Progress : Progress[i] = st
Past(st, threshold) == Rank(st) >= Rank(threshold)

Needs == [client |-> "DRAFT", credit |-> "STEP_1_COMPLETED", project |-> "STEP_2_COMPLETED",
          validation |-> "READY_FOR_VALIDATION_1"]
Gives == [client |-> "STEP_1_COMPLETED", credit |-> "STEP_2_COMPLETED",
          project |-> "READY_FOR_VALIDATION_1"]
After == [client |-> "credit", credit |-> "project", project |-> "validation"]

Frozen(st) == st = "SUBMITTED"
Filed == {d \in File : verdicts[d] \in {"unverified", "valid", "invalid"}}

NoCopy == [status |-> "none", kept |-> [k \in Form |-> 0], docs |-> {}]
NoSave == [of |-> "none", entry |-> 0, stage |-> "none"]
NoUpload == [of |-> "none", left |-> 0, doc |-> 0, stage |-> "none", here |-> FALSE]
NoRemoval == [doc |-> 0, stage |-> "none", here |-> FALSE]
NoControl ==
  [deed |-> "none", stage |-> "none", docs |-> {}, copy |-> NoCopy, here |-> FALSE]

(* Mutant of Resource: the relations an answer does not load are left out.  *)
ResourceAfterFresh(st, verdict) == [status |-> st, kept |-> kept, docs |-> {}]

(* The dossier as the server gives it. *)
Resource(st, verdict) ==
  [status |-> st, kept |-> kept,
   docs |-> {d \in File : verdict[d] \in {"unverified", "valid", "invalid"}}]

Empty ==
  /\ read = "none" /\ answer = NoCopy /\ copy = NoCopy /\ typed = 0
  /\ card = {} /\ listed = "none" /\ popup = "none"
  /\ saving = NoSave /\ upload = NoUpload /\ removal = NoRemoval /\ control = NoControl
  /\ strayed = FALSE /\ standing = "DRAFT" /\ kept = [k \in Form |-> 0]
  /\ verdicts = [d \in File |-> "none"]

WizardInit == step = "elsewhere" /\ Empty
WizardIdle == step = "idle" /\ Empty

-----------------------------------------------------------------------------
(* What the parts of a page offer.  Fields stay enabled while a save is     *)
(* out, the removal of a document while others are loaded up or removed.    *)

Given(condition, controls) == IF condition THEN controls ELSE {}

Editable == copy # NoCopy /\ ~Frozen(copy.status)
NextButton == Given(saving = NoSave /\ typed # 0, {"next"})
FileInput == Given(upload = NoUpload, {"choose"})
Listed == Given(card # {}, {"remove"})

IdentityBox == FileInput \cup Listed
DiplomaBox == FileInput \cup Listed
PersonalCard == Given(Editable, IdentityBox \cup DiplomaBox)
ClientFields == Given(Editable, {"type"})
ClientBar == Given(Editable, NextButton)

AmountInputs == Given(Editable, {"type"})
DocumentUploadBox == FileInput \cup Listed
FinancingBoxes == Given(Editable, DocumentUploadBox)
CreditFields == Given(Editable, {"type"})
CreditBar == Given(Editable, NextButton)

ProjectFields == Given(Editable, {"type"})
ProjectBar == Given(Editable, NextButton)

Summary == Given(copy # NoCopy, {"resume"})

(* The page of validation 1, complete and not submitted.                    *)
Ready == step = "validation" /\ Editable /\ \A k \in Form : copy.kept[k] # 0
Verified == copy.status = "VALIDATION_1_COMPLETED"
Working == control.here

ErrorList == Given(listed = "documents" /\ ~Working, {"ask to force"})
ForceDialog == Given(popup = "force" /\ ~Working, {"force"})
SubmitArea == IF Verified THEN {"ask to confirm"} ELSE Given(~Working, {"check"})
ConfirmDialog == Given(popup = "confirm" /\ Verified /\ ~Working, {"confirm"})
ValidationControls ==
  IF popup = "none" THEN ErrorList \cup SubmitArea ELSE ForceDialog \cup ConfirmDialog

Controls ==
  CASE step = "client" -> ClientFields \cup PersonalCard \cup ClientBar
    [] step = "credit" -> CreditFields \cup AmountInputs \cup FinancingBoxes \cup CreditBar
    [] step = "project" -> ProjectFields \cup ProjectBar
    [] step = "validation" -> Given(Ready, ValidationControls)
    [] step = "detail" -> Summary
    [] OTHER -> {}

-----------------------------------------------------------------------------
(* Going from page to page. *)

Loose == saving # NoSave \/ upload # NoUpload \/ removal # NoRemoval \/ control # NoControl

(* The page that is left is gone with its state; its requests are not.      *)
Open(s) ==
  /\ step' = s
  /\ read' = (IF s = "elsewhere" THEN "none" ELSE "sent")
  /\ answer' = NoCopy /\ copy' = NoCopy /\ typed' = 0 /\ card' = {}
  /\ listed' = "none" /\ popup' = "none"
  /\ upload' = [upload EXCEPT !.here = FALSE]
  /\ removal' = [removal EXCEPT !.here = FALSE]
  /\ control' = [control EXCEPT !.here = FALSE]

GoTo(s) ==
  /\ s # step
  /\ Open(s) /\ strayed' = Loose
  /\ UNCHANGED <<saving, server>>

(* The button of the summary that resumes a dossier not submitted yet.      *)
ResumeAt(st) ==
  CASE st = "DRAFT" -> "client" [] st = "STEP_1_COMPLETED" -> "credit"
    [] st = "STEP_2_COMPLETED" -> "project" [] OTHER -> "validation"

Resume ==
  /\ "resume" \in Controls
  /\ Open(ResumeAt(copy.status)) /\ strayed' = Loose
  /\ UNCHANGED <<saving, server>>

AnswerRead ==
  /\ read = "sent"
  /\ read' = "answered" /\ answer' = Resource(standing, verdicts)
  /\ UNCHANGED <<step, copy, typed, card, listed, popup, out, strayed, server>>

FailRead ==
  /\ read = "sent"
  /\ read' = "none"
  /\ UNCHANGED <<step, answer, copy, typed, card, listed, popup, out, strayed, server>>

(* The form and the card take their first values from what was read.        *)
FillPage ==
  /\ read = "answered"
  /\ read' = "none" /\ answer' = NoCopy /\ copy' = answer
  /\ typed' = (IF step \in Form THEN answer.kept[step] ELSE 0)
  /\ card' = {d \in answer.docs : CardOf[d] = step}
  /\ UNCHANGED <<step, listed, popup, out, strayed, server>>

-----------------------------------------------------------------------------
(* A section. *)

Type(e) ==
  /\ "type" \in Controls /\ e # typed
  /\ typed' = e
  /\ UNCHANGED <<step, read, answer, copy, card, listed, popup, out, strayed, server>>

SubmitForm ==
  /\ "next" \in Controls
  /\ saving' = [of |-> step, entry |-> typed, stage |-> "sent"]
  /\ UNCHANGED <<page, upload, removal, control, strayed, server>>

SaveForm ==
  /\ saving.stage = "sent"
  /\ IF Past(standing, Needs[saving.of]) /\ ~Frozen(standing)
       THEN /\ kept' = [kept EXCEPT ![saving.of] = saving.entry]
            /\ standing' = (IF Past(standing, Gives[saving.of]) THEN standing
                              ELSE Gives[saving.of])
            /\ saving' = [saving EXCEPT !.stage = "saved"]
       ELSE saving' = [saving EXCEPT !.stage = "refused"] /\ UNCHANGED <<standing, kept>>
  /\ UNCHANGED <<page, upload, removal, control, strayed, verdicts>>

(* A connection is lost before the request has arrived, or with its answer. *)
LoseSave ==
  /\ saving.stage \in {"sent", "saved"}
  /\ saving' = [saving EXCEPT !.stage = "refused"]
  /\ strayed' = (strayed \/ saving.stage = "saved")
  /\ UNCHANGED <<page, upload, removal, control, server>>

(* The customer is taken to the next step wherever he is by now; a page he  *)
(* is on already is not opened again.                                       *)
MoveOn ==
  /\ saving.stage = "saved"
  /\ saving' = NoSave
  /\ IF step = After[saving.of] THEN UNCHANGED <<page, upload, removal, control, strayed>>
     ELSE /\ Open(After[saving.of])
          /\ strayed' = (upload # NoUpload \/ removal # NoRemoval \/ control # NoControl)
  /\ UNCHANGED server

(* Mutant of StayWithError: the next step is taken when the request ends,   *)
(* however it ends.                                                         *)
MoveOnAnyway ==
  /\ saving.stage = "refused"
  /\ saving' = NoSave
  /\ Open(After[saving.of]) /\ UNCHANGED <<strayed, server>>

StayWithError ==
  /\ saving.stage = "refused"
  /\ saving' = NoSave
  /\ UNCHANGED <<page, upload, removal, control, strayed, server>>

-----------------------------------------------------------------------------
(* The card of documents: the files chosen go one after the other.          *)

ChooseFiles(n) ==
  /\ "choose" \in Controls
  /\ upload' = [of |-> step, left |-> n, doc |-> 0, stage |-> "sent", here |-> TRUE]
  /\ UNCHANGED <<page, saving, removal, control, strayed, server>>

StoreDocument(d) ==
  /\ upload.stage = "sent" /\ ~Frozen(standing)
  /\ verdicts[d] = "none" /\ CardOf[d] = upload.of
  /\ \A e \in File : e < d /\ CardOf[e] = upload.of => verdicts[e] # "none"
  /\ verdicts' = [verdicts EXCEPT ![d] = "unverified"]
  /\ upload' = [upload EXCEPT !.stage = "stored", !.doc = d]
  /\ UNCHANGED <<page, saving, removal, control, strayed, standing, kept>>

(* The file is refused, or the request or its answer is lost.               *)
FailUpload ==
  /\ upload.stage \in {"sent", "stored"}
  /\ upload' = [upload EXCEPT !.stage = "failed", !.doc = 0]
  /\ strayed' = (strayed \/ upload.stage = "stored")
  /\ UNCHANGED <<page, saving, removal, control, server>>

NextFile ==
  upload' = IF upload.left = 1 THEN NoUpload
              ELSE [upload EXCEPT !.left = @ - 1, !.doc = 0, !.stage = "sent"]

(* Mutant of ListDocument: each answer is put beside what the card listed   *)
(* when the loop began, so the last one alone stays.                        *)
ListLastDocument ==
  /\ upload.stage \in {"stored", "failed"}
  /\ card' = IF upload.here /\ upload.doc # 0 /\ upload.left = 1
               THEN card \cup {upload.doc} ELSE card
  /\ NextFile
  /\ UNCHANGED <<step, read, answer, copy, typed, listed, popup, saving, removal,
                 control, strayed, server>>

ListDocument ==
  /\ upload.stage \in {"stored", "failed"}
  /\ card' = IF upload.here /\ upload.doc # 0 THEN card \cup {upload.doc} ELSE card
  /\ NextFile
  /\ UNCHANGED <<step, read, answer, copy, typed, listed, popup, saving, removal,
                 control, strayed, server>>

RemoveDocument(d) ==
  /\ "remove" \in Controls /\ d \in card /\ removal = NoRemoval
  /\ removal' = [doc |-> d, stage |-> "sent", here |-> TRUE]
  /\ UNCHANGED <<page, saving, upload, control, strayed, server>>

DropDocument ==
  /\ removal.stage = "sent"
  /\ IF removal.doc \in Filed /\ ~Frozen(standing)
       THEN /\ verdicts' = [verdicts EXCEPT ![removal.doc] = "deleted"]
            /\ removal' = [removal EXCEPT !.stage = "removed"]
       ELSE removal' = [removal EXCEPT !.stage = "refused"] /\ UNCHANGED verdicts
  /\ UNCHANGED <<page, saving, upload, control, strayed, standing, kept>>

LoseRemoval ==
  /\ removal.stage \in {"sent", "removed"}
  /\ removal' = [removal EXCEPT !.stage = "refused"]
  /\ strayed' = (strayed \/ removal.stage = "removed")
  /\ UNCHANGED <<page, saving, upload, control, server>>

UnlistDocument ==
  /\ removal.stage \in {"removed", "refused"}
  /\ card' = IF removal.here /\ removal.stage = "removed" THEN card \ {removal.doc} ELSE card
  /\ removal' = NoRemoval
  /\ UNCHANGED <<step, read, answer, copy, typed, listed, popup, saving, upload,
                 control, strayed, server>>

-----------------------------------------------------------------------------
(* Validation 1 and the submission. *)

Send(deed) ==
  /\ control = NoControl
  /\ control' = [NoControl EXCEPT !.deed = deed, !.stage = "sent", !.here = TRUE]
  /\ UNCHANGED <<step, read, answer, copy, typed, card, popup, saving, upload, removal,
                 strayed, server>>

RunCheck ==
  /\ "check" \in Controls
  /\ Send("check") /\ listed' = "none"

ForceCheck ==
  /\ "force" \in Controls
  /\ Send("force") /\ listed' = "none"

Confirm ==
  /\ "confirm" \in Controls
  /\ Send("confirm") /\ UNCHANGED listed

(* Forcing is offered when every error is about a document.                 *)
AskToForce ==
  /\ "ask to force" \in Controls
  /\ popup' = "force"
  /\ UNCHANGED <<step, read, answer, copy, typed, card, listed, out, strayed, server>>

AskToConfirm ==
  /\ "ask to confirm" \in Controls
  /\ popup' = "confirm"
  /\ UNCHANGED <<step, read, answer, copy, typed, card, listed, out, strayed, server>>

ClosePopup ==
  /\ popup # "none"
  /\ popup' = "none"
  /\ UNCHANGED <<step, read, answer, copy, typed, card, listed, out, strayed, server>>

Complete == Filed # {} /\ \A k \in Form : kept[k] # 0

BeginCheck ==
  /\ control.stage = "sent" /\ control.deed \in {"check", "force"}
  /\ control' = [control EXCEPT
       !.docs = {d \in Filed : verdicts[d] # "valid"},
       !.stage = IF Frozen(standing) \/ ~Past(standing, "READY_FOR_VALIDATION_1")
                   THEN "refused" ELSE IF Complete THEN "judging" ELSE "incomplete"]
  /\ UNCHANGED <<page, saving, upload, removal, strayed, server>>

(* Of the documents that had no verdict or were rejected before, some are   *)
(* found good, some bad; for others the provider is out, which blocks if    *)
(* they were rejected before (held), or the time budget spent.              *)
EndCheck(good, bad, held) ==
  LET passes == bad \cup held = {} \/ control.deed = "force"
      verdict == [d \in File |->
        IF d \notin good \cup bad \/ verdicts[d] = "deleted" THEN verdicts[d]
        ELSE IF d \in good THEN "valid" ELSE "invalid"]
      st == IF passes /\ ~Past(standing, "VALIDATION_1_COMPLETED")
              THEN "VALIDATION_1_COMPLETED" ELSE standing
  IN /\ control.stage = "judging" /\ good \cap bad = {}
     /\ \A d \in held : d \notin good \cup bad /\ verdicts[d] # "unverified"
     /\ verdicts' = verdict /\ standing' = st
     /\ control' = [control EXCEPT
          !.stage = IF passes THEN "answered" ELSE "documents",
          !.copy = IF passes THEN Resource(st, verdict) ELSE NoCopy]
     /\ UNCHANGED <<page, saving, upload, removal, strayed, kept>>

(* Confirmed, locked and submitted in one transaction.                      *)
Lock ==
  /\ control.stage = "sent" /\ control.deed = "confirm"
  /\ IF standing = "VALIDATION_1_COMPLETED"
       THEN /\ standing' = "SUBMITTED"
            /\ control' = [control EXCEPT !.stage = "answered",
                                          !.copy = Resource("SUBMITTED", verdicts)]
       ELSE control' = [control EXCEPT !.stage = "refused"] /\ UNCHANGED standing
  /\ UNCHANGED <<page, saving, upload, removal, strayed, kept, verdicts>>

(* The request or its answer is lost.  What the server has not begun by     *)
(* then, it does not begin later; a check that it has begun is answered.    *)
LoseControl ==
  /\ control.stage \in {"sent", "answered", "documents", "incomplete"}
  /\ control' = [control EXCEPT !.stage = "refused", !.copy = NoCopy]
  /\ strayed' = (strayed \/ control.stage = "answered")
  /\ UNCHANGED <<page, saving, upload, removal, server>>

(* A dialog closes when its request succeeds and stays when it fails.       *)
ShowControl ==
  /\ control.stage \in {"answered", "documents", "incomplete", "refused"}
  /\ control' = NoControl
  /\ IF ~control.here THEN UNCHANGED <<copy, listed, popup>>
     ELSE /\ copy' = IF control.stage = "answered" THEN control.copy ELSE copy
          /\ listed' = IF control.stage \in {"documents", "incomplete"}
                         THEN control.stage ELSE listed
          /\ popup' = IF control.stage = "answered" THEN "none" ELSE popup
  /\ UNCHANGED <<step, read, answer, typed, card, saving, upload, removal, strayed, server>>

-----------------------------------------------------------------------------
WizardNext ==
  \/ \E s \in Form \cup {"validation", "detail", "elsewhere"} : GoTo(s)
  \/ Resume \/ AnswerRead \/ FailRead \/ FillPage
  \/ \E e \in Entry : Type(e)
  \/ SubmitForm \/ SaveForm \/ LoseSave \/ MoveOn \/ StayWithError
  \/ \E n \in 1..Cardinality(File) : ChooseFiles(n)
  \/ \E d \in File : StoreDocument(d) \/ RemoveDocument(d)
  \/ FailUpload \/ ListDocument \/ DropDocument \/ LoseRemoval \/ UnlistDocument
  \/ RunCheck \/ ForceCheck \/ Confirm \/ AskToForce \/ AskToConfirm \/ ClosePopup
  \/ BeginCheck \/ Lock \/ LoseControl \/ ShowControl
  \/ \E good, bad, held \in SUBSET control.docs : EndCheck(good, bad, held)

-----------------------------------------------------------------------------
WizardTypeOK ==
  /\ step \in Form \cup {"validation", "detail", "elsewhere", "idle"}
  /\ standing \in Standing /\ kept \in [Form -> Entry \cup {0}]
  /\ verdicts \in [File -> {"none", "unverified", "valid", "invalid", "deleted"}]
  /\ read \in {"none", "sent", "answered"} /\ typed \in Entry \cup {0}
  /\ listed \in {"none", "documents", "incomplete"} /\ popup \in {"none", "force", "confirm"}
  /\ saving.stage \in {"none", "sent", "saved", "refused"} /\ upload.left \in 0..Cardinality(File)

(* The customer locks the dossier that the page shows him: when he confirms *)
(* its submission, status, sections and documents on the page are the       *)
(* server's, unless a request of an earlier page was out when this one was  *)
(* opened, or one went unanswered.                                          *)
TransmitsWhatIsShown ==
  [][control = NoControl /\ control'.deed = "confirm" /\ ~strayed
       => copy = [status |-> standing, kept |-> kept, docs |-> Filed]]_wizardVars

(* A card that has no request out lists the documents the server has for    *)
(* it, under the same proviso: the card is filled once and then kept up to  *)
(* date by the answers to its own requests, several files at a time and     *)
(* removals between them.                                                   *)
CardShowsServer ==
  step \in {"client", "credit"} /\ copy # NoCopy /\ upload = NoUpload /\ removal = NoRemoval
    /\ ~strayed => card = {d \in Filed : CardOf[d] = step}

(* Wherever the portal takes the customer, after a save or to resume, the   *)
(* server takes what he does there: the step before it is behind the        *)
(* dossier, whatever page the customer had gone to meanwhile.               *)
LedToAnOpenStep ==
  [][/\ saving # NoSave /\ saving' = NoSave /\ step' # step
       => Past(standing, Needs[step'])
     /\ step = "detail" /\ copy # NoCopy
       => Past(standing, Needs[ResumeAt(copy.status)])]_wizardVars
=============================================================================
