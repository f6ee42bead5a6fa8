------------------------------- MODULE Review -------------------------------
(***************************************************************************)
(* The page on which a dossier is decided, the staff's and the admin's: it  *)
(* polls the dossier, offers decisions by the status it shows, and posts    *)
(* them, while others move the same dossier.  The server answers by the     *)
(* table of CreditApplication.                                              *)
(***************************************************************************)
EXTENDS CreditApplication

CONSTANTS
  Nothing,    \* application is null
  MaxReads    \* bound: reads of the dossier without an answer

ASSUME ReviewAssumption ==
  /\ App # {}   \* the page is opened on a dossier
  /\ Nothing \notin Status /\ MaxReads \in Nat \ {0}

VARIABLES
  desk,      \* whose page is on screen: "staff", "admin", or "none"
  opened,    \* the status on the page, or Nothing
  reading,   \* reads out
  waiting,   \* loading: the page is hidden until the first read has ended
  dialog,    \* "none", a deed that waits to be confirmed, or "preview"
  decision,  \* the decision under way
  working,   \* the flag that disables the decisions
  alert,     \* "none", a read failed: "load", a decision: "refused"
  watching,  \* the browser tab is visible
  decided,   \* the status this page was told it gave the dossier, or Nothing
  overlap    \* "no"; "yes", requests overlapped; "ending", a read is out alone since

reviewed == <<opened, alert>>
asked == <<reading, waiting, overlap>>
posted == <<decision, working, decided>>
reviewVars ==
  <<status, branchOf, desk, reviewed, asked, dialog, posted, watching>>

Deed == {"approve", "reject", "cancel"}
StaffTarget ==
  [approve |-> "STAFF_APPROVED", reject |-> "STAFF_REJECTED", cancel |-> "CANCELLED"]
AdminTarget == [approve |-> "APPROVED", reject |-> "REJECTED", cancel |-> "CANCELLED"]
Target == [staff |-> StaffTarget, admin |-> AdminTarget]
RoleAt == [staff |-> "operational", admin |-> "admin"]
NoDecision == [deed |-> "none", stage |-> "none", status |-> Nothing]

ReviewedStatus ==
  {"SUBMITTED", "STAFF_APPROVED", "STAFF_REJECTED", "APPROVED", "REJECTED", "CANCELLED"}
Of == CHOOSE a \in App : TRUE

Read(n) == [slot |-> n, stage |-> "sent", status |-> Nothing]
FreeReads == {s \in 1..MaxReads : \A r \in reading : r.slot # s}

ReviewClosed ==
  /\ opened = Nothing /\ waiting = FALSE /\ dialog = "none" /\ decision = NoDecision
  /\ working = FALSE /\ alert = "none" /\ watching = TRUE
  /\ decided = Nothing /\ overlap = "no"

ReviewInit ==
  /\ desk \in {"staff", "admin"} /\ reading = {Read(1)}
  /\ status \in [App -> {"SUBMITTED", "STAFF_APPROVED"}]
  /\ branchOf \in [App -> Branch]
  /\ opened = Nothing /\ waiting = TRUE /\ dialog = "none" /\ decision = NoDecision
  /\ working = FALSE /\ alert = "none" /\ watching = TRUE
  /\ decided = Nothing /\ overlap = "no"

ReviewIdle ==
  /\ desk = "none" /\ reading = {} /\ ReviewClosed
  /\ status \in [App -> {"SUBMITTED"}] /\ branchOf \in [App -> Branch]

-----------------------------------------------------------------------------
(* Reads: at first, every ten seconds, and when the tab comes into view. *)

Posting == decision.stage # "none"

SendRead ==
  /\ FreeReads # {}
  /\ reading' = reading \cup {Read(CHOOSE s \in FreeReads : \A r \in FreeReads : s <= r)}
  /\ overlap' = IF reading # {} \/ Posting THEN "yes"
                ELSE IF overlap = "no" THEN "no" ELSE "ending"
  /\ UNCHANGED waiting

RefreshReview ==
  /\ desk # "none" /\ watching
  /\ SendRead
  /\ UNCHANGED <<status, branchOf, desk, reviewed, dialog, posted, watching>>

LookAside ==
  /\ desk # "none" /\ watching
  /\ watching' = FALSE
  /\ UNCHANGED <<status, branchOf, desk, reviewed, asked, dialog, posted>>

LookAgain ==
  /\ desk # "none" /\ ~watching
  /\ watching' = TRUE
  /\ SendRead
  /\ UNCHANGED <<status, branchOf, desk, reviewed, dialog, posted>>

ServeRead(r) ==
  /\ r.stage = "sent"
  /\ reading' = (reading \ {r}) \cup {[r EXCEPT !.stage = "answered", !.status = status[Of]]}
  /\ UNCHANGED <<status, branchOf, desk, reviewed, waiting, overlap, dialog, posted,
                 watching>>

ReadEnds(r) == reading' = reading \ {r} /\ waiting' = FALSE

ShowRead(r) ==
  /\ r.stage = "answered"
  /\ ReadEnds(r)
  /\ opened' = r.status /\ alert' = "none"
  /\ overlap' = IF overlap = "ending" /\ reading = {r} THEN "no" ELSE overlap
  /\ UNCHANGED <<status, branchOf, desk, dialog, posted, watching>>

ShowReadFailure(r) ==
  /\ r.stage = "sent"
  /\ ReadEnds(r)
  /\ alert' = "load"
  /\ UNCHANGED <<status, branchOf, desk, opened, overlap, dialog, posted, watching>>

(* A page that is left, by a link or for the login, drops its answers.      *)
CloseReview ==
  /\ desk' = "none" /\ reading' = {}
  /\ opened' = Nothing /\ waiting' = FALSE /\ dialog' = "none" /\ decision' = NoDecision
  /\ working' = FALSE /\ alert' = "none" /\ watching' = TRUE
  /\ decided' = Nothing /\ overlap' = "no"
  /\ UNCHANGED <<status, branchOf>>

LeaveReview == desk # "none" /\ ~waiting /\ CloseReview

DenyReview ==
  /\ \E r \in reading : r.stage = "sent"
  /\ CloseReview

-----------------------------------------------------------------------------
(* What the page offers. *)

OnPage == desk # "none" /\ ~waiting /\ opened # Nothing

(* Mutant of CanDecide: the staff's bar stays for a dossier they approved.  *)
CanDecideAgain ==
  opened \in (IF desk = "staff" THEN {"SUBMITTED", "STAFF_APPROVED"} ELSE {"STAFF_APPROVED"})

CanDecide == opened = (IF desk = "staff" THEN "SUBMITTED" ELSE "STAFF_APPROVED")

OnCancel == opened \in {"SUBMITTED", "STAFF_APPROVED"}

(* The staff confirm every decision in a dialog, the admin the rejection.   *)
Confirmed(deed) == desk = "staff" \/ deed = "reject"

(* The staff's dialogs stay when the bar goes; the one that cancels is      *)
(* there while the page has a handler for it, the admin's with the bar.     *)
DialogMounted(deed) ==
  \/ desk = "staff" /\ (deed = "cancel" => OnCancel)
  \/ desk = "admin" /\ CanDecide

OpenDialog(deed) ==
  /\ OnPage /\ CanDecide /\ dialog = "none" /\ ~working /\ Confirmed(deed)
  /\ dialog' = deed
  /\ UNCHANGED <<status, branchOf, desk, reviewed, asked, posted, watching>>

(* A document can be looked at whatever the status. *)
OpenPreview ==
  /\ OnPage /\ desk = "staff" /\ dialog = "none"
  /\ dialog' = "preview"
  /\ UNCHANGED <<status, branchOf, desk, reviewed, asked, posted, watching>>

CloseDialog ==
  /\ OnPage /\ dialog # "none"
  /\ dialog \in Deed => DialogMounted(dialog)
  /\ dialog' = "none"
  /\ UNCHANGED <<status, branchOf, desk, reviewed, asked, posted, watching>>

(* The staff's dialog closes when it is confirmed, the admin's stays.       *)
Decide(deed) ==
  /\ OnPage /\ ~working
  /\ IF Confirmed(deed) THEN dialog = deed /\ DialogMounted(deed)
                        ELSE dialog = "none" /\ CanDecide
  /\ dialog' = IF desk = "staff" THEN "none" ELSE dialog
  /\ decision' = [deed |-> deed, stage |-> "sent", status |-> Nothing]
  /\ working' = TRUE /\ alert' = "none"
  /\ overlap' = IF reading # {} THEN "yes" ELSE overlap
  /\ UNCHANGED <<status, branchOf, desk, opened, reading, waiting, decided, watching>>

-----------------------------------------------------------------------------
(* The server decides, or refuses; an answer may get lost. *)

(* Mutant of ServeDecision: the answer is made of the model read before.    *)
ServeDecisionStale ==
  LET to == Target[desk][decision.deed] IN
  /\ decision.stage = "sent" /\ CanMove(status[Of], to, RoleAt[desk])
  /\ status' = [status EXCEPT ![Of] = to]
  /\ decision' = [decision EXCEPT !.stage = "answered", !.status = status[Of]]
  /\ UNCHANGED <<branchOf, desk, reviewed, asked, dialog, working, decided, watching>>

ServeDecision ==
  LET to == Target[desk][decision.deed] IN
  /\ decision.stage = "sent" /\ CanMove(status[Of], to, RoleAt[desk])
  /\ status' = [status EXCEPT ![Of] = to]
  /\ decision' = [decision EXCEPT !.stage = "answered", !.status = to]
  /\ UNCHANGED <<branchOf, desk, reviewed, asked, dialog, working, decided, watching>>

ShowDecision ==
  /\ decision.stage = "answered"
  /\ opened' = decision.status /\ decided' = Target[desk][decision.deed]
  /\ decision' = NoDecision /\ working' = FALSE
  /\ UNCHANGED <<status, branchOf, desk, alert, asked, dialog, watching>>

ShowRefusal ==
  /\ Posting
  /\ alert' = "refused"
  /\ decision' = NoDecision /\ working' = FALSE
  /\ UNCHANGED <<status, branchOf, desk, opened, asked, dialog, decided, watching>>

OthersDecide ==
  /\ desk # "none"
  /\ \E to \in ReviewedStatus, role \in StaffRole :
       /\ CanMove(status[Of], to, role)
       /\ status' = [status EXCEPT ![Of] = to]
  /\ UNCHANGED <<branchOf, desk, reviewed, asked, dialog, posted, watching>>

ReviewNext ==
  \/ RefreshReview \/ LookAside \/ LookAgain
  \/ \E r \in reading : ServeRead(r) \/ ShowRead(r) \/ ShowReadFailure(r)
  \/ LeaveReview \/ DenyReview
  \/ OpenPreview \/ CloseDialog
  \/ \E deed \in Deed : OpenDialog(deed) \/ Decide(deed)
  \/ ServeDecision \/ ShowDecision \/ ShowRefusal
  \/ OthersDecide

ReviewFairness ==
  /\ WF_reviewVars(RefreshReview)
  /\ SF_reviewVars(\E r \in reading : ServeRead(r))
  /\ WF_reviewVars(\E r \in reading : ShowRead(r))
-----------------------------------------------------------------------------
ReviewTypeOK ==
  /\ desk \in {"staff", "admin", "none"}
  /\ status \in [App -> Status] /\ opened \in Status \cup {Nothing}
  /\ dialog \in Deed \cup {"none", "preview"} /\ alert \in {"none", "load", "refused"}
  /\ decision.stage \in {"none", "sent", "answered"}
  /\ working = Posting

(* A dialog is opened, and the admin's page decides at once, only for what  *)
(* the state machine permits to that role in the status on the page: the    *)
(* conditions of both pages agree with the server's table.  (A dialog of    *)
(* the staff's that is open when the status moves can still be confirmed.)  *)
OffersArePermitted ==
  [][\A deed \in Deed :
       \/ dialog # deed /\ dialog' = deed
       \/ desk = "admin" /\ ~Posting /\ decision'.deed = deed
       => CanMove(opened, Target[desk][deed], RoleAt[desk])]_reviewVars

(* When nothing is out, a page that was told its decision was taken shows   *)
(* it, or what followed, unless a read overlapped with another request:     *)
(* then the older answer may be the one shown, until the next read alone.   *)
DecisionShown ==
  reading = {} /\ ~Posting /\ overlap = "no" /\ decided # Nothing
    => opened # Nothing /\ HasReached(opened, decided)

(* A page in view shows the dossier's status again and again, whatever      *)
(* answers overtake each other.                                             *)
ReviewCatchesUp == []<>(desk = "none" \/ ~watching \/ opened = status[Of])
=============================================================================
