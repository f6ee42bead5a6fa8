------------------------------ MODULE Composer ------------------------------
(***************************************************************************)
(* The place where messages of a discussion are written: the customer's,    *)
(* and those of the two desks, where a draft that begins with a slash lists *)
(* commands that fix an appointment, close or reopen the thread, ban the    *)
(* customer or insert a text.  Requests under way do not keep their author  *)
(* from the rest of the page, and popups close on timers.                  *)
(***************************************************************************)
EXTENDS Naturals, Sequences

CONSTANT MaxPosts   \* bound: requests of a kind out, and timers of a kind set

ASSUME ComposerAssumption == MaxPosts \in Nat \ {0}

VARIABLES
  author,    \* "customer", "staff", "admin", or "none"
  draft,     \* what stands in the field
  attached,  \* a file is attached
  selected,  \* the command of the list that Enter executes
  message,   \* the message on its way
  shut,      \* the page takes the thread for closed
  awaiting,  \* the last message is the customer's
  popup,    \* "none", "schedule", "ban" or "close"
  posts,     \* requests of each kind out
  achieved,  \* kinds whose popup tells of success
  timers     \* timers set that close a popup, of each kind

field == <<draft, attached, selected>>
thread == <<shut, awaiting>>
popups == <<popup, achieved, timers>>
composerVars == <<author, field, message, thread, popups, posts>>

(* What the commands of a desk do; three of its nine open the popup of     *)
(* appointments and three insert a text.                                    *)
StaffCommands == <<"schedule", "close", "reopen", "ban", "template">>
AdminCommands == <<"schedule", "close", "reopen", "ban", "template">>
Commands == [staff |-> StaffCommands, admin |-> AdminCommands]
Kind == {"schedule", "close", "reopen", "ban", "template"}
Posted == Kind \ {"template"}

Typed == {"text", "longer"}
Draft == {"empty", "preset", "slash", "narrow", "unlisted"} \cup Typed \cup Kind
NoMessage == [draft |-> "empty", attached |-> FALSE, stage |-> "none"]
Sending == message.stage # "none"

(* A draft that is a command lists it, a slash alone lists all of them.     *)
StaffListed ==
  CASE draft = "slash"  -> StaffCommands
    [] draft = "narrow" -> SubSeq(StaffCommands, 2, 3)
    [] draft \in Kind   -> <<draft>>
    [] OTHER            -> <<>>
AdminListed ==
  CASE draft = "slash"  -> AdminCommands
    [] draft = "narrow" -> SubSeq(AdminCommands, 2, 3)
    [] draft \in Kind   -> <<draft>>
    [] OTHER            -> <<>>
Listed == CASE author = "staff" -> StaffListed [] author = "admin" -> AdminListed
            [] OTHER -> <<>>

NothingWritten ==
  /\ draft = "empty" /\ attached = FALSE /\ selected = 1 /\ message = NoMessage
  /\ popup = "none" /\ posts = [k \in Posted |-> 0] /\ achieved = {}
  /\ timers = [k \in {"schedule", "ban"} |-> 0]

StaffOpens == author = "staff" /\ shut \in BOOLEAN /\ awaiting = FALSE
AdminOpens == author = "admin" /\ shut \in BOOLEAN /\ awaiting = FALSE
CustomerOpens == author = "customer" /\ shut \in BOOLEAN /\ awaiting \in BOOLEAN

ComposerInit == NothingWritten /\ (StaffOpens \/ AdminOpens \/ CustomerOpens)
ComposerIdle == NothingWritten /\ author = "none" /\ shut = FALSE /\ awaiting = FALSE

-----------------------------------------------------------------------------
(* What each part of the pages offers in the state it is in. *)

When(condition, deeds) == IF condition THEN deeds ELSE {}
SomethingToSend == ~Sending /\ (draft # "empty" \/ attached)

StaffBanner == When(shut, {"reopen"})
StaffToolbar ==
  {"schedule", "ban", "template", "slash"} \cup (IF shut THEN {"reopen"} ELSE {"close"})
StaffOverlay == When(Listed # <<>>, {"pick", "point"})
StaffPill == When(attached, {"detach"})
StaffField ==
  {"type", "attach"} \cup (IF Listed # <<>> THEN {"arrow", "run", "clear"} ELSE {"send"})
    \cup When(SomethingToSend, {"send"})
StaffScheduleDialog == {"dismiss"} \cup When(posts["schedule"] = 0, {"submit"})
StaffBanDialog ==
  {"dismiss"} \cup When(posts["ban"] = 0 /\ "ban" \notin achieved, {"submit"})
StaffCloseDialog == {"dismiss"} \cup When(posts["close"] = 0, {"submit"})

AdminBanner == When(shut, {"reopen"})
AdminToolbar ==
  {"schedule", "ban", "template", "slash"} \cup (IF shut THEN {"reopen"} ELSE {"close"})
AdminOverlay == When(Listed # <<>>, {"pick", "point"})
AdminPill == When(attached, {"detach"})
AdminField ==
  {"attach"} \cup When(~Sending, {"type"})
    \cup When(~Sending /\ Listed # <<>>, {"arrow", "run", "clear"})
    \cup When(SomethingToSend, {"send"})
AdminScheduleDialog == {"dismiss"} \cup When(posts["schedule"] = 0, {"submit"})
AdminBanDialog ==
  {"dismiss"} \cup When(posts["ban"] = 0 /\ "ban" \notin achieved, {"submit"})
AdminCloseDialog == {"dismiss"} \cup When(posts["close"] = 0, {"submit"})

(* The customer's composer gives way to a note while an answer is awaited.  *)
CustomerFooter ==
  When(~shut /\ ~awaiting,
       {"attach"} \cup When(attached, {"detach"}) \cup When(~Sending, {"type"})
         \cup When(SomethingToSend, {"send"}))

Offered ==
  CASE author = "staff" /\ popup = "none" ->
         StaffBanner \cup StaffToolbar \cup StaffOverlay \cup StaffPill \cup StaffField
    [] author = "staff" /\ popup = "schedule" -> StaffScheduleDialog
    [] author = "staff" /\ popup = "ban"      -> StaffBanDialog
    [] author = "staff" /\ popup = "close"    -> StaffCloseDialog
    [] author = "admin" /\ popup = "none" ->
         AdminBanner \cup AdminToolbar \cup AdminOverlay \cup AdminPill \cup AdminField
    [] author = "admin" /\ popup = "schedule" -> AdminScheduleDialog
    [] author = "admin" /\ popup = "ban"      -> AdminBanDialog
    [] author = "admin" /\ popup = "close"    -> AdminCloseDialog
    [] author = "customer" -> CustomerFooter
    [] OTHER -> {}

-----------------------------------------------------------------------------
(* The field. *)

Drafts == IF author = "customer" THEN {"empty"} \cup Typed ELSE Draft \ {"preset"}

(* Mutant of TypeDraft: the selection stays where the longer list had it.   *)
TypeDraftOnly(d) ==
  /\ "type" \in Offered /\ d \in Drafts \ {draft}
  /\ draft' = d
  /\ UNCHANGED <<author, attached, selected, message, thread, popups, posts>>

TypeDraft(d) ==
  /\ "type" \in Offered /\ d \in Drafts \ {draft}
  /\ draft' = d /\ selected' = 1
  /\ UNCHANGED <<author, attached, message, thread, popups, posts>>

(* A file that is too large changes nothing. *)
Attach ==
  /\ "attach" \in Offered /\ ~attached
  /\ attached' = TRUE
  /\ UNCHANGED <<author, draft, selected, message, thread, popups, posts>>

Detach ==
  /\ "detach" \in Offered
  /\ attached' = FALSE
  /\ UNCHANGED <<author, draft, selected, message, thread, popups, posts>>

(* The arrows go round, the pointer goes where it likes. *)
Arrow ==
  /\ "arrow" \in Offered
  /\ selected' \in {(selected % Len(Listed)) + 1,
                    ((selected + Len(Listed) - 2) % Len(Listed)) + 1}
  /\ UNCHANGED <<author, draft, attached, message, thread, popups, posts>>

Point ==
  /\ "point" \in Offered
  /\ selected' \in 1..Len(Listed)
  /\ UNCHANGED <<author, draft, attached, message, thread, popups, posts>>

Clear ==
  /\ "clear" \in Offered
  /\ draft' = "empty"
  /\ UNCHANGED <<author, attached, selected, message, thread, popups, posts>>

(* The toolbar puts a slash in the field and leaves the selection alone.    *)
PutSlash ==
  /\ "slash" \in Offered
  /\ draft' = "slash"
  /\ UNCHANGED <<author, attached, selected, message, thread, popups, posts>>

-----------------------------------------------------------------------------
(* Commands, by the list, the toolbar or a draft sent that is one. *)

OpenPopup(kind) == popup' = kind /\ achieved' = achieved \ {kind}
PostOut(kind) == posts[kind] < MaxPosts /\ posts' = [posts EXCEPT ![kind] = @ + 1]

Execute(kind) ==
  /\ CASE kind = "template" -> draft' = "preset" /\ UNCHANGED <<popups, posts>>
       [] kind = "reopen"   -> draft' = "empty" /\ PostOut("reopen") /\ UNCHANGED popups
       [] OTHER -> draft' = "empty" /\ OpenPopup(kind) /\ UNCHANGED <<timers, posts>>
  /\ UNCHANGED <<author, attached, selected, message, thread>>

RunSelected == "run" \in Offered /\ selected <= Len(Listed) /\ Execute(Listed[selected])
PickCommand == "pick" \in Offered /\ \E n \in DOMAIN Listed : Execute(Listed[n])

Toolbar(kind) ==
  /\ kind \in Offered
  /\ CASE kind = "template" -> draft' = "preset" /\ UNCHANGED <<popups, posts>>
       [] kind = "reopen"   -> PostOut("reopen") /\ UNCHANGED <<draft, popups>>
       [] OTHER -> OpenPopup(kind) /\ UNCHANGED <<draft, timers, posts>>
  /\ UNCHANGED <<author, attached, selected, message, thread>>

DismissPopup ==
  /\ "dismiss" \in Offered
  /\ popup' = "none"
  /\ UNCHANGED <<author, field, message, thread, achieved, timers, posts>>

Submit ==
  /\ "submit" \in Offered
  /\ PostOut(popup)
  /\ UNCHANGED <<author, field, message, thread, popups>>

-----------------------------------------------------------------------------
(* Messages. *)

SendDraft ==
  /\ "send" \in Offered /\ SomethingToSend /\ ~shut
  /\ IF author # "customer" /\ draft \in Kind THEN Execute(draft)
     ELSE /\ message' = [draft |-> draft, attached |-> attached, stage |-> "sent"]
          /\ UNCHANGED <<author, field, thread, popups, posts>>

(* Whatever stands in the field by now is cleared.  The customer's page     *)
(* shows the message last, unless it heard of it, and of more, before.      *)
Delivered ==
  /\ Sending
  /\ message' = NoMessage /\ draft' = "empty" /\ attached' = FALSE
  /\ awaiting' \in (IF author = "customer" THEN {awaiting, TRUE} ELSE {FALSE})
  /\ UNCHANGED <<author, selected, shut, popups, posts>>

NotDelivered ==
  /\ Sending
  /\ message' = NoMessage
  /\ UNCHANGED <<author, field, thread, popups, posts>>

HearMessage ==
  /\ author # "none"
  /\ awaiting' \in (IF author = "customer" THEN BOOLEAN ELSE {FALSE})
  /\ UNCHANGED <<author, field, message, shut, popups, posts>>

HearClosed ==
  /\ author # "none"
  /\ shut' = ~shut /\ awaiting' = FALSE
  /\ UNCHANGED <<author, field, message, popups, posts>>

-----------------------------------------------------------------------------
(* Answers to what the popups posted. *)

Answers(kind) == posts[kind] > 0 /\ posts' = [posts EXCEPT ![kind] = @ - 1]
ClosesLater(kind) ==
  /\ timers[kind] < MaxPosts
  /\ timers' = [timers EXCEPT ![kind] = @ + 1] /\ achieved' = achieved \cup {kind}

Scheduled ==
  /\ Answers("schedule") /\ ClosesLater("schedule")
  /\ UNCHANGED <<author, field, message, thread, popup>>

Banned ==
  /\ Answers("ban") /\ ClosesLater("ban")
  /\ shut' = TRUE
  /\ UNCHANGED <<author, field, message, awaiting, popup>>

Closed ==
  /\ Answers("close")
  /\ shut' = TRUE
  /\ popup' = IF popup = "close" THEN "none" ELSE popup
  /\ UNCHANGED <<author, field, message, awaiting, achieved, timers>>

Reopened ==
  /\ Answers("reopen")
  /\ shut' = FALSE
  /\ UNCHANGED <<author, field, message, awaiting, popups>>

Refused(kind) == Answers(kind) /\ UNCHANGED <<author, field, message, thread, popups>>

(* Also when the popup was closed, and opened again, since.                *)
TimerEnds(kind) ==
  /\ timers[kind] > 0
  /\ timers' = [timers EXCEPT ![kind] = @ - 1]
  /\ achieved' = achieved \ {kind}
  /\ popup' = IF popup = kind THEN "none" ELSE popup
  /\ UNCHANGED <<author, field, message, thread, posts>>

ComposerNext ==
  \/ \E d \in Draft : TypeDraft(d)
  \/ Attach \/ Detach \/ Arrow \/ Point \/ Clear \/ PutSlash
  \/ RunSelected \/ PickCommand \/ DismissPopup \/ Submit
  \/ \E kind \in Kind : Toolbar(kind)
  \/ SendDraft \/ Delivered \/ NotDelivered \/ HearMessage \/ HearClosed
  \/ Scheduled \/ Banned \/ Closed \/ Reopened
  \/ \E kind \in Posted : Refused(kind)
  \/ \E kind \in DOMAIN timers : TimerEnds(kind)
-----------------------------------------------------------------------------
ComposerTypeOK ==
  /\ author \in {"customer", "staff", "admin", "none"} /\ draft \in Draft
  /\ message.draft \in Draft /\ popup \in {"none", "schedule", "ban", "close"}
  /\ posts \in [Posted -> 0..MaxPosts] /\ achieved \subseteq {"schedule", "ban"}
  /\ shut \in BOOLEAN /\ awaiting \in BOOLEAN

(* Enter executes a command of the list that is shown, however the draft    *)
(* came to be what it is.                                                   *)
EnterRunsListed == Listed # <<>> => selected \in 1..Len(Listed)
=============================================================================
