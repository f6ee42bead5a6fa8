---------------------------- MODULE ReportThread ----------------------------
(***************************************************************************)
(* The discussion of one application between its customer and the bank: the *)
(* report endpoints, the broadcasts the outbox worker sends, and the pages  *)
(* that show the thread in the customer's, the staff's and the admin's      *)
(* portal.                                                                  *)
(*                                                                         *)
(* A page learns of a message in three ways that nothing orders: the answer *)
(* to its load, the answer to its own request, and the broadcast.  The      *)
(* broadcasts come out of the outbox in any order, and again when a worker  *)
(* died after the broadcast; a page that is not subscribed misses them.     *)
(***************************************************************************)
EXTENDS Naturals, Sequences, FiniteSets, SequencesExt

CONSTANTS
  Tab,          \* the browser tabs that can show the thread
  Portal,       \* Portal[t]: "client", "staff" or "admin"
  MaxMessages,  \* bound: report_messages rows
  MaxCalls,     \* bound: requests of one tab without an answer
  MaxReruns     \* bound: broadcasts sent again by a second run of the job

ASSUME TabAssumption == Portal \in [Tab -> {"client", "staff", "admin"}]
ASSUME ThreadBoundAssumption ==
  MaxMessages \in Nat /\ MaxCalls \in Nat \ {0} /\ MaxReruns \in Nat

VARIABLES
  log,      \* report_messages in the order of their ids: who sent what
  closed,   \* report_closed_at IS NOT NULL
  banned,   \* the customer's account is suspended, the tokens revoked
  outbox,   \* messages whose broadcast the worker has not finished
  reruns,   \* broadcasts repeated so far
  view,     \* view[t]: what the page in tab t holds
  live,     \* live[t]: the tab's socket is subscribed to the thread's channel
  calls     \* requests of the pages

serverVars == <<log, closed, banned, outbox>>
vars == <<log, closed, banned, outbox, reruns, view, live, calls>>

Notice == {"text", "close", "reopen", "ban"}
Entry == [from : {"customer", "staff"}, kind : Notice]
Desk == {t \in Tab : Portal[t] # "client"}
Op == {"load", "send", "schedule", "close", "reopen", "ban"}

(* id is the message a call posted, or for a load the messages it read;     *)
(* bound is report_closed_at as a load or a reopening read it; mounted says *)
(* that the page that sent it is still there to take the answer.            *)
Call == [tab : Tab, op : Op, slot : 1..MaxCalls,
         stage : {"sent", "admitted", "answered", "refused", "signedOut"},
         id : 0..MaxMessages, bound : BOOLEAN, mounted : BOOLEAN]

Away == [stage |-> "away", messages |-> <<>>, closed |-> FALSE]
Opening == [Away EXCEPT !.stage = "loading"]

ThreadInit ==
  /\ log = <<>> /\ closed = FALSE /\ banned = FALSE
  /\ outbox = {} /\ reruns = 0
  /\ view = [t \in Tab |-> Away]
  /\ live = [t \in Tab |-> FALSE]
  /\ calls = {}

-----------------------------------------------------------------------------
(* The server. *)

Answer(c, stage, id) ==
  calls' = (calls \ {c}) \cup {[c EXCEPT !.stage = stage, !.id = id]}

Admitted(c, bound) ==
  calls' = (calls \ {c}) \cup {[c EXCEPT !.stage = "admitted", !.bound = bound]}

(* A suspended customer's tokens are gone: the request is answered 401. *)
RefuseSuspended(c) ==
  /\ c.stage = "sent" /\ Portal[c.tab] = "client" /\ banned
  /\ Answer(c, "signedOut", 0)
  /\ UNCHANGED <<serverVars, reruns, view, live>>

(* Listing the messages: the newest of them, oldest first, and the flag. *)
ListMessages(c) ==
  /\ c.stage = "sent" /\ c.op = "load"
  /\ ~(Portal[c.tab] = "client" /\ banned)
  /\ calls' = (calls \ {c})
                \cup {[c EXCEPT !.stage = "answered", !.id = Len(log), !.bound = closed]}
  /\ UNCHANGED <<serverVars, reruns, view, live>>

(* The customer's message is refused on a closed thread, as the model the   *)
(* route bound says; the staff's is not.                                    *)
AdmitCustomer(c) ==
  /\ c.stage = "sent" /\ c.op = "send" /\ Portal[c.tab] = "client" /\ ~banned
  /\ IF closed THEN Answer(c, "refused", 0) ELSE Admitted(c, FALSE)
  /\ UNCHANGED <<serverVars, reruns, view, live>>

(* A desk's requests decide nothing on the bound model but one: what        *)
(* reopening writes.                                                        *)
AdmitReopening(c) ==
  /\ c.stage = "sent" /\ c.op = "reopen"
  /\ Admitted(c, closed)
  /\ UNCHANGED <<serverVars, reruns, view, live>>

CustomersTurn == log = <<>> \/ Last(log).from = "staff"

Post(c, from, kind) ==
  /\ Len(log) < MaxMessages
  /\ log' = Append(log, [from |-> from, kind |-> kind])
  /\ outbox' = outbox \cup {Len(log) + 1}
  /\ Answer(c, "answered", Len(log) + 1)

(* Mutant of PostCustomer: the turn is not read again under the row lock. *)
PostCustomerUnlocked(c) ==
  /\ c.stage = "admitted" /\ Portal[c.tab] = "client"
  /\ Post(c, "customer", "text")
  /\ UNCHANGED <<closed, banned, reruns, view, live>>

(* The transaction locks the application's row, so the turn it reads is the *)
(* turn it writes after.                                                    *)
PostCustomer(c) ==
  /\ c.stage = "admitted" /\ Portal[c.tab] = "client"
  /\ IF CustomersTurn THEN Post(c, "customer", "text")
     ELSE Answer(c, "refused", 0) /\ UNCHANGED <<log, outbox>>
  /\ UNCHANGED <<closed, banned, reruns, view, live>>

PostStaff(c) ==
  /\ c.stage = "sent" /\ c.op = "send" /\ c.tab \in Desk
  /\ Post(c, "staff", "text")
  /\ UNCHANGED <<closed, banned, reruns, view, live>>

CloseThread(c) ==
  /\ c.stage = "sent" /\ c.op = "close"
  /\ Post(c, "staff", "close")
  /\ closed' = TRUE
  /\ UNCHANGED <<banned, reruns, view, live>>

(* The update writes the attributes that differ from the bound model: on a  *)
(* model read open, none does, and the row keeps what it holds.             *)
ReopenThread(c) ==
  /\ c.stage = "admitted" /\ c.op = "reopen"
  /\ Post(c, "staff", "reopen")
  /\ closed' = (closed /\ ~c.bound)
  /\ UNCHANGED <<banned, reruns, view, live>>

BanFromApplication(c) ==
  /\ c.stage = "sent" /\ c.op = "ban"
  /\ Post(c, "staff", "ban")
  /\ closed' = TRUE /\ banned' = TRUE
  /\ UNCHANGED <<reruns, view, live>>

(* The appointment is Scheduling's; here it is booked or refused. *)
ScheduleAppointment(c) ==
  /\ c.stage = "sent" /\ c.op = "schedule"
  /\ \/ Post(c, "staff", "text")
     \/ Answer(c, "refused", 0) /\ UNCHANGED <<log, outbox>>
  /\ UNCHANGED <<closed, banned, reruns, view, live>>

Serve(c) ==
  \/ RefuseSuspended(c) \/ ListMessages(c) \/ AdmitCustomer(c) \/ AdmitReopening(c)
  \/ PostCustomer(c) \/ PostStaff(c) \/ CloseThread(c) \/ ReopenThread(c)
  \/ BanFromApplication(c) \/ ScheduleAppointment(c)

-----------------------------------------------------------------------------
(* A page: opening it, its subscription, what it does with a broadcast. *)

Open(t) == view[t].stage = "open"
Busy(t, op) == \E c \in calls : c.tab = t /\ c.op = op /\ c.mounted
FreeSlot(t) == {s \in 1..MaxCalls : \A c \in calls : c.tab = t => c.slot # s}

Request(t, op) ==
  \E s \in FreeSlot(t) :
    /\ \A r \in FreeSlot(t) : s <= r
    /\ calls' = calls \cup {[tab |-> t, op |-> op, slot |-> s, stage |-> "sent", id |-> 0,
                             bound |-> FALSE, mounted |-> TRUE]}

(* Entering the page mounts it and sends the load. *)
Enter(t) ==
  /\ view[t].stage = "away"
  /\ Request(t, "load")
  /\ view' = [view EXCEPT ![t] = Opening]
  /\ UNCHANGED <<serverVars, reruns, live>>

(* Leaving it drops the socket; what the server still does finds nobody. *)
Outlives(c) == c.op # "load" /\ c.stage \in {"sent", "admitted"}

Unmounted(t) ==
  {c \in calls : c.tab # t}
    \cup {[c EXCEPT !.mounted = FALSE] : c \in {d \in calls : d.tab = t /\ Outlives(d)}}

Leave(t) ==
  /\ view[t].stage \notin {"away", "login"}
  /\ view' = [view EXCEPT ![t] = Away]
  /\ live' = [live EXCEPT ![t] = FALSE]
  /\ calls' = Unmounted(t)
  /\ UNCHANGED <<serverVars, reruns>>

(* The chat component of the client and the staff portal subscribes when it *)
(* is shown, after the load; the admin page subscribes when it is mounted.  *)
Subscribe(t) ==
  /\ Open(t) \/ (Portal[t] = "admin" /\ view[t].stage = "loading")
  /\ ~live[t]
  /\ live' = [live EXCEPT ![t] = TRUE]
  /\ UNCHANGED <<serverVars, reruns, view, calls>>

(* The connection breaks; the library will subscribe again. *)
LoseSocket(t) ==
  /\ live[t]
  /\ live' = [live EXCEPT ![t] = FALSE]
  /\ UNCHANGED <<serverVars, reruns, view, calls>>

(* Mutant of Shown: the message is appended whether it is there or not. *)
ShownAgain(messages, id) == Append(messages, id)

Shown(messages, id) == IF id \in ToSet(messages) THEN messages ELSE Append(messages, id)

(* The body's first character is all the page looks at: a suspension closes *)
(* the thread too, and its notice is not one of the two.                    *)
ClosedAfter(flag, id) == IF log[id].kind \in {"close", "reopen"} THEN log[id].kind = "close" ELSE flag

(* Mutant of OnReportMessage: the handler sees the list it was mounted with. *)
OnReportMessageStale(v, id) ==
  [v EXCEPT !.messages = <<id>>, !.closed = ClosedAfter(@, id)]

OnReportMessage(v, id) ==
  [v EXCEPT !.messages = Shown(@, id), !.closed = ClosedAfter(@, id)]

(* The worker hands the broadcast to every subscribed page; the time on the *)
(* way is the event's time in the outbox.  When the worker dies before the  *)
(* event is marked processed, the event stays and runs again.               *)
Broadcast(m) ==
  /\ m \in outbox
  /\ view' = [t \in Tab |-> IF live[t] THEN OnReportMessage(view[t], m) ELSE view[t]]
  /\ \/ outbox' = outbox \ {m} /\ UNCHANGED reruns
     \/ reruns < MaxReruns /\ reruns' = reruns + 1 /\ UNCHANGED outbox
  /\ UNCHANGED <<log, closed, banned, live, calls>>

-----------------------------------------------------------------------------
(* What the pages let their user do.  A handler's own flag is up while its  *)
(* call is out.                                                             *)

Waiting(t) ==
  /\ ~view[t].closed /\ view[t].messages # <<>>
  /\ log[Last(view[t].messages)].from = "customer"

ClientSend(t) ==
  /\ Portal[t] = "client" /\ Open(t)
  /\ ~view[t].closed /\ ~Waiting(t) /\ ~Busy(t, "send")
  /\ Request(t, "send")
  /\ UNCHANGED <<serverVars, reruns, view, live>>

StaffSend(t) ==
  /\ Portal[t] = "staff" /\ Open(t)
  /\ ~view[t].closed /\ ~Busy(t, "send")
  /\ Request(t, "send")
  /\ UNCHANGED <<serverVars, reruns, view, live>>

AdminSend(t) ==
  /\ Portal[t] = "admin" /\ Open(t)
  /\ ~view[t].closed /\ ~Busy(t, "send")
  /\ Request(t, "send")
  /\ UNCHANGED <<serverVars, reruns, view, live>>

(* Toolbar, banner, slash commands and dialogs of the two desks.  Reopening *)
(* has no flag, and its slash command does not look at the thread's.        *)
DeskCommand(t, op) ==
  /\ t \in Desk /\ Open(t)
  /\ \/ op \in {"schedule", "close", "ban"} /\ ~Busy(t, op)
     \/ op = "reopen"
  /\ Request(t, op)
  /\ UNCHANGED <<serverVars, reruns, view, live>>

-----------------------------------------------------------------------------
(* The answers. *)

Forget(c) == calls' = calls \ {c}

ShowThread(c) ==
  /\ c.stage = "answered" /\ c.op = "load" /\ c.mounted
  /\ view' = [view EXCEPT ![c.tab] = [stage    |-> "open",
                                      messages |-> [i \in 1..c.id |-> i],
                                      closed   |-> c.bound]]
  /\ Forget(c)
  /\ UNCHANGED <<serverVars, reruns, live>>

ShowSent(c) ==
  /\ c.stage = "answered" /\ c.op = "send" /\ c.mounted
  /\ view' = [view EXCEPT ![c.tab].messages =
                IF Portal[c.tab] = "admin" THEN Append(@, c.id) ELSE Shown(@, c.id)]
  /\ Forget(c)
  /\ UNCHANGED <<serverVars, reruns, live>>

ShowCommand(c) ==
  /\ c.stage = "answered" /\ c.op \in {"schedule", "close", "reopen", "ban"} /\ c.mounted
  /\ view' = [view EXCEPT ![c.tab].messages = Shown(@, c.id),
                          ![c.tab].closed = IF c.op = "schedule" THEN @ ELSE c.op # "reopen"]
  /\ Forget(c)
  /\ UNCHANGED <<serverVars, reruns, live>>

(* A refusal, or a call whose answer was lost on the way: the page shows an *)
(* error, an admin page stays without its messages.                         *)
ShowError(c) ==
  /\ c.mounted /\ c.stage \in {"refused", "answered"}
  /\ view' = IF c.op # "load" THEN view
             ELSE [view EXCEPT ![c.tab] = IF Portal[c.tab] = "admin"
                                          THEN [@ EXCEPT !.stage = "open", !.messages = <<>>]
                                          ELSE [@ EXCEPT !.stage = "failed"]]
  /\ Forget(c)
  /\ UNCHANGED <<serverVars, reruns, live>>

(* 401: the token is dropped and the browser sent to /login. *)
SignOut(c) ==
  /\ c.stage = "signedOut"
  /\ view' = [view EXCEPT ![c.tab] = [Away EXCEPT !.stage = "login"]]
  /\ live' = [live EXCEPT ![c.tab] = FALSE]
  /\ calls' = Unmounted(c.tab)
  /\ UNCHANGED <<serverVars, reruns>>

(* The page that sent it is gone. *)
DropAnswer(c) ==
  /\ ~c.mounted /\ c.stage \in {"refused", "answered"}
  /\ Forget(c)
  /\ UNCHANGED <<serverVars, reruns, view, live>>

TakeAnswer(c) ==
  ShowThread(c) \/ ShowSent(c) \/ ShowCommand(c) \/ ShowError(c) \/ SignOut(c) \/ DropAnswer(c)

-----------------------------------------------------------------------------
ThreadNext ==
  \/ \E c \in calls : Serve(c) \/ TakeAnswer(c)
  \/ \E m \in outbox : Broadcast(m)
  \/ \E t \in Tab :
       \/ Enter(t) \/ Leave(t) \/ Subscribe(t) \/ LoseSocket(t)
       \/ ClientSend(t) \/ StaffSend(t) \/ AdminSend(t)
       \/ \E op \in {"schedule", "close", "reopen", "ban"} : DeskCommand(t, op)

ThreadSpec == ThreadInit /\ [][ThreadNext]_vars
-----------------------------------------------------------------------------
ThreadTypeOK ==
  /\ log \in Seq(Entry) /\ Len(log) <= MaxMessages
  /\ closed \in BOOLEAN /\ banned \in BOOLEAN
  /\ outbox \subseteq 1..Len(log) /\ reruns \in 0..MaxReruns
  /\ \A t \in Tab :
       /\ view[t].stage \in {"away", "loading", "open", "failed", "login"}
       /\ ToSet(view[t].messages) \subseteq 1..Len(log)
       /\ live[t] => view[t].stage \in {"loading", "open"}
  /\ calls \subseteq Call

(* The customer waits for the bank between two messages: of two requests    *)
(* that both were sent when it was the customer's turn, from two tabs or    *)
(* after an answer that got lost, one is refused.                           *)
TurnsAlternate ==
  \A i \in 2..Len(log) : log[i].from = "customer" => log[i - 1].from = "staff"

(* The customer's and the staff's chat show a message once, although its    *)
(* sender gets it by the answer and by the broadcast, in either order, and  *)
(* the broadcast may come twice.  (The admin page appends its answer        *)
(* without looking.)                                                        *)
ShownOnce ==
  \A t \in Tab : Portal[t] # "admin" => IsInjective(view[t].messages)

(* What such a page shows, it goes on showing in the same place until it is *)
(* left.  (The admin page is subscribed while it loads, and the answer to   *)
(* the load replaces what the broadcasts brought.)                          *)
ShownStays ==
  [][\A t \in Tab :
       Portal[t] # "admin" /\ view[t].stage = "open" /\ view'[t].stage = "open"
         => IsPrefix(view[t].messages, view'[t].messages)]_vars

=============================================================================
