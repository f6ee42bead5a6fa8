------------------------------ MODULE Listings ------------------------------
(***************************************************************************)
(* A list or dashboard page of one of the portals: the controls its user    *)
(* can reach, the requests it has out, whose answers come in any order, and *)
(* the flags, dialogs and messages in between.  Nothing on these pages      *)
(* cancels a request: the last answer to arrive is the one shown.           *)
(***************************************************************************)
EXTENDS ListingPages, Naturals, Sequences

CONSTANTS
  ListingPage,   \* the pages, names in Profile
  MaxLoads,      \* bound: loads of the page without an answer
  PagesOf        \* PagesOf[v + 1][f]: pages of the list in filter f after v changes

VARIABLES
  listing,  \* the page
  where,    \* "idle", "on" screen, "left", or "login" in its stead
  query,    \* filter and page the controls stand at
  shown,    \* the rows on the page: which pages of which filter, how old
  aside,    \* the rows of the tab not shown, where each tab has its own
  loads,    \* loads out
  up,       \* flags that are up
  error,    \* an error message is on the page
  failed,   \* the last load to end failed
  front,    \* "list", the other "tab", or a dialog: "card", "ask"
  command,  \* the command under way
  inView,   \* the browser tab is visible
  version,  \* changes others made to the data
  done,     \* the user's own change: "no", in the "data", "known" to the page
  raced     \* "no"; "yes", requests overlapped; "ending", a load is out alone since

pageIs == <<listing, where>>
rows == <<query, shown, aside>>
requests == <<loads, up, raced>>
notes == <<error, failed>>
screen == <<front, inView>>
data == <<version, done>>
listingVars == <<pageIs, rows, requests, notes, screen, data, command>>

Profile ==
  [staffDashboard |-> StaffDashboard, staffAppointments |-> StaffAppointments,
   staffActivity |-> StaffActivity, staffReports |-> StaffReports,
   staffAnalytics |-> StaffAnalytics,
   adminSidebar |-> AdminSidebar, adminHome |-> AdminHome,
   adminApplications |-> AdminApplications, adminAppointments |-> AdminAppointments,
   adminActivity |-> AdminActivity, adminReports |-> AdminReports,
   adminAnalytics |-> AdminAnalytics, adminBanned |-> AdminBanned,
   securityUsers |-> SecurityUsers, securityActivity |-> SecurityActivity,
   securityAlerts |-> SecurityAlerts, securityNetwork |-> SecurityNetwork,
   securityData |-> SecurityData, securityHome |-> SecurityHome,
   clientApplications |-> ClientApplications, clientHome |-> ClientHome]

ASSUME ListingAssumption ==
  /\ ListingPage # {} /\ ListingPage \subseteq DOMAIN Profile /\ MaxLoads \in Nat \ {0}
  /\ PagesOf # <<>> /\ PagesOf \in Seq([DOMAIN PagesOf[1] -> Nat]) /\ 1 \in DOMAIN PagesOf[1]

Page == Profile[listing]
Deeds == {"filter", "submit", "window", "prev", "next", "more", "refresh", "turn", "inspect",
          "dismiss", "ask", "confirm", "mark", "scan", "create", "export", "leave"}
Holding ==
  [p \in DOMAIN Profile |-> [deed \in Deeds |-> {r \in Profile[p].regions : deed \in r.deeds}]]
FirstQuery == [filter |-> 1, page |-> 1]
NoRows == [filter |-> 1, pages |-> {}, version |-> 0, own |-> FALSE]
TakenForEmpty == [NoRows EXCEPT !.pages = {0}]   \* no rows, and no answer said so
NoCommand == [stage |-> "none", deed |-> "none", query |-> FirstQuery, read |-> 0]

Load(n, q, cause, takesDown) ==
  [slot |-> n, query |-> q, more |-> cause = "more", stage |-> "sent",
   version |-> 0, own |-> FALSE, takesDown |-> takesDown]

TakenDown(cause) ==
  IF cause = "more" THEN {"loadingMore"}
  ELSE IF Page.own THEN Page.raise[cause] ELSE {"loading", "refreshing"}

(* Entering a page mounts it and sends its load. *)
ListingInit ==
  /\ listing \in ListingPage /\ where = "on"
  /\ query = FirstQuery /\ shown = NoRows /\ aside = NoRows
  /\ loads = {Load(1, FirstQuery, "enter", TakenDown("enter"))}
  /\ up = Page.raise["enter"]
  /\ error = FALSE /\ failed = FALSE /\ front = "list"
  /\ command = NoCommand /\ inView = TRUE
  /\ version = 0 /\ done = "no" /\ raced = "no"

ListingIdle ==
  /\ listing \in {CHOOSE p \in ListingPage : TRUE} /\ where = "idle"
  /\ query = FirstQuery /\ shown = NoRows /\ aside = NoRows /\ loads = {} /\ up = {}
  /\ error = FALSE /\ failed = FALSE /\ front = "list"
  /\ command = NoCommand /\ inView = TRUE
  /\ version = 0 /\ done = "no" /\ raced = "no"

-----------------------------------------------------------------------------
(* What is on the screen. *)

PagesAt(v, f) == PagesOf[v + 1][f]
LastPage == IF shown.pages # {} /\ PagesAt(shown.version, shown.filter) > 0
            THEN PagesAt(shown.version, shown.filter) ELSE 1
HasRows == \E p \in shown.pages : p \in 1..PagesAt(shown.version, shown.filter)
Answered == \E p \in shown.pages : p > 0
Blank == IF Page.says = "answeredEmpty" THEN shown.pages = {} ELSE ~HasRows

PageHidden ==
  \/ /\ "loading" \in up
     /\ Page.spinner = "page" \/ (Page.spinner = "pageIfEmpty" /\ Blank)
  \/ /\ Page.spinner = "pageUntilData"
     /\ "loading" \in up \/ shown.pages = {}

ListHidden ==
  \/ PageHidden
  \/ "logsLoading" \in up
  \/ /\ "loading" \in up
     /\ Page.spinner = "list" \/ (Page.spinner = "listIfEmpty" /\ Blank)

RowsVisible == front = "list" /\ ~ListHidden /\ HasRows
PagerVisible == front = "list" /\ ~PageHidden /\ LastPage > 1

Visible(r) ==
  \/ r.place = front /\ front # "list" /\ ~PageHidden
  \/ /\ front \in {"list", "tab"}
     /\ \/ r.place = "frame"
        \/ r.place = "bar" /\ ~PageHidden
        \/ r.place = "rows" /\ RowsVisible
        \/ r.place = "none" /\ front = "list" /\ ~ListHidden /\ ~RowsVisible
        \/ r.place = "pager" /\ PagerVisible
        \/ r.place = "rowsPager" /\ PagerVisible /\ RowsVisible

Offers(deed) ==
  /\ where = "on"
  /\ \E r \in Holding[listing][deed] : r.off \cap up = {} /\ Visible(r)

(* The page tells its user that there is nothing to see. *)
SaysNothing ==
  /\ where = "on" /\ front = "list" /\ ~ListHidden /\ ~HasRows
  /\ CASE Page.says = "empty"            -> TRUE
       [] Page.says = "emptyUnlessError" -> ~error
       [] Page.says = "answeredEmpty"    -> Answered
       [] OTHER                          -> FALSE

-----------------------------------------------------------------------------
(* Loads. *)

Underway == command.stage \in {"sent", "applied"}
FreeSlots == {s \in 1..MaxLoads : \A l \in loads : l.slot # s}

SendLoad(cause, q, flags) ==
  /\ FreeSlots # {}
  /\ loads' = loads \cup {Load(CHOOSE s \in FreeSlots : \A r \in FreeSlots : s <= r,
                               q, cause, TakenDown(cause) \cup flags)}
  /\ error' = (error /\ ~(\/ Page.forgets = "onLoad" \/ cause = "more"
                          \/ Page.forgets = "onRefresh" /\ cause = "refresh"))

StartLoad(cause, q, flags) ==
  /\ SendLoad(cause, q, flags)
  /\ raced' = IF loads # {} \/ Underway THEN "yes"
              ELSE IF raced = "no" THEN "no" ELSE "ending"

RaiseFor(cause) == up' = up \cup Page.raise[cause]

(* Mutant of Ask: the handler loads the query it was created with. *)
AskStale(q) ==
  /\ q # query
  /\ query' = q
  /\ StartLoad("query", query, {}) /\ RaiseFor("query")

(* Another filter or page: the query changes and an effect, or the handler, *)
(* loads.  A choice that changes nothing loads nothing.                     *)
Ask(q) ==
  /\ q # query
  /\ query' = q
  /\ StartLoad("query", q, {}) /\ RaiseFor("query")

(* Mutant of ChooseFilter: the page is kept. *)
ChooseFilterOnly(f) ==
  /\ Offers("filter")
  /\ Ask([query EXCEPT !.filter = f])
  /\ front' = "list"
  /\ UNCHANGED <<pageIs, data, aside, shown, failed, command, inView>>

ChooseFilter(f) ==
  /\ Offers("filter")
  /\ Ask([filter |-> f, page |-> 1])
  /\ front' = "list"
  /\ IF Page.perTab /\ f # query.filter THEN shown' = aside /\ aside' = shown
                                        ELSE UNCHANGED <<shown, aside>>
  /\ UNCHANGED <<pageIs, data, failed, command, inView>>

(* A search form loads also when it is sent unchanged. *)
SubmitSearch(f) ==
  /\ Offers("submit") /\ (Page.perTab => f = query.filter)
  /\ query' = [filter |-> f, page |-> 1]
  /\ StartLoad("query", query', {}) /\ RaiseFor("query")
  /\ UNCHANGED <<pageIs, screen, data, aside, shown, failed, command>>

(* The period of an activity page is no part of what the log is asked for:  *)
(* the admin's loads its page again, the staff's the first one of all.      *)
ChoosePeriod ==
  /\ Offers("window")
  /\ IF Page.own THEN StartLoad("enter", FirstQuery, {}) /\ RaiseFor("enter")
                 ELSE StartLoad("query", query, {}) /\ RaiseFor("query")
  /\ UNCHANGED <<pageIs, rows, screen, data, failed, command>>

PagerAt ==
  IF Page.pagerAt = "shown" THEN CHOOSE p \in shown.pages : TRUE ELSE query.page

GoPrevious ==
  /\ Offers("prev") /\ PagerAt > 1
  /\ Ask([query EXCEPT !.page = IF @ > 1 THEN @ - 1 ELSE 1])
  /\ UNCHANGED <<pageIs, screen, data, aside, shown, failed, command>>

GoNext ==
  /\ Offers("next") /\ PagerAt < LastPage
  /\ Ask([query EXCEPT !.page = IF @ < LastPage THEN @ + 1 ELSE LastPage])
  /\ UNCHANGED <<pageIs, screen, data, aside, shown, failed, command>>

Refresh ==
  /\ Offers("refresh")
  /\ StartLoad("refresh", query, {}) /\ RaiseFor("refresh")
  /\ UNCHANGED <<pageIs, rows, screen, data, failed, command>>

LoadMore ==
  /\ Offers("more") /\ query.page < LastPage
  /\ StartLoad("more", [query EXCEPT !.page = @ + 1], {}) /\ RaiseFor("more")
  /\ UNCHANGED <<pageIs, rows, screen, data, failed, command>>

(* Every ten seconds, and when the tab comes into view. *)
PollQuery == IF Page.appends THEN FirstQuery ELSE query

(* Mutant of Poll: an error on the page stops the timer. *)
PollUnlessFailed ==
  /\ where = "on" /\ Page.polls /\ inView /\ ~error
  /\ StartLoad("poll", PollQuery, {}) /\ RaiseFor("poll")
  /\ UNCHANGED <<pageIs, rows, screen, data, failed, command>>

Poll ==
  /\ where = "on" /\ Page.polls /\ inView
  /\ StartLoad("poll", PollQuery, {}) /\ RaiseFor("poll")
  /\ UNCHANGED <<pageIs, rows, screen, data, failed, command>>

LookAway ==
  /\ where = "on" /\ Page.polls /\ inView
  /\ inView' = FALSE
  /\ UNCHANGED <<pageIs, rows, requests, notes, data, front, command>>

LookBack ==
  /\ where = "on" /\ ~inView
  /\ inView' = TRUE
  /\ StartLoad("poll", PollQuery, {}) /\ RaiseFor("poll")
  /\ UNCHANGED <<pageIs, rows, data, failed, front, command>>

-----------------------------------------------------------------------------
(* The server answers a load with what it reads, or it fails. *)

ReadRows(l) ==
  /\ l.stage = "sent"
  /\ loads' = (loads \ {l}) \cup {[l EXCEPT !.stage = "answered", !.version = version,
                                            !.own = done # "no"]}
  /\ UNCHANGED <<pageIs, rows, notes, screen, data, up, command, raced>>

Ended(l) == loads' = loads \ {l} /\ up' = up \ l.takesDown

Rows1(l) == [filter |-> l.query.filter, pages |-> {l.query.page}, version |-> l.version,
             own |-> l.own]
RowsBelow(l) == [shown EXCEPT !.pages = @ \cup {l.query.page}, !.version = l.version,
                              !.own = @ /\ l.own]

(* The rows go where they belong when each tab has its own. *)
ShowRows(l) ==
  /\ l.stage = "answered"
  /\ IF Page.perTab /\ l.query.filter # query.filter
     THEN aside' = Rows1(l) /\ UNCHANGED shown
     ELSE shown' = (IF l.more THEN RowsBelow(l) ELSE Rows1(l)) /\ UNCHANGED aside
  /\ query' = IF Page.appends THEN l.query ELSE query
  /\ error' = (error /\ Page.forgets # "onAnswer")
  /\ failed' = FALSE
  /\ raced' = IF raced = "ending" /\ loads = {l} /\ ~l.more THEN "no" ELSE raced
  /\ Ended(l)
  /\ UNCHANGED <<pageIs, screen, data, command>>

(* Three requests behind one load: the user's succeeded, the others did not. *)
ShowPart(l) ==
  /\ l.stage = "sent" /\ Page.blanks = "onPartFailure"
  /\ shown' = TakenForEmpty
  /\ failed' = TRUE
  /\ Ended(l)
  /\ UNCHANGED <<pageIs, screen, data, aside, query, error, command, raced>>

(* Mutant of ShowFailure: the failure is caught and dropped. *)
ShowFailureSilently(l) ==
  /\ l.stage = "sent"
  /\ shown' = IF Page.blanks = "onFailure" THEN TakenForEmpty ELSE shown
  /\ failed' = TRUE
  /\ Ended(l)
  /\ UNCHANGED <<pageIs, screen, data, aside, query, error, command, raced>>

ShowFailure(l) ==
  /\ l.stage = "sent"
  /\ shown' = IF Page.blanks = "onFailure" THEN NoRows ELSE shown
  /\ error' = (Page.blanks # "onPartFailure")
  /\ failed' = TRUE
  /\ Ended(l)
  /\ UNCHANGED <<pageIs, screen, data, aside, query, command, raced>>

(* A page that is left drops its answers. *)
Unmount(to) ==
  /\ where' = to
  /\ query' = FirstQuery /\ shown' = NoRows /\ aside' = NoRows
  /\ loads' = {} /\ up' = {}
  /\ error' = FALSE /\ failed' = FALSE /\ front' = "list"
  /\ command' = NoCommand /\ inView' = TRUE /\ raced' = "no"
  /\ UNCHANGED <<data, listing>>

SignOut(l) == l.stage = "sent" /\ Unmount("login")

LeaveListing == Offers("leave") /\ Unmount("left")

-----------------------------------------------------------------------------
(* Dialogs, tabs and the search on the page. *)

Front(from, deed, to) ==
  /\ front \in from /\ Offers(deed)
  /\ front' = to
  /\ UNCHANGED <<pageIs, rows, requests, notes, data, command, inView>>

Inspect == Front({"list"}, "inspect", "card")
OpenQuestion == Front({"list", "tab"}, "ask", "ask")
Dismiss == Front({"card", "ask"}, "dismiss", "list")
TurnTab == Front({"list"}, "turn", "tab") \/ Front({"tab", "card"}, "turn", "list")

-----------------------------------------------------------------------------
(* Commands.  The handler keeps the query it was created with. *)

Change == {"confirm", "mark", "scan"}
FlagsOf(deed) ==
  CASE deed = "mark" -> {} [] deed = "export" -> {"exporting"} [] OTHER -> {"running"}

StartCommand(deed) ==
  /\ Offers(deed) /\ command.stage = "none"
  /\ deed \in Change => done = "no"
  /\ command' = [stage |-> "sent", deed |-> deed, query |-> query, read |-> 0]
  /\ up' = up \cup FlagsOf(deed)
  /\ shown' = IF Page.after = "optimistic" THEN [shown EXCEPT !.own = TRUE] ELSE shown
  /\ error' = (error /\ ~(deed = "create" \/ (deed = "export" /\ Page.says = "never")))
  /\ raced' = IF loads # {} THEN "yes" ELSE raced
  /\ UNCHANGED <<pageIs, screen, data, aside, query, loads, failed>>

ApplyCommand ==
  /\ command.stage = "sent"
  /\ command' = [command EXCEPT !.stage = "applied", !.read = version]
  /\ done' = IF command.deed \in Change THEN "data" ELSE done
  /\ UNCHANGED <<pageIs, rows, requests, notes, screen, version>>

Known == IF command.deed \in Change THEN "known" ELSE done

(* Nothing more to do: an export is saved, an optimistic change was shown,  *)
(* a new dossier opens its own page.                                        *)
CommandEnds ==
  /\ command.stage = "applied"
  /\ command.deed = "export" \/ Page.after = "optimistic"
  /\ command' = NoCommand /\ up' = up \ FlagsOf(command.deed) /\ done' = Known
  /\ UNCHANGED <<pageIs, rows, notes, screen, loads, version, raced>>

OpenCreated == command.stage = "applied" /\ command.deed = "create" /\ Unmount("left")

(* The rows on the page are changed to what the command did, or, after a    *)
(* scan, replaced by what it found.                                         *)
Patched ==
  IF command.deed = "scan"
  THEN [filter |-> query.filter, pages |-> {query.page}, version |-> command.read,
        own |-> TRUE]
  ELSE [shown EXCEPT !.own = TRUE]

PatchRows ==
  /\ command.stage = "applied" /\ command.deed \in Change /\ Page.after = "patch"
  /\ shown' = Patched
  /\ command' = NoCommand /\ up' = up \ FlagsOf(command.deed) /\ done' = Known
  /\ front' = IF front = "ask" THEN "list" ELSE front
  /\ error' = (error /\ command.deed # "mark")
  /\ UNCHANGED <<pageIs, aside, query, loads, failed, inView, version, raced>>

(* Mutant of ReloadAfter: the dialog is closed and nothing is loaded. *)
ReloadAfterNothing ==
  /\ command.stage = "applied" /\ Page.after = "reload" /\ command.deed = "confirm"
  /\ up' = up \ {"running"}
  /\ command' = NoCommand /\ done' = Known
  /\ front' = IF front = "ask" THEN "list" ELSE front
  /\ UNCHANGED <<pageIs, rows, notes, loads, inView, version, raced>>

(* "running" stays up until the load after it has ended.  The load goes on  *)
(* from the command and overlaps with it no more than the command did.      *)
ReloadAfter ==
  /\ command.stage = "applied" /\ Page.after = "reload" /\ command.deed = "confirm"
  /\ SendLoad("query", command.query, {"running"}) /\ RaiseFor("query")
  /\ raced' = IF loads # {} \/ raced # "no" THEN "yes" ELSE "no"
  /\ command' = NoCommand /\ done' = Known
  /\ front' = IF front = "ask" THEN "list" ELSE front
  /\ UNCHANGED <<pageIs, rows, failed, inView, version>>

SetTimer ==
  /\ command.stage = "applied" /\ Page.after = "reloadLater"
  /\ command' = [command EXCEPT !.stage = "late"]
  /\ up' = (up \ {"running"}) \cup {"succeeded"} /\ done' = Known
  /\ UNCHANGED <<pageIs, rows, notes, screen, loads, version, raced>>

TimerFires ==
  /\ command.stage = "late"
  /\ StartLoad("query", command.query, {})
  /\ up' = (up \ {"succeeded"}) \cup Page.raise["query"]
  /\ command' = NoCommand
  /\ front' = IF front = "ask" THEN "list" ELSE front
  /\ UNCHANGED <<pageIs, rows, data, failed, inView>>

(* A refusal, or an answer that got lost.  An optimistic change says        *)
(* nothing, a dialog says it in the dialog.                                 *)
CommandFails ==
  /\ command.stage \in {"sent", "applied"}
  /\ command' = NoCommand /\ up' = up \ FlagsOf(command.deed)
  /\ error' = (error \/ ~(\/ Page.after = "optimistic"
                          \/ command.deed = "confirm" /\ Page.after # "reloadLater"))
  /\ UNCHANGED <<pageIs, rows, screen, data, loads, failed, raced>>

-----------------------------------------------------------------------------
(* Someone else changes the data. *)
DataChanges ==
  /\ where = "on" /\ version + 1 < Len(PagesOf)
  /\ version' = version + 1
  /\ UNCHANGED <<pageIs, rows, requests, notes, screen, command, done>>

ListingNext ==
  \/ \E f \in DOMAIN PagesOf[1] : ChooseFilter(f) \/ SubmitSearch(f)
  \/ ChoosePeriod \/ GoPrevious \/ GoNext \/ Refresh \/ LoadMore
  \/ Poll \/ LookAway \/ LookBack
  \/ \E l \in loads :
       ReadRows(l) \/ ShowRows(l) \/ ShowPart(l) \/ ShowFailure(l) \/ SignOut(l)
  \/ LeaveListing \/ Inspect \/ OpenQuestion \/ Dismiss \/ TurnTab
  \/ \E deed \in Change \cup {"create", "export"} : StartCommand(deed)
  \/ ApplyCommand \/ CommandEnds \/ OpenCreated \/ PatchRows \/ ReloadAfter
  \/ SetTimer \/ TimerFires \/ CommandFails
  \/ DataChanges

(* The browser polls, the server answers, promises settle, and not every    *)
(* request fails.                                                           *)
ListingFairness ==
  /\ WF_listingVars(Poll)
  /\ SF_listingVars(\E l \in loads : ReadRows(l))
  /\ WF_listingVars(\E l \in loads : ShowRows(l))
-----------------------------------------------------------------------------
ListingTypeOK ==
  /\ listing \in ListingPage /\ where \in {"idle", "on", "left", "login"}
  /\ query.filter \in DOMAIN PagesOf[1] /\ query.page \in Nat \ {0}
  /\ shown.filter \in DOMAIN PagesOf[1] /\ shown.pages \subseteq Nat
  /\ up \subseteq {"loading", "refreshing", "loadingMore", "logsLoading", "running",
                   "succeeded", "exporting"}
  /\ front \in {"list", "tab", "card", "ask"}
  /\ command.stage \in {"none", "sent", "applied", "late"}
  /\ Cardinality(loads) <= MaxLoads

Quiet == where = "on" /\ loads = {} /\ ~Underway

(* When nothing is out and the last load succeeded, the rows on the page    *)
(* are those its controls stand at, unless requests overlapped: the load    *)
(* of every handler asks for the query that handler leaves behind.  (Not so *)
(* two pages: a new period shows the staff's activity from the first page   *)
(* and in no filter while pager and filter stay, and the timer after an     *)
(* unban loads the search and page it was started from.)                    *)
StalePages == {"staffActivity", "adminBanned"}

PagesAsked == IF Page.appends THEN 1..query.page ELSE {query.page}

RowsMatchControls ==
  Quiet /\ ~failed /\ raced = "no" /\ listing \notin StalePages
    => shown.filter = query.filter /\ shown.pages = PagesAsked

(* As long as the data is as it was, a page of the portals asks for the     *)
(* first page of a list, for one that the list in its filter has or for one *)
(* before the last it asked for, also when filter and page change together, *)
(* unless requests overlapped or the last one failed.  (Pagers that no load *)
(* disables go on with the page count of the filter before; the staff's     *)
(* activity does after a period.)                                           *)
HastyPagers == {"staffAppointments", "adminAppointments", "adminApplications",
                "adminBanned", "adminActivity", "staffActivity"}

PagerAsksExistingPage ==
  [][query' # query /\ version = 0 /\ raced = "no" /\ ~failed
       => \/ listing \in HastyPagers
          \/ query'.page \in {1} \cup 1..PagesAt(0, query'.filter)
          \/ query'.filter = query.filter /\ query'.page < query.page]_listingVars

(* A page does not tell its user that there is nothing when it has no       *)
(* answer that says so, or it shows an error with it.  (These pages do: they *)
(* drop the error when the next load or command starts, show the empty list *)
(* under the first load, or take a part that failed for an empty one.)      *)
HastyPages == {"staffDashboard", "adminActivity", "adminHome", "securityAlerts",
               "clientApplications", "clientHome", "adminSidebar"}

NothingMeansNothing ==
  SaysNothing /\ listing \notin HastyPages => Answered \/ error

(* What the user changed and the page knows to be done is on the page when  *)
(* nothing is out, unless requests overlapped or the last load failed.      *)
OwnChangesShown ==
  Quiet /\ command.stage = "none" /\ done = "known" /\ ~failed /\ raced = "no"
    => shown.own

(* A polling page in view is up to date again and again, whatever its user  *)
(* does and though old answers may overtake new ones.                       *)
CatchesUp ==
  []<>(~(where = "on" /\ Page.polls /\ inView) \/ (Answered /\ shown.version = version))
=============================================================================
