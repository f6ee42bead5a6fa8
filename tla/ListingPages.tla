---------------------------- MODULE ListingPages ----------------------------
(***************************************************************************)
(* What the list and dashboard pages of the four portals offer their user,  *)
(* region by region, and how each of them loads.  Listings gives it         *)
(* meaning.                                                                 *)
(*                                                                         *)
(* A region is shown at a place of its page and offers deeds, all of them   *)
(* disabled while one of its flags is up.  The places:                      *)
(*   bar    around the list         rows   the list, when it has a row      *)
(*   none   the list, when empty    pager  below a list of several pages    *)
(*   card   a dialog on one row     ask    a dialog that asks to confirm    *)
(*   tab    the page's other tab    frame  header or sidebar of the portal  *)
(* The deeds:                                                               *)
(*   filter   another filter, page 1        submit  a search form, page 1   *)
(*   window   another period                sift    narrow what is shown    *)
(*   prev, next   page by page              more    append the next page    *)
(*   refresh  load again                    turn    to the other tab, back  *)
(*   inspect, dismiss   open and close a dialog     ask  open the question  *)
(*   confirm, mark, scan, create, export   a command   leave  another page  *)
(* sift and download, a file made of what is shown, change nothing else; a  *)
(* panel offers nothing.                                                    *)
(***************************************************************************)
EXTENDS FiniteSets

Region(place, deeds, off) == [place |-> place, deeds |-> deeds, off |-> off]
Bar(deeds) == Region("bar", deeds, {})
Panel(place) == Region(place, {}, {})
Rows(deeds) == Region("rows", deeds, {})

(* A page that loads when it is entered and keeps what it has when a load   *)
(* fails.  raise gives the flags a load puts up, by its cause; own: a load  *)
(* takes down only these.  spinner: what is hidden while "loading" is up;   *)
(* says: when it tells the user that there is nothing; forgets: when it     *)
(* drops the error; blanks: when it drops its rows; pagerAt: the page its   *)
(* pager goes from; appends: its pages are shown one below the other;       *)
(* perTab: each value of its filter keeps rows of its own; after: what      *)
(* follows a command.                                                       *)
Plain ==
  [regions |-> {}, polls |-> FALSE,
   raise   |-> [enter   |-> {"loading"}, query |-> {}, refresh |-> {"refreshing"},
                poll    |-> {}, more |-> {"loadingMore"}],
   own     |-> FALSE, spinner |-> "page", says |-> "empty", forgets |-> "onAnswer",
   blanks  |-> "never", pagerAt |-> "query", appends |-> FALSE, perTab |-> FALSE,
   after   |-> "nothing"]

-----------------------------------------------------------------------------
(* Staff portal. *)

StaffHeaderNav == Region("frame", {"leave"}, {})

StaffDashboardTabs == Bar({"filter"})
StaffDashboardSearch == Bar({"sift"})
StaffDashboardList == Rows({"leave"})
StaffDashboard ==
  [Plain EXCEPT
    !.regions = {StaffHeaderNav, StaffDashboardTabs, StaffDashboardSearch, StaffDashboardList},
    !.polls = TRUE, !.raise.query = {"loading"},
    !.spinner = "list", !.says = "emptyUnlessError", !.forgets = "onLoad"]

StaffAppointmentsRefresh == Region("bar", {"refresh"}, {"refreshing"})
StaffAppointmentsTabs == Bar({"turn"})
StaffAppointmentsFigures == Panel("bar")
StaffAppointmentsFilters == Bar({"filter"})
StaffAppointmentsTable == Rows({"leave"})
StaffAppointmentsPager == Region("pager", {"prev", "next"}, {})
StaffAppointmentsBranches == Region("tab", {"filter", "turn"}, {})
StaffAppointments ==
  [Plain EXCEPT
    !.regions = {StaffAppointmentsRefresh, StaffAppointmentsTabs,
                 StaffAppointmentsFilters, StaffAppointmentsTable,
                 StaffAppointmentsPager, StaffAppointmentsBranches,
                 StaffAppointmentsFigures},
    !.spinner = "list"]

(* The handlers call the load themselves; only the period is an effect, and *)
(* it loads the first page of everything whatever the pager says.           *)
StaffActivityPeriod == Bar({"window"})
StaffActivityRefresh == Region("bar", {"refresh"}, {"refreshing"})
StaffActivityExport == Rows({"download"})
StaffActivitySearch == Bar({"sift", "filter"})
StaffActivityReset == Region("none", {"filter"}, {})
StaffActivityFigures == Panel("bar")
StaffActivityCharts == Panel("bar")
StaffActivityTable == Rows({"inspect"})
StaffActivityPager == Region("rows", {"prev", "next"}, {"logsLoading"})
StaffActivityInspector == Region("card", {"dismiss", "leave"}, {})
StaffActivity ==
  [Plain EXCEPT
    !.regions = {StaffActivityPeriod, StaffActivityRefresh, StaffActivityExport,
                 StaffActivitySearch, StaffActivityReset, StaffActivityTable,
                 StaffActivityPager, StaffActivityInspector,
                 StaffActivityFigures, StaffActivityCharts},
    !.raise = [enter |-> {"loading", "logsLoading"}, query |-> {"logsLoading"},
               refresh |-> {"refreshing", "logsLoading"}, poll |-> {}, more |-> {}],
    !.own = TRUE, !.forgets = "onRefresh"]

StaffReports ==
  [Plain EXCEPT !.regions = {StaffHeaderNav, Rows({"leave"})},
                !.spinner = "list", !.says = "emptyUnlessError"]

StaffAnalyticsPeriod == Bar({"filter"})
StaffAnalyticsExport == Region("rows", {"export"}, {"exporting"})
StaffAnalyticsRefresh == Region("bar", {"refresh"}, {"refreshing"})
StaffAnalytics ==
  [Plain EXCEPT
    !.regions = {StaffAnalyticsPeriod, StaffAnalyticsExport, StaffAnalyticsRefresh},
    !.says = "never", !.forgets = "onLoad"]

-----------------------------------------------------------------------------
(* Admin portal. *)

AdminSidebarNav == Region("frame", {"leave"}, {})
AdminNotifications == Region("rows", {"mark"}, {})
AdminSidebar ==
  [Plain EXCEPT !.regions = {AdminSidebarNav, AdminNotifications},
                !.raise.enter = {}, !.spinner = "none", !.says = "emptyUnlessError",
                !.blanks = "onFailure", !.after = "patch"]

AdminHomePeriod == Bar({"filter"})
AdminHomeRefresh == Region("bar", {"refresh"}, {"refreshing"})
AdminHomeFigures == Panel("bar")
AdminHomeCharts == Panel("bar")
AdminHomeQueue == Rows({"leave"})
AdminHome ==
  [Plain EXCEPT
    !.regions = {AdminHomePeriod, AdminHomeRefresh, AdminHomeQueue,
                 AdminHomeFigures, AdminHomeCharts},
    !.polls = TRUE, !.raise.poll = {"refreshing"}, !.forgets = "onLoad"]

AdminApplicationsRefresh == Region("bar", {"refresh"}, {"refreshing"})
AdminApplicationsTabs == Bar({"filter"})
AdminApplicationsSearch == Bar({"sift"})
AdminApplicationsTable == Rows({"leave"})
AdminApplicationsPager == Region("rowsPager", {"prev", "next"}, {})
AdminApplications ==
  [Plain EXCEPT
    !.regions = {AdminApplicationsRefresh, AdminApplicationsTabs,
                 AdminApplicationsSearch, AdminApplicationsTable,
                 AdminApplicationsPager},
    !.polls = TRUE, !.raise.query = {"loading"}, !.raise.poll = {"refreshing"},
    !.spinner = "pageIfEmpty", !.pagerAt = "shown"]

AdminAppointmentsRefresh == Region("bar", {"refresh"}, {"refreshing"})
AdminAppointmentsTabs == Bar({"turn"})
AdminAppointmentsFigures == Panel("bar")
AdminAppointmentsFilters == Bar({"filter"})
AdminAppointmentsTable == Rows({"leave"})
AdminAppointmentsPager == Region("pager", {"prev", "next"}, {})
AdminAppointmentsBranches == Region("tab", {"filter", "turn"}, {})
AdminAppointments ==
  [Plain EXCEPT
    !.regions = {AdminAppointmentsRefresh, AdminAppointmentsTabs,
                 AdminAppointmentsFilters, AdminAppointmentsTable,
                 AdminAppointmentsPager, AdminAppointmentsBranches,
                 AdminAppointmentsFigures},
    !.spinner = "list"]

AdminActivityPeriod == Bar({"window", "refresh"})
AdminActivityExport == Bar({"download"})
AdminActivityTabs == Bar({"turn"})
AdminActivityFigures == Panel("bar")
AdminActivityFilters == Bar({"sift"})
AdminActivityTable == Rows({"inspect"})
AdminActivityPager == Region("pager", {"prev", "next"}, {})
AdminActivityPacks == Region("tab", {"turn"}, {})
AdminActivityInspector == Region("card", {"dismiss"}, {})
AdminActivityDevice == Region("card", {"dismiss", "turn"}, {})
AdminActivity ==
  [Plain EXCEPT
    !.regions = {AdminActivityPeriod, AdminActivityExport, AdminActivityTabs,
                 AdminActivityFilters, AdminActivityTable, AdminActivityPager,
                 AdminActivityPacks, AdminActivityInspector, AdminActivityDevice,
                 AdminActivityFigures},
    !.forgets = "onLoad"]

AdminReports ==
  [Plain EXCEPT !.regions = {Region("bar", {"refresh"}, {"refreshing"}), Rows({"leave"})},
                !.blanks = "onFailure"]

AdminAnalyticsControls == Bar({"filter"})
AdminAnalyticsExport == Region("rows", {"export"}, {"exporting"})
AdminAnalyticsRefresh == Region("bar", {"refresh"}, {"refreshing"})
AdminAnalytics ==
  [Plain EXCEPT
    !.regions = {AdminAnalyticsControls, AdminAnalyticsExport,
                 AdminAnalyticsRefresh},
    !.says = "never", !.forgets = "onLoad"]

(* A timer closes the dialog after the unban and loads with the search and  *)
(* the page its handler was created with.  The dialog itself can be closed  *)
(* before, while the request runs as well as after it.                      *)
AdminBannedRefresh == Bar({"refresh"})
AdminBannedSearch == Bar({"filter"})
AdminBannedTable == Rows({"ask"})
AdminBannedPager == Region("pager", {"prev", "next"}, {})
AdminBannedDialog == Region("ask", {"dismiss"}, {})
AdminBannedConfirm == Region("ask", {"confirm"}, {"running", "succeeded"})
AdminBanned ==
  [Plain EXCEPT
    !.regions = {AdminBannedRefresh, AdminBannedSearch, AdminBannedTable,
                 AdminBannedPager, AdminBannedDialog, AdminBannedConfirm},
    !.raise.query = {"loading"}, !.raise.refresh = {"loading"},
    !.spinner = "pageIfEmpty", !.forgets = "onLoad", !.after = "reloadLater"]

-----------------------------------------------------------------------------
(* Security center.  Every one of its loads puts up "loading". *)

Security ==
  [Plain EXCEPT !.raise.query = {"loading"}, !.raise.refresh = {"loading"},
                !.spinner = "listIfEmpty", !.says = "answeredEmpty", !.forgets = "onLoad"]

SecuritySidebarNav == Region("frame", {"leave"}, {})

SecurityUsersRefresh == Region("bar", {"refresh"}, {"loading"})
SecurityUsersFilters == Bar({"submit", "filter", "turn"})
SecurityUsersTable == Region("rows", {"ask"}, {"running"})
SecurityUsersStaff == Region("tab", {"ask"}, {"running"})
SecurityUsersPager == Region("pager", {"prev", "next"}, {"loading"})
SecurityUsersSuspend == Region("ask", {"confirm"}, {"running"})
SecurityUsersConfirm == Region("ask", {"dismiss"}, {})
SecurityUsers ==
  [Security EXCEPT
    !.regions = {SecuritySidebarNav, SecurityUsersRefresh, SecurityUsersFilters,
                 SecurityUsersTable, SecurityUsersStaff, SecurityUsersPager,
                 SecurityUsersSuspend, SecurityUsersConfirm},
    !.after = "reload"]

SecurityActivityExport == Region("rows", {"export"}, {"exporting"})
SecurityActivityRefresh == Region("bar", {"refresh"}, {"loading"})
SecurityActivityFilters == Bar({"submit", "filter"})
SecurityActivityTable == Rows({"inspect", "leave"})
SecurityActivityPager == Region("pager", {"prev", "next"}, {"loading"})
SecurityActivityDevice == Region("card", {"dismiss"}, {})
SecurityActivity ==
  [Security EXCEPT
    !.regions = {SecurityActivityExport, SecurityActivityRefresh,
                 SecurityActivityFilters, SecurityActivityTable,
                 SecurityActivityPager, SecurityActivityDevice},
    !.says = "empty"]

SecurityAlertsRefresh == Region("bar", {"refresh"}, {"loading"})
SecurityAlertsScan == Region("bar", {"scan"}, {"running"})
SecurityAlertsCounters == Panel("bar")
SecurityAlertsSeverity == Bar({"sift"})
SecurityAlertsSuspended == Rows({"leave"})
SecurityAlerts ==
  [Security EXCEPT
    !.regions = {SecurityAlertsRefresh, SecurityAlertsScan,
                 SecurityAlertsSeverity, SecurityAlertsSuspended,
                 SecurityAlertsCounters},
    !.spinner = "none", !.says = "empty", !.after = "patch"]

SecurityNetworkRefresh == Region("bar", {"refresh"}, {"loading"})
SecurityNetworkScan == Region("bar", {"scan"}, {"running"})
SecurityNetworkTabs == Bar({"turn"})
SecurityNetworkPorts == Panel("rows")
SecurityNetworkSockets == Panel("tab")
SecurityNetworkTraffic == Panel("tab")
SecurityNetworkAgent == Panel("tab")
SecurityNetwork ==
  [Security EXCEPT
    !.regions = {SecurityNetworkRefresh, SecurityNetworkScan,
                 SecurityNetworkTabs, SecurityNetworkPorts,
                 SecurityNetworkSockets, SecurityNetworkTraffic,
                 SecurityNetworkAgent},
    !.spinner = "none", !.after = "patch"]

SecurityDataRefresh == Region("bar", {"refresh"}, {"loading"})
SecurityDataTabs == Bar({"filter"})
SecurityDataSearch == Bar({"submit"})
SecurityDataTables == Panel("rows")
SecurityDataPager == Region("pager", {"prev", "next"}, {"loading"})
SecurityData ==
  [Security EXCEPT
    !.regions = {SecurityDataRefresh, SecurityDataTabs, SecurityDataSearch,
                 SecurityDataPager, SecurityDataTables},
    !.polls = TRUE, !.perTab = TRUE]

SecurityHomeRefresh == Region("bar", {"refresh"}, {"loading"})
SecurityHomeCards == Rows({"leave"})
SecurityHome ==
  [Security EXCEPT !.regions = {SecuritySidebarNav, SecurityHomeRefresh,
                                SecurityHomeCards},
                   !.polls = TRUE]

-----------------------------------------------------------------------------
(* Customer portal. *)

ClientHeaderNav == Region("frame", {"leave"}, {})

ClientApplicationsCreate == Region("bar", {"create"}, {"running"})
ClientApplicationsList == Rows({"leave", "ask"})
ClientApplicationsMore == Region("rows", {"more"}, {"loadingMore"})
ClientApplicationsDelete == Region("ask", {"confirm", "dismiss"}, {"running"})
ClientApplications ==
  [Plain EXCEPT
    !.regions = {ClientHeaderNav, ClientApplicationsCreate,
                 ClientApplicationsList, ClientApplicationsMore,
                 ClientApplicationsDelete},
    !.polls = TRUE, !.appends = TRUE,
    !.spinner = "list", !.says = "emptyUnlessError", !.after = "patch"]

(* Three requests behind one load: when the applications' fails and the     *)
(* user's does not, the page goes on with none.                             *)
ClientHomeNotifications == Rows({"mark"})
ClientHomeApplications == Rows({"leave"})
ClientHomeAppointments == Rows({"leave"})
ClientHomeActions == Bar({"leave"})
ClientHomeAccount == Bar({"leave"})
ClientHomeMessages == Rows({"leave"})
ClientHome ==
  [Plain EXCEPT
    !.regions = {ClientHeaderNav, ClientHomeNotifications,
                 ClientHomeApplications, ClientHomeAppointments,
                 ClientHomeActions, ClientHomeAccount, ClientHomeMessages},
    !.polls = TRUE, !.spinner = "pageUntilData", !.blanks = "onPartFailure",
    !.after = "optimistic"]
=============================================================================
