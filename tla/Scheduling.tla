----------------------------- MODULE Scheduling -----------------------------
(***************************************************************************)
(* The bank's side of a submitted application: the staff and admin          *)
(* decisions, the automatic proposal of an appointment, the customer's      *)
(* answer to it, and appointments fixed by hand.                            *)
(*                                                                         *)
(* A request is admitted on the application it bound, read without a lock;  *)
(* its transaction runs later.  Every transaction here takes the row lock   *)
(* of the application first and, when it books, the lock of the branch, and *)
(* all that it decides on is read under those locks, so it is one step.     *)
(***************************************************************************)
EXTENDS CreditApplication, Sequences

CONSTANTS
  Staff,           \* staff_users
  Customer,        \* the owner of the application
  Role,            \* Role[s]: the role of a member of staff
  Home,            \* Home[s]: staff_users.branch_id
  Match,           \* Match[a]: what BranchMatchingService finds for a's project
  Capacity,        \* Capacity[b]: max(1, daily_capacity)
  SlotTimes,       \* SlotTimes[b]: Branch::slotTimes(), in order
  Time,            \* the times of day a request can name
  FirstDay,        \* the first business date; day 1 is a Monday
  LastDay,         \* bound: no appointment after it (the code searches 365 days)
  MaxReschedules,  \* Appointment::MAX_RESCHEDULES
  MaxAttempt,      \* bound: an application with that many gets no manual appointment
  MaxInFlight      \* bound: admitted requests whose transaction has not run

ASSUME StaffAssumption ==
  /\ Customer \notin Staff
  /\ Role \in [Staff -> StaffRole]
  /\ Home \in [Staff -> Branch \cup {NoBranch}]
ASSUME BranchAssumption ==
  /\ Match \in [App -> Branch]
  /\ Capacity \in [Branch -> Nat \ {0}]
  /\ SlotTimes \in [Branch -> Seq(Time)]
ASSUME BoundAssumption ==
  FirstDay \in Nat /\ LastDay \in Nat /\ FirstDay <= LastDay
    /\ MaxReschedules \in Nat /\ MaxAttempt \in Nat /\ MaxInFlight \in Nat

VARIABLES
  offers,         \* offers[a]: the appointments of a; attempt_number is the position
  today,          \* the business date
  configured,     \* branches, with a default one, have been entered
  staffDecided,   \* decided_by_staff_user_id IS NOT NULL
  adminDecided,   \* decided_by_admin_user_id IS NOT NULL
  inflight        \* admitted requests

bankVars == <<offers, today, configured, staffDecided, adminDecided, inflight>>
bankAllVars == <<status, branchOf, offers, today, configured, staffDecided, adminDecided, inflight>>

Day == FirstDay..LastDay
OfferStatus == {"proposed", "accepted", "rejected", "cancelled"}
Offer == [branch : Branch, day : Day, time : Time, status : OfferStatus,
          resched : 0..MaxReschedules]

StaffOp == {"staffApprove", "staffReject", "staffCancel", "adminApprove", "adminReject",
            "schedule"}
CustomerOp == {"accept", "reject"}

(* attempt: the appointment a customer's request bound, 0 for staff.        *)
Message == [by : Staff, app : App, op : StaffOp, attempt : {0}]
      \cup [by : {Customer}, app : App, op : CustomerOp, attempt : Nat \ {0}]

BankTypeOK ==
  /\ status \in [App -> Status]
  /\ branchOf \in [App -> Branch \cup {NoBranch}]
  /\ offers \in [App -> Seq(Offer)]
  /\ today \in Day
  /\ configured \in BOOLEAN
  /\ staffDecided \in [App -> BOOLEAN]
  /\ adminDecided \in [App -> BOOLEAN]
  /\ inflight \subseteq Message

(* submitCore routes an application, unless no branch is configured.        *)
RoutedTo(a) == IF configured THEN Match[a] ELSE NoBranch

BankIdle ==
  /\ configured \in BOOLEAN
  /\ offers = [a \in App |-> <<>>]
  /\ today = FirstDay
  /\ staffDecided = [a \in App |-> FALSE]
  /\ adminDecided = [a \in App |-> FALSE]
  /\ inflight = {}

(* The bank's side on its own starts with every application submitted.      *)
BankInit ==
  /\ BankIdle
  /\ status = [a \in App |-> "SUBMITTED"]
  /\ branchOf = [a \in App |-> RoutedTo(a)]

-----------------------------------------------------------------------------
(* Who may reach what.                                                      *)
RoleOf(p) == IF p = Customer THEN "customer" ELSE Role[p]

IsBranchRestricted(s) == Role[s] = "operational"

CanAccess(s, a) ==
  IsBranchRestricted(s) => Home[s] # NoBranch /\ branchOf[a] = Home[s]

(* The appointments table.  o stands for its contents, which a transaction  *)
(* may have changed already when it looks for a slot.                       *)
Active(r) == r.status \in {"proposed", "accepted"}

Latest(o, a) == o[a][Len(o[a])]

Booked(o, x, i, b, d) ==
  /\ i \in DOMAIN o[x] /\ Active(o[x][i]) /\ status[x] # "CANCELLED"
  /\ o[x][i].branch = b /\ o[x][i].day = d

BookedOn(o, b, d) ==
  {p \in UNION {{x} \X DOMAIN o[x] : x \in App} : Booked(o, p[1], p[2], b, d)}

CancelActive(rows) ==
  [i \in DOMAIN rows |-> IF Active(rows[i]) THEN [rows[i] EXCEPT !.status = "cancelled"]
                                            ELSE rows[i]]

-----------------------------------------------------------------------------
(* Automatic slots: the first working day after today that is not full and  *)
(* has a slot time free of any booking and never offered to a that day.     *)
IsWorkingDay(d) == d % 7 \in 1..5

(* Mutants: the bookings of the day not looked at, and offers forgotten     *)
(* once they were turned down.                                              *)
SlotOccupiedByAccepted(o, b, d, t) ==
  \E x \in App : \E i \in DOMAIN o[x] :
    Booked(o, x, i, b, d) /\ o[x][i].time = t /\ o[x][i].status = "accepted"
ActivelyOffered(o, a, d, t) ==
  \E i \in DOMAIN o[a] : o[a][i].day = d /\ o[a][i].time = t /\ Active(o[a][i])

SlotOccupied(o, b, d, t) ==
  \E x \in App : \E i \in DOMAIN o[x] : Booked(o, x, i, b, d) /\ o[x][i].time = t

PreviouslyOffered(o, a, d, t) ==
  \E i \in DOMAIN o[a] : o[a][i].day = d /\ o[a][i].time = t

IsFree(o, a, b, d, t) ==
  /\ IsWorkingDay(d) /\ d > today
  /\ Cardinality(BookedOn(o, b, d)) < Capacity[b]
  /\ ~SlotOccupied(o, b, d, t) /\ ~PreviouslyOffered(o, a, d, t)

IsNextSlot(o, a, b, d, k) ==
  /\ IsFree(o, a, b, d, SlotTimes[b][k])
  /\ \A e \in Day, j \in DOMAIN SlotTimes[b] :
       IsFree(o, a, b, e, SlotTimes[b][j]) => d < e \/ (d = e /\ k <= j)

(* proposeNextLocked: a re-proposal by the customer counts one change more. *)
ProposeNext(o, a, b, resched) ==
  \E d \in Day, k \in DOMAIN SlotTimes[b] :
    /\ resched <= MaxReschedules
    /\ IsNextSlot(o, a, b, d, k)
    /\ offers' = [o EXCEPT ![a] = Append(@,
         [branch |-> b, day |-> d, time |-> SlotTimes[b][k], status |-> "proposed",
          resched |-> resched])]

-----------------------------------------------------------------------------
(* assertStaffCanAccess, or currentAppointmentOr404, on the bound rows.     *)
(* Two requests that bound the same are one element of inflight: the second *)
(* of a double click is admitted after the first has run.                   *)
AdmitStaff(s, a, op) ==
  /\ Cardinality(inflight) < MaxInFlight
  /\ CanAccess(s, a)
  /\ inflight' = inflight \cup {[by |-> s, app |-> a, op |-> op, attempt |-> 0]}
  /\ UNCHANGED <<status, branchOf, offers, today, configured, staffDecided, adminDecided>>

AdmitCustomer(a, op) ==
  /\ Cardinality(inflight) < MaxInFlight
  /\ offers[a] # <<>>
  /\ inflight' = inflight \cup
       {[by |-> Customer, app |-> a, op |-> op, attempt |-> Len(offers[a])]}
  /\ UNCHANGED <<status, branchOf, offers, today, configured, staffDecided, adminDecided>>

(* Whatever refuses a request (a guard, a full calendar, no branch, a lost  *)
(* connection) rolls its transaction back.                                  *)
Refuse(m) ==
  /\ inflight' = inflight \ {m}
  /\ UNCHANGED <<status, branchOf, offers, today, configured, staffDecided, adminDecided>>

(* apply() under the row lock, the last write of the request's transaction. *)
Moves(m, to) ==
  /\ CanMove(status[m.app], to, RoleOf(m.by))
  /\ status' = [status EXCEPT ![m.app] = to]
  /\ inflight' = inflight \ {m}

StaffApprove(m) ==
  /\ m.op = "staffApprove" /\ Moves(m, "STAFF_APPROVED")
  /\ staffDecided' = [staffDecided EXCEPT ![m.app] = TRUE]
  /\ branchOf' = [branchOf EXCEPT ![m.app] =
                    IF @ = NoBranch /\ configured THEN Match[m.app] ELSE @]
  /\ UNCHANGED <<offers, today, configured, adminDecided>>

StaffReject(m) ==
  /\ m.op = "staffReject" /\ Moves(m, "STAFF_REJECTED")
  /\ staffDecided' = [staffDecided EXCEPT ![m.app] = TRUE]
  /\ UNCHANGED <<branchOf, offers, today, configured, adminDecided>>

StaffCancel(m) ==
  /\ m.op = "staffCancel" /\ Moves(m, "CANCELLED")
  /\ offers' = [offers EXCEPT ![m.app] = CancelActive(@)]
  /\ UNCHANGED <<branchOf, today, configured, staffDecided, adminDecided>>

AdminReject(m) ==
  /\ m.op = "adminReject" /\ Moves(m, "REJECTED")
  /\ adminDecided' = [adminDecided EXCEPT ![m.app] = TRUE]
  /\ UNCHANGED <<branchOf, offers, today, configured, staffDecided>>

(* Same branch every attempt; matching is the fallback for unrouted rows.   *)
ProposalBranch(a, b) ==
  IF offers[a] # <<>> THEN b = Latest(offers, a).branch
  ELSE IF branchOf[a] # NoBranch THEN b = branchOf[a] ELSE configured /\ b = Match[a]

(* STAFF_APPROVED to APPROVED and on to APPOINTMENT_PROPOSED in one         *)
(* transaction: without a branch or a slot the approval rolls back too.     *)
AdminApprove(m) ==
  /\ m.op = "adminApprove"
  /\ CanMove(status[m.app], "APPROVED", RoleOf(m.by))
  /\ CanMove("APPROVED", "APPOINTMENT_PROPOSED", RoleOf(m.by))
  /\ \E b \in Branch :
       /\ ProposalBranch(m.app, b)
       /\ ProposeNext(offers, m.app, b,
                      IF offers[m.app] = <<>> THEN 0 ELSE Latest(offers, m.app).resched)
  /\ status' = [status EXCEPT ![m.app] = "APPOINTMENT_PROPOSED"]
  /\ adminDecided' = [adminDecided EXCEPT ![m.app] = TRUE]
  /\ inflight' = inflight \ {m}
  /\ UNCHANGED <<branchOf, today, configured, staffDecided>>

-----------------------------------------------------------------------------
IsCurrentAndProposed(a, n) ==
  n = Len(offers[a]) /\ offers[a][n].status = "proposed"

(* Mutant of Accept: whatever appointment is the current one is accepted.   *)
AcceptLatest(m) ==
  /\ m.op = "accept" /\ IsCurrentAndProposed(m.app, Len(offers[m.app]))
  /\ Moves(m, "APPOINTMENT_CONFIRMED")
  /\ offers' = [offers EXCEPT ![m.app][Len(offers[m.app])].status = "accepted"]
  /\ UNCHANGED <<branchOf, today, configured, staffDecided, adminDecided>>

Accept(m) ==
  /\ m.op = "accept" /\ IsCurrentAndProposed(m.app, m.attempt)
  /\ Moves(m, "APPOINTMENT_CONFIRMED")
  /\ offers' = [offers EXCEPT ![m.app][m.attempt].status = "accepted"]
  /\ UNCHANGED <<branchOf, today, configured, staffDecided, adminDecided>>

(* Rejects the current proposal and commits its replacement with it.        *)
Reject(m) ==
  LET a == m.app
      n == m.attempt
  IN /\ m.op = "reject" /\ IsCurrentAndProposed(a, n)
     /\ offers[a][n].resched < MaxReschedules
     /\ Moves(m, "APPOINTMENT_PROPOSED")
     /\ ProposeNext([offers EXCEPT ![a][n].status = "rejected"], a,
                    offers[a][n].branch, offers[a][n].resched + 1)
     /\ UNCHANGED <<branchOf, today, configured, staffDecided, adminDecided>>

-----------------------------------------------------------------------------
(* Mutants: the access checked on the bound row only; the capacity compared *)
(* with one booking too many; a manual appointment that restarts the count, *)
(* or that leaves the dossier where it is.                                  *)
MayBookAnyBound(s, a, b) == IsBranchRestricted(s) => b = Home[s]
HasRoomOffByOne(a, b, d) ==
  Cardinality({p \in BookedOn(offers, b, d) : p[1] # a}) <= Capacity[b]
CountsNone(a, n) == n = 0
KeepsRouting(a, b) == branchOf' = branchOf

(* scheduleManual checks the access again under the row lock, and a         *)
(* branch-restricted member of staff books in the own branch only.          *)
MayBook(s, a, b) == CanAccess(s, a) /\ (IsBranchRestricted(s) => b = Home[s])

TakenByOther(a, b, d, t) ==
  \E x \in App \ {a} : \E i \in DOMAIN offers[x] :
    Booked(offers, x, i, b, d) /\ offers[x][i].time = t

HasRoom(a, b, d) ==
  Cardinality({p \in BookedOn(offers, b, d) : p[1] # a}) < Capacity[b]

(* n is the highest reschedule_count of the appointments of a.              *)
IsMaxResched(a, n) ==
  /\ \A i \in DOMAIN offers[a] : offers[a][i].resched <= n
  /\ n = 0 \/ \E i \in DOMAIN offers[a] : offers[a][i].resched = n

Reroutes(a, b) == branchOf' = [branchOf EXCEPT ![a] = b]

(* The same request again: an active offer of a already is what it asks for.*)
SameAsActive(a, b, d, t, wanted) ==
  \E i \in DOMAIN offers[a] :
    /\ Active(offers[a][i]) /\ \A j \in DOMAIN offers[a] : j > i => ~Active(offers[a][j])
    /\ offers[a][i].branch = b /\ offers[a][i].day = d /\ offers[a][i].time = t
    /\ offers[a][i].status = wanted

ScheduleManual(m, b, d, t, direct) ==
  LET a == m.app
      wanted == IF direct THEN "accepted" ELSE "proposed"
  IN /\ m.op = "schedule" /\ MayBook(m.by, a, b)
     /\ configured /\ d >= today /\ IsWorkingDay(d)
     /\ ~SameAsActive(a, b, d, t, wanted)
     /\ ~TakenByOther(a, b, d, t) /\ HasRoom(a, b, d)
     /\ Len(offers[a]) < MaxAttempt
     /\ Moves(m, IF direct THEN "APPOINTMENT_CONFIRMED" ELSE "APPOINTMENT_PROPOSED")
     /\ Reroutes(a, b)
     /\ \E n \in 0..MaxReschedules :
          /\ IsMaxResched(a, n)
          /\ offers' = [offers EXCEPT ![a] = Append(CancelActive(@),
               [branch |-> b, day |-> d, time |-> t, status |-> wanted, resched |-> n])]
     /\ UNCHANGED <<today, configured, staffDecided, adminDecided>>

ConfigureBranches ==
  /\ ~configured /\ configured' = TRUE
  /\ UNCHANGED <<status, branchOf, offers, today, staffDecided, adminDecided, inflight>>

NextDay ==
  /\ today < LastDay /\ today' = today + 1
  /\ UNCHANGED <<status, branchOf, offers, configured, staffDecided, adminDecided, inflight>>

Transact(m) ==
  \/ StaffApprove(m) \/ StaffReject(m) \/ StaffCancel(m)
  \/ AdminApprove(m) \/ AdminReject(m)
  \/ Accept(m) \/ Reject(m)
  \/ \E b \in Branch, d \in Day, t \in Time, direct \in BOOLEAN :
       ScheduleManual(m, b, d, t, direct)
  \/ Refuse(m)

BankNext ==
  \/ \E s \in Staff, a \in App, op \in StaffOp : AdmitStaff(s, a, op)
  \/ \E a \in App, op \in CustomerOp : AdmitCustomer(a, op)
  \/ \E m \in inflight : Transact(m)
  \/ ConfigureBranches
  \/ NextDay

BankSpec == BankInit /\ [][BankNext]_bankAllVars

-----------------------------------------------------------------------------
(* Two applications never hold the same slot of a branch, whoever booked    *)
(* them: the automatic proposal, a customer's change or a member of staff.  *)
SlotExclusive ==
  \A a, x \in App : \A i \in DOMAIN offers[a], j \in DOMAIN offers[x] :
    a # x /\ Active(offers[a][i]) /\ Active(offers[x][j])
      => \/ offers[a][i].branch # offers[x][j].branch
         \/ offers[a][i].day # offers[x][j].day
         \/ offers[a][i].time # offers[x][j].time

(* No branch has more active appointments on a day than its capacity, the   *)
(* manual ones outside its slot times included.                             *)
CapacityRespected ==
  \A b \in Branch, d \in Day : Cardinality(BookedOn(offers, b, d)) <= Capacity[b]

(* Only the latest appointment of an application can be active.             *)
OnlyLatestActive ==
  \A a \in App : \A i \in DOMAIN offers[a] : Active(offers[a][i]) => i = Len(offers[a])

(* The status of the application and that of its latest appointment, two    *)
(* tables written by six transactions, tell the same story.                 *)
StatusMatchesOffer ==
  \A a \in App :
    /\ status[a] = "APPOINTMENT_PROPOSED" <=>
         offers[a] # <<>> /\ Latest(offers, a).status = "proposed"
    /\ status[a] = "APPOINTMENT_CONFIRMED" <=>
         offers[a] # <<>> /\ Latest(offers, a).status = "accepted"

(* reschedule_count is the number of appointments the customer turned down, *)
(* however many the bank scheduled in between.                              *)
Rejected(a) == {i \in DOMAIN offers[a] : offers[a][i].status = "rejected"}
ReschedulesCounted ==
  \A a \in App : offers[a] # <<>> =>
    Latest(offers, a).resched = Cardinality(Rejected(a))

(* The replacement of a rejected proposal is a slot never offered before.   *)
(* (An appointment fixed by hand may be at a slot offered earlier.)         *)
NeverReoffered ==
  [][\A a \in App :
       /\ offers[a] # <<>> /\ Len(offers'[a]) > Len(offers[a])
       /\ offers'[a][Len(offers[a])].status = "rejected"
       => ~PreviouslyOffered(offers, a, Latest(offers', a).day, Latest(offers', a).time)]_bankAllVars

(* An appointment takes place at the branch the dossier belongs to, except  *)
(* for a dossier that was never routed: adminApprove matches a branch for   *)
(* it and does not store it.                                                *)
OfferAtOwnBranch ==
  \A a \in App : \A i \in DOMAIN offers[a] :
    Active(offers[a][i]) => branchOf[a] \in {NoBranch, offers[a][i].branch}

(* Branch isolation holds when the transaction runs and not only when the   *)
(* request was admitted: a branch-restricted member of staff changes no     *)
(* dossier that was rerouted to another branch in between.                  *)
BranchIsolation ==
  [][\A m \in inflight :
       /\ m.by # Customer /\ m \notin inflight'
       /\ <<status'[m.app], offers'[m.app]>> # <<status[m.app], offers[m.app]>>
       => CanAccess(m.by, m.app)]_bankAllVars

(* A rejected or cancelled application is final: neither a request admitted *)
(* before the decision nor an appointment answer changes it afterwards.     *)
DecisionFinal ==
  [][\A a \in App : status[a] \in {"STAFF_REJECTED", "REJECTED", "CANCELLED"} =>
       status'[a] = status[a] /\ offers'[a] = offers[a]]_bankAllVars

(* An acceptance confirms exactly the appointment the request had read,     *)
(* never one that replaced it meanwhile.                                    *)
AcceptsWhatWasRead ==
  [][\A m \in inflight :
       m.op = "accept" /\ m \notin inflight' /\ offers' # offers
         => /\ Len(offers[m.app]) = m.attempt
            /\ offers'[m.app] = [offers[m.app] EXCEPT ![m.attempt].status = "accepted"]]_bankAllVars

(* While the bank has not decided there is no appointment, and a member of  *)
(* staff whose request is in flight still has access to the dossier: only   *)
(* an appointment fixed by hand moves it, and no decision is left then.     *)
Undecided(a) == status[a] \in {"SUBMITTED", "STAFF_APPROVED"}
UndecidedUntouched ==
  /\ \A a \in App : Undecided(a) => offers[a] = <<>>
  /\ \A m \in inflight :
       m.by # Customer /\ Undecided(m.app) => CanAccess(m.by, m.app)

(* The invariant that is inductive: the four about one application imply    *)
(* that an active appointment belongs to one that is not cancelled, which   *)
(* the search for a free slot relies on, and the last that no admitted      *)
(* decision outlives the access it was admitted with.                       *)
BankInv ==
  /\ BankTypeOK
  /\ OnlyLatestActive /\ StatusMatchesOffer
  /\ SlotExclusive /\ OfferAtOwnBranch /\ UndecidedUntouched
=============================================================================
