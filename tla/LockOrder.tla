------------------------------ MODULE LockOrder ------------------------------
(***************************************************************************)
(* The row locks each transaction of the workflow takes, in the order of    *)
(* the code, what the database does about a cycle of waiting transactions,  *)
(* and which transactions are run again.                                    *)
(*                                                                         *)
(* Two-phase locking by the storage engine is external; the order of the    *)
(* locks and the number of attempts are the code's.  Besides the locking    *)
(* reads of the code there are the locks of its writes: a row that refers   *)
(* to an application or a branch takes a shared lock on it when it is       *)
(* inserted, or when the reference is changed (foreign keys).  Every audit  *)
(* event takes the lock of the one row of audit_chain_heads, keeps it to    *)
(* the end of the outermost transaction, and refers to its application.     *)
(*                                                                         *)
(* Left out: gap locks and lock wait timeouts; the rows of users and staff, *)
(* which these transactions only share (a ban, a sign-in and the           *)
(* administration of users and branches are not transactions of the         *)
(* workflow); section rows, which only saves lock, and for which nobody     *)
(* waits who holds more than a counter; rows a transaction itself creates,  *)
(* and with them the creation of an application; appointments that a        *)
(* cancellation would cancel, since while it is possible there are none     *)
(* (UndecidedUntouched of Scheduling).                                      *)
(***************************************************************************)
EXTENDS Naturals, FiniteSets, Sequences

CONSTANTS
  Request, App, Branch,
  Counter,           \* the code counters, one per section (CL, CR, PJ)
  Nowhere, Closed    \* neither a section missing nor an appointment; decided

ASSUME LockOrderAssumption ==
  /\ IsFiniteSet(Request)
  /\ Branch \cap Counter = {}
  /\ {Nowhere, Closed} \cap (Branch \cup Counter) = {}
  /\ Nowhere # Closed

(* The kinds of transaction, told apart by their locks and their attempts:  *)
(* the first save of a section and a later one; a document filed; an audit  *)
(* event logged by itself (a document removed, a failed validation); a      *)
(* message or the closure of a discussion; the deletion by the customer and *)
(* the step of validation 1; the submission; a decision of the bank and the *)
(* cancellation by the customer; the staff's approval of a dossier that has *)
(* no branch yet; the admin's approval; the answers to an appointment and   *)
(* an appointment fixed by hand.                                            *)
AtCounter == {"save", "resave"}
AtBranch  == {"submit", "route", "adminApprove", "accept", "reject", "schedule"}
Elsewhere == {"upload", "note", "post", "delete", "decide"}
Kind == AtCounter \cup AtBranch \cup Elsewhere

Job ==
  [kind : AtCounter, app : App, place : Counter] \cup
  [kind : AtBranch,  app : App, place : Branch]  \cup
  [kind : Elsewhere, app : App, place : {Nowhere}]

VARIABLES
  job,      \* job[r]: what request r does, to which application, and where
  at,       \* at[a]: the section a lacks, the branch of its active appointment, ...
  been,     \* been[a]: the branches at which a has appointments, past ones too
  pos,      \* pos[r]: the statement of its plan r is at
  held,     \* held[r]: the row locks of r's open transaction
  waits,    \* waits[r]: the lock r has asked for
  ahead,    \* ahead[r]: the requests that asked for that row before r
  tries,    \* tries[r]: how often the transaction was started
  outcome   \* "running", "committed", "refused" or "failed"

vars == <<job, at, been, pos, held, waits, ahead, tries, outcome>>

-----------------------------------------------------------------------------
Exclusive(row) == [row |-> row, mode |-> "X"]
Shared(row)    == [row |-> row, mode |-> "S"]
NoLock         == [row |-> <<>>, mode |-> "none"]

Application(a)    == <<"application", a>>
Appointment(a, b) == <<"appointment", a, b>>
BranchRow(b)      == <<"branch", b>>
CounterRow(c)     == <<"counter", c>>
Audit             == <<"audit">>

(* The rows a locking read of a branch's day passes: the scan covers the    *)
(* branch, whatever the date and the status of the appointment.             *)
DayRows(b) == {Appointment(a, b) : a \in {x \in App : b \in been[x]}}

(* An answer is about the appointment its request has bound; a booking by   *)
(* hand locks all appointments of the application.                          *)
OwnRows(j) ==
  IF j.kind = "schedule" THEN {Appointment(j.app, b) : b \in been[j.app]}
                         ELSE {Appointment(j.app, j.place)}

(* The locks of a statement.  "ignored" is the INSERT IGNORE of a counter   *)
(* row that is there already, and shares it; "child" inserts a row that     *)
(* refers to the application, "routing" writes branch_id, "event" inserts   *)
(* an audit row.                                                            *)
Locks(statement, j) ==
  CASE statement = "ignored"          -> {Shared(CounterRow(j.place))}
    [] statement = "number"           -> {Exclusive(CounterRow(j.place))}
    [] statement \in {"child", "event"} -> {Shared(Application(j.app))}
    [] statement = "application"      -> {Exclusive(Application(j.app))}
    [] statement = "branch"           -> {Exclusive(BranchRow(j.place))}
    [] statement = "routing"          -> {Shared(BranchRow(j.place))}
    [] statement = "appointment"      -> {Exclusive(x) : x \in OwnRows(j)}
    [] statement = "day"              -> {Exclusive(x) : x \in DayRows(j.place)}
    [] statement = "head"             -> {Exclusive(Audit)}

(* The locking statements of each kind, in the order of the code.  A row    *)
(* that is locked already is passed over, so that later audit events of the *)
(* same transaction and the application locked again by apply are left out. *)

(* A first save draws a code, inserts the section and moves the status; a   *)
(* later one finds both done.                                               *)
SavePlan == <<"ignored", "number", "child", "application", "head", "event">>

(* Mutant of ResavePlan: a new code is drawn for every save.                *)
ResavePlanNumbered == <<"head", "event", "ignored", "number">>
ResavePlan == <<"head", "event">>

(* Mutant of AcceptPlan: the appointment is locked before its application.  *)
AcceptPlanSwapped == <<"appointment", "application", "head", "event">>
AcceptPlan   == <<"application", "appointment", "head", "event">>
RejectPlan   == <<"application", "branch", "appointment", "head", "event", "day">>
SchedulePlan == <<"application", "branch", "appointment", "day", "head", "event">>

(* The approval logs before the first appointment is looked for.            *)
ApprovePlan  == <<"application", "head", "event", "branch", "day">>

(* The status moves, and is logged, before branch_id is written.            *)
RoutePlan    == <<"application", "head", "event", "routing">>

Plan(kind) ==
  CASE kind = "save"                 -> SavePlan
    [] kind = "resave"               -> ResavePlan
    [] kind = "note"                 -> <<"head", "event">>
    [] kind = "upload"               -> <<"child", "head", "event">>
    [] kind = "post"                 -> <<"application">>
    [] kind \in {"delete", "decide"} -> <<"application", "head", "event">>
    [] kind \in {"submit", "route"}  -> RoutePlan
    [] kind = "adminApprove"         -> ApprovePlan
    [] kind = "accept"               -> AcceptPlan
    [] kind = "reject"               -> RejectPlan
    [] kind = "schedule"             -> SchedulePlan

(* DB::transaction(..., 5) runs a deadlock victim again; the others are     *)
(* opened without attempts, and a deadlock inside a nested transaction is   *)
(* passed to the outermost one.  That of a staff approval swallows one met  *)
(* while it routes the dossier; rolled back it is all the same.             *)
Retried == {"save", "resave", "delete", "submit", "accept", "reject", "schedule"}
MaxTries(kind) == IF kind \in Retried THEN 5 ELSE 1

-----------------------------------------------------------------------------
(* Where an application has to be for a request to be about it.             *)
Sensible(j) ==
  CASE j.kind \in {"save", "accept", "reject"}       -> at[j.app] = j.place
    [] j.kind \in {"submit", "route", "adminApprove"} -> at[j.app] = Nowhere
    [] j.kind = "schedule"           -> at[j.app] \in Branch \cup {Nowhere}
    [] j.kind \in {"delete", "decide"} -> at[j.app] \in Counter \cup {Nowhere}
    [] j.kind = "post"               -> at[j.app] \notin Counter
    [] OTHER                         -> TRUE

(* The statement after which the code checks it again: the lock of the      *)
(* application, or that of the appointment a request answers.               *)
CheckedAfter(kind) ==
  IF kind \in {"accept", "reject"} THEN "appointment" ELSE "application"

(* Where the application may be after the transaction.                      *)
Leads(j) ==
  CASE j.kind = "save"                            -> Counter \cup {Nowhere}
    [] j.kind \in {"reject", "schedule", "adminApprove"} -> {j.place}
    [] j.kind \in {"delete", "decide"}            -> {at[j.app], Closed}
    [] OTHER                                      -> {at[j.app]}

Init ==
  /\ at \in [App -> Counter \cup Branch \cup {Nowhere}]
  /\ been \in [App -> SUBSET Branch]
  /\ \A a \in App : IF at[a] \in Branch THEN at[a] \in been[a] ELSE been[a] = {}
  /\ job \in [Request -> Job]
  /\ \A r \in Request : Sensible(job[r])
  /\ pos = [r \in Request |-> 1]
  /\ held = [r \in Request |-> {}]
  /\ waits = [r \in Request |-> NoLock]
  /\ ahead = [r \in Request |-> {}]
  /\ tries = [r \in Request |-> 1]
  /\ outcome = [r \in Request |-> "running"]

Running(r) == outcome[r] = "running"
PlanOf(r) == Plan(job[r].kind)
AtEnd(r) == pos[r] > Len(PlanOf(r))
Waiting(r) == waits[r] # NoLock

(* A lock on a row covers a weaker request for it.                          *)
Covered(l, r) == \E g \in held[r] : g.row = l.row /\ g.mode \in {"X", l.mode}
Wanted(r) ==
  IF Running(r) /\ ~AtEnd(r)
  THEN {l \in Locks(PlanOf(r)[pos[r]], job[r]) : ~Covered(l, r)} ELSE {}

Conflict(l, g) == l.row = g.row /\ "X" \in {l.mode, g.mode}

(* s keeps r waiting: by a lock it holds, or by one it has asked for first. *)
Blocks(s, r) ==
  \/ \E g \in held[s] : Conflict(waits[r], g)
  \/ s \in ahead[r] /\ Conflict(waits[r], waits[s])

(* Nobody holds, or has asked for, a lock that conflicts with l.            *)
Free(l, r) ==
  \A s \in Request \ {r} :
    ~Conflict(l, waits[s]) /\ \A g \in held[s] : ~Conflict(l, g)

Acquire(r) ==
  /\ ~Waiting(r)
  /\ \E l \in Wanted(r) :
       Free(l, r) /\ held' = [held EXCEPT ![r] = @ \cup {l}]
  /\ UNCHANGED <<job, at, been, pos, waits, ahead, tries, outcome>>

Wait(r) ==
  /\ ~Waiting(r)
  /\ \E l \in Wanted(r) :
       /\ ~Free(l, r)
       /\ waits' = [waits EXCEPT ![r] = l]
       /\ ahead' = [ahead EXCEPT ![r] = {s \in Request : waits[s].row = l.row}]
  /\ UNCHANGED <<job, at, been, pos, held, tries, outcome>>

(* r leaves the queue it is in, if any.                                     *)
Leaves(r) ==
  /\ waits' = [waits EXCEPT ![r] = NoLock]
  /\ ahead' = [s \in Request |-> IF s = r THEN {} ELSE ahead[s] \ {r}]

Grant(r) ==
  /\ Waiting(r) /\ \A s \in Request \ {r} : ~Blocks(s, r)
  /\ held' = [held EXCEPT ![r] = @ \cup {waits[r]}]
  /\ Leaves(r)
  /\ UNCHANGED <<job, at, been, pos, tries, outcome>>

Proceed(r) ==
  /\ Running(r) /\ ~AtEnd(r) /\ Wanted(r) = {}
  /\ PlanOf(r)[pos[r]] = CheckedAfter(job[r].kind) => Sensible(job[r])
  /\ pos' = [pos EXCEPT ![r] = @ + 1]
  /\ UNCHANGED <<job, at, been, held, waits, ahead, tries, outcome>>

ReleaseLocks(r) == held' = [held EXCEPT ![r] = {}] /\ Leaves(r)

(* Mutant of Ends: the answer is sent with the transaction still open.      *)
EndsHolding(r, how) ==
  /\ outcome' = [outcome EXCEPT ![r] = how]
  /\ UNCHANGED <<job, pos, held, waits, ahead, tries>>

Ends(r, how) ==
  /\ outcome' = [outcome EXCEPT ![r] = how]
  /\ pos' = [pos EXCEPT ![r] = 1]
  /\ ReleaseLocks(r)
  /\ UNCHANGED <<job, tries>>

Commit(r) ==
  LET j == job[r] IN
  /\ Running(r) /\ AtEnd(r)
  /\ \E p \in Leads(j) :
       /\ at' = [at EXCEPT ![j.app] = p]
       /\ been' = [been EXCEPT ![j.app] = IF p \in Branch THEN @ \cup {p} ELSE @]
  /\ Ends(r, "committed")

(* A business rule refuses the request once its rows are locked.            *)
Refuse(r) ==
  /\ Running(r) /\ Wanted(r) = {} /\ held[r] # {}
  /\ Ends(r, "refused")
  /\ UNCHANGED <<at, been>>

(* A set of transactions each of which is kept waiting by another of them.  *)
Deadlocked(S) ==
  \A r \in S : Waiting(r) /\ \E s \in S \ {r} : Blocks(s, r)

(* A cycle: no part of it is deadlocked without the rest.                   *)
Cycle(S) ==
  Deadlocked(S) /\ \A T \in SUBSET S : T # {} /\ Deadlocked(T) => T = S

(* The storage engine rolls one of them back.                               *)
Victim(r) ==
  /\ \E S \in SUBSET Request : r \in S /\ Cycle(S)
  /\ \/ /\ tries[r] < MaxTries(job[r].kind)
        /\ tries' = [tries EXCEPT ![r] = @ + 1]
        /\ pos' = [pos EXCEPT ![r] = 1]
        /\ ReleaseLocks(r)
        /\ UNCHANGED <<job, at, been, outcome>>
     \/ /\ tries[r] >= MaxTries(job[r].kind)
        /\ Ends(r, "failed")
        /\ UNCHANGED <<at, been>>

Step(r) == Acquire(r) \/ Wait(r) \/ Grant(r) \/ Proceed(r) \/ Commit(r)

Next == \E r \in Request : Step(r) \/ Refuse(r) \/ Victim(r)

Spec == Init /\ [][Next]_vars

(* A transaction that can go on does so or is refused, and the engine       *)
(* breaks every cycle.                                                      *)
FairSpec ==
  /\ Spec
  /\ \A r \in Request : WF_vars(Step(r) \/ Refuse(r))
  /\ WF_vars(\E r \in Request : Victim(r))

-----------------------------------------------------------------------------
(* The state is well-formed, and no two transactions hold conflicting locks.*)
TypeOK ==
  /\ \A r, s \in Request : r # s =>
       \A l \in held[r], g \in held[s] : ~Conflict(l, g)
  /\ job \in [Request -> Job]
  /\ at \in [App -> Counter \cup Branch \cup {Nowhere, Closed}]
  /\ been \in [App -> SUBSET Branch]
  /\ pos \in [Request -> 1..7]
  /\ ahead \in [Request -> SUBSET Request]
  /\ tries \in [Request -> 1..5]
  /\ outcome \in [Request -> {"running", "committed", "refused", "failed"}]

(* The three ways to ask for a lock out of order: with an audit event       *)
(* logged before; for a row shared already, the parent of an inserted row   *)
(* or a counter; for an appointment at one branch with one of another       *)
(* branch locked.                                                           *)
LogsFirst(r) == Exclusive(Audit) \in held[r]
Upgrades(r)  == Shared(waits[r].row) \in held[r]
Crosses(r) ==
  \E a, c \in App, b, d \in Branch :
    b # d /\ Exclusive(Appointment(a, b)) \in held[r]
          /\ waits[r].row = Appointment(c, d)

(* Without these three the rows are locked in one order (counter,           *)
(* application, branch, appointments, audit head), so that some transaction *)
(* of every deadlock, through queues as well as through locks held, is one  *)
(* that has logged first, upgrades, or crosses branches.                    *)
CyclesAreKnown ==
  \A S \in (SUBSET Request) \ {{}} : Deadlocked(S) =>
    \E r \in S : LogsFirst(r) \/ Upgrades(r) \/ Crosses(r)

(* Every transaction passes through the one audit head, and the first saves *)
(* through the code counters.  Two dossiers block each other there only as  *)
(* two first saves that share a counter row and both want it for themselves:*)
(* any other deadlock has two transactions about the same dossier in it, or *)
(* one that waits for a branch or for an appointment at one.                *)
CyclesAreLocal ==
  \A S \in (SUBSET Request) \ {{}} : Deadlocked(S) =>
    \/ \E r, s \in S : r # s /\ job[r].app = job[s].app
    \/ \E r \in S : \/ waits[r].row[1] \in {"branch", "appointment"}
                    \/ waits[r].row[1] = "counter" /\ Upgrades(r)

(* Every request is answered in the end.                                    *)
EveryRequestEnds == <>(\A r \in Request : ~Running(r))
=============================================================================
