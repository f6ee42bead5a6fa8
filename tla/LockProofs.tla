------------------------------ MODULE LockProofs ------------------------------
(***************************************************************************)
(* Proofs about LockOrder, for any number of requests, applications,        *)
(* branches and counters: which deadlocks can form, and where.              *)
(***************************************************************************)
EXTENDS LockOrder, FiniteSetTheorems, WellFoundedInduction, TLAPS

-----------------------------------------------------------------------------
(* Rows, and the place of their tables in the order of the locks.           *)
Table(l) == l.row[1]
Rank(table) ==
  CASE table = "counter" -> 1 [] table = "application" -> 2 [] table = "branch" -> 3
    [] table = "appointment" -> 4 [] table = "audit" -> 5

LEMMA RowNames ==
  ASSUME NEW x, NEW y, NEW u, NEW v
  PROVE  /\ Application(x)[1] = "application" /\ BranchRow(x)[1] = "branch"
         /\ CounterRow(x)[1] = "counter" /\ Appointment(x, y)[1] = "appointment"
         /\ Audit[1] = "audit"
         /\ Application(x) = Application(y) => x = y
         /\ BranchRow(x) = BranchRow(y) => x = y
         /\ CounterRow(x) = CounterRow(y) => x = y
         /\ Appointment(x, y) = Appointment(u, v) => x = u /\ y = v
  BY DEF Application, BranchRow, CounterRow, Appointment, Audit

LEMMA LockNames ==
  ASSUME NEW x, NEW y
  PROVE  /\ Exclusive(x).row = x /\ Exclusive(x).mode = "X"
         /\ Shared(x).row = x /\ Shared(x).mode = "S"
         /\ Exclusive(x) = Exclusive(y) => x = y
         /\ NoLock.row = <<>> /\ NoLock.mode = "none"
  BY DEF Exclusive, Shared, NoLock

LEMMA RowsAreNotEmpty ==
  ASSUME NEW x, NEW y
  PROVE  /\ Application(x) # <<>> /\ BranchRow(x) # <<>> /\ CounterRow(x) # <<>>
         /\ Appointment(x, y) # <<>> /\ Audit # <<>>
  <1>1. Len(Application(x)) = 2 /\ Len(BranchRow(x)) = 2 /\ Len(CounterRow(x)) = 2
    BY DEF Application, BranchRow, CounterRow
  <1>2. Len(Appointment(x, y)) = 3 /\ Len(Audit) = 1 /\ Len(<<>>) = 0
    BY DEF Appointment, Audit
  <1> QED BY <1>1, <1>2

(* The statements, their tables and their order.                            *)
Statement == {"ignored", "number", "child", "application", "branch", "routing", "appointment",
              "day", "head", "event"}
TableOf(st) ==
  CASE st \in {"ignored", "number"} -> "counter" [] st \in {"child", "event", "application"} -> "application"
    [] st \in {"branch", "routing"} -> "branch" [] st \in {"appointment", "day"} -> "appointment"
    [] st = "head" -> "audit"
Turn(st) ==
  CASE st = "ignored" -> 0 [] st = "number" -> 1 [] st = "child" -> 2
    [] st = "application" -> 3 [] st = "branch" -> 4 [] st = "appointment" -> 5
    [] st = "day" -> 6 [] st = "head" -> 7 [] OTHER -> 8

(* What a statement locks.                                                  *)
LEMMA LocksOf ==
  ASSUME NEW st \in Statement, NEW j \in Job, NEW l \in Locks(st, j)
  PROVE  /\ l.mode \in {"S", "X"}
         /\ Table(l) = TableOf(st)
         /\ l.row # <<>>
         /\ st \notin {"ignored", "child", "event", "routing"} => l = Exclusive(l.row)
         /\ st \in {"ignored", "child", "event", "routing"} => l = Shared(l.row)
         /\ st \in {"ignored", "number"} => l.row = CounterRow(j.place)
         /\ st \in {"child", "event", "application"} => l.row = Application(j.app)
         /\ st \in {"branch", "routing"} => l.row = BranchRow(j.place)
         /\ st = "appointment" =>
              \E b : l.row = Appointment(j.app, b) /\ (b = j.place \/ b \in been[j.app])
         /\ st = "day" => \E a \in App : l.row = Appointment(a, j.place)
         /\ st = "head" => l.row = Audit
  <1> USE LockNames, RowNames, RowsAreNotEmpty DEF Statement, Table, TableOf
  <1>1. CASE st \in {"ignored", "number"}
    BY <1>1 DEF Locks
  <1>2. CASE st \in {"child", "event"}
    BY <1>2 DEF Locks
  <1>3. CASE st = "application"
    BY <1>3 DEF Locks
  <1>4. CASE st \in {"branch", "routing"}
    BY <1>4 DEF Locks
  <1>5. CASE st = "appointment"
    BY <1>5 DEF Locks, OwnRows
  <1>6. CASE st = "day"
    BY <1>6 DEF Locks, DayRows
  <1>7. CASE st = "head"
    BY <1>7 DEF Locks
  <1> QED BY <1>1, <1>2, <1>3, <1>4, <1>5, <1>6, <1>7

LEMMA JobFields ==
  ASSUME NEW j \in Job
  PROVE  /\ j.kind \in Kind /\ j.app \in App
         /\ j.kind \in AtBranch => j.place \in Branch
         /\ j.kind \in AtCounter => j.place \in Counter
  BY LockOrderAssumption DEF Job, Kind, AtBranch, AtCounter, Elsewhere

LEMMA PlanLength ==
  ASSUME NEW k \in Kind
  PROVE  /\ Len(Plan(k)) \in 1..6
         /\ \A i \in 1..Len(Plan(k)) : Plan(k)[i] \in Statement
  BY DEF Kind, AtCounter, AtBranch, Elsewhere, Statement, Plan, SavePlan, ResavePlan,
         AcceptPlan, RejectPlan, SchedulePlan, ApprovePlan, RoutePlan

(* Up to the audit head the statements of a plan come in one order, and no  *)
(* plan comes back to an earlier table.                                     *)
LEMMA PlansAreOrdered ==
  ASSUME NEW k \in Kind, NEW p \in 1..Len(Plan(k)), NEW i \in 1..p, i # p,
         \A n \in 1..(p - 1) : Plan(k)[n] # "head"
  PROVE  Turn(Plan(k)[i]) < Turn(Plan(k)[p]) /\ Turn(Plan(k)[p]) < 8
  <1>1. \A n \in 1..6 : n < p => Plan(k)[n] # "head"
    OBVIOUS
  <1>2. CASE k = "save"
    <2>1. p \in 1..5 /\ i \in 1..4
      BY <1>1, <1>2 DEF Plan, SavePlan
    <2>2. /\ Plan(k)[1] = "ignored" /\ Plan(k)[2] = "number" /\ Plan(k)[3] = "child"
          /\ Plan(k)[4] = "application" /\ Plan(k)[5] = "head"
      BY <1>2 DEF Plan, SavePlan
    <2> HIDE DEF Plan
    <2> QED BY <2>1, <2>2 DEF Turn
  <1>3. CASE k \in {"resave", "note", "post"}
    <2>1. p = 1
      BY <1>1, <1>3 DEF Plan, ResavePlan
    <2> QED BY <2>1
  <1>4. CASE k \in {"upload", "delete", "decide", "submit", "route", "adminApprove"}
    <2>1. p \in 1..2 /\ i = 1
      BY <1>1, <1>4 DEF Plan, RoutePlan, ApprovePlan
    <2>2. Plan(k)[1] \in {"child", "application"} /\ Plan(k)[2] = "head"
      BY <1>4 DEF Plan, RoutePlan, ApprovePlan
    <2> HIDE DEF Plan
    <2>3. Turn(Plan(k)[1]) \in {2, 3} /\ Turn(Plan(k)[2]) = 7
      BY <2>2 DEF Turn
    <2>4. p = 2
      BY <2>1
    <2> QED BY <2>1, <2>3, <2>4
  <1>5. CASE k = "accept"
    <2>1. p \in 1..3 /\ i \in 1..2
      BY <1>1, <1>5 DEF Plan, AcceptPlan
    <2> QED BY <1>5, <2>1 DEF Plan, AcceptPlan, Turn
  <1>6. CASE k = "reject"
    <2>1. p \in 1..4 /\ i \in 1..3
      BY <1>1, <1>6 DEF Plan, RejectPlan
    <2> QED BY <1>6, <2>1 DEF Plan, RejectPlan, Turn
  <1>7. CASE k = "schedule"
    <2>1. p \in 1..5 /\ i \in 1..4
      BY <1>1, <1>7 DEF Plan, SchedulePlan
    <2> QED BY <1>7, <2>1 DEF Plan, SchedulePlan, Turn
  <1> QED BY <1>2, <1>3, <1>4, <1>5, <1>6, <1>7 DEF Kind, AtCounter, AtBranch, Elsewhere

(* The codes come first, the branch before the day, and only transactions   *)
(* about a branch lock one.                                                 *)
LEMMA PlanFacts ==
  ASSUME NEW k \in Kind, NEW p \in 1..Len(Plan(k))
  PROVE  /\ Plan(k)[p] = "ignored" => p = 1
         /\ Plan(k)[p] = "number" => p = 2 /\ Plan(k)[1] = "ignored"
         /\ Plan(k)[p] = "day" => \E n \in 1..(p - 1) : Plan(k)[n] = "branch"
         /\ Plan(k)[p] \in {"branch", "routing", "day", "appointment"} => k \in AtBranch
  <1>1. CASE k \in {"save", "resave", "note", "upload", "post"}
    BY <1>1 DEF Plan, SavePlan, ResavePlan
  <1>2. CASE k \in {"delete", "decide", "submit", "route", "adminApprove"}
    BY <1>2 DEF Plan, RoutePlan, ApprovePlan, AtBranch
  <1>3. CASE k \in {"accept", "reject", "schedule"}
    BY <1>3 DEF Plan, AcceptPlan, RejectPlan, SchedulePlan, AtBranch
  <1> QED BY <1>1, <1>2, <1>3 DEF Kind, AtCounter, AtBranch, Elsewhere
-----------------------------------------------------------------------------
(* The inductive invariant.                                                 *)

(* What a transaction has asked for is wanted by the statement it is at.    *)
AsksInPlan ==
  \A r \in Request : Waiting(r) => waits[r] \in Wanted(r)

(* What it holds was taken by a statement of its plan it has come to.       *)
HoldsInPlan ==
  \A r \in Request : \A g \in held[r] :
    \E i \in 1..pos[r] : i <= Len(PlanOf(r)) /\ g \in Locks(PlanOf(r)[i], job[r])

(* The audit head and the branch are kept from their statements to the end. *)
KeepsLocks ==
  \A r \in Request : \A i \in 1..(pos[r] - 1) :
    i <= Len(PlanOf(r)) =>
      /\ PlanOf(r)[i] = "head" => Exclusive(Audit) \in held[r]
      /\ PlanOf(r)[i] = "branch" => Exclusive(BranchRow(job[r].place)) \in held[r]

(* Who is ahead of r waits for the same row, and was there before r.        *)
Queued ==
  \A r \in Request : \A s \in ahead[r] :
    /\ Waiting(s) /\ waits[s].row = waits[r].row
    /\ s \notin ahead[s] /\ ahead[s] \subseteq ahead[r]

(* waits and held have one entry for each request.                          *)
Tables ==
  /\ waits = [r \in Request |-> waits[r]]
  /\ held = [r \in Request |-> held[r]]

LockInv == TypeOK /\ Tables /\ AsksInPlan /\ HoldsInPlan /\ KeepsLocks /\ Queued

LEMMA InitLocks ==
  ASSUME Init
  PROVE  LockInv
  <1>1. TypeOK
    BY DEF Init, TypeOK
  <1>2. AsksInPlan /\ Queued /\ Tables
    BY DEF Init, AsksInPlan, Queued, Waiting, Tables
  <1>3. HoldsInPlan /\ KeepsLocks
    BY DEF Init, HoldsInPlan, KeepsLocks
  <1> QED BY <1>1, <1>2, <1>3 DEF LockInv

(* A statement locks one row at least as strongly as it wants it.           *)
LEMMA WantedLocks ==
  ASSUME LockInv, NEW r \in Request, NEW l \in Wanted(r)
  PROVE  /\ Running(r) /\ pos[r] \in 1..Len(PlanOf(r))
         /\ l \in Locks(PlanOf(r)[pos[r]], job[r]) /\ ~Covered(l, r)
         /\ l.mode \in {"S", "X"} /\ l.row # <<>>
         /\ job[r] \in Job /\ PlanOf(r)[pos[r]] \in Statement
  <1>1. Running(r) /\ ~AtEnd(r) /\ l \in Locks(PlanOf(r)[pos[r]], job[r]) /\ ~Covered(l, r)
    BY DEF Wanted
  <1>2. job[r] \in Job /\ pos[r] \in 1..7
    BY DEF LockInv, TypeOK
  <1>3. Len(PlanOf(r)) \in 1..6 /\ \A i \in 1..Len(PlanOf(r)) : PlanOf(r)[i] \in Statement
    BY <1>2, JobFields, PlanLength DEF PlanOf
  <1>4. pos[r] \in 1..Len(PlanOf(r))
    BY <1>1, <1>2, <1>3 DEF AtEnd
  <1> QED BY <1>1, <1>2, <1>3, <1>4, LocksOf

(* Appointments are added only: a statement never locks less than before.   *)
LEMMA LocksGrow ==
  ASSUME \A a \in App : been[a] \subseteq been'[a]
  PROVE  \A st \in Statement, j \in Job : Locks(st, j) \subseteq Locks(st, j)'
  <1> TAKE st \in Statement, j \in Job
  <1>1. j.app \in App
    BY JobFields
  <1>2. OwnRows(j) \subseteq OwnRows(j)' /\ DayRows(j.place) \subseteq DayRows(j.place)'
    BY <1>1 DEF OwnRows, DayRows
  <1> QED BY <1>2 DEF Locks, Statement

(* A step that changes neither positions nor locks of s, and that adds      *)
(* appointments only, leaves what the invariant says of s.                  *)
LEMMA Untouched ==
  ASSUME LockInv, NEW s \in Request, \A a \in App : been[a] \subseteq been'[a],
         job' = job, pos'[s] = pos[s], held'[s] = held[s], outcome'[s] = outcome[s]
  PROVE  /\ \A l : l \in Wanted(s) => l \in Wanted(s)'
         /\ \A g \in held'[s] : \E i \in 1..pos'[s] :
              i <= Len(PlanOf(s))' /\ g \in Locks(PlanOf(s)[i], job[s])'
         /\ \A i \in 1..(pos'[s] - 1) : i <= Len(PlanOf(s))' =>
              /\ PlanOf(s)'[i] = "head" => Exclusive(Audit) \in held'[s]
              /\ PlanOf(s)'[i] = "branch" => Exclusive(BranchRow(job'[s].place)) \in held'[s]
  <1>1. job[s] \in Job /\ pos[s] \in 1..7
    BY DEF LockInv, TypeOK
  <1>2. Len(PlanOf(s)) \in 1..6 /\ \A i \in 1..Len(PlanOf(s)) : PlanOf(s)[i] \in Statement
    BY <1>1, JobFields, PlanLength DEF PlanOf
  <1>3. PlanOf(s)' = PlanOf(s)
    BY DEF PlanOf
  <1>4. \A i \in 1..Len(PlanOf(s)) :
          Locks(PlanOf(s)[i], job[s]) \subseteq Locks(PlanOf(s)[i], job[s])'
    BY <1>1, <1>2, <1>3, LocksGrow
  <1>5. ASSUME NEW l, l \in Wanted(s) PROVE l \in Wanted(s)'
    <2>1. pos[s] \in 1..Len(PlanOf(s)) /\ l \in Locks(PlanOf(s)[pos[s]], job[s])
      BY <1>5, WantedLocks
    <2>2. l \in Locks(PlanOf(s)[pos[s]], job[s])'
      BY <1>3, <1>4, <2>1
    <2>3. (~Covered(l, s))'
      BY <1>5, WantedLocks DEF Covered
    <2>4. Running(s)' /\ (~AtEnd(s))'
      BY <1>3, <1>5 DEF Wanted, Running, AtEnd
    <2> QED BY <2>2, <2>3, <2>4 DEF Wanted
  <1>6. ASSUME NEW g \in held'[s]
        PROVE  \E i \in 1..pos'[s] : i <= Len(PlanOf(s))' /\ g \in Locks(PlanOf(s)[i], job[s])'
    <2>1. PICK i \in 1..pos[s] : i <= Len(PlanOf(s)) /\ g \in Locks(PlanOf(s)[i], job[s])
      BY DEF LockInv, HoldsInPlan
    <2>2. g \in Locks(PlanOf(s)[i], job[s])'
      BY <1>1, <1>2, <1>3, <1>4, <2>1
    <2> QED BY <1>3, <2>1, <2>2
  <1>7. ASSUME NEW i \in 1..(pos'[s] - 1), i <= Len(PlanOf(s))'
        PROVE  /\ PlanOf(s)'[i] = "head" => Exclusive(Audit) \in held'[s]
               /\ PlanOf(s)'[i] = "branch" => Exclusive(BranchRow(job'[s].place)) \in held'[s]
    BY <1>3, <1>7 DEF LockInv, KeepsLocks
  <1> QED BY <1>5, <1>6, <1>7

(* r leaves the queue: nobody is behind it any more.                        *)
LEMMA LeavesQueue ==
  ASSUME LockInv, NEW r \in Request, Leaves(r)
  PROVE  /\ Queued' /\ ahead' \in [Request -> SUBSET Request]
         /\ waits' = [s \in Request |-> waits'[s]]
         /\ ~Waiting(r)' /\ \A s \in Request : s # r => waits'[s] = waits[s]
  <1>1. waits = [s \in Request |-> waits[s]] /\ ahead \in [Request -> SUBSET Request]
    BY DEF LockInv, Tables, TypeOK
  <1>2. waits' = [waits EXCEPT ![r] = NoLock]
        /\ ahead' = [s \in Request |-> IF s = r THEN {} ELSE ahead[s] \ {r}]
    BY DEF Leaves
  <1>3. waits' = [s \in Request |-> IF s = r THEN NoLock ELSE waits[s]]
    BY <1>1, <1>2
  <1>4. ~Waiting(r)' /\ \A s \in Request : s # r => waits'[s] = waits[s]
    BY <1>3 DEF Waiting
  <1>5. ASSUME NEW t \in Request, NEW s \in ahead'[t]
        PROVE  /\ Waiting(s)' /\ waits'[s].row = waits'[t].row
               /\ s \notin ahead'[s] /\ ahead'[s] \subseteq ahead'[t]
    <2>1. t # r /\ s # r /\ s \in ahead[t] /\ s \in Request
      BY <1>1, <1>2, <1>5
    <2>2. Waiting(s) /\ waits[s].row = waits[t].row /\ s \notin ahead[s]
          /\ ahead[s] \subseteq ahead[t]
      BY <2>1 DEF LockInv, Queued
    <2>3. ahead'[s] = ahead[s] \ {r} /\ ahead'[t] = ahead[t] \ {r}
      BY <1>2, <2>1
    <2> QED BY <1>4, <2>1, <2>2, <2>3 DEF Waiting
  <1> QED BY <1>1, <1>2, <1>3, <1>4, <1>5 DEF Queued

(* The parts of the invariant about one request.                            *)
Fits(r) ==
  /\ Waiting(r) => waits[r] \in Wanted(r)
  /\ \A g \in held[r] :
       \E i \in 1..pos[r] : i <= Len(PlanOf(r)) /\ g \in Locks(PlanOf(r)[i], job[r])
  /\ \A i \in 1..(pos[r] - 1) :
       i <= Len(PlanOf(r)) =>
         /\ PlanOf(r)[i] = "head" => Exclusive(Audit) \in held[r]
         /\ PlanOf(r)[i] = "branch" => Exclusive(BranchRow(job[r].place)) \in held[r]

LEMMA AllFit ==
  ASSUME TypeOK', Queued', \A r \in Request : Fits(r)',
         waits' = [r \in Request |-> waits'[r]], held' = [r \in Request |-> held'[r]]
  PROVE  LockInv'
  BY DEF Fits, LockInv, Tables, AsksInPlan, HoldsInPlan, KeepsLocks

LEMMA OthersFit ==
  ASSUME LockInv, NEW s \in Request, \A a \in App : been[a] \subseteq been'[a],
         job' = job, pos'[s] = pos[s], held'[s] = held[s], outcome'[s] = outcome[s],
         waits'[s] = waits[s]
  PROVE  Fits(s)'
  <1>1. Waiting(s)' => waits'[s] \in Wanted(s)
    BY DEF Waiting, LockInv, AsksInPlan
  <1> QED BY <1>1, Untouched DEF Fits

(* A lock granted to r conflicts with nobody's.                             *)
LEMMA AddsLock ==
  ASSUME LockInv, NEW r \in Request, NEW l, l \in Wanted(r),
         \A s \in Request \ {r} : \A g \in held[s] : ~Conflict(l, g),
         held' = [held EXCEPT ![r] = @ \cup {l}],
         job' = job, at' = at, been' = been, pos' = pos, outcome' = outcome, tries' = tries,
         ahead' \in [Request -> SUBSET Request],
         ~Waiting(r)', \A s \in Request : s # r => waits'[s] = waits[s]
  PROVE  TypeOK' /\ held' = [s \in Request |-> held'[s]] /\ \A s \in Request : Fits(s)'
  <1>1. held' = [s \in Request |-> IF s = r THEN held[r] \cup {l} ELSE held[s]]
    BY DEF LockInv, Tables
  <1>2. TypeOK'
    <2>1. ASSUME NEW s \in Request, NEW t \in Request, s # t,
                 NEW k \in held'[s], NEW g \in held'[t]
          PROVE  ~Conflict(k, g)
      BY <1>1, <2>1 DEF LockInv, TypeOK, Conflict
    <2> QED BY <2>1 DEF LockInv, TypeOK, Conflict
  <1>3. ASSUME NEW s \in Request, s # r PROVE Fits(s)'
    BY <1>1, <1>3, OthersFit
  <1>4. Fits(r)'
    <2>1. pos[r] \in 1..Len(PlanOf(r)) /\ l \in Locks(PlanOf(r)[pos[r]], job[r])
      BY WantedLocks
    <2>2. PlanOf(r)' = PlanOf(r)
      BY DEF PlanOf
    <2>3. \A st, j : Locks(st, j)' = Locks(st, j)
      BY DEF Locks, OwnRows, DayRows
    <2>4. ASSUME NEW g \in held'[r]
          PROVE  \E i \in 1..pos[r] : i <= Len(PlanOf(r)) /\ g \in Locks(PlanOf(r)[i], job[r])
      <3>1. CASE g = l
        BY <2>1, <3>1
      <3>2. CASE g # l
        BY <1>1, <3>2 DEF LockInv, HoldsInPlan
      <3> QED BY <3>1, <3>2
    <2>5. \A i \in 1..(pos[r] - 1) :
            i <= Len(PlanOf(r)) =>
              /\ PlanOf(r)[i] = "head" => Exclusive(Audit) \in held'[r]
              /\ PlanOf(r)[i] = "branch" => Exclusive(BranchRow(job[r].place)) \in held'[r]
      BY <1>1 DEF LockInv, KeepsLocks
    <2> QED BY <2>2, <2>3, <2>4, <2>5 DEF Fits
  <1> QED BY <1>1, <1>2, <1>3, <1>4

LEMMA AcquireKeeps ==
  ASSUME LockInv, NEW r \in Request, Acquire(r)
  PROVE  LockInv'
  <1>1. PICK l \in Wanted(r) : Free(l, r) /\ held' = [held EXCEPT ![r] = @ \cup {l}]
    BY DEF Acquire
  <1>2. UNCHANGED <<job, at, been, pos, waits, ahead, tries, outcome>> /\ ~Waiting(r)
    BY DEF Acquire
  <1>3. TypeOK' /\ held' = [s \in Request |-> held'[s]] /\ \A s \in Request : Fits(s)'
    BY <1>1, <1>2, AddsLock DEF Free, Waiting, LockInv, TypeOK
  <1>4. Queued' /\ waits' = [s \in Request |-> waits'[s]]
    BY <1>2 DEF LockInv, Queued, Waiting, Tables
  <1> QED BY <1>3, <1>4, AllFit

LEMMA WaitKeeps ==
  ASSUME LockInv, NEW r \in Request, Wait(r)
  PROVE  LockInv'
  <1>1. PICK l \in Wanted(r) :
          /\ waits' = [waits EXCEPT ![r] = l]
          /\ ahead' = [ahead EXCEPT ![r] = {s \in Request : waits[s].row = l.row}]
    BY DEF Wait
  <1>2. UNCHANGED <<job, at, been, pos, held, tries, outcome>> /\ ~Waiting(r)
    BY DEF Wait
  <1>3. waits' = [s \in Request |-> IF s = r THEN l ELSE waits[s]]
    BY <1>1 DEF LockInv, Tables
  <1>4. l.row # <<>> /\ NoLock.row = <<>> /\ waits[r] = NoLock
    BY <1>2, WantedLocks, LockNames DEF Waiting
  <1>5. TypeOK'
    BY <1>1, <1>2 DEF LockInv, TypeOK, Conflict
  <1>6. ASSUME NEW s \in Request PROVE Fits(s)'
    <2>1. CASE s # r
      BY <1>2, <1>3, <2>1, OthersFit
    <2>2. CASE s = r
      <3>1. l \in Wanted(r)'
        BY <1>2, Untouched
      <3> QED BY <1>2, <1>3, <2>2, <3>1, Untouched DEF Fits, Waiting
    <2> QED BY <2>1, <2>2
  <1>7. Queued'
    <2> SUFFICES ASSUME NEW t \in Request, NEW s \in ahead'[t]
                 PROVE  /\ Waiting(s)' /\ waits'[s].row = waits'[t].row
                        /\ s \notin ahead'[s] /\ ahead'[s] \subseteq ahead'[t]
      BY DEF Queued
    <2>1. ahead \in [Request -> SUBSET Request]
      BY DEF LockInv, TypeOK
    <2>2. \A q \in Request : \A p \in ahead[q] : p # r
      BY <1>2 DEF LockInv, Queued
    <2>3. CASE t # r
      <3>1. s \in ahead[t] /\ s \in Request /\ s # r
        BY <1>1, <2>1, <2>2, <2>3
      <3>2. ahead'[s] = ahead[s] /\ ahead'[t] = ahead[t]
        BY <1>1, <2>1, <2>3, <3>1
      <3> QED BY <1>3, <2>3, <3>1, <3>2 DEF LockInv, Queued, Waiting
    <2>4. CASE t = r
      <3>1. s \in Request /\ waits[s].row = l.row
        BY <1>1, <2>1, <2>4
      <3>2. s # r /\ waits[s] # NoLock
        BY <1>4, <3>1
      <3>3. ahead'[s] = ahead[s] /\ ahead'[t] = {q \in Request : waits[q].row = l.row}
        BY <1>1, <2>1, <2>4, <3>2
      <3>4. \A q \in ahead[s] : q \in Request /\ waits[q].row = l.row
        BY <2>1, <3>1 DEF LockInv, Queued
      <3>5. s \notin ahead[s]
        BY <3>1 DEF LockInv, Queued
      <3> QED BY <1>3, <2>4, <3>1, <3>2, <3>3, <3>4, <3>5 DEF Waiting
    <2> QED BY <2>3, <2>4
  <1>8. waits' = [s \in Request |-> waits'[s]] /\ held' = [s \in Request |-> held'[s]]
    BY <1>2, <1>3 DEF LockInv, Tables
  <1> QED BY <1>5, <1>6, <1>7, <1>8, AllFit

LEMMA GrantKeeps ==
  ASSUME LockInv, NEW r \in Request, Grant(r)
  PROVE  LockInv'
  <1>1. Leaves(r) /\ held' = [held EXCEPT ![r] = @ \cup {waits[r]}]
        /\ UNCHANGED <<job, at, been, pos, tries, outcome>>
        /\ \A s \in Request \ {r} : ~Blocks(s, r)
    BY DEF Grant
  <1>2. waits[r] \in Wanted(r)
    BY DEF Grant, LockInv, AsksInPlan
  <1>3. \A s \in Request \ {r} : \A g \in held[s] : ~Conflict(waits[r], g)
    BY <1>1 DEF Blocks
  <1>4. Queued' /\ ahead' \in [Request -> SUBSET Request]
        /\ waits' = [s \in Request |-> waits'[s]]
        /\ ~Waiting(r)' /\ \A s \in Request : s # r => waits'[s] = waits[s]
    BY <1>1, LeavesQueue
  <1>5. TypeOK' /\ held' = [s \in Request |-> held'[s]] /\ \A s \in Request : Fits(s)'
    BY <1>1, <1>2, <1>3, <1>4, AddsLock
  <1> QED BY <1>4, <1>5, AllFit

LEMMA ProceedKeeps ==
  ASSUME LockInv, NEW r \in Request, Proceed(r)
  PROVE  LockInv'
  <1>1. /\ Running(r) /\ ~AtEnd(r) /\ Wanted(r) = {} /\ pos' = [pos EXCEPT ![r] = @ + 1]
        /\ UNCHANGED <<job, at, been, held, waits, ahead, tries, outcome>>
    BY DEF Proceed
  <1>2. job[r] \in Job /\ pos \in [Request -> 1..7] /\ pos[r] \in 1..7
    BY DEF LockInv, TypeOK
  <1>3. Len(PlanOf(r)) \in 1..6 /\ \A i \in 1..Len(PlanOf(r)) : PlanOf(r)[i] \in Statement
    BY <1>2, JobFields, PlanLength DEF PlanOf
  <1>4. pos[r] \in 1..Len(PlanOf(r)) /\ pos[r] + 1 \in 1..7
    BY <1>1, <1>2, <1>3 DEF AtEnd
  <1>5. pos'[r] = pos[r] + 1 /\ \A s \in Request : s # r => pos'[s] = pos[s]
    BY <1>1, <1>2
  <1>6. TypeOK'
    BY <1>1, <1>4 DEF LockInv, TypeOK, Conflict
  <1>7. Queued' /\ waits' = [s \in Request |-> waits'[s]] /\ held' = [s \in Request |-> held'[s]]
    BY <1>1 DEF LockInv, Queued, Waiting, Tables
  <1>8. PlanOf(r)' = PlanOf(r)
    BY <1>1 DEF PlanOf
  <1>9. \A l \in Locks(PlanOf(r)[pos[r]], job[r]) : Covered(l, r)
    BY <1>1 DEF Wanted
  <1>10. ASSUME NEW i \in 1..pos[r]
         PROVE  /\ PlanOf(r)[i] = "head" => Exclusive(Audit) \in held[r]
                /\ PlanOf(r)[i] = "branch" => Exclusive(BranchRow(job[r].place)) \in held[r]
    <2>1. CASE i < pos[r]
      BY <1>2, <1>4, <2>1 DEF LockInv, KeepsLocks
    <2>2. CASE i = pos[r]
      <3>1. \A x : Exclusive(x) \in Locks(PlanOf(r)[pos[r]], job[r]) => Exclusive(x) \in held[r]
        <4> SUFFICES ASSUME NEW x, Exclusive(x) \in Locks(PlanOf(r)[pos[r]], job[r])
                     PROVE  Exclusive(x) \in held[r]
          OBVIOUS
        <4>1. PICK g \in held[r] : g.row = x /\ g.mode = "X"
          BY <1>9, LockNames DEF Covered
        <4>2. PICK n \in 1..pos[r] :
                n <= Len(PlanOf(r)) /\ g \in Locks(PlanOf(r)[n], job[r])
          BY DEF LockInv, HoldsInPlan
        <4>3. PlanOf(r)[n] \in Statement
          BY <1>2, <1>3, <4>2
        <4>4. g = Exclusive(g.row) \/ g = Shared(g.row)
          BY <1>2, <4>2, <4>3, LocksOf
        <4>5. Shared(g.row).mode = "S"
          BY LockNames
        <4> QED BY <4>1, <4>4, <4>5
      <3>2. PlanOf(r)[i] = "head" => Exclusive(Audit) \in Locks(PlanOf(r)[pos[r]], job[r])
        BY <2>2 DEF Locks
      <3>3. PlanOf(r)[i] = "branch" =>
              Exclusive(BranchRow(job[r].place)) \in Locks(PlanOf(r)[pos[r]], job[r])
        BY <2>2 DEF Locks
      <3> QED BY <3>1, <3>2, <3>3
    <2> QED BY <1>2, <2>1, <2>2
  <1>11. Fits(r)'
    <2>1. \A st, j : Locks(st, j)' = Locks(st, j)
      BY <1>1 DEF Locks, OwnRows, DayRows
    <2>2. ~Waiting(r)'
      BY <1>1 DEF Waiting, LockInv, AsksInPlan
    <2>3. \A g \in held[r] :
            \E i \in 1..pos[r] : i <= Len(PlanOf(r)) /\ g \in Locks(PlanOf(r)[i], job[r])
      BY DEF LockInv, HoldsInPlan
    <2>4. \A i \in 1..pos[r] : i \in 1..pos'[r]
      BY <1>2, <1>5
    <2>5. \A i \in 1..(pos'[r] - 1) : i \in 1..pos[r]
      BY <1>2, <1>5
    <2>6. \A g \in held'[r] :
            \E i \in 1..pos'[r] : i <= Len(PlanOf(r)') /\ g \in Locks(PlanOf(r)[i], job[r])'
      BY <1>1, <1>8, <2>1, <2>3, <2>4
    <2> QED BY <1>1, <1>8, <1>10, <2>2, <2>5, <2>6 DEF Fits
  <1>12. \A s \in Request : Fits(s)'
    <2>1. ASSUME NEW s \in Request, s # r PROVE Fits(s)'
      BY <1>1, <1>5, <2>1, OthersFit
    <2> QED BY <1>11, <2>1
  <1> QED BY <1>6, <1>7, <1>12, AllFit

(* r gives up its locks and its place in the queue.                         *)
LEMMA GivesUp ==
  ASSUME LockInv, NEW r \in Request, ReleaseLocks(r), job' = job,
         \A a \in App : been[a] \subseteq been'[a],
         at' \in [App -> Counter \cup Branch \cup {Nowhere, Closed}],
         been' \in [App -> SUBSET Branch],
         pos' = [pos EXCEPT ![r] = 1],
         tries' \in [Request -> 1..5],
         outcome' \in [Request -> {"running", "committed", "refused", "failed"}],
         \A s \in Request : s # r => outcome'[s] = outcome[s]
  PROVE  LockInv'
  <1>1. Leaves(r) /\ held' = [s \in Request |-> IF s = r THEN {} ELSE held[s]]
    BY DEF ReleaseLocks, LockInv, Tables
  <1>2. Queued' /\ ahead' \in [Request -> SUBSET Request]
        /\ waits' = [s \in Request |-> waits'[s]]
        /\ ~Waiting(r)' /\ \A s \in Request : s # r => waits'[s] = waits[s]
    BY <1>1, LeavesQueue
  <1>3. pos' = [s \in Request |-> IF s = r THEN 1 ELSE pos[s]] /\ pos' \in [Request -> 1..7]
    <2>1. pos \in [Request -> 1..7]
      BY DEF LockInv, TypeOK
    <2>2. pos' = [s \in Request |-> IF s = r THEN 1 ELSE pos[s]]
      BY <2>1
    <2>3. 1 \in 1..7
      OBVIOUS
    <2> QED BY <2>1, <2>2, <2>3
  <1>4. TypeOK'
    <2>1. \A s, t \in Request : s # t => \A l \in held'[s], g \in held'[t] : ~Conflict(l, g)
      BY <1>1 DEF LockInv, TypeOK
    <2> QED BY <1>2, <1>3, <2>1 DEF LockInv, TypeOK, Conflict
  <1>5. ASSUME NEW s \in Request PROVE Fits(s)'
    <2>1. CASE s # r
      BY <1>1, <1>2, <1>3, <2>1, OthersFit
    <2>2. CASE s = r
      <3>1. held'[s] = {} /\ pos'[s] = 1 /\ ~Waiting(s)'
        BY <1>1, <1>2, <1>3, <2>2
      <3> QED BY <3>1 DEF Fits
    <2> QED BY <2>1, <2>2
  <1> QED BY <1>1, <1>2, <1>4, <1>5, AllFit

LEMMA CommitKeeps ==
  ASSUME LockInv, NEW r \in Request, Commit(r)
  PROVE  LockInv'
  <1>1. PICK p \in Leads(job[r]) :
          /\ at' = [at EXCEPT ![job[r].app] = p]
          /\ been' = [been EXCEPT ![job[r].app] = IF p \in Branch THEN @ \cup {p} ELSE @]
    BY DEF Commit
  <1>2. job[r] \in Job /\ job[r].app \in App /\ at[job[r].app] \in Counter \cup Branch \cup {Nowhere, Closed}
    BY JobFields DEF LockInv, TypeOK
  <1>3. p \in Counter \cup Branch \cup {Nowhere, Closed}
    BY <1>2, JobFields DEF Leads, AtBranch
  <1>4. been \in [App -> SUBSET Branch] /\ at \in [App -> Counter \cup Branch \cup {Nowhere, Closed}]
    BY DEF LockInv, TypeOK
  <1>5. been' \in [App -> SUBSET Branch] /\ at' \in [App -> Counter \cup Branch \cup {Nowhere, Closed}]
        /\ \A a \in App : been[a] \subseteq been'[a]
    BY <1>1, <1>2, <1>3, <1>4
  <1>6. Ends(r, "committed")
    BY DEF Commit
  <1> QED BY <1>5, <1>6, GivesUp DEF Ends, LockInv, TypeOK

LEMMA RefuseKeeps ==
  ASSUME LockInv, NEW r \in Request, Refuse(r)
  PROVE  LockInv'
  <1>1. Ends(r, "refused") /\ UNCHANGED <<at, been>>
    BY DEF Refuse
  <1> QED BY <1>1, GivesUp DEF Ends, LockInv, TypeOK

LEMMA VictimKeeps ==
  ASSUME LockInv, NEW r \in Request, Victim(r)
  PROVE  LockInv'
  <1>1. CASE /\ tries[r] < MaxTries(job[r].kind)
             /\ tries' = [tries EXCEPT ![r] = @ + 1]
             /\ pos' = [pos EXCEPT ![r] = 1]
             /\ ReleaseLocks(r)
             /\ UNCHANGED <<job, at, been, outcome>>
    <2>1. tries \in [Request -> 1..5] /\ MaxTries(job[r].kind) \in 1..5
      BY DEF LockInv, TypeOK, MaxTries
    <2>2. tries' \in [Request -> 1..5]
      BY <1>1, <2>1
    <2> QED BY <1>1, <2>2, GivesUp DEF LockInv, TypeOK
  <1>2. CASE Ends(r, "failed") /\ UNCHANGED <<at, been>>
    BY <1>2, GivesUp DEF Ends, LockInv, TypeOK
  <1> QED BY <1>1, <1>2 DEF Victim

LEMMA LocksStep ==
  ASSUME LockInv, [Next]_vars
  PROVE  LockInv'
  <1>1. CASE UNCHANGED vars
    <2> USE <1>1 DEF vars
    <2>1. TypeOK'
      BY DEF LockInv, TypeOK, Conflict
    <2>3. Queued'
      BY DEF LockInv, Queued, Waiting
    <2>4. waits' = [r \in Request |-> waits'[r]] /\ held' = [r \in Request |-> held'[r]]
      BY DEF LockInv, Tables
    <2>2. ASSUME NEW r \in Request PROVE Fits(r)'
      BY OthersFit
    <2> QED BY <2>1, <2>2, <2>3, <2>4, AllFit
  <1>2. ASSUME NEW r \in Request, Step(r) \/ Refuse(r) \/ Victim(r) PROVE LockInv'
    BY <1>2, AcquireKeeps, WaitKeeps, GrantKeeps, ProceedKeeps, CommitKeeps, RefuseKeeps,
       VictimKeeps DEF Step
  <1> QED BY <1>1, <1>2 DEF Next

(* LockOrder is type-correct, and no two transactions ever hold conflicting *)
(* locks on a row: whoever is granted a lock found nobody in the way.       *)
THEOREM LocksTyped == Spec => []TypeOK
  <1>1. Init => LockInv
    BY InitLocks
  <1>2. LockInv /\ [Next]_vars => LockInv'
    BY LocksStep
  <1>3. LockInv => TypeOK
    BY DEF LockInv
  <1> QED BY <1>1, <1>2, <1>3, PTL DEF Spec

(* Every lock held or asked for belongs to a statement of its transaction's *)
(* plan that has been come to, what the plan has locked is kept to the end, *)
(* and the queues for a row are in the order of arrival.                    *)
THEOREM LockInvHolds == Spec => []LockInv
  <1>1. Init => LockInv
    BY InitLocks
  <1>2. LockInv /\ [Next]_vars => LockInv'
    BY LocksStep
  <1> QED BY <1>1, <1>2, PTL DEF Spec

-----------------------------------------------------------------------------
(* What waits and is held, by statements.                                   *)
LEMMA Asked ==
  ASSUME LockInv, NEW r \in Request, Waiting(r)
  PROVE  /\ pos[r] \in 1..Len(PlanOf(r)) /\ job[r] \in Job
         /\ PlanOf(r) = Plan(job[r].kind) /\ job[r].kind \in Kind
         /\ PlanOf(r)[pos[r]] \in Statement
         /\ waits[r] \in Locks(PlanOf(r)[pos[r]], job[r])
         /\ ~Covered(waits[r], r) /\ waits[r].mode \in {"S", "X"}
  <1>1. waits[r] \in Wanted(r)
    BY DEF LockInv, AsksInPlan
  <1> QED BY <1>1, WantedLocks, JobFields DEF PlanOf

LEMMA Held ==
  ASSUME LockInv, NEW r \in Request, Waiting(r), NEW g \in held[r]
  PROVE  \E i \in 1..pos[r] :
           PlanOf(r)[i] \in Statement /\ g \in Locks(PlanOf(r)[i], job[r])
  <1>1. PICK i \in 1..pos[r] : i <= Len(PlanOf(r)) /\ g \in Locks(PlanOf(r)[i], job[r])
    BY DEF LockInv, HoldsInPlan
  <1>2. job[r].kind \in Kind /\ PlanOf(r) = Plan(job[r].kind) /\ pos[r] \in 1..Len(PlanOf(r))
    BY Asked
  <1>3. i \in 1..Len(PlanOf(r))
    BY <1>1, <1>2
  <1> QED BY <1>1, <1>2, <1>3, PlanLength

(* Of subsets of a finite set there is one with no smaller one.             *)
LEMMA LeastSet ==
  ASSUME NEW U, IsFiniteSet(U), NEW Q \in SUBSET SUBSET U, Q # {}
  PROVE  \E X \in Q : \A Y \in Q : ~(Y \subseteq X /\ Y # X)
  <1>1. IsWellFoundedOn(StrictSubsetOrdering(U), SUBSET U)
    BY FS_StrictSubsetOrderingWellFounded, FS_FiniteSubsetsOfFinite
  <1>2. PICK X \in Q : \A Y \in Q : <<Y, X>> \notin StrictSubsetOrdering(U)
    BY <1>1, WFMin
  <1> QED BY <1>2 DEF StrictSubsetOrdering

(* In the queue of a row for which a transaction of a deadlock waits, some  *)
(* transaction of the deadlock waits for a lock that another one holds.     *)
LEMMA Holders ==
  ASSUME LockInv, NEW S \in SUBSET Request, Deadlocked(S), NEW r \in S
  PROVE  \E t \in S, f \in S : /\ t # f /\ waits[f].row = waits[r].row
                               /\ \E g \in held[t] : Conflict(waits[f], g)
  <1> DEFINE W == {q \in S : waits[q].row = waits[r].row}
             Q == {ahead[q] : q \in W}
  <1>1. ahead \in [Request -> SUBSET Request] /\ IsFiniteSet(Request)
    BY LockOrderAssumption DEF LockInv, TypeOK
  <1>2. PICK X \in Q : \A Y \in Q : ~(Y \subseteq X /\ Y # X)
    <2>1. Q \in SUBSET SUBSET Request /\ Q # {}
      BY <1>1
    <2> HIDE DEF Q
    <2> QED BY <1>1, <2>1, LeastSet
  <1>3. PICK f \in W : X = ahead[f]
    BY <1>2
  <1>4. PICK t \in S \ {f} : Blocks(t, f)
    BY <1>3 DEF Deadlocked
  <1>5. CASE \E g \in held[t] : Conflict(waits[f], g)
    BY <1>3, <1>4, <1>5
  <1>6. CASE t \in ahead[f] /\ Conflict(waits[f], waits[t])
    <2>1. waits[t].row = waits[r].row
      BY <1>3, <1>6 DEF Conflict
    <2>2. t \notin ahead[t] /\ ahead[t] \subseteq ahead[f]
      BY <1>3, <1>6 DEF LockInv, Queued
    <2>3. ahead[t] \in Q
      BY <1>4, <2>1
    <2> QED BY <1>2, <1>3, <1>6, <2>2, <2>3
  <1> QED BY <1>4, <1>5, <1>6 DEF Blocks

(* A later statement is on a later table, but for two appointments and for  *)
(* a row locked that is shared already.                                     *)
LEMMA TurnsAndTables ==
  ASSUME NEW s \in Statement, NEW t \in Statement, Turn(s) < Turn(t), Turn(t) < 8,
         ~(s = "child" /\ t = "application"), ~(s = "ignored" /\ t = "number")
  PROVE  \/ Rank(TableOf(s)) < Rank(TableOf(t))
         \/ TableOf(s) = "appointment" /\ TableOf(t) = "appointment"
  <1>1. CASE s \in {"ignored", "number"}
    BY <1>1 DEF Statement, Turn, TableOf, Rank
  <1>2. CASE s = "child"
    BY <1>2 DEF Statement, Turn, TableOf, Rank
  <1>3. CASE s = "application"
    BY <1>3 DEF Statement, Turn, TableOf, Rank
  <1>4. CASE s = "branch"
    BY <1>4 DEF Statement, Turn, TableOf, Rank
  <1>5. CASE s = "appointment"
    BY <1>5 DEF Statement, Turn, TableOf, Rank
  <1>6. CASE s = "day"
    BY <1>6 DEF Statement, Turn, TableOf, Rank
  <1>7. CASE s \in {"head", "routing", "event"}
    BY <1>7 DEF Statement, Turn, TableOf, Rank
  <1> QED BY <1>1, <1>2, <1>3, <1>4, <1>5, <1>6, <1>7 DEF Statement

(* A lock asked for is on a row of a later table than those held, but for   *)
(* the three known causes and for two appointments.                         *)
LEMMA InOrder ==
  ASSUME LockInv, NEW r \in Request, Waiting(r), NEW g \in held[r],
         ~LogsFirst(r), ~Upgrades(r)
  PROVE  \/ Rank(Table(g)) < Rank(Table(waits[r]))
         \/ Table(g) = "appointment" /\ Table(waits[r]) = "appointment"
  <1> DEFINE p == pos[r]
             st(i) == PlanOf(r)[i]
  <1>1. /\ p \in 1..Len(PlanOf(r)) /\ job[r] \in Job
        /\ PlanOf(r) = Plan(job[r].kind) /\ job[r].kind \in Kind
        /\ st(p) \in Statement /\ waits[r] \in Locks(st(p), job[r]) /\ ~Covered(waits[r], r)
    BY Asked
  <1>2. PICK i \in 1..p : st(i) \in Statement /\ g \in Locks(st(i), job[r])
    BY Held
  <1>3. Table(g) = TableOf(st(i)) /\ Table(waits[r]) = TableOf(st(p))
    BY <1>1, <1>2, LocksOf
  <1>4. CASE i = p /\ st(p) \in {"appointment", "day"}
    BY <1>3, <1>4 DEF TableOf
  <1>5. CASE i = p /\ st(p) \notin {"appointment", "day"}
    <2>1. g = waits[r]
      BY <1>1, <1>2, <1>5, LocksOf DEF Statement
    <2> QED BY <1>1, <2>1 DEF Covered
  <1>6. CASE i # p
    <2>1. \A n \in 1..(p - 1) : st(n) # "head"
      <3> SUFFICES ASSUME NEW n \in 1..(p - 1), st(n) = "head" PROVE FALSE
        OBVIOUS
      <3>1. n <= Len(PlanOf(r))
        BY <1>1
      <3> QED BY <3>1 DEF LockInv, KeepsLocks, LogsFirst
    <2>2. Turn(st(i)) < Turn(st(p)) /\ Turn(st(p)) < 8
      BY <1>1, <1>6, <2>1, PlansAreOrdered
    <2>3. CASE \/ st(i) = "child" /\ st(p) = "application"
               \/ st(i) = "ignored" /\ st(p) = "number"
      <3>1. g = Shared(waits[r].row)
        BY <1>1, <1>2, <2>3, LocksOf
      <3> QED BY <3>1 DEF Upgrades
    <2>4. CASE /\ ~(st(i) = "child" /\ st(p) = "application")
               /\ ~(st(i) = "ignored" /\ st(p) = "number")
      BY <1>1, <1>2, <1>3, <2>2, <2>4, TurnsAndTables
    <2> QED BY <2>3, <2>4
  <1> QED BY <1>4, <1>5, <1>6

(* Which appointments a statement locks.                                    *)
LEMMA Appointments ==
  ASSUME LockInv, NEW r \in Request, NEW i \in 1..Len(PlanOf(r)),
         NEW l \in Locks(PlanOf(r)[i], job[r]), Table(l) = "appointment"
  PROVE  /\ PlanOf(r)[i] \in {"appointment", "day"}
         /\ \E a \in App, b \in Branch : /\ l = Exclusive(Appointment(a, b))
                                         /\ PlanOf(r)[i] = "day" => b = job[r].place
                                         /\ PlanOf(r)[i] = "appointment" => a = job[r].app
  <1>1. job[r] \in Job /\ been \in [App -> SUBSET Branch]
    BY DEF LockInv, TypeOK
  <1>2. job[r].kind \in Kind /\ PlanOf(r) = Plan(job[r].kind) /\ PlanOf(r)[i] \in Statement
    BY <1>1, JobFields, PlanLength DEF PlanOf
  <1>3. TableOf(PlanOf(r)[i]) = "appointment"
    BY <1>1, <1>2, LocksOf
  <1>4. PlanOf(r)[i] \in {"appointment", "day"}
    BY <1>2, <1>3 DEF TableOf, Statement
  <1>5. job[r].app \in App /\ job[r].place \in Branch
    BY <1>1, <1>2, <1>4, JobFields, PlanFacts
  <1>6. CASE PlanOf(r)[i] = "appointment"
    BY <1>1, <1>2, <1>5, <1>6, LocksOf
  <1>7. CASE PlanOf(r)[i] = "day"
    BY <1>1, <1>2, <1>5, <1>7, LocksOf
  <1> QED BY <1>4, <1>6, <1>7

(* Who holds an appointment and waits for another one of the same branch    *)
(* has locked that branch.                                                  *)
LEMMA HoldsBranch ==
  ASSUME LockInv, NEW r \in Request, Waiting(r), NEW g \in held[r],
         ~LogsFirst(r), ~Upgrades(r), ~Crosses(r),
         Table(g) = "appointment", Table(waits[r]) = "appointment"
  PROVE  \E a \in App, c \in App, b \in Branch :
           /\ g = Exclusive(Appointment(a, b)) /\ waits[r].row = Appointment(c, b)
           /\ Exclusive(BranchRow(b)) \in held[r]
  <1> DEFINE p == pos[r]
             st(i) == PlanOf(r)[i]
  <1>1. /\ p \in 1..Len(PlanOf(r)) /\ job[r] \in Job
        /\ PlanOf(r) = Plan(job[r].kind) /\ job[r].kind \in Kind
        /\ st(p) \in Statement /\ waits[r] \in Locks(st(p), job[r]) /\ ~Covered(waits[r], r)
    BY Asked
  <1>2. PICK i \in 1..p : st(i) \in Statement /\ g \in Locks(st(i), job[r])
    BY Held
  <1>3. i \in 1..Len(PlanOf(r))
    BY <1>1
  <1>4. PICK a \in App, b \in Branch :
          /\ g = Exclusive(Appointment(a, b))
          /\ st(i) = "appointment" => a = job[r].app
    BY <1>2, <1>3, Appointments
  <1>5. PICK c \in App, d \in Branch :
          /\ waits[r] = Exclusive(Appointment(c, d))
          /\ st(p) = "day" => d = job[r].place
          /\ st(p) = "appointment" => c = job[r].app
    BY <1>1, Appointments
  <1>6. waits[r].row = Appointment(c, d) /\ b = d
    BY <1>4, <1>5, LockNames DEF Crosses
  <1>7. st(i) \in {"appointment", "day"} /\ st(p) \in {"appointment", "day"}
    BY <1>1, <1>2, <1>3, Appointments
  <1>8. st(p) = "day"
    <2> SUFFICES ASSUME st(p) = "appointment" PROVE FALSE
      BY <1>7
    <2>1. CASE i = p
      <3>1. g = waits[r]
        BY <1>4, <1>5, <1>6, <2>1
      <3> QED BY <1>1, <3>1 DEF Covered
    <2>2. CASE i # p
      <3>1. \A n \in 1..(p - 1) : st(n) # "head"
        <4> SUFFICES ASSUME NEW n \in 1..(p - 1), st(n) = "head" PROVE FALSE
          OBVIOUS
        <4>1. n <= Len(PlanOf(r))
          BY <1>1
        <4> QED BY <4>1 DEF LockInv, KeepsLocks, LogsFirst
      <3>2. Turn(st(i)) < Turn(st(p))
        BY <1>1, <2>2, <3>1, PlansAreOrdered
      <3> QED BY <1>7, <3>2 DEF Turn
    <2> QED BY <2>1, <2>2
  <1>9. Exclusive(BranchRow(b)) \in held[r]
    <2>1. PICK n \in 1..(p - 1) : st(n) = "branch"
      BY <1>1, <1>8, PlanFacts
    <2>2. n <= Len(PlanOf(r))
      BY <1>1
    <2> QED BY <1>5, <1>6, <1>8, <2>1, <2>2 DEF LockInv, KeepsLocks
  <1> QED BY <1>4, <1>6, <1>9

LEMMA KnownCause ==
  ASSUME LockInv PROVE CyclesAreKnown
  <1> SUFFICES ASSUME NEW S \in SUBSET Request, S # {}, Deadlocked(S),
                      \A r \in S : ~LogsFirst(r) /\ ~Upgrades(r) /\ ~Crosses(r)
               PROVE  FALSE
    BY DEF CyclesAreKnown
  <1> DEFINE rank(r) == Rank(Table(waits[r]))
  <1>1. \A r \in S : r \in Request /\ Waiting(r)
    BY DEF Deadlocked
  <1>2. \A r \in S : rank(r) \in 1..5
    <2> TAKE r \in S
    <2>1. Table(waits[r]) = TableOf(PlanOf(r)[pos[r]]) /\ PlanOf(r)[pos[r]] \in Statement
      BY <1>1, Asked, LocksOf
    <2> QED BY <2>1 DEF Rank, TableOf, Statement
  <1>3. PICK r \in S : \A s \in S : rank(s) <= rank(r)
    <2> HIDE DEF rank
    <2>1. CASE \E r \in S : rank(r) = 5
      BY <1>2, <2>1
    <2>2. CASE (\E r \in S : rank(r) = 4) /\ ~(\E r \in S : rank(r) = 5)
      BY <1>2, <2>2
    <2>3. CASE (\E r \in S : rank(r) = 3) /\ ~(\E r \in S : rank(r) \in 4..5)
      BY <1>2, <2>3
    <2>4. CASE (\E r \in S : rank(r) = 2) /\ ~(\E r \in S : rank(r) \in 3..5)
      BY <1>2, <2>4
    <2>5. CASE \A r \in S : rank(r) = 1
      BY <1>2, <2>5
    <2> QED BY <1>2, <2>1, <2>2, <2>3, <2>4, <2>5
  <1>4. ASSUME NEW q \in S, rank(q) = rank(r)
        PROVE  \E t \in S : \E g \in held[t] : /\ g.row = waits[q].row
                                               /\ Table(g) = "appointment"
                                               /\ Table(waits[t]) = "appointment"
    <2>1. PICK t \in S, f \in S : /\ t # f /\ waits[f].row = waits[q].row
                                  /\ \E g \in held[t] : Conflict(waits[f], g)
      BY Holders
    <2>2. PICK g \in held[t] : Conflict(waits[f], g)
      BY <2>1
    <2>3. g.row = waits[q].row /\ Table(g) = Table(waits[q])
      BY <2>1, <2>2 DEF Conflict, Table
    <2>4. rank(t) <= rank(q) /\ rank(t) \in 1..5 /\ rank(q) \in 1..5
      BY <1>2, <1>3, <1>4
    <2>5. ~(Rank(Table(g)) < rank(t))
      BY <2>3, <2>4
    <2> QED BY <1>1, <2>3, <2>5, InOrder
  <1>5. PICK t \in S : \E g \in held[t] : /\ g.row = waits[r].row
                                          /\ Table(g) = "appointment"
                                          /\ Table(waits[t]) = "appointment"
    BY <1>4
  <1>6. PICK c \in App, b \in Branch :
          waits[t].row = Appointment(c, b) /\ Exclusive(BranchRow(b)) \in held[t]
    BY <1>1, <1>5, HoldsBranch
  <1>7. rank(t) = rank(r)
    BY <1>5 DEF Table
  <1>8. PICK u \in S : \E h \in held[u] : /\ h.row = waits[t].row
                                          /\ Table(h) = "appointment"
                                          /\ Table(waits[u]) = "appointment"
    BY <1>4, <1>7
  <1>9. PICK h \in held[u] : h.row = waits[t].row /\ Table(h) = "appointment"
    BY <1>8
  <1>10. PICK a \in App, d \in Branch :
          h = Exclusive(Appointment(a, d)) /\ Exclusive(BranchRow(d)) \in held[u]
    BY <1>1, <1>8, <1>9, HoldsBranch
  <1>11. d = b /\ h.mode = "X"
    BY <1>6, <1>10, <1>9, LockNames, RowNames
  <1>12. u = t
    <2>1. Conflict(Exclusive(BranchRow(b)), Exclusive(BranchRow(b)))
      BY LockNames DEF Conflict
    <2> QED BY <1>1, <1>6, <1>10, <1>11, <2>1 DEF LockInv, TypeOK
  <1>13. Covered(waits[t], t)
    BY <1>11, <1>12, <1>9 DEF Covered
  <1> QED BY <1>1, <1>13, Asked

LEMMA LocalCause ==
  ASSUME LockInv PROVE CyclesAreLocal
  <1> SUFFICES ASSUME NEW S \in SUBSET Request, S # {}, Deadlocked(S),
                      \A r, s \in S : r # s => job[r].app # job[s].app,
                      \A r \in S : /\ waits[r].row[1] \notin {"branch", "appointment"}
                                   /\ waits[r].row[1] = "counter" => ~Upgrades(r)
               PROVE  FALSE
    BY DEF CyclesAreLocal
  <1>1. \A r \in S : r \in Request /\ Waiting(r)
    BY DEF Deadlocked
  <1>2. \A r \in S : /\ PlanOf(r)[pos[r]] \in Statement
                     /\ Table(waits[r]) = TableOf(PlanOf(r)[pos[r]])
                     /\ Table(waits[r]) \notin {"branch", "appointment"}
    BY <1>1, Asked, LocksOf DEF Table
  <1>3. ASSUME NEW r \in S, NEW g, g \in held[r] \/ g = waits[r], Table(g) = "application"
        PROVE  g.row = Application(job[r].app)
    <2>1. PICK st \in Statement : g \in Locks(st, job[r]) /\ job[r] \in Job
      BY <1>1, <1>3, Held, Asked
    <2>2. TableOf(st) = "application"
      BY <1>3, <2>1, LocksOf
    <2>3. st \in {"child", "event", "application"}
      BY <2>2 DEF TableOf, Statement
    <2> QED BY <2>1, <2>3, LocksOf
  <1>4. ASSUME NEW r \in S PROVE Table(waits[r]) # "application"
    <2> SUFFICES ASSUME Table(waits[r]) = "application" PROVE FALSE
      OBVIOUS
    <2>1. PICK t \in S, f \in S : /\ t # f /\ waits[f].row = waits[r].row
                                  /\ \E g \in held[t] : Conflict(waits[f], g)
      BY Holders
    <2>2. PICK g \in held[t] : g.row = waits[f].row
      BY <2>1 DEF Conflict
    <2>3. Table(g) = "application" /\ Table(waits[f]) = "application"
      BY <2>1, <2>2 DEF Table
    <2>4. Application(job[t].app) = Application(job[f].app)
      BY <1>3, <2>2, <2>3
    <2> QED BY <2>1, <2>4, RowNames
  (* Who waits for a counter, and has not shared it, holds nothing.         *)
  <1>5. ASSUME NEW t \in S, NEW g \in held[t] PROVE Table(waits[t]) # "counter"
    <2> SUFFICES ASSUME Table(waits[t]) = "counter" PROVE FALSE
      OBVIOUS
    <2> DEFINE st == PlanOf(t)[pos[t]]
    <2>1. st \in {"ignored", "number"}
      BY <1>2 DEF TableOf, Statement
    <2>2. job[t] \in Job /\ ~Covered(waits[t], t) /\ waits[t] \in Locks(st, job[t])
          /\ pos[t] \in 1..2 /\ PlanOf(t)[1] = "ignored" /\ (st = "number" => pos[t] = 2)
      BY <1>1, <2>1, Asked, PlanFacts
    <2>3. PICK i \in 1..pos[t] : PlanOf(t)[i] \in Statement /\ g \in Locks(PlanOf(t)[i], job[t])
      BY <1>1, Held
    <2>4. CASE PlanOf(t)[i] = st
      <3>1. g = waits[t] /\ st \in Statement
        BY <2>1, <2>2, <2>3, <2>4, LocksOf DEF Statement
      <3> QED BY <2>2, <3>1 DEF Covered
    <2>5. CASE PlanOf(t)[i] # st
      <3>1. PlanOf(t)[i] = "ignored" /\ st = "number"
        BY <2>1, <2>2, <2>3, <2>5
      <3>2. g = Shared(waits[t].row)
        BY <2>1, <2>2, <2>3, <3>1, LocksOf DEF Statement
      <3> QED BY <3>2 DEF Table, Upgrades
    <2> QED BY <2>4, <2>5
  <1>6. PICK t \in S, f \in S : t # f /\ \E g \in held[t] : Conflict(waits[f], g)
    BY Holders
  <1>7. PICK g \in held[t] : Conflict(waits[f], g)
    BY <1>6
  <1>8. Table(waits[t]) = "audit" /\ waits[t] \in Locks("head", job[t]) /\ job[t] \in Job
    <2>1. PlanOf(t)[pos[t]] = "head"
      BY <1>2, <1>4, <1>5 DEF TableOf, Statement
    <2> QED BY <1>1, <2>1, Asked, LocksOf DEF TableOf, Statement
  <1>9. PICK v \in S, w \in S : /\ v # w /\ waits[w].row = waits[t].row
                                /\ \E h \in held[v] : Conflict(waits[w], h)
    BY Holders
  <1>10. PICK h \in held[v] : h.row = waits[t].row
    BY <1>9 DEF Conflict
  <1>11. Table(waits[v]) = "audit" /\ waits[v] \in Locks("head", job[v]) /\ job[v] \in Job
    <2>1. PlanOf(v)[pos[v]] = "head"
      BY <1>2, <1>4, <1>5, <1>10 DEF TableOf, Statement
    <2> QED BY <1>1, <2>1, Asked, LocksOf DEF TableOf, Statement
  <1>12. h = waits[v]
    <2>1. PICK st \in Statement : h \in Locks(st, job[v])
      BY <1>1, Held
    <2>2. TableOf(st) = "audit"
      BY <1>8, <1>10, <1>11, <2>1, LocksOf DEF Table
    <2>3. st = "head"
      BY <2>2 DEF TableOf, Statement
    <2> QED BY <1>11, <2>1, <2>3, LocksOf
  <1> QED BY <1>1, <1>12, Asked DEF Covered

(* Every deadlock of the workflow's transactions, through queues as well as *)
(* through locks held, has one of three causes: an audit event logged       *)
(* before other rows are locked, the upgrade of the lock that an inserted   *)
(* row took on its application or its counter, a move between two branches. *)
THEOREM CyclesKnown == Spec => []CyclesAreKnown
  <1>1. LockInv => CyclesAreKnown
    BY KnownCause
  <1> QED BY <1>1, LockInvHolds, PTL

(* Two dossiers never block each other for good at the one audit head, and  *)
(* at a code counter only as two first saves that share its row: any other  *)
(* deadlock has two transactions about one dossier in it, or one that waits *)
(* for a branch or for an appointment.                                      *)
THEOREM CyclesLocal == Spec => []CyclesAreLocal
  <1>1. LockInv => CyclesAreLocal
    BY LocalCause
  <1> QED BY <1>1, LockInvHolds, PTL
=============================================================================
