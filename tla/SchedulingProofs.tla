-------------------------- MODULE SchedulingProofs --------------------------
(***************************************************************************)
(* Proofs about Scheduling, for every number of applications, branches,     *)
(* members of staff and requests in flight.                                 *)
(***************************************************************************)
EXTENDS Scheduling, SequenceTheorems, FiniteSetTheorems, TLAPS

-----------------------------------------------------------------------------
(* The statuses that the bank's side writes are statuses.                   *)
LEMMA BankStatuses ==
  {"SUBMITTED", "STAFF_APPROVED", "STAFF_REJECTED", "REJECTED", "CANCELLED",
   "APPOINTMENT_PROPOSED", "APPOINTMENT_CONFIRMED"} \subseteq Status
  BY DEF Status, Position

(* What the transition table lets a member of staff do.                     *)
LEMMA StaffMoves ==
  ASSUME NEW role \in StaffRole, NEW from, NEW to, CanMove(from, to, role)
  PROVE  \/ from = "SUBMITTED" /\ to \in {"STAFF_APPROVED", "STAFF_REJECTED", "CANCELLED"}
         \/ from = "STAFF_APPROVED"
              /\ to \in {"APPROVED", "REJECTED", "CANCELLED"} \cup AppointmentStage
         \/ from \in {"APPROVED", "APPOINTMENT_PROPOSED"} /\ to \in AppointmentStage
         \/ from \in {"APPOINTMENT_CONFIRMED", "APPOINTMENT_LOCKED"}
              /\ to \in {"APPOINTMENT_CONFIRMED", "APPOINTMENT_PROPOSED"}
  <1>1. PICK kind \in Satisfies(role) : <<from, to, kind>> \in Transitions
    BY DEF CanMove
  <1>2. kind \in {"staff", "admin"}
    BY <1>1 DEF Satisfies, StaffRole
  <1> QED
    BY <1>1, <1>2 DEF Transitions, AppointmentStage

(* Appending a row.                                                         *)
LEMMA AppendRow ==
  ASSUME NEW rows \in Seq(Offer), NEW e \in Offer
  PROVE  /\ Append(rows, e) \in Seq(Offer)
         /\ Append(rows, e) # <<>>
         /\ Len(Append(rows, e)) = Len(rows) + 1
         /\ DOMAIN Append(rows, e) = 1..(Len(rows) + 1)
         /\ Append(rows, e)[Len(rows) + 1] = e
         /\ \A i \in 1..Len(rows) : Append(rows, e)[i] = rows[i]
  OBVIOUS

(* Cancelling the active rows leaves as many rows, none of them active.     *)
LEMMA CancelActiveRows ==
  ASSUME NEW rows \in Seq(Offer)
  PROVE  /\ CancelActive(rows) \in Seq(Offer)
         /\ Len(CancelActive(rows)) = Len(rows)
         /\ \A i \in DOMAIN CancelActive(rows) : ~Active(CancelActive(rows)[i])
  <1>1. DOMAIN rows = 1..Len(rows) /\ Len(rows) \in Nat
    BY LenProperties
  <1>2. \A i \in 1..Len(rows) : rows[i] \in Offer
    BY ElementOfSeq
  <1>3. \A i \in 1..Len(rows) : [rows[i] EXCEPT !.status = "cancelled"] \in Offer
    BY <1>2 DEF Offer, OfferStatus
  <1>4. CancelActive(rows) \in [1..Len(rows) -> Offer]
    BY <1>1, <1>2, <1>3 DEF CancelActive
  <1>5. \A i \in 1..Len(rows) : ~Active(CancelActive(rows)[i])
    <2> SUFFICES ASSUME NEW i \in 1..Len(rows) PROVE ~Active(CancelActive(rows)[i])
      OBVIOUS
    <2>1. CASE Active(rows[i])
      <3>1. CancelActive(rows)[i] = [rows[i] EXCEPT !.status = "cancelled"]
        BY <1>1, <2>1 DEF CancelActive
      <3>2. CancelActive(rows)[i].status = "cancelled"
        BY <1>2, <3>1 DEF Offer
      <3> QED BY <3>2 DEF Active
    <2>2. CASE ~Active(rows[i])
      BY <1>1, <2>2 DEF CancelActive
    <2> QED BY <2>1, <2>2
  <1>6. CancelActive(rows) \in Seq(Offer)
    BY <1>1, <1>4, SeqDef
  <1>7. Len(CancelActive(rows)) = Len(rows)
    BY <1>1, <1>4, <1>6, LenProperties
  <1> QED BY <1>4, <1>5, <1>6, <1>7

-----------------------------------------------------------------------------
(* Requests in flight.                                                      *)
LEMMA MessageFields ==
  ASSUME NEW m \in Message
  PROVE  /\ m.app \in App /\ m.attempt \in Nat
         /\ m.op \in CustomerOp => m.by = Customer /\ m.attempt # 0
         /\ m.op \in StaffOp => m.by \in Staff /\ RoleOf(m.by) \in StaffRole
  <1>1. m.app \in App /\ m.attempt \in Nat
    BY DEF Message
  <1>2. m.op \in CustomerOp => m.by = Customer /\ m.attempt # 0
    BY DEF Message, CustomerOp, StaffOp
  <1>3. m.op \in StaffOp => m.by \in Staff
    BY DEF Message, CustomerOp, StaffOp
  <1>4. \A s \in Staff : RoleOf(s) \in StaffRole
    BY StaffAssumption DEF RoleOf
  <1> QED BY <1>1, <1>2, <1>3, <1>4

(* An automatic proposal appends one proposed row, at the branch given, in  *)
(* a slot no other application holds.                                       *)
LEMMA ProposalAppends ==
  ASSUME NEW o \in [App -> Seq(Offer)], NEW a \in App, NEW b \in Branch, NEW n \in Nat,
         ProposeNext(o, a, b, n)
  PROVE  \E e \in Offer :
           /\ offers' = [o EXCEPT ![a] = Append(o[a], e)]
           /\ e.status = "proposed" /\ e.branch = b /\ e.resched = n
           /\ ~SlotOccupied(o, b, e.day, e.time)
           /\ ~PreviouslyOffered(o, a, e.day, e.time)
           /\ Cardinality(BookedOn(o, b, e.day)) < Capacity[b]
  <1>1. PICK d \in Day, k \in DOMAIN SlotTimes[b] :
          /\ n <= MaxReschedules
          /\ IsNextSlot(o, a, b, d, k)
          /\ offers' = [o EXCEPT ![a] = Append(@,
               [branch |-> b, day |-> d, time |-> SlotTimes[b][k], status |-> "proposed",
                resched |-> n])]
    BY DEF ProposeNext
  <1> DEFINE e == [branch |-> b, day |-> d, time |-> SlotTimes[b][k], status |-> "proposed",
                   resched |-> n]
  <1>2. SlotTimes[b][k] \in Time
    <2>1. SlotTimes[b] \in Seq(Time)
      BY BranchAssumption
    <2> QED BY <2>1, LenProperties, ElementOfSeq
  <1>3. n \in 0..MaxReschedules
    BY <1>1, BoundAssumption
  <1>4. e \in Offer
    BY <1>2, <1>3 DEF Offer, OfferStatus
  <1>5. /\ ~SlotOccupied(o, b, d, SlotTimes[b][k])
        /\ ~PreviouslyOffered(o, a, d, SlotTimes[b][k])
        /\ Cardinality(BookedOn(o, b, d)) < Capacity[b]
    BY <1>1 DEF IsNextSlot, IsFree
  <1>6. offers' = [o EXCEPT ![a] = Append(o[a], e)]
    BY <1>1
  <1> QED BY <1>4, <1>5, <1>6

(* An appointment fixed by hand appends one row to the cancelled ones.      *)
LEMMA ManualAppends ==
  ASSUME NEW m \in Message, NEW b \in Branch, NEW d \in Day, NEW t \in Time,
         NEW direct \in BOOLEAN, ScheduleManual(m, b, d, t, direct)
  PROVE  \E e \in Offer :
           /\ offers' = [offers EXCEPT ![m.app] = Append(CancelActive(offers[m.app]), e)]
           /\ e.branch = b /\ e.day = d /\ e.time = t
           /\ e.status = IF direct THEN "accepted" ELSE "proposed"
           /\ IsMaxResched(m.app, e.resched)
  <1> DEFINE s == IF direct THEN "accepted" ELSE "proposed"
  <1>1. PICK n \in 0..MaxReschedules :
          /\ IsMaxResched(m.app, n)
          /\ offers' = [offers EXCEPT ![m.app] = Append(CancelActive(@),
               [branch |-> b, day |-> d, time |-> t, status |-> s, resched |-> n])]
    BY DEF ScheduleManual
  <1> DEFINE e == [branch |-> b, day |-> d, time |-> t, status |-> s, resched |-> n]
  <1>2. /\ e \in Offer /\ e.branch = b /\ e.day = d /\ e.time = t /\ e.status = s
        /\ e.resched = n
    BY DEF Offer, OfferStatus
  <1>3. offers' = [offers EXCEPT ![m.app] = Append(CancelActive(offers[m.app]), e)]
    BY <1>1
  <1> QED BY <1>1, <1>2, <1>3

(* Changing the status of one row.                                          *)
LEMMA DecideRow ==
  ASSUME NEW rows \in Seq(Offer), NEW n \in 1..Len(rows), NEW s \in OfferStatus
  PROVE  /\ [rows EXCEPT ![n].status = s] \in Seq(Offer)
         /\ Len([rows EXCEPT ![n].status = s]) = Len(rows)
         /\ [rows EXCEPT ![n].status = s][n] = [rows[n] EXCEPT !.status = s]
         /\ \A i \in 1..Len(rows) : i # n => [rows EXCEPT ![n].status = s][i] = rows[i]
  <1>1. rows[n] \in Offer
    BY ElementOfSeq
  <1>2. [rows[n] EXCEPT !.status = s] \in Offer
    BY <1>1 DEF Offer
  <1>3. [rows EXCEPT ![n].status = s] = [rows EXCEPT ![n] = [rows[n] EXCEPT !.status = s]]
    OBVIOUS
  <1> HIDE DEF Offer
  <1> QED BY <1>2, <1>3, ExceptSeq

-----------------------------------------------------------------------------
(* Type correctness.                                                        *)
LEMMA InitType == BankInit => BankTypeOK
  <1> SUFFICES ASSUME BankInit PROVE BankTypeOK
    OBVIOUS
  <1> USE DEF BankInit, BankIdle
  <1>1. status \in [App -> Status]
    BY BankStatuses
  <1>2. branchOf \in [App -> Branch \cup {NoBranch}]
    BY BranchAssumption DEF RoutedTo
  <1>3. offers \in [App -> Seq(Offer)]
    BY EmptySeq
  <1>4. today \in Day
    BY BoundAssumption DEF Day
  <1> QED BY <1>1, <1>2, <1>3, <1>4 DEF BankTypeOK

(* Every request, admission, refusal and the passing of a day keep the      *)
(* types.                                                                   *)
LEMMA TypeStep == BankTypeOK /\ [BankNext]_bankAllVars => BankTypeOK'
  <1> SUFFICES ASSUME BankTypeOK, [BankNext]_bankAllVars PROVE BankTypeOK'
    OBVIOUS
  <1> USE DEF BankTypeOK
  <1>1. ASSUME NEW s \in Staff, NEW a \in App, NEW op \in StaffOp, AdmitStaff(s, a, op)
        PROVE  BankTypeOK'
    <2>1. [by |-> s, app |-> a, op |-> op, attempt |-> 0] \in Message
      BY DEF Message
    <2> QED BY <1>1, <2>1 DEF AdmitStaff
  <1>2. ASSUME NEW a \in App, NEW op \in CustomerOp, AdmitCustomer(a, op)
        PROVE  BankTypeOK'
    <2>1. Len(offers[a]) \in Nat \ {0}
      BY <1>2, EmptySeq DEF AdmitCustomer
    <2>2. [by |-> Customer, app |-> a, op |-> op, attempt |-> Len(offers[a])] \in Message
      BY <2>1 DEF Message
    <2> QED BY <1>2, <2>2 DEF AdmitCustomer
  <1>3. ASSUME NEW m \in inflight, Transact(m) PROVE BankTypeOK'
    <2> m \in Message /\ m.app \in App /\ m.attempt \in Nat
      BY MessageFields
    <2>1. CASE StaffApprove(m)
      BY <2>1, BankStatuses, BranchAssumption DEF StaffApprove, Moves
    <2>2. CASE StaffReject(m)
      BY <2>2, BankStatuses DEF StaffReject, Moves
    <2>3. CASE StaffCancel(m)
      <3>1. CancelActive(offers[m.app]) \in Seq(Offer)
        BY CancelActiveRows
      <3>2. offers' = [offers EXCEPT ![m.app] = CancelActive(offers[m.app])]
        BY <2>3 DEF StaffCancel
      <3> HIDE DEF BankTypeOK
      <3>3. offers' \in [App -> Seq(Offer)]
        BY <3>1, <3>2 DEF BankTypeOK
      <3> QED BY <2>3, <3>3, BankStatuses DEF StaffCancel, Moves, BankTypeOK
    <2>4. CASE AdminApprove(m)
      <3> DEFINE n == IF offers[m.app] = <<>> THEN 0 ELSE Latest(offers, m.app).resched
      <3>1. PICK b \in Branch : ProposeNext(offers, m.app, b, n)
        BY <2>4 DEF AdminApprove
      <3>2. n \in Nat
        <4>1. CASE offers[m.app] # <<>>
          <5>1. Latest(offers, m.app) \in Offer
            BY <4>1, EmptySeq, ElementOfSeq DEF Latest
          <5> QED BY <4>1, <5>1, BoundAssumption DEF Offer
        <4> QED BY <4>1
      <3>3. PICK e \in Offer : offers' = [offers EXCEPT ![m.app] = Append(offers[m.app], e)]
        <4> HIDE DEF n
        <4>1. offers \in [App -> Seq(Offer)]
          OBVIOUS
        <4> HIDE DEF BankTypeOK
        <4> QED BY ONLY <4>1, <3>1, <3>2, m.app \in App, ProposalAppends
      <3>4. offers' \in [App -> Seq(Offer)]
        BY <3>3, AppendRow
      <3> QED BY <2>4, <3>4, BankStatuses DEF AdminApprove
    <2>5. CASE AdminReject(m)
      BY <2>5, BankStatuses DEF AdminReject, Moves
    <2>6. CASE Accept(m)
      <3>1. m.attempt \in 1..Len(offers[m.app])
        BY <2>6, MessageFields, LenProperties DEF Accept, IsCurrentAndProposed, CustomerOp
      <3>2. [offers[m.app] EXCEPT ![m.attempt].status = "accepted"] \in Seq(Offer)
        BY <3>1, DecideRow DEF OfferStatus
      <3>3. offers' \in [App -> Seq(Offer)]
        BY <2>6, <3>2 DEF Accept
      <3> QED BY <2>6, <3>3, BankStatuses DEF Accept, Moves
    <2>7. CASE Reject(m)
      <3> DEFINE o == [offers EXCEPT ![m.app][m.attempt].status = "rejected"]
      <3>1. m.attempt \in 1..Len(offers[m.app])
        BY <2>7, MessageFields, LenProperties DEF Reject, IsCurrentAndProposed, CustomerOp
      <3>2. [offers[m.app] EXCEPT ![m.attempt].status = "rejected"] \in Seq(Offer)
        BY <3>1, DecideRow DEF OfferStatus
      <3>3. o \in [App -> Seq(Offer)]
        BY <3>2
      <3>4. offers[m.app][m.attempt] \in Offer
        BY <3>1, ElementOfSeq
      <3> DEFINE b == offers[m.app][m.attempt].branch
                 n == offers[m.app][m.attempt].resched + 1
      <3>5. b \in Branch /\ n \in Nat
        BY <3>4, BoundAssumption DEF Offer
      <3>6. ProposeNext(o, m.app, b, n)
        BY <2>7 DEF Reject
      <3>7. PICK e \in Offer : offers' = [o EXCEPT ![m.app] = Append(o[m.app], e)]
        <4> HIDE DEF o, b, n
        <4> QED BY ONLY <3>3, <3>5, <3>6, m.app \in App, ProposalAppends
      <3>8. offers' \in [App -> Seq(Offer)]
        <4> HIDE DEF o
        <4> QED BY <3>3, <3>7, AppendRow
      <3> QED BY <2>7, <3>8, BankStatuses DEF Reject, Moves
    <2>8. ASSUME NEW b \in Branch, NEW d \in Day, NEW t \in Time, NEW direct \in BOOLEAN,
                 ScheduleManual(m, b, d, t, direct)
          PROVE  BankTypeOK'
      <3>1. PICK e \in Offer :
              offers' = [offers EXCEPT ![m.app] = Append(CancelActive(offers[m.app]), e)]
        BY ONLY <2>8, m \in Message, ManualAppends
      <3>2. offers' \in [App -> Seq(Offer)]
        BY <3>1, AppendRow, CancelActiveRows
      <3>3. status' \in [App -> Status]
        BY <2>8, BankStatuses DEF ScheduleManual, Moves
      <3>4. branchOf' \in [App -> Branch \cup {NoBranch}]
        BY <2>8 DEF ScheduleManual, Reroutes
      <3>5. inflight' \subseteq Message
        BY <2>8 DEF ScheduleManual, Moves
      <3> QED BY <2>8, <3>2, <3>3, <3>4, <3>5 DEF ScheduleManual
    <2>9. CASE Refuse(m)
      BY <2>9 DEF Refuse
    <2> QED BY <1>3, <2>1, <2>2, <2>3, <2>4, <2>5, <2>6, <2>7, <2>8, <2>9 DEF Transact
  <1>4. CASE ConfigureBranches
    BY <1>4 DEF ConfigureBranches
  <1>5. CASE NextDay
    BY <1>5, BoundAssumption DEF NextDay, Day
  <1>6. CASE UNCHANGED bankAllVars
    BY <1>6 DEF bankAllVars
  <1> QED BY <1>1, <1>2, <1>3, <1>4, <1>5, <1>6 DEF BankNext

(* The rows the requests write, whatever order they run in, are rows the    *)
(* columns admit.                                                           *)
THEOREM BankTypeCorrect == BankSpec => []BankTypeOK
  <1>1. BankInit => BankTypeOK
    BY InitType
  <1>2. BankTypeOK /\ [BankNext]_bankAllVars => BankTypeOK'
    BY TypeStep
  <1> QED BY <1>1, <1>2, PTL DEF BankSpec

-----------------------------------------------------------------------------
(* The invariant.  Three lemmas say what a step does to it: a decision      *)
(* without an appointment, a new appointment, and an accepted one.          *)

(* One application holds the active appointment and has not been cancelled. *)
LEMMA ActiveIsLatest ==
  ASSUME BankInv, NEW a \in App, NEW i \in DOMAIN offers[a], Active(offers[a][i])
  PROVE  /\ offers[a] # <<>> /\ i = Len(offers[a])
         /\ status[a] \in {"APPOINTMENT_PROPOSED", "APPOINTMENT_CONFIRMED"}
  <1>1. i = Len(offers[a])
    BY DEF BankInv, OnlyLatestActive
  <1>2. offers[a] \in Seq(Offer)
    BY DEF BankInv, BankTypeOK
  <1>3. offers[a] # <<>>
    BY <1>2, LenProperties
  <1> QED BY <1>1, <1>3 DEF BankInv, StatusMatchesOffer, Latest, Active

(* Nothing about applications, appointments and branches changes, and a     *)
(* request is admitted with access or leaves.                               *)
LEMMA KeepsInv ==
  ASSUME BankInv, BankTypeOK', UNCHANGED <<status, offers, branchOf>>,
         \A m \in inflight' : m \in inflight \/ m.by = Customer \/ CanAccess(m.by, m.app)
  PROVE  BankInv'
  <1>1. OnlyLatestActive'
    BY DEF BankInv, OnlyLatestActive
  <1>2. StatusMatchesOffer'
    BY DEF BankInv, StatusMatchesOffer, Latest
  <1>3. SlotExclusive'
    BY DEF BankInv, SlotExclusive
  <1>4. OfferAtOwnBranch'
    BY DEF BankInv, OfferAtOwnBranch
  <1>5. UndecidedUntouched'
    BY DEF BankInv, UndecidedUntouched, Undecided, CanAccess, IsBranchRestricted
  <1> QED BY <1>1, <1>2, <1>3, <1>4, <1>5 DEF BankInv

(* A decision: a leaves or advances its undecided status, no appointment is *)
(* touched, and at most a dossier without branch gets one.                  *)
LEMMA DecisionKeepsInv ==
  ASSUME BankInv, BankTypeOK',
         NEW a \in App, Undecided(a),
         NEW to \in {"STAFF_APPROVED", "STAFF_REJECTED", "REJECTED", "CANCELLED"},
         status' = [status EXCEPT ![a] = to], offers' = offers, inflight' \subseteq inflight,
         \A x \in App : branchOf'[x] # branchOf[x] => x = a /\ branchOf[x] = NoBranch
  PROVE  BankInv'
  <1>1. /\ status \in [App -> Status] /\ inflight \subseteq Message
    BY DEF BankInv, BankTypeOK
  <1>2. offers[a] = <<>>
    BY DEF BankInv, UndecidedUntouched
  <1>3. \A x \in App : status'[x] = IF x = a THEN to ELSE status[x]
    BY <1>1
  <1>4. OnlyLatestActive' /\ SlotExclusive'
    BY DEF BankInv, OnlyLatestActive, SlotExclusive
  <1>5. StatusMatchesOffer'
    BY <1>2, <1>3 DEF BankInv, StatusMatchesOffer, Latest
  <1>6. OfferAtOwnBranch'
    BY <1>2 DEF BankInv, OfferAtOwnBranch
  <1>7. UndecidedUntouched'
    <2>1. \A x \in App : Undecided(x)' => offers'[x] = <<>>
      BY <1>2, <1>3 DEF BankInv, UndecidedUntouched, Undecided
    <2>2. ASSUME NEW m \in inflight', m.by # Customer, Undecided(m.app)'
          PROVE  CanAccess(m.by, m.app)'
      <3>1. m \in inflight /\ m.app \in App
        BY <1>1, <2>2, MessageFields
      <3>2. CanAccess(m.by, m.app)
        BY <1>3, <2>2, <3>1 DEF BankInv, UndecidedUntouched, Undecided
      <3>3. ~IsBranchRestricted(m.by) \/ branchOf'[m.app] = branchOf[m.app]
        BY <3>1, <3>2 DEF CanAccess
      <3> QED BY <3>2, <3>3 DEF CanAccess, IsBranchRestricted
    <2> QED BY <2>1, <2>2 DEF UndecidedUntouched
  <1> QED BY <1>4, <1>5, <1>6, <1>7 DEF BankInv

(* An appointment: a gets the row e after rows none of which is active, in  *)
(* a slot that no other application holds.                                  *)
HeldByNoOther(a, b, d, t) ==
  \A x \in App \ {a} : \A i \in DOMAIN offers[x] :
    Active(offers[x][i]) => \/ offers[x][i].branch # b
                            \/ offers[x][i].day # d
                            \/ offers[x][i].time # t

Books(a, rows, e, to) ==
  /\ \A i \in DOMAIN rows : ~Active(rows[i])
  /\ \/ e.status = "proposed" /\ to = "APPOINTMENT_PROPOSED"
     \/ e.status = "accepted" /\ to = "APPOINTMENT_CONFIRMED"
  /\ HeldByNoOther(a, e.branch, e.day, e.time)
  /\ status' = [status EXCEPT ![a] = to]
  /\ offers' = [offers EXCEPT ![a] = Append(rows, e)]
  /\ inflight' \subseteq inflight
  /\ branchOf'[a] \in {NoBranch, e.branch}
  /\ \A x \in App \ {a} : branchOf'[x] = branchOf[x]

(* A new appointment of a: the earlier ones are no longer active, and no    *)
(* other application holds its slot.                                        *)
LEMMA BookingKeepsInv ==
  ASSUME BankInv, BankTypeOK',
         NEW a \in App, NEW rows \in Seq(Offer), NEW e \in Offer, NEW to,
         Books(a, rows, e, to)
  PROVE  BankInv'
  <1> USE DEF Books, HeldByNoOther
  <1>1. /\ status \in [App -> Status] /\ inflight \subseteq Message
        /\ offers \in [App -> Seq(Offer)]
    BY DEF BankInv, BankTypeOK
  <1> DEFINE new == Append(rows, e)
  <1>2. /\ new # <<>> /\ new[Len(new)] = e /\ Len(new) \in Nat
        /\ \A i \in DOMAIN new : i # Len(new) => ~Active(new[i])
    <2>1. Len(rows) \in Nat /\ DOMAIN rows = 1..Len(rows)
      BY LenProperties
    <2>2. /\ new # <<>> /\ Len(new) = Len(rows) + 1
          /\ DOMAIN new = 1..(Len(rows) + 1)
          /\ new[Len(rows) + 1] = e
          /\ \A i \in 1..Len(rows) : new[i] = rows[i]
      BY AppendRow
    <2>3. \A i \in 1..(Len(rows) + 1) : i # Len(rows) + 1 => i \in 1..Len(rows)
      BY <2>1
    <2> HIDE DEF new
    <2> QED BY <2>1, <2>2, <2>3
  <1>3. \A x \in App : status'[x] = IF x = a THEN to ELSE status[x]
    BY <1>1
  <1>4. offers'[a] = new /\ \A x \in App \ {a} : offers'[x] = offers[x]
    BY <1>1
  <1> HIDE DEF new
  <1>5. OnlyLatestActive'
    BY <1>2, <1>4 DEF BankInv, OnlyLatestActive
  <1>6. StatusMatchesOffer'
    BY SMTT(20), <1>2, <1>3, <1>4 DEF BankInv, StatusMatchesOffer, Latest
  <1>7. SlotExclusive'
    <2> SUFFICES ASSUME NEW y \in App, NEW x \in App, y # x,
                        NEW j \in DOMAIN offers'[y], NEW i \in DOMAIN offers'[x],
                        Active(offers'[y][j]), Active(offers'[x][i])
                 PROVE  \/ offers'[y][j].branch # offers'[x][i].branch
                        \/ offers'[y][j].day # offers'[x][i].day
                        \/ offers'[y][j].time # offers'[x][i].time
      BY DEF SlotExclusive
    <2>1. CASE y = a
      <3>1. offers'[y][j] = e
        BY <1>2, <1>4, <2>1
      <3>2. offers'[x] = offers[x] /\ x \in App \ {a}
        BY <1>4, <2>1
      <3> QED BY <3>1, <3>2
    <2>2. CASE x = a
      <3>1. offers'[x][i] = e
        BY <1>2, <1>4, <2>2
      <3>2. offers'[y] = offers[y] /\ y \in App \ {a}
        BY <1>4, <2>2
      <3> QED BY <3>1, <3>2
    <2>3. CASE y # a /\ x # a
      BY <1>4, <2>3 DEF BankInv, SlotExclusive
    <2> QED BY <2>1, <2>2, <2>3
  <1>8. OfferAtOwnBranch'
    BY <1>2, <1>4 DEF BankInv, OfferAtOwnBranch
  <1>9. UndecidedUntouched'
    <2>1. ~Undecided(a)' /\ \A x \in App : Undecided(x)' => x # a /\ Undecided(x)
      BY <1>3 DEF Undecided
    <2>2. \A x \in App : Undecided(x)' => offers'[x] = <<>>
      BY <1>4, <2>1 DEF BankInv, UndecidedUntouched
    <2>3. ASSUME NEW m \in inflight', m.by # Customer, Undecided(m.app)'
          PROVE  CanAccess(m.by, m.app)'
      <3>1. m \in inflight /\ m.app \in App
        BY <1>1, <2>3, MessageFields
      <3>2. CanAccess(m.by, m.app) /\ branchOf'[m.app] = branchOf[m.app]
        BY <2>1, <2>3, <3>1 DEF BankInv, UndecidedUntouched
      <3> QED BY <3>2 DEF CanAccess, IsBranchRestricted
    <2> QED BY <2>2, <2>3 DEF UndecidedUntouched
  <1> QED BY <1>5, <1>6, <1>7, <1>8, <1>9 DEF BankInv

(* An acceptance: the status of the latest, proposed row becomes accepted.  *)
LEMMA AcceptKeepsInv ==
  ASSUME BankInv, BankTypeOK', NEW m \in inflight, Accept(m)
  PROVE  BankInv'
  <1> DEFINE a == m.app
             n == m.attempt
             new == [offers[a] EXCEPT ![n].status = "accepted"]
  <1>1. /\ status \in [App -> Status] /\ inflight \subseteq Message
        /\ offers \in [App -> Seq(Offer)]
    BY DEF BankInv, BankTypeOK
  <1>2. m \in Message /\ a \in App /\ n \in Nat \ {0}
    BY <1>1, MessageFields DEF Accept, CustomerOp
  <1>3. n = Len(offers[a]) /\ offers[a][n].status = "proposed" /\ n \in 1..Len(offers[a])
    BY <1>2 DEF Accept, IsCurrentAndProposed
  <1>4. /\ new \in Seq(Offer) /\ Len(new) = n /\ DOMAIN new = DOMAIN offers[a]
        /\ new[n] = [offers[a][n] EXCEPT !.status = "accepted"]
        /\ \A i \in 1..n : i # n => new[i] = offers[a][i]
    <2>1. offers[a] \in Seq(Offer) /\ "accepted" \in OfferStatus
      BY <1>1, <1>2 DEF OfferStatus
    <2>2. /\ new \in Seq(Offer) /\ Len(new) = Len(offers[a])
          /\ new[n] = [offers[a][n] EXCEPT !.status = "accepted"]
          /\ \A i \in 1..Len(offers[a]) : i # n => new[i] = offers[a][i]
      BY ONLY <1>3, <2>1, DecideRow
    <2> HIDE DEF new
    <2> QED BY <1>3, <2>1, <2>2, LenProperties
  <1>5. offers[a][n] \in Offer /\ DOMAIN offers[a] = 1..n
    BY <1>1, <1>2, <1>3, ElementOfSeq, LenProperties
  <1>6. /\ new[n].status = "accepted" /\ new[n].branch = offers[a][n].branch
        /\ new[n].day = offers[a][n].day /\ new[n].time = offers[a][n].time
    BY <1>4, <1>5 DEF Offer
  <1>7. offers'[a] = new /\ \A x \in App \ {a} : offers'[x] = offers[x]
    BY <1>1, <1>2 DEF Accept
  <1>8. /\ \A x \in App : status'[x] = IF x = a THEN "APPOINTMENT_CONFIRMED" ELSE status[x]
        /\ branchOf' = branchOf /\ inflight' \subseteq inflight
    BY <1>1, <1>2 DEF Accept, Moves
  <1>9. new # <<>> /\ offers[a] # <<>>
    BY <1>2, <1>3, <1>4
  <1> HIDE DEF new
  (* What was active before has the same slot now, and nothing else is.     *)
  <1>10. ASSUME NEW x \in App, NEW i \in DOMAIN offers'[x], Active(offers'[x][i])
         PROVE  /\ i \in DOMAIN offers[x] /\ Active(offers[x][i])
                /\ offers'[x][i].branch = offers[x][i].branch
                /\ offers'[x][i].day = offers[x][i].day
                /\ offers'[x][i].time = offers[x][i].time
                /\ Len(offers'[x]) = Len(offers[x])
    <2>1. CASE x # a
      BY <1>7, <1>10, <2>1
    <2>2. CASE x = a /\ i = n
      BY <1>3, <1>4, <1>5, <1>6, <1>7, <1>10, <2>2 DEF Active
    <2>3. CASE x = a /\ i # n
      <3>1. i \in 1..n /\ new[i] = offers[a][i]
        BY <1>4, <1>5, <1>7, <1>10, <2>3
      <3> QED BY <1>3, <1>4, <1>5, <1>7, <1>10, <2>3, <3>1
    <2> QED BY <2>1, <2>2, <2>3
  <1>11. OnlyLatestActive'
    BY <1>10 DEF BankInv, OnlyLatestActive
  <1>12. StatusMatchesOffer'
    <2>1. Latest(offers', a) = new[n]
      BY <1>4, <1>7 DEF Latest
    <2> QED BY <1>6, <1>7, <1>8, <1>9, <2>1 DEF BankInv, StatusMatchesOffer, Latest
  <1>13. SlotExclusive'
    <2> SUFFICES ASSUME NEW y \in App, NEW x \in App, y # x,
                        NEW j \in DOMAIN offers'[y], NEW i \in DOMAIN offers'[x],
                        Active(offers'[y][j]), Active(offers'[x][i])
                 PROVE  \/ offers'[y][j].branch # offers'[x][i].branch
                        \/ offers'[y][j].day # offers'[x][i].day
                        \/ offers'[y][j].time # offers'[x][i].time
      BY DEF SlotExclusive
    <2> QED BY SMTT(20), <1>10 DEF BankInv, SlotExclusive
  <1>14. OfferAtOwnBranch'
    BY <1>8, <1>10 DEF BankInv, OfferAtOwnBranch
  <1>15. UndecidedUntouched'
    <2>1. ~Undecided(a)' /\ \A x \in App : Undecided(x)' => x # a /\ Undecided(x)
      BY <1>2, <1>8 DEF Undecided
    <2>2. \A x \in App : Undecided(x)' => offers'[x] = <<>>
      BY <1>7, <2>1 DEF BankInv, UndecidedUntouched
    <2>3. ASSUME NEW q \in inflight', q.by # Customer, Undecided(q.app)'
          PROVE  CanAccess(q.by, q.app)'
      <3>1. q \in inflight /\ q.app \in App
        BY <1>1, <1>8, MessageFields
      <3> QED BY <1>8, <2>1, <2>3, <3>1
              DEF BankInv, UndecidedUntouched, CanAccess, IsBranchRestricted
    <2> QED BY <2>2, <2>3 DEF UndecidedUntouched
  <1> QED BY <1>11, <1>12, <1>13, <1>14, <1>15 DEF BankInv

(* A slot found free by the automatic search is held by no other            *)
(* application: an active appointment belongs to one not cancelled.         *)
LEMMA FreeSlotIsUnheld ==
  ASSUME BankInv, NEW a \in App, NEW o \in [App -> Seq(Offer)],
         \A x \in App \ {a} : o[x] = offers[x],
         NEW b, NEW d, NEW t, ~SlotOccupied(o, b, d, t)
  PROVE  HeldByNoOther(a, b, d, t)
  <1> SUFFICES ASSUME NEW x \in App \ {a}, NEW i \in DOMAIN offers[x], Active(offers[x][i])
               PROVE  offers[x][i].branch # b \/ offers[x][i].day # d \/ offers[x][i].time # t
    BY DEF HeldByNoOther
  <1>1. status[x] # "CANCELLED"
    BY ActiveIsLatest
  <1>2. o[x] = offers[x] /\ x \in App
    OBVIOUS
  <1> QED BY <1>1, <1>2 DEF SlotOccupied, Booked

(* The admin's approval books the first free slot for an application that   *)
(* has no active appointment.                                               *)
LEMMA AdminApproveBooks ==
  ASSUME BankInv, NEW m \in inflight, AdminApprove(m)
  PROVE  /\ m.app \in App /\ offers[m.app] = <<>>
         /\ \E e \in Offer :
              /\ Books(m.app, offers[m.app], e, "APPOINTMENT_PROPOSED")
              /\ e.resched = 0
              /\ Cardinality(BookedOn(offers, e.branch, e.day)) < Capacity[e.branch]
  <1> DEFINE a == m.app
  <1>1. /\ inflight \subseteq Message /\ offers \in [App -> Seq(Offer)]
    BY DEF BankInv, BankTypeOK
  <1>2. a \in App /\ m.by \in Staff /\ RoleOf(m.by) \in StaffRole
    BY <1>1, MessageFields DEF AdminApprove, StaffOp
  <1>3. status[a] = "STAFF_APPROVED"
    BY <1>2, StaffMoves DEF AdminApprove, AppointmentStage
  <1>4. offers[a] = <<>>
    BY <1>2, <1>3 DEF BankInv, UndecidedUntouched, Undecided
  <1>5. PICK b \in Branch : ProposalBranch(a, b) /\ ProposeNext(offers, a, b, 0)
    BY <1>4 DEF AdminApprove
  <1>6. PICK e \in Offer :
          /\ offers' = [offers EXCEPT ![a] = Append(offers[a], e)]
          /\ e.status = "proposed" /\ e.branch = b /\ e.resched = 0
          /\ ~SlotOccupied(offers, b, e.day, e.time)
          /\ Cardinality(BookedOn(offers, b, e.day)) < Capacity[b]
    BY <1>1, <1>2, <1>5, ProposalAppends
  <1>7. branchOf[a] \in {NoBranch, e.branch}
    BY <1>4, <1>5, <1>6 DEF ProposalBranch
  <1>8. HeldByNoOther(a, e.branch, e.day, e.time)
    BY <1>1, <1>2, <1>6, FreeSlotIsUnheld
  <1>9. \A i \in DOMAIN offers[a] : ~Active(offers[a][i])
    BY <1>4
  <1>10. /\ status' = [status EXCEPT ![a] = "APPOINTMENT_PROPOSED"]
         /\ branchOf' = branchOf /\ inflight' \subseteq inflight
    BY DEF AdminApprove
  <1>11. Books(a, offers[a], e, "APPOINTMENT_PROPOSED")
    BY <1>2, <1>6, <1>7, <1>8, <1>9, <1>10 DEF Books
  <1> QED BY <1>2, <1>4, <1>6, <1>11

(* A customer's rejection replaces the proposal turned down by a new one.   *)
TurnedDown(a) == [offers[a] EXCEPT ![Len(offers[a])].status = "rejected"]

LEMMA RejectBooks ==
  ASSUME BankInv, NEW m \in inflight, Reject(m)
  PROVE  /\ m.app \in App /\ TurnedDown(m.app) \in Seq(Offer)
         /\ Len(offers[m.app]) \in DOMAIN offers[m.app]
         /\ Latest(offers, m.app).status = "proposed"
         /\ \E e \in Offer :
              /\ Books(m.app, TurnedDown(m.app), e, "APPOINTMENT_PROPOSED")
              /\ e.resched = Latest(offers, m.app).resched + 1
              /\ ~PreviouslyOffered(offers, m.app, e.day, e.time)
              /\ Cardinality(BookedOn([offers EXCEPT ![m.app] = TurnedDown(m.app)],
                                      e.branch, e.day)) < Capacity[e.branch]
  <1> DEFINE a == m.app
             k == m.attempt
             o == [offers EXCEPT ![a][k].status = "rejected"]
             b == offers[a][k].branch
             n == offers[a][k].resched + 1
  <1>1. /\ inflight \subseteq Message /\ offers \in [App -> Seq(Offer)]
    BY DEF BankInv, BankTypeOK
  <1>2. a \in App /\ k \in Nat \ {0}
    BY <1>1, MessageFields DEF Reject, CustomerOp
  <1>3. k = Len(offers[a]) /\ offers[a][k].status = "proposed" /\ k \in 1..Len(offers[a])
    BY <1>2 DEF Reject, IsCurrentAndProposed
  <1>4. offers[a] \in Seq(Offer) /\ DOMAIN offers[a] = 1..k /\ offers[a][k] \in Offer
    BY <1>1, <1>2, <1>3, LenProperties, ElementOfSeq
  <1>5. b \in Branch /\ n \in Nat
    BY <1>4, BoundAssumption DEF Offer
  <1>6. /\ o[a] \in Seq(Offer) /\ DOMAIN o[a] = 1..k
        /\ o[a][k] = [offers[a][k] EXCEPT !.status = "rejected"]
        /\ \A i \in 1..k : i # k => o[a][i] = offers[a][i]
    <2>1. o[a] = [offers[a] EXCEPT ![k].status = "rejected"]
      BY <1>1, <1>2
    <2>2. "rejected" \in OfferStatus
      BY DEF OfferStatus
    <2> DEFINE new == [offers[a] EXCEPT ![k].status = "rejected"]
    <2>3. /\ new \in Seq(Offer) /\ Len(new) = Len(offers[a])
          /\ new[k] = [offers[a][k] EXCEPT !.status = "rejected"]
          /\ \A i \in 1..Len(offers[a]) : i # k => new[i] = offers[a][i]
      BY ONLY <1>3, <1>4, <2>2, DecideRow
    <2> HIDE DEF new, o
    <2> QED BY <1>3, <2>1, <2>3, LenProperties DEF new
  <1>7. o \in [App -> Seq(Offer)] /\ \A x \in App \ {a} : o[x] = offers[x]
    BY <1>1, <1>2, <1>6
  <1>8. \A i \in DOMAIN o[a] : ~Active(o[a][i])
    <2>1. \A i \in 1..k : i # k => ~Active(offers[a][i])
      BY <1>2, <1>3, <1>4 DEF BankInv, OnlyLatestActive
    <2>2. o[a][k].status = "rejected"
      BY <1>4, <1>6 DEF Offer
    <2> HIDE DEF o
    <2> QED BY <1>6, <2>1, <2>2 DEF Active
  <1>9. ProposeNext(o, a, b, n)
    BY DEF Reject
  <1>10. o = [offers EXCEPT ![a] = TurnedDown(a)] /\ o[a] = TurnedDown(a)
    BY <1>1, <1>2, <1>3 DEF TurnedDown
  <1>11. n = Latest(offers, a).resched + 1 /\ Latest(offers, a).status = "proposed"
    BY <1>3 DEF Latest
  <1> HIDE DEF o, n
  <1>12. PICK e \in Offer :
          /\ offers' = [o EXCEPT ![a] = Append(o[a], e)]
          /\ e.status = "proposed" /\ e.branch = b /\ e.resched = n
          /\ ~SlotOccupied(o, b, e.day, e.time)
          /\ ~PreviouslyOffered(o, a, e.day, e.time)
          /\ Cardinality(BookedOn(o, b, e.day)) < Capacity[b]
    <2> HIDE DEF a, b
    <2> QED BY ONLY <1>2, <1>5, <1>7, <1>9, ProposalAppends
  <1>13. offers' = [offers EXCEPT ![a] = Append(o[a], e)]
    BY <1>1, <1>7, <1>12
  <1>14. branchOf[a] \in {NoBranch, e.branch}
    BY <1>2, <1>3, <1>4, <1>12 DEF BankInv, OfferAtOwnBranch, Active
  <1>15. HeldByNoOther(a, e.branch, e.day, e.time)
    BY ONLY BankInv, <1>2, <1>7, <1>12, FreeSlotIsUnheld
  <1>16. /\ status' = [status EXCEPT ![a] = "APPOINTMENT_PROPOSED"]
         /\ branchOf' = branchOf /\ inflight' \subseteq inflight
    BY DEF Reject, Moves
  <1>17. Books(a, o[a], e, "APPOINTMENT_PROPOSED")
    BY <1>8, <1>12, <1>13, <1>14, <1>15, <1>16 DEF Books
  <1>18. ~PreviouslyOffered(offers, a, e.day, e.time)
    <2>1. \A i \in 1..k : o[a][i].day = offers[a][i].day /\ o[a][i].time = offers[a][i].time
      BY <1>4, <1>6 DEF Offer
    <2> QED BY <1>4, <1>6, <1>12, <2>1 DEF PreviouslyOffered
  <1> QED BY <1>2, <1>3, <1>4, <1>6, <1>12, <1>17, <1>10, <1>11, <1>18

(* An appointment fixed by hand takes a slot it has checked itself, and     *)
(* the dossier follows it to its branch.                                    *)
LEMMA ScheduleBooks ==
  ASSUME BankInv, NEW m \in inflight, NEW b \in Branch, NEW d \in Day,
         NEW t \in Time, NEW direct \in BOOLEAN, ScheduleManual(m, b, d, t, direct)
  PROVE  /\ m.app \in App /\ CancelActive(offers[m.app]) \in Seq(Offer)
         /\ HasRoom(m.app, b, d)
         /\ \E e \in Offer :
              /\ Books(m.app, CancelActive(offers[m.app]), e,
                       IF direct THEN "APPOINTMENT_CONFIRMED" ELSE "APPOINTMENT_PROPOSED")
              /\ e.branch = b /\ e.day = d
              /\ IsMaxResched(m.app, e.resched)
  <1> DEFINE a == m.app
             to == IF direct THEN "APPOINTMENT_CONFIRMED" ELSE "APPOINTMENT_PROPOSED"
  <1>1. /\ inflight \subseteq Message /\ offers \in [App -> Seq(Offer)]
        /\ branchOf \in [App -> Branch \cup {NoBranch}]
    BY DEF BankInv, BankTypeOK
  <1>2. m \in Message /\ a \in App
    BY <1>1, MessageFields
  <1>3. PICK e \in Offer :
          /\ offers' = [offers EXCEPT ![a] = Append(CancelActive(offers[a]), e)]
          /\ e.branch = b /\ e.day = d /\ e.time = t
          /\ e.status = IF direct THEN "accepted" ELSE "proposed"
          /\ IsMaxResched(a, e.resched)
    BY ONLY <1>2, ScheduleManual(m, b, d, t, direct), ManualAppends
  <1>4. /\ CancelActive(offers[a]) \in Seq(Offer)
        /\ \A i \in DOMAIN CancelActive(offers[a]) : ~Active(CancelActive(offers[a])[i])
    BY <1>1, <1>2, CancelActiveRows
  <1>5. HeldByNoOther(a, e.branch, e.day, e.time)
    <2> SUFFICES ASSUME NEW x \in App \ {a}, NEW i \in DOMAIN offers[x], Active(offers[x][i])
                 PROVE  \/ offers[x][i].branch # e.branch
                        \/ offers[x][i].day # e.day
                        \/ offers[x][i].time # e.time
      BY DEF HeldByNoOther
    <2>1. status[x] # "CANCELLED"
      BY ActiveIsLatest
    <2>2. ~TakenByOther(a, b, d, t)
      BY DEF ScheduleManual
    <2> QED BY <1>3, <2>1, <2>2 DEF TakenByOther, Booked
  <1>6. /\ status' = [status EXCEPT ![a] = to] /\ inflight' \subseteq inflight
        /\ branchOf' = [branchOf EXCEPT ![a] = b]
    BY DEF ScheduleManual, Moves, Reroutes
  <1>7. branchOf'[a] \in {NoBranch, e.branch} /\ \A x \in App \ {a} : branchOf'[x] = branchOf[x]
    BY <1>1, <1>2, <1>3, <1>6
  <1>8. \/ e.status = "proposed" /\ to = "APPOINTMENT_PROPOSED"
        \/ e.status = "accepted" /\ to = "APPOINTMENT_CONFIRMED"
    BY <1>3
  <1>9. Books(a, CancelActive(offers[a]), e, to)
    BY <1>3, <1>4, <1>5, <1>6, <1>7, <1>8 DEF Books
  <1>10. HasRoom(a, b, d)
    BY DEF ScheduleManual
  <1> QED BY <1>2, <1>3, <1>4, <1>9, <1>10

(* Every step keeps the invariant: one case per request.                    *)
LEMMA InvStep == BankInv /\ [BankNext]_bankAllVars => BankInv'
  <1> SUFFICES ASSUME BankInv, [BankNext]_bankAllVars PROVE BankInv'
    OBVIOUS
  <1>1. BankTypeOK'
    BY TypeStep DEF BankInv
  <1>2. ASSUME NEW s \in Staff, NEW a \in App, NEW op \in StaffOp, AdmitStaff(s, a, op)
        PROVE  BankInv'
    BY <1>1, <1>2, KeepsInv DEF AdmitStaff
  <1>3. ASSUME NEW a \in App, NEW op \in CustomerOp, AdmitCustomer(a, op)
        PROVE  BankInv'
    BY <1>1, <1>3, KeepsInv DEF AdmitCustomer
  <1>4. ASSUME NEW m \in inflight, Transact(m) PROVE BankInv'
    <2>1. /\ status \in [App -> Status] /\ branchOf \in [App -> Branch \cup {NoBranch}]
          /\ offers \in [App -> Seq(Offer)] /\ inflight \subseteq Message
      BY DEF BankInv, BankTypeOK
    <2>2. m \in Message /\ m.app \in App
      BY <2>1, MessageFields
    <2>3. m.op \in StaffOp => RoleOf(m.by) \in StaffRole
      BY <2>2, MessageFields
    <2>4. CASE StaffApprove(m)
      <3>1. Undecided(m.app)
        BY <2>3, <2>4, StaffMoves DEF StaffApprove, Moves, Undecided, StaffOp, AppointmentStage
      <3>2. \A x \in App : branchOf'[x] # branchOf[x] => x = m.app /\ branchOf[x] = NoBranch
        BY <2>1, <2>2, <2>4 DEF StaffApprove
      <3> QED BY <1>1, <2>2, <2>4, <3>1, <3>2, DecisionKeepsInv DEF StaffApprove, Moves
    <2>5. CASE StaffReject(m)
      <3>1. Undecided(m.app)
        BY <2>3, <2>5, StaffMoves DEF StaffReject, Moves, Undecided, StaffOp, AppointmentStage
      <3> QED BY <1>1, <2>2, <2>5, <3>1, DecisionKeepsInv DEF StaffReject, Moves
    <2>6. CASE StaffCancel(m)
      <3>1. Undecided(m.app)
        BY <2>3, <2>6, StaffMoves DEF StaffCancel, Moves, Undecided, StaffOp, AppointmentStage
      <3>2. offers[m.app] = <<>>
        BY <2>2, <3>1 DEF BankInv, UndecidedUntouched
      <3>3. CancelActive(<<>>) = <<>>
        BY DEF CancelActive
      <3>4. offers' = offers
        BY <2>1, <2>2, <2>6, <3>2, <3>3 DEF StaffCancel
      <3> QED BY <1>1, <2>2, <2>6, <3>1, <3>4, DecisionKeepsInv DEF StaffCancel, Moves
    <2>7. CASE AdminApprove(m)
      <3>1. PICK e \in Offer : Books(m.app, offers[m.app], e, "APPOINTMENT_PROPOSED")
        BY <2>7, AdminApproveBooks
      <3>2. offers[m.app] \in Seq(Offer)
        BY <2>1, <2>2
      <3> QED BY <1>1, <2>2, <3>1, <3>2, BookingKeepsInv
    <2>8. CASE AdminReject(m)
      <3>1. Undecided(m.app)
        BY <2>3, <2>8, StaffMoves DEF AdminReject, Moves, Undecided, StaffOp, AppointmentStage
      <3> QED BY <1>1, <2>2, <2>8, <3>1, DecisionKeepsInv DEF AdminReject, Moves
    <2>9. CASE Accept(m)
      BY <1>1, <2>9, AcceptKeepsInv
    <2>10. CASE Reject(m)
      <3>1. /\ TurnedDown(m.app) \in Seq(Offer)
            /\ \E e \in Offer : Books(m.app, TurnedDown(m.app), e, "APPOINTMENT_PROPOSED")
        BY <2>10, RejectBooks
      <3> QED BY <1>1, <2>2, <3>1, BookingKeepsInv
    <2>11. ASSUME NEW b \in Branch, NEW d \in Day, NEW t \in Time, NEW direct \in BOOLEAN,
                  ScheduleManual(m, b, d, t, direct)
           PROVE  BankInv'
      <3>1. /\ CancelActive(offers[m.app]) \in Seq(Offer)
            /\ \E e \in Offer, to \in {"APPOINTMENT_CONFIRMED", "APPOINTMENT_PROPOSED"} :
                 Books(m.app, CancelActive(offers[m.app]), e, to)
        BY <2>11, ScheduleBooks
      <3> QED BY <1>1, <2>2, <3>1, BookingKeepsInv
    <2>12. CASE Refuse(m)
      BY <1>1, <2>12, KeepsInv DEF Refuse
    <2> QED BY <1>4, <2>4, <2>5, <2>6, <2>7, <2>8, <2>9, <2>10, <2>11, <2>12 DEF Transact
  <1>5. CASE ConfigureBranches
    BY <1>1, <1>5, KeepsInv DEF ConfigureBranches
  <1>6. CASE NextDay
    BY <1>1, <1>6, KeepsInv DEF NextDay
  <1>7. CASE UNCHANGED bankAllVars
    BY <1>1, <1>7, KeepsInv DEF bankAllVars
  <1> QED BY <1>2, <1>3, <1>4, <1>5, <1>6, <1>7 DEF BankNext

(* Submitted applications have no appointment and nobody has a request in   *)
(* flight.                                                                  *)
LEMMA InitInv == BankInit => BankInv
  <1> SUFFICES ASSUME BankInit PROVE BankInv
    OBVIOUS
  <1>1. BankTypeOK
    BY InitType
  <1>2. /\ offers = [a \in App |-> <<>>] /\ inflight = {}
        /\ status = [a \in App |-> "SUBMITTED"]
    BY DEF BankInit, BankIdle
  <1> QED BY <1>1, <1>2 DEF BankInv, OnlyLatestActive, StatusMatchesOffer, SlotExclusive,
             OfferAtOwnBranch, UndecidedUntouched

(* The two tables agree, slots are exclusive and no decision in flight has  *)
(* lost its access, at every time.                                          *)
THEOREM BankInvHolds == BankSpec => []BankInv
  BY InitInv, InvStep, PTL DEF BankSpec

(* Two applications never hold the same slot of a branch.                   *)
THEOREM SlotsExclusive == BankSpec => []SlotExclusive
  <1>1. BankInv => SlotExclusive
    BY DEF BankInv
  <1> QED BY <1>1, BankInvHolds, PTL

(* The status of an application and that of its latest appointment agree,   *)
(* and no earlier appointment is active.                                    *)
THEOREM StatusAndOfferAgree == BankSpec => [](StatusMatchesOffer /\ OnlyLatestActive)
  <1>1. BankInv => StatusMatchesOffer /\ OnlyLatestActive
    BY DEF BankInv
  <1> QED BY <1>1, BankInvHolds, PTL

(* An active appointment is at the branch the dossier belongs to.           *)
THEOREM AppointmentsAtOwnBranch == BankSpec => []OfferAtOwnBranch
  <1>1. BankInv => OfferAtOwnBranch
    BY DEF BankInv
  <1> QED BY <1>1, BankInvHolds, PTL

-----------------------------------------------------------------------------
(* What a step may never do.                                                *)

(* The application a transaction is about, as it finds it: a member of      *)
(* staff decides an undecided one or moves an appointment, a customer       *)
(* answers the current proposal.                                            *)
LEMMA ActedOn ==
  ASSUME BankInv, NEW m \in inflight, Transact(m)
  PROVE  \/ Refuse(m)
         \/ /\ m.app \in App /\ m.by \in Staff
            /\ Undecided(m.app) \/ (\E b \in Branch, d \in Day, t \in Time, direct \in BOOLEAN :
                                      ScheduleManual(m, b, d, t, direct))
            /\ status[m.app] \notin {"STAFF_REJECTED", "REJECTED", "CANCELLED"}
         \/ /\ m.app \in App /\ m.by = Customer
            /\ status[m.app] = "APPOINTMENT_PROPOSED"
  <1>1. /\ inflight \subseteq Message /\ offers \in [App -> Seq(Offer)]
    BY DEF BankInv, BankTypeOK
  <1>2. m \in Message /\ m.app \in App
    BY <1>1, MessageFields
  <1>3. m.op \in StaffOp => m.by \in Staff /\ RoleOf(m.by) \in StaffRole
    BY <1>2, MessageFields
  <1>4. CASE StaffApprove(m) \/ StaffReject(m) \/ StaffCancel(m) \/ AdminReject(m)
    <2>1. m.op \in StaffOp
      BY <1>4 DEF StaffApprove, StaffReject, StaffCancel, AdminReject, StaffOp
    <2>2. PICK to \in {"STAFF_APPROVED", "STAFF_REJECTED", "CANCELLED", "REJECTED"} :
            CanMove(status[m.app], to, RoleOf(m.by))
      BY <1>4 DEF StaffApprove, StaffReject, StaffCancel, AdminReject, Moves
    <2>3. status[m.app] \in {"SUBMITTED", "STAFF_APPROVED"}
      BY <1>3, <2>1, <2>2, StaffMoves DEF AppointmentStage
    <2> QED BY <1>2, <1>3, <2>1, <2>3 DEF Undecided
  <1>5. CASE AdminApprove(m)
    <2>1. m.op \in StaffOp /\ CanMove(status[m.app], "APPROVED", RoleOf(m.by))
      BY <1>5 DEF AdminApprove, StaffOp
    <2>2. status[m.app] = "STAFF_APPROVED"
      BY <1>3, <2>1, StaffMoves DEF AppointmentStage
    <2> QED BY <1>2, <1>3, <2>1, <2>2 DEF Undecided
  <1>6. ASSUME NEW b \in Branch, NEW d \in Day, NEW t \in Time, NEW direct \in BOOLEAN,
               ScheduleManual(m, b, d, t, direct)
        PROVE  /\ m.by \in Staff
               /\ status[m.app] \notin {"STAFF_REJECTED", "REJECTED", "CANCELLED"}
    <2>1. m.op \in StaffOp
      BY <1>6 DEF ScheduleManual, StaffOp
    <2>2. PICK to \in {"APPOINTMENT_CONFIRMED", "APPOINTMENT_PROPOSED"} :
            CanMove(status[m.app], to, RoleOf(m.by))
      BY <1>6 DEF ScheduleManual, Moves
    <2> QED BY <1>3, <2>1, <2>2, StaffMoves DEF AppointmentStage
  <1>7. CASE Accept(m) \/ Reject(m)
    <2>1. m.op \in CustomerOp /\ IsCurrentAndProposed(m.app, m.attempt)
      BY <1>7 DEF Accept, Reject, CustomerOp
    <2>2. m.by = Customer /\ m.attempt \in Nat \ {0}
      BY <1>2, <2>1, MessageFields
    <2>3. offers[m.app] # <<>>
      BY <1>1, <1>2, <2>1, <2>2, EmptySeq DEF IsCurrentAndProposed
    <2> QED BY <1>2, <2>1, <2>2, <2>3
            DEF BankInv, StatusMatchesOffer, Latest, IsCurrentAndProposed
  <1> QED BY <1>2, <1>4, <1>5, <1>6, <1>7 DEF Transact

(* What a step that is not a transaction leaves alone.                      *)
LEMMA OnlyTransactionsWrite ==
  ASSUME [BankNext]_bankAllVars
  PROVE  \/ \E m \in inflight : Transact(m)
         \/ UNCHANGED <<status, offers>> /\ inflight \subseteq inflight'
  <1>1. CASE \E s \in Staff, a \in App, op \in StaffOp : AdmitStaff(s, a, op)
    BY <1>1 DEF AdmitStaff
  <1>2. CASE \E a \in App, op \in CustomerOp : AdmitCustomer(a, op)
    BY <1>2 DEF AdmitCustomer
  <1>3. CASE ConfigureBranches \/ NextDay
    BY <1>3 DEF ConfigureBranches, NextDay
  <1>4. CASE UNCHANGED bankAllVars
    BY <1>4 DEF bankAllVars
  <1> QED BY <1>1, <1>2, <1>3, <1>4 DEF BankNext

(* A transaction ends its own request and writes its own application only.  *)
LEMMA WritesOwnApplication ==
  ASSUME BankInv, NEW m \in inflight, Transact(m)
  PROVE  /\ inflight' = inflight \ {m}
         /\ \A a \in App \ {m.app} : status'[a] = status[a] /\ offers'[a] = offers[a]
  <1>1. /\ inflight \subseteq Message /\ offers \in [App -> Seq(Offer)]
        /\ status \in [App -> Status]
    BY DEF BankInv, BankTypeOK
  <1>2. CASE StaffApprove(m) \/ StaffReject(m) \/ AdminReject(m) \/ StaffCancel(m)
    BY <1>1, <1>2 DEF StaffApprove, StaffReject, AdminReject, StaffCancel, Moves
  <1>3. CASE AdminApprove(m)
    BY <1>1, <1>3 DEF AdminApprove, ProposeNext
  <1>4. CASE Accept(m)
    BY <1>1, <1>4 DEF Accept, Moves
  <1>5. CASE Reject(m)
    <2> DEFINE o == [offers EXCEPT ![m.app][m.attempt].status = "rejected"]
    <2>1. \A a \in App \ {m.app} : o[a] = offers[a]
      BY <1>1
    <2>2. \A a \in App \ {m.app} : offers'[a] = o[a]
      BY <1>1, <1>5 DEF Reject, ProposeNext
    <2>3. \A a \in App \ {m.app} : status'[a] = status[a]
      BY <1>1, <1>5 DEF Reject, Moves
    <2>4. inflight' = inflight \ {m}
      BY <1>5 DEF Reject, Moves
    <2> HIDE DEF o
    <2> QED BY <2>1, <2>2, <2>3, <2>4
  <1>6. CASE \E b \in Branch, d \in Day, t \in Time, direct \in BOOLEAN :
               ScheduleManual(m, b, d, t, direct)
    BY <1>1, <1>6 DEF ScheduleManual, Moves
  <1>7. CASE Refuse(m)
    BY <1>7 DEF Refuse
  <1> QED BY <1>2, <1>3, <1>4, <1>5, <1>6, <1>7 DEF Transact

(* A rejected or cancelled application keeps its status and appointments.   *)
THEOREM DecisionsAreFinal == BankSpec => DecisionFinal
  <1> DEFINE Final(a) == status[a] \in {"STAFF_REJECTED", "REJECTED", "CANCELLED"}
             Kept == \A a \in App : Final(a) => status'[a] = status[a] /\ offers'[a] = offers[a]
  <1>1. BankInv /\ [BankNext]_bankAllVars => Kept
    <2> SUFFICES ASSUME BankInv, [BankNext]_bankAllVars, NEW a \in App, Final(a)
                 PROVE  status'[a] = status[a] /\ offers'[a] = offers[a]
      OBVIOUS
    <2>1. ASSUME NEW m \in inflight, Transact(m)
          PROVE  status'[a] = status[a] /\ offers'[a] = offers[a]
      <3>1. CASE a # m.app
        BY <2>1, <3>1, WritesOwnApplication
      <3>2. CASE a = m.app
        <4>1. Refuse(m)
          BY <2>1, <3>2, ActedOn
        <4> QED BY <4>1 DEF Refuse
      <3> QED BY <3>1, <3>2
    <2> QED BY <2>1, OnlyTransactionsWrite
  <1>2. BankInv /\ [BankNext]_bankAllVars => [Kept]_bankAllVars
    BY <1>1
  <1> QED BY <1>2, BankInvHolds, PTL DEF BankSpec, DecisionFinal

(* A member of staff whose request was admitted changes the dossier only    *)
(* with access to it when the transaction runs.                             *)
THEOREM BranchesIsolated == BankSpec => BranchIsolation
  <1> DEFINE Isolated ==
        \A m \in inflight :
          /\ m.by # Customer /\ m \notin inflight'
          /\ <<status'[m.app], offers'[m.app]>> # <<status[m.app], offers[m.app]>>
          => CanAccess(m.by, m.app)
  <1>1. BankInv /\ [BankNext]_bankAllVars => Isolated
    <2> SUFFICES ASSUME BankInv, [BankNext]_bankAllVars, NEW m \in inflight,
                        m.by # Customer, m \notin inflight',
                        <<status'[m.app], offers'[m.app]>> # <<status[m.app], offers[m.app]>>
                 PROVE  CanAccess(m.by, m.app)
      OBVIOUS
    <2>1. PICK q \in inflight : Transact(q)
      BY OnlyTransactionsWrite
    <2>2. q = m
      BY <2>1, WritesOwnApplication
    <2>3. ~Refuse(m)
      BY DEF Refuse
    <2>4. \/ Undecided(m.app)
          \/ \E b \in Branch, d \in Day, t \in Time, direct \in BOOLEAN :
               ScheduleManual(m, b, d, t, direct)
      BY <2>1, <2>2, <2>3, ActedOn
    <2> QED BY <2>4 DEF BankInv, UndecidedUntouched, ScheduleManual, MayBook
  <1>2. BankInv /\ [BankNext]_bankAllVars => [Isolated]_bankAllVars
    BY <1>1
  <1> QED BY <1>2, BankInvHolds, PTL DEF BankSpec, BranchIsolation

(* An acceptance confirms the appointment its request had read: had another *)
(* one replaced it, the request would not be about the latest any more.     *)
THEOREM AcceptancesAreOfWhatWasRead == BankSpec => AcceptsWhatWasRead
  <1> DEFINE AsRead ==
        \A m \in inflight :
          m.op = "accept" /\ m \notin inflight' /\ offers' # offers
            => /\ Len(offers[m.app]) = m.attempt
               /\ offers'[m.app] = [offers[m.app] EXCEPT ![m.attempt].status = "accepted"]
  <1>1. BankInv /\ [BankNext]_bankAllVars => AsRead
    <2> SUFFICES ASSUME BankInv, [BankNext]_bankAllVars, NEW m \in inflight,
                        m.op = "accept", m \notin inflight', offers' # offers
                 PROVE  /\ Len(offers[m.app]) = m.attempt
                        /\ offers'[m.app] =
                             [offers[m.app] EXCEPT ![m.attempt].status = "accepted"]
      OBVIOUS
    <2>1. PICK q \in inflight : Transact(q)
      BY OnlyTransactionsWrite
    <2>2. q = m
      BY <2>1, WritesOwnApplication
    <2>3. Accept(m)
      BY <2>1, <2>2 DEF Transact, Refuse, StaffApprove, StaffReject, StaffCancel,
         AdminApprove, AdminReject, Reject, ScheduleManual
    <2>4. m.app \in App /\ offers \in [App -> Seq(Offer)]
      BY MessageFields DEF BankInv, BankTypeOK
    <2> QED BY <2>3, <2>4 DEF Accept, IsCurrentAndProposed
  <1>2. BankInv /\ [BankNext]_bankAllVars => [AsRead]_bankAllVars
    BY <1>1
  <1> QED BY <1>2, BankInvHolds, PTL DEF BankSpec, AcceptsWhatWasRead

-----------------------------------------------------------------------------
(* The capacity of a branch on a day.                                       *)
InCapacity ==
  \A b \in Branch, d \in Day :
    IsFiniteSet(BookedOn(offers, b, d)) /\ Cardinality(BookedOn(offers, b, d)) <= Capacity[b]

(* A step that adds no booking exceeds no capacity.                         *)
LEMMA NoNewBooking ==
  ASSUME InCapacity,
         \A b \in Branch, d \in Day, x \in App : \A i \in DOMAIN offers'[x] :
           Booked(offers, x, i, b, d)' => i \in DOMAIN offers[x] /\ Booked(offers, x, i, b, d)
  PROVE  InCapacity'
  <1> SUFFICES ASSUME NEW b \in Branch, NEW d \in Day
               PROVE  /\ IsFiniteSet(BookedOn(offers, b, d)')
                      /\ Cardinality(BookedOn(offers, b, d)') <= Capacity[b]
    BY DEF InCapacity
  <1>1. BookedOn(offers, b, d)' \subseteq BookedOn(offers, b, d)
    <2> SUFFICES ASSUME NEW p \in BookedOn(offers, b, d)' PROVE p \in BookedOn(offers, b, d)
      OBVIOUS
    <2>1. PICK x \in App : p \in {x} \X DOMAIN offers'[x]
      BY DEF BookedOn
    <2>2. p = <<x, p[2]>> /\ p[1] = x /\ p[2] \in DOMAIN offers'[x]
      BY <2>1
    <2>3. Booked(offers, p[1], p[2], b, d)'
      BY DEF BookedOn
    <2>4. p[2] \in DOMAIN offers[x] /\ Booked(offers, x, p[2], b, d)
      BY <2>2, <2>3
    <2>5. p \in {x} \X DOMAIN offers[x]
      BY <2>2, <2>4
    <2> QED BY <2>2, <2>4, <2>5 DEF BookedOn
  <1>2. /\ IsFiniteSet(BookedOn(offers, b, d))
        /\ Cardinality(BookedOn(offers, b, d)) <= Capacity[b] /\ Capacity[b] \in Nat
    BY BranchAssumption DEF InCapacity
  <1>3. /\ IsFiniteSet(BookedOn(offers, b, d)')
        /\ Cardinality(BookedOn(offers, b, d)') <= Cardinality(BookedOn(offers, b, d))
    BY <1>1, <1>2, FS_Subset
  <1>4. /\ Cardinality(BookedOn(offers, b, d)') \in Nat
        /\ Cardinality(BookedOn(offers, b, d)) \in Nat
    BY <1>2, <1>3, FS_CardinalityType
  <1> QED BY <1>2, <1>3, <1>4

(* A new appointment where the others leave room for one.                   *)
LEMMA BookingInCapacity ==
  ASSUME BankInv, BankInv', InCapacity,
         NEW a \in App, NEW rows \in Seq(Offer), NEW e \in Offer, NEW to,
         Books(a, rows, e, to), HasRoom(a, e.branch, e.day)
  PROVE  InCapacity'
  <1> SUFFICES ASSUME NEW b \in Branch, NEW d \in Day
               PROVE  /\ IsFiniteSet(BookedOn(offers, b, d)')
                      /\ Cardinality(BookedOn(offers, b, d)') <= Capacity[b]
    BY DEF InCapacity
  <1> DEFINE others == {p \in BookedOn(offers, b, d) : p[1] # a}
             new == <<a, Len(rows) + 1>>
  <1>1. /\ offers \in [App -> Seq(Offer)] /\ status \in [App -> Status]
        /\ e.branch \in Branch /\ e.day \in Day
    BY DEF BankInv, BankTypeOK, Offer
  <1>2. /\ offers'[a] = Append(rows, e) /\ \A x \in App \ {a} : offers'[x] = offers[x]
        /\ \A x \in App \ {a} : status'[x] = status[x]
    BY <1>1 DEF Books
  <1>3. /\ Len(offers'[a]) = Len(rows) + 1 /\ offers'[a][Len(rows) + 1] = e
    BY <1>2, AppendRow
  (* The others keep their bookings; of a's, only the new one is active.    *)
  <1>4. ASSUME NEW p \in BookedOn(offers, b, d)'
        PROVE  p \in others \/ (p = new /\ e.branch = b /\ e.day = d)
    <2>1. PICK x \in App : p \in {x} \X DOMAIN offers'[x]
      BY <1>4 DEF BookedOn
    <2>2. p = <<x, p[2]>> /\ p[1] = x /\ p[2] \in DOMAIN offers'[x]
      BY <2>1
    <2>3. Booked(offers, x, p[2], b, d)'
      BY <1>4, <2>2 DEF BookedOn
    <2>4. CASE x # a
      <3>1. Booked(offers, x, p[2], b, d) /\ p \in {x} \X DOMAIN offers[x]
        BY <1>2, <2>1, <2>3, <2>4 DEF Booked
      <3> QED BY <2>2, <2>4, <3>1 DEF BookedOn
    <2>5. CASE x = a
      <3>1. p[2] = Len(offers'[a])
        BY <2>2, <2>3, <2>5 DEF Booked, BankInv, OnlyLatestActive
      <3> QED BY <1>3, <2>2, <2>3, <2>5, <3>1 DEF Booked
    <2> QED BY <2>4, <2>5
  <1>5. /\ IsFiniteSet(BookedOn(offers, b, d))
        /\ Cardinality(BookedOn(offers, b, d)) <= Capacity[b] /\ Capacity[b] \in Nat
    BY BranchAssumption DEF InCapacity
  <1>6. /\ IsFiniteSet(others) /\ Cardinality(others) <= Cardinality(BookedOn(offers, b, d))
        /\ Cardinality(others) \in Nat /\ Cardinality(BookedOn(offers, b, d)) \in Nat
    BY <1>5, FS_Subset, FS_CardinalityType
  <1>7. CASE e.branch = b /\ e.day = d
    <2>1. Cardinality(others) < Capacity[b]
      BY <1>7 DEF HasRoom
    <2> HIDE DEF others, new
    <2>2. /\ IsFiniteSet(others \cup {new})
          /\ Cardinality(others \cup {new}) <= Cardinality(others) + 1
          /\ Cardinality(others \cup {new}) \in Nat
      <3>1. /\ IsFiniteSet(others \cup {new})
            /\ Cardinality(others \cup {new}) =
                 IF new \in others THEN Cardinality(others) ELSE Cardinality(others) + 1
        BY <1>6, FS_AddElement
      <3> QED BY <1>6, <3>1
    <2>3. BookedOn(offers, b, d)' \subseteq others \cup {new}
      BY <1>4
    <2>4. /\ IsFiniteSet(BookedOn(offers, b, d)')
          /\ Cardinality(BookedOn(offers, b, d)') <= Cardinality(others \cup {new})
          /\ Cardinality(BookedOn(offers, b, d)') \in Nat
      BY <2>2, <2>3, FS_Subset, FS_CardinalityType
    <2> QED BY <1>5, <1>6, <2>1, <2>2, <2>4
  <1>8. CASE ~(e.branch = b /\ e.day = d)
    <2>1. BookedOn(offers, b, d)' \subseteq others
      BY <1>4, <1>8
    <2> HIDE DEF others
    <2>2. /\ IsFiniteSet(BookedOn(offers, b, d)')
          /\ Cardinality(BookedOn(offers, b, d)') <= Cardinality(others)
          /\ Cardinality(BookedOn(offers, b, d)') \in Nat
      BY <1>6, <2>1, FS_Subset, FS_CardinalityType
    <2> QED BY <1>5, <1>6, <2>2
  <1> QED BY <1>7, <1>8

(* The search counts the bookings of the day, those of a included: what the *)
(* others hold is no more.                                                  *)
LEMMA FoundRoom ==
  ASSUME InCapacity, NEW a \in App, NEW o \in [App -> Seq(Offer)],
         NEW b \in Branch, NEW d \in Day,
         \A x \in App \ {a} : o[x] = offers[x],
         BookedOn(o, b, d) \subseteq BookedOn(offers, b, d),
         Cardinality(BookedOn(o, b, d)) < Capacity[b]
  PROVE  HasRoom(a, b, d)
  <1> DEFINE others == {p \in BookedOn(offers, b, d) : p[1] # a}
  <1>1. others \subseteq BookedOn(o, b, d)
    <2> SUFFICES ASSUME NEW p \in others PROVE p \in BookedOn(o, b, d)
      OBVIOUS
    <2>1. PICK x \in App : p \in {x} \X DOMAIN offers[x]
      BY DEF BookedOn
    <2>2. p[1] = x /\ x # a /\ o[x] = offers[x]
      BY <2>1
    <2>3. Booked(offers, x, p[2], b, d)
      BY <2>2 DEF BookedOn
    <2>4. Booked(o, x, p[2], b, d)
      BY <2>2, <2>3 DEF Booked
    <2> QED BY <2>1, <2>2, <2>4 DEF BookedOn
  <1>2. IsFiniteSet(BookedOn(o, b, d)) /\ Capacity[b] \in Nat
    BY FS_Subset, BranchAssumption DEF InCapacity
  <1>3. /\ Cardinality(others) <= Cardinality(BookedOn(o, b, d))
        /\ Cardinality(others) \in Nat /\ Cardinality(BookedOn(o, b, d)) \in Nat
    BY <1>1, <1>2, FS_Subset, FS_CardinalityType
  <1>4. Cardinality(others) < Capacity[b]
    BY <1>2, <1>3
  <1> QED BY <1>4 DEF HasRoom

(* The first free slot of the search leaves room for its appointment, the   *)
(* proposal just turned down no longer counting.                            *)
LEMMA ProposalsLeaveRoom ==
  ASSUME BankInv, InCapacity, NEW m \in inflight, AdminApprove(m) \/ Reject(m)
  PROVE  /\ m.app \in App
         /\ \E rows \in Seq(Offer), e \in Offer :
              /\ Books(m.app, rows, e, "APPOINTMENT_PROPOSED")
              /\ HasRoom(m.app, e.branch, e.day)
  <1> DEFINE a == m.app
  <1>1. offers \in [App -> Seq(Offer)] /\ \A e \in Offer : e.branch \in Branch /\ e.day \in Day
    BY DEF BankInv, BankTypeOK, Offer
  <1>2. CASE AdminApprove(m)
    <2>1. a \in App
      BY <1>2, AdminApproveBooks
    <2>2. PICK e \in Offer :
            /\ Books(a, offers[a], e, "APPOINTMENT_PROPOSED")
            /\ Cardinality(BookedOn(offers, e.branch, e.day)) < Capacity[e.branch]
      BY <1>2, AdminApproveBooks
    <2>3. HasRoom(a, e.branch, e.day)
      BY <1>1, <2>1, <2>2, FoundRoom
    <2> QED BY <1>1, <2>1, <2>2, <2>3
  <1>3. CASE Reject(m)
    <2> DEFINE o == [offers EXCEPT ![a] = TurnedDown(a)]
    <2>1. /\ a \in App /\ TurnedDown(a) \in Seq(Offer)
          /\ Len(offers[a]) \in DOMAIN offers[a]
      BY <1>3, RejectBooks
    <2>2. PICK e \in Offer :
            /\ Books(a, TurnedDown(a), e, "APPOINTMENT_PROPOSED")
            /\ Cardinality(BookedOn(o, e.branch, e.day)) < Capacity[e.branch]
      BY <1>3, RejectBooks
    <2>3. o \in [App -> Seq(Offer)] /\ \A x \in App \ {a} : o[x] = offers[x]
      BY <1>1, <2>1
    <2>4. /\ DOMAIN o[a] = DOMAIN offers[a]
          /\ \A i \in DOMAIN o[a] : Active(o[a][i]) => o[a][i] = offers[a][i]
      <3>1. o[a] = TurnedDown(a)
        BY <1>1, <2>1
      <3>2. /\ DOMAIN TurnedDown(a) = DOMAIN offers[a]
            /\ TurnedDown(a)[Len(offers[a])].status = "rejected"
            /\ \A i \in DOMAIN offers[a] :
                 i # Len(offers[a]) => TurnedDown(a)[i] = offers[a][i]
        <4>1. /\ offers[a] \in Seq(Offer) /\ DOMAIN offers[a] = 1..Len(offers[a])
              /\ Len(offers[a]) \in 1..Len(offers[a])
              /\ offers[a][Len(offers[a])] \in Offer /\ "rejected" \in OfferStatus
          BY <1>1, <2>1, LenProperties, ElementOfSeq DEF OfferStatus
        <4>2. TurnedDown(a)[Len(offers[a])] =
                [offers[a][Len(offers[a])] EXCEPT !.status = "rejected"]
          BY ONLY <4>1, DecideRow DEF TurnedDown
        <4>3. TurnedDown(a)[Len(offers[a])].status = "rejected"
          BY <4>1, <4>2 DEF Offer
        <4>4. DOMAIN TurnedDown(a) = DOMAIN offers[a]
          BY DEF TurnedDown
        <4>5. \A i \in DOMAIN offers[a] :
                i # Len(offers[a]) => TurnedDown(a)[i] = offers[a][i]
          BY DEF TurnedDown
        <4> QED BY <4>3, <4>4, <4>5
      <3> QED BY <3>1, <3>2 DEF Active
    <2> HIDE DEF o
    <2>5. BookedOn(o, e.branch, e.day) \subseteq BookedOn(offers, e.branch, e.day)
      <3> SUFFICES ASSUME NEW p \in BookedOn(o, e.branch, e.day)
                   PROVE  p \in BookedOn(offers, e.branch, e.day)
        OBVIOUS
      <3>1. PICK x \in App : p \in {x} \X DOMAIN o[x]
        BY DEF BookedOn
      <3>2. p[1] = x /\ p[2] \in DOMAIN o[x]
        BY <3>1
      <3>3. Booked(o, x, p[2], e.branch, e.day)
        BY <3>2 DEF BookedOn
      <3>4. DOMAIN o[x] = DOMAIN offers[x] /\ o[x][p[2]] = offers[x][p[2]]
        BY <2>3, <2>4, <3>2, <3>3 DEF Booked
      <3>5. Booked(offers, x, p[2], e.branch, e.day)
        BY <3>3, <3>4 DEF Booked
      <3> QED BY <3>1, <3>2, <3>4, <3>5 DEF BookedOn
    <2>6. HasRoom(a, e.branch, e.day)
      BY <1>1, <2>1, <2>2, <2>3, <2>5, FoundRoom
    <2> QED BY <2>1, <2>2, <2>6
  <1> QED BY <1>2, <1>3

(* The transactions that book nothing: a decision leaves the appointments   *)
(* as they are, an undecided application having none, and an acceptance     *)
(* keeps the slot of the row.                                               *)
LEMMA DecisionsBookNothing ==
  ASSUME BankInv, NEW m \in inflight,
         StaffApprove(m) \/ StaffReject(m) \/ StaffCancel(m) \/ AdminReject(m) \/ Refuse(m)
  PROVE  offers' = offers
  <1>1. CASE StaffCancel(m)
    <2>1. m.app \in App /\ m.by \in Staff /\ RoleOf(m.by) \in StaffRole
      BY <1>1, MessageFields DEF BankInv, BankTypeOK, StaffCancel, StaffOp
    <2>2. Undecided(m.app)
      BY <1>1, <2>1, StaffMoves DEF StaffCancel, Moves, Undecided, AppointmentStage
    <2>3. offers[m.app] = <<>> /\ offers \in [App -> Seq(Offer)]
      BY <2>1, <2>2 DEF BankInv, UndecidedUntouched, BankTypeOK
    <2>4. CancelActive(<<>>) = <<>>
      BY DEF CancelActive
    <2> QED BY <1>1, <2>3, <2>4 DEF StaffCancel
  <1>2. CASE StaffApprove(m) \/ StaffReject(m) \/ AdminReject(m) \/ Refuse(m)
    BY <1>2 DEF StaffApprove, StaffReject, AdminReject, Refuse
  <1> QED BY <1>1, <1>2

LEMMA AcceptedRow ==
  ASSUME BankInv, NEW m \in inflight, Accept(m)
  PROVE  /\ m.app \in App /\ offers[m.app] \in Seq(Offer)
         /\ m.attempt = Len(offers[m.app]) /\ m.attempt \in DOMAIN offers[m.app]
         /\ Latest(offers, m.app).status = "proposed"
         /\ offers' = [offers EXCEPT ![m.app] = offers'[m.app]]
         /\ Len(offers'[m.app]) = Len(offers[m.app])
         /\ DOMAIN offers'[m.app] = DOMAIN offers[m.app]
         /\ offers'[m.app][m.attempt] = [Latest(offers, m.app) EXCEPT !.status = "accepted"]
         /\ \A i \in DOMAIN offers[m.app] :
              i # m.attempt => offers'[m.app][i] = offers[m.app][i]
  <1> DEFINE a == m.app
             n == m.attempt
             new == [offers[a] EXCEPT ![n].status = "accepted"]
  <1>1. inflight \subseteq Message /\ offers \in [App -> Seq(Offer)]
    BY DEF BankInv, BankTypeOK
  <1>2. a \in App /\ n \in Nat \ {0}
    BY <1>1, MessageFields DEF Accept, CustomerOp
  <1>3. n = Len(offers[a]) /\ offers[a][n].status = "proposed" /\ n \in 1..Len(offers[a])
    BY <1>2 DEF Accept, IsCurrentAndProposed
  <1>4. offers[a] \in Seq(Offer) /\ DOMAIN offers[a] = 1..n /\ "accepted" \in OfferStatus
    BY <1>1, <1>2, <1>3, LenProperties DEF OfferStatus
  <1>5. /\ new \in Seq(Offer) /\ Len(new) = Len(offers[a])
        /\ new[n] = [offers[a][n] EXCEPT !.status = "accepted"]
        /\ \A i \in 1..Len(offers[a]) : i # n => new[i] = offers[a][i]
    BY ONLY <1>3, <1>4, DecideRow
  <1>6. offers' = [offers EXCEPT ![a] = new]
    BY DEF Accept
  <1> HIDE DEF new
  <1>7. DOMAIN new = 1..n
    BY <1>3, <1>5, LenProperties
  <1> QED BY <1>1, <1>2, <1>3, <1>4, <1>5, <1>6, <1>7 DEF Latest

LEMMA CapacityStep ==
  ASSUME BankInv, InCapacity, [BankNext]_bankAllVars PROVE InCapacity'
  <1>1. BankInv'
    BY InvStep
  <1>2. /\ status \in [App -> Status] /\ offers \in [App -> Seq(Offer)]
        /\ offers' \in [App -> Seq(Offer)]
    BY <1>1 DEF BankInv, BankTypeOK
  (* An active appointment belongs to an application that is not cancelled. *)
  <1>3. ASSUME UNCHANGED offers PROVE InCapacity'
    <2>1. \A b \in Branch, d \in Day, x \in App : \A i \in DOMAIN offers'[x] :
            Booked(offers, x, i, b, d)' => i \in DOMAIN offers[x] /\ Booked(offers, x, i, b, d)
      <3> SUFFICES ASSUME NEW b \in Branch, NEW d \in Day, NEW x \in App,
                          NEW i \in DOMAIN offers'[x], Booked(offers, x, i, b, d)'
                   PROVE  i \in DOMAIN offers[x] /\ Booked(offers, x, i, b, d)
        OBVIOUS
      <3>1. i \in DOMAIN offers[x] /\ Active(offers[x][i])
        BY <1>3 DEF Booked
      <3>2. status[x] # "CANCELLED"
        BY <3>1, ActiveIsLatest
      <3> QED BY <1>3, <3>1, <3>2 DEF Booked
    <2> QED BY <2>1, NoNewBooking
  <1>4. ASSUME NEW m \in inflight, Transact(m) PROVE InCapacity'
    <2>1. CASE StaffApprove(m) \/ StaffReject(m) \/ StaffCancel(m) \/ AdminReject(m) \/ Refuse(m)
      BY <1>3, <2>1, DecisionsBookNothing
    <2>2. CASE AdminApprove(m) \/ Reject(m)
      BY <1>1, <2>2, ProposalsLeaveRoom, BookingInCapacity
    <2>3. CASE Accept(m)
      <3>1. \A b \in Branch, d \in Day, x \in App : \A i \in DOMAIN offers'[x] :
              Booked(offers, x, i, b, d)' => i \in DOMAIN offers[x] /\ Booked(offers, x, i, b, d)
        <4> SUFFICES ASSUME NEW b \in Branch, NEW d \in Day, NEW x \in App,
                            NEW i \in DOMAIN offers'[x], Booked(offers, x, i, b, d)'
                     PROVE  i \in DOMAIN offers[x] /\ Booked(offers, x, i, b, d)
          OBVIOUS
        <4>1. CASE x # m.app
          BY <1>2, <2>3, <4>1 DEF Accept, Moves, Booked
        <4>2. CASE x = m.app
          <5>1. i \in DOMAIN offers[x] /\ offers[x][i] \in Offer
            <6>1. i \in DOMAIN offers[x] /\ offers[x] \in Seq(Offer)
              BY <1>2, <2>3, <4>2, AcceptedRow
            <6> QED BY <6>1, LenProperties, ElementOfSeq
          <5>2. /\ offers'[x][i].branch = offers[x][i].branch
                /\ offers'[x][i].day = offers[x][i].day
                /\ Active(offers'[x][i]) => Active(offers[x][i])
            <6>1. CASE i = m.attempt
              <7>1. /\ offers'[x][i] = [offers[x][i] EXCEPT !.status = "accepted"]
                    /\ offers[x][i].status = "proposed"
                BY <2>3, <4>2, <6>1, AcceptedRow DEF Latest
              <7> QED BY <5>1, <7>1 DEF Offer, Active
            <6>2. CASE i # m.attempt
              BY <2>3, <4>2, <5>1, <6>2, AcceptedRow
            <6> QED BY <6>1, <6>2
          <5>3. Active(offers[x][i])
            BY <5>2 DEF Booked
          <5>4. status[x] # "CANCELLED"
            BY <5>1, <5>3, ActiveIsLatest
          <5> QED BY <5>1, <5>2, <5>3, <5>4 DEF Booked
        <4> QED BY <4>1, <4>2
      <3> QED BY <3>1, NoNewBooking
    <2>4. ASSUME NEW b \in Branch, NEW d \in Day, NEW t \in Time, NEW direct \in BOOLEAN,
                 ScheduleManual(m, b, d, t, direct)
          PROVE  InCapacity'
      <3>1. /\ m.app \in App /\ CancelActive(offers[m.app]) \in Seq(Offer)
            /\ HasRoom(m.app, b, d)
            /\ \E e \in Offer, to \in {"APPOINTMENT_CONFIRMED", "APPOINTMENT_PROPOSED"} :
                 /\ Books(m.app, CancelActive(offers[m.app]), e, to)
                 /\ e.branch = b /\ e.day = d
        BY <2>4, ScheduleBooks
      <3> QED BY <1>1, <3>1, BookingInCapacity
    <2> QED BY <1>4, <2>1, <2>2, <2>3, <2>4 DEF Transact
  <1>5. CASE \E s \in Staff, a \in App, op \in StaffOp : AdmitStaff(s, a, op)
    BY <1>3, <1>5 DEF AdmitStaff
  <1>6. CASE \E a \in App, op \in CustomerOp : AdmitCustomer(a, op)
    BY <1>3, <1>6 DEF AdmitCustomer
  <1>7. CASE ConfigureBranches \/ NextDay
    BY <1>3, <1>7 DEF ConfigureBranches, NextDay
  <1>8. CASE UNCHANGED bankAllVars
    BY <1>3, <1>8 DEF bankAllVars
  <1> QED BY <1>4, <1>5, <1>6, <1>7, <1>8 DEF BankNext

(* No branch has more active appointments on a day than its capacity.       *)
THEOREM CapacitiesRespected == BankSpec => []CapacityRespected
  <1>1. BankInit => InCapacity
    <2> SUFFICES ASSUME BankInit, NEW b \in Branch, NEW d \in Day
                 PROVE  /\ IsFiniteSet(BookedOn(offers, b, d))
                        /\ Cardinality(BookedOn(offers, b, d)) <= Capacity[b]
      BY DEF InCapacity
    <2>1. BookedOn(offers, b, d) = {}
      BY DEF BankInit, BankIdle, BookedOn, Booked
    <2> QED BY <2>1, FS_EmptySet, BranchAssumption
  <1>2. BankInv /\ InCapacity /\ [BankNext]_bankAllVars => InCapacity'
    BY CapacityStep
  <1>3. InCapacity => CapacityRespected
    BY DEF InCapacity, CapacityRespected
  <1> QED BY <1>1, <1>2, <1>3, BankInvHolds, PTL DEF BankSpec

-----------------------------------------------------------------------------
(* How often the customer changed the appointment.  Each row carries the    *)
(* count of the changes before it, so the latest carries the highest, which *)
(* an appointment fixed by hand looks for among the rows.                   *)
CountsUp ==
  \A a \in App : offers[a] # <<>> =>
    /\ Latest(offers, a).resched = Cardinality(Rejected(a))
    /\ \A i \in DOMAIN offers[a] : offers[a][i].resched <= Latest(offers, a).resched
    /\ Latest(offers, a).status # "rejected"

LEMMA CountOfRow ==
  ASSUME NEW rows \in Seq(Offer), NEW i \in DOMAIN rows
  PROVE  rows[i] \in Offer /\ rows[i].resched \in Nat
  <1>1. i \in 1..Len(rows)
    BY LenProperties
  <1>2. rows[i] \in Offer
    BY <1>1, ElementOfSeq
  <1> QED BY <1>2, BoundAssumption DEF Offer

LEMMA RejectedFinite ==
  ASSUME BankTypeOK, NEW a \in App PROVE IsFiniteSet(Rejected(a))
  <1>1. offers[a] \in Seq(Offer)
    BY DEF BankTypeOK
  <1>2. DOMAIN offers[a] = 1..Len(offers[a]) /\ Len(offers[a]) \in Nat
    BY <1>1, LenProperties
  <1>3. IsFiniteSet(1..Len(offers[a]))
    BY <1>2, FS_Interval
  <1> QED BY <1>2, <1>3, FS_Subset DEF Rejected

(* A row added to the rows of a.                                            *)
LEMMA AppendCountsUp ==
  ASSUME BankTypeOK, BankTypeOK', CountsUp,
         NEW a \in App, NEW rows \in Seq(Offer), NEW e \in Offer,
         offers' = [offers EXCEPT ![a] = Append(rows, e)],
         e.status # "rejected",
         e.resched = Cardinality({i \in DOMAIN rows : rows[i].status = "rejected"}),
         \A i \in DOMAIN rows : rows[i].resched <= e.resched
  PROVE  CountsUp'
  <1> DEFINE new == Append(rows, e)
  <1>1. offers \in [App -> Seq(Offer)]
    BY DEF BankTypeOK
  <1>2. offers'[a] = new /\ \A x \in App \ {a} : offers'[x] = offers[x]
    BY <1>1
  <1>3. DOMAIN rows = 1..Len(rows) /\ Len(rows) \in Nat
    BY LenProperties
  <1>4. /\ Len(new) = Len(rows) + 1 /\ DOMAIN new = 1..(Len(rows) + 1)
        /\ new[Len(rows) + 1] = e /\ \A i \in 1..Len(rows) : new[i] = rows[i]
    BY AppendRow
  <1> HIDE DEF new
  <1>5. Latest(offers, a)' = e
    BY <1>2, <1>4 DEF Latest
  <1>6. Rejected(a)' = {i \in DOMAIN rows : rows[i].status = "rejected"}
    <2>1. \A i \in 1..(Len(rows) + 1) : i = Len(rows) + 1 \/ i \in 1..Len(rows)
      BY <1>3
    <2>2. \A i \in 1..Len(rows) : i \in 1..(Len(rows) + 1)
      BY <1>3
    <2> QED BY <1>2, <1>3, <1>4, <2>1, <2>2 DEF Rejected
  <1>7. e.resched <= e.resched
    BY BoundAssumption DEF Offer
  <1>8. \A i \in DOMAIN new : new[i].resched <= e.resched
    <2>1. \A i \in 1..(Len(rows) + 1) : i = Len(rows) + 1 \/ i \in 1..Len(rows)
      BY <1>3
    <2> QED BY <1>3, <1>4, <1>7, <2>1
  <1>9. \A x \in App \ {a} : Rejected(x)' = Rejected(x) /\ Latest(offers, x)' = Latest(offers, x)
    BY <1>2 DEF Rejected, Latest
  <1> QED
    <2> SUFFICES ASSUME NEW x \in App, offers'[x] # <<>>
                 PROVE  /\ Latest(offers, x)'.resched = Cardinality(Rejected(x)')
                        /\ \A i \in DOMAIN offers'[x] :
                             offers'[x][i].resched <= Latest(offers, x)'.resched
                        /\ Latest(offers, x)'.status # "rejected"
      BY DEF CountsUp
    <2>1. CASE x = a
      BY <1>2, <1>5, <1>6, <1>8, <2>1
    <2>2. CASE x # a
      BY <1>2, <1>9, <2>2 DEF CountsUp
    <2> QED BY <2>1, <2>2

(* The rows a transaction appends to: none yet, one rejection more, or the  *)
(* active ones cancelled.                                                   *)
LEMMA AdminApproveCountsUp ==
  ASSUME BankInv, BankTypeOK', CountsUp, NEW m \in inflight, AdminApprove(m)
  PROVE  CountsUp'
  <1>1. /\ m.app \in App /\ offers[m.app] = <<>> /\ BankTypeOK
        /\ \E e \in Offer :
             Books(m.app, offers[m.app], e, "APPOINTMENT_PROPOSED") /\ e.resched = 0
    BY AdminApproveBooks DEF BankInv
  <1>2. PICK e \in Offer : Books(m.app, <<>>, e, "APPOINTMENT_PROPOSED") /\ e.resched = 0
    BY <1>1
  <1>3. <<>> \in Seq(Offer) /\ DOMAIN <<>> = {}
    OBVIOUS
  <1>4. {i \in DOMAIN <<>> : <<>>[i].status = "rejected"} = {}
    BY <1>3
  <1>5. e.status # "rejected" /\ offers' = [offers EXCEPT ![m.app] = Append(<<>>, e)]
    BY <1>2 DEF Books
  <1>6. e.resched = Cardinality({i \in DOMAIN <<>> : <<>>[i].status = "rejected"})
    BY <1>2, <1>4, FS_EmptySet
  <1> QED BY ONLY <1>1, <1>3, <1>5, <1>6, BankTypeOK', CountsUp, AppendCountsUp

LEMMA RejectCountsUp ==
  ASSUME BankInv, BankTypeOK', CountsUp, NEW m \in inflight, Reject(m)
  PROVE  CountsUp'
  <1> DEFINE a == m.app
             n == Len(offers[a])
             rows == TurnedDown(a)
             turned == {i \in DOMAIN rows : rows[i].status = "rejected"}
  <1>1. /\ a \in App /\ rows \in Seq(Offer) /\ n \in DOMAIN offers[a]
        /\ Latest(offers, a).status = "proposed"
    BY RejectBooks
  <1>2. PICK e \in Offer :
          /\ Books(a, rows, e, "APPOINTMENT_PROPOSED")
          /\ e.resched = Latest(offers, a).resched + 1
    BY RejectBooks
  <1>3. BankTypeOK /\ offers[a] \in Seq(Offer)
    BY <1>1 DEF BankInv, BankTypeOK
  <1>4. DOMAIN offers[a] = 1..n /\ n \in Nat /\ offers[a][n] \in Offer /\ offers[a] # <<>>
    BY <1>1, <1>3, LenProperties, ElementOfSeq
  <1>5. /\ DOMAIN rows = DOMAIN offers[a]
        /\ rows[n] = [offers[a][n] EXCEPT !.status = "rejected"]
        /\ \A i \in DOMAIN offers[a] : i # n => rows[i] = offers[a][i]
    <2>1. n \in 1..Len(offers[a]) /\ "rejected" \in OfferStatus
      BY <1>1, <1>4 DEF OfferStatus
    <2>2. rows[n] = [offers[a][n] EXCEPT !.status = "rejected"]
      BY ONLY <1>3, <2>1, DecideRow DEF TurnedDown
    <2> QED BY <2>2 DEF TurnedDown
  <1>6. rows[n].status = "rejected" /\ rows[n].resched = offers[a][n].resched
    BY <1>4, <1>5 DEF Offer
  <1>7. turned = Rejected(a) \cup {n} /\ n \notin Rejected(a)
    <2>1. n \notin Rejected(a)
      BY <1>1 DEF Rejected, Latest
    <2>2. \A i \in DOMAIN offers[a] : i # n =>
            (rows[i].status = "rejected" <=> offers[a][i].status = "rejected")
      BY <1>5
    <2> HIDE DEF rows
    <2> QED BY <1>1, <1>5, <1>6, <2>1, <2>2 DEF Rejected
  <1>8. /\ IsFiniteSet(Rejected(a)) /\ Cardinality(Rejected(a)) \in Nat
        /\ Cardinality(turned) = Cardinality(Rejected(a)) + 1
    BY <1>1, <1>3, <1>7, RejectedFinite, FS_AddElement, FS_CardinalityType
  <1>9. /\ Latest(offers, a).resched = Cardinality(Rejected(a))
        /\ \A i \in DOMAIN offers[a] : offers[a][i].resched <= Latest(offers, a).resched
    BY <1>1, <1>4 DEF CountsUp
  <1>10. \A i \in DOMAIN offers[a] :
           rows[i].resched = offers[a][i].resched /\ offers[a][i].resched \in Nat
    <2>1. \A i \in DOMAIN offers[a] : offers[a][i].resched \in Nat
      BY <1>3, CountOfRow
    <2> QED BY <1>5, <1>6, <2>1
  <1> HIDE DEF rows, turned
  <1>11. e.resched = Cardinality(turned)
    BY <1>2, <1>8, <1>9
  <1>12. \A i \in DOMAIN rows : rows[i].resched <= e.resched
    BY <1>2, <1>5, <1>8, <1>9, <1>10
  <1>13. e.status # "rejected" /\ offers' = [offers EXCEPT ![a] = Append(rows, e)]
    BY <1>2 DEF Books
  <1> QED BY <1>1, <1>3, <1>11, <1>12, <1>13, AppendCountsUp DEF turned

LEMMA ScheduleCountsUp ==
  ASSUME BankInv, BankTypeOK', CountsUp, NEW m \in inflight, NEW b \in Branch, NEW d \in Day,
         NEW t \in Time, NEW direct \in BOOLEAN, ScheduleManual(m, b, d, t, direct)
  PROVE  CountsUp'
  <1> DEFINE a == m.app
             rows == CancelActive(offers[a])
             turned == {i \in DOMAIN rows : rows[i].status = "rejected"}
  <1>1. a \in App /\ rows \in Seq(Offer)
    BY ScheduleBooks
  <1>2. PICK e \in Offer, to \in {"APPOINTMENT_CONFIRMED", "APPOINTMENT_PROPOSED"} :
          Books(a, rows, e, to) /\ IsMaxResched(a, e.resched)
    BY ScheduleBooks
  <1>3. BankTypeOK /\ offers[a] \in Seq(Offer)
    BY <1>1 DEF BankInv, BankTypeOK
  <1>4. \A i \in DOMAIN offers[a] : offers[a][i] \in Offer /\ offers[a][i].resched \in Nat
    BY <1>3, CountOfRow
  <1>5. DOMAIN rows = DOMAIN offers[a]
    BY DEF CancelActive
  <1>6. \A i \in DOMAIN offers[a] :
          /\ rows[i].resched = offers[a][i].resched
          /\ rows[i].status = "rejected" <=> offers[a][i].status = "rejected"
    <2> SUFFICES ASSUME NEW i \in DOMAIN offers[a]
                 PROVE  /\ rows[i].resched = offers[a][i].resched
                        /\ rows[i].status = "rejected" <=> offers[a][i].status = "rejected"
      OBVIOUS
    <2>1. CASE Active(offers[a][i])
      <3>1. rows[i] = [offers[a][i] EXCEPT !.status = "cancelled"]
        BY <2>1 DEF CancelActive
      <3> QED BY <1>4, <2>1, <3>1 DEF Offer, Active
    <2>2. CASE ~Active(offers[a][i])
      BY <2>2 DEF CancelActive
    <2> QED BY <2>1, <2>2
  <1>7. turned = Rejected(a)
    BY <1>5, <1>6 DEF Rejected
  <1>8. e.resched = Cardinality(Rejected(a))
    <2>1. CASE offers[a] = <<>>
      <3>1. DOMAIN offers[a] = {}
        BY <2>1
      <3>2. e.resched = 0
        BY <1>2, <3>1 DEF IsMaxResched
      <3> QED BY <3>1, <3>2, FS_EmptySet DEF Rejected
    <2>2. CASE offers[a] # <<>>
      <3>1. /\ Latest(offers, a).resched = Cardinality(Rejected(a))
            /\ \A i \in DOMAIN offers[a] : offers[a][i].resched <= Latest(offers, a).resched
        BY <1>1, <2>2 DEF CountsUp
      <3>2. Len(offers[a]) \in DOMAIN offers[a]
        BY <1>3, <2>2, EmptySeq, LenProperties
      <3>3. Latest(offers, a).resched \in Nat /\ Latest(offers, a).resched <= e.resched
        BY <1>2, <1>4, <3>2 DEF Latest, IsMaxResched
      <3>4. e.resched \in Nat
        BY BoundAssumption DEF Offer
      <3>5. e.resched = 0 \/ e.resched <= Latest(offers, a).resched
        BY <1>2, <3>1 DEF IsMaxResched
      <3> QED BY <3>1, <3>3, <3>4, <3>5
    <2> QED BY <2>1, <2>2
  <1>9. \A i \in DOMAIN rows : rows[i].resched <= e.resched
    BY <1>2, <1>5, <1>6 DEF IsMaxResched
  <1>10. e.status # "rejected" /\ offers' = [offers EXCEPT ![a] = Append(rows, e)]
    BY <1>2 DEF Books
  <1> HIDE DEF rows, turned
  <1> QED BY <1>1, <1>3, <1>7, <1>8, <1>9, <1>10, AppendCountsUp DEF turned

LEMMA AcceptCountsUp ==
  ASSUME BankInv, CountsUp, NEW m \in inflight, Accept(m)
  PROVE  CountsUp'
  <1> DEFINE a == m.app
             n == m.attempt
  <1>1. /\ a \in App /\ offers[a] \in Seq(Offer) /\ n = Len(offers[a]) /\ n \in DOMAIN offers[a]
        /\ Latest(offers, a).status = "proposed"
        /\ Len(offers'[a]) = Len(offers[a])
        /\ DOMAIN offers'[a] = DOMAIN offers[a]
        /\ offers'[a][n] = [Latest(offers, a) EXCEPT !.status = "accepted"]
        /\ \A i \in DOMAIN offers[a] : i # n => offers'[a][i] = offers[a][i]
    BY AcceptedRow
  <1>2. offers' = [offers EXCEPT ![a] = offers'[a]] /\ offers \in [App -> Seq(Offer)]
    BY AcceptedRow DEF BankInv, BankTypeOK
  <1>3. \A x \in App \ {a} : offers'[x] = offers[x]
    BY <1>2, Zenon
  <1>4. offers[a] # <<>> /\ Latest(offers, a) \in Offer
    BY <1>1, LenProperties, ElementOfSeq DEF Latest
  <1>5. /\ Latest(offers, a)'.status = "accepted"
        /\ Latest(offers, a)'.resched = Latest(offers, a).resched
    BY <1>1, <1>4 DEF Latest, Offer
  <1>6. \A i \in DOMAIN offers[a] :
          /\ offers'[a][i].resched = offers[a][i].resched
          /\ offers'[a][i].status = "rejected" <=> offers[a][i].status = "rejected"
    BY <1>1, <1>5 DEF Latest
  <1>7. Rejected(a)' = Rejected(a)
    BY <1>1, <1>6 DEF Rejected
  <1>8. \A x \in App \ {a} : Rejected(x)' = Rejected(x) /\ Latest(offers, x)' = Latest(offers, x)
    BY <1>3 DEF Rejected, Latest
  <1> QED
    <2> SUFFICES ASSUME NEW x \in App, offers'[x] # <<>>
                 PROVE  /\ Latest(offers, x)'.resched = Cardinality(Rejected(x)')
                        /\ \A i \in DOMAIN offers'[x] :
                             offers'[x][i].resched <= Latest(offers, x)'.resched
                        /\ Latest(offers, x)'.status # "rejected"
      BY DEF CountsUp
    <2>1. CASE x = a
      BY <1>1, <1>4, <1>5, <1>6, <1>7, <2>1 DEF CountsUp
    <2>2. CASE x # a
      BY <1>3, <1>8, <2>2 DEF CountsUp
    <2> QED BY <2>1, <2>2

LEMMA CountsUpStep ==
  ASSUME BankInv, CountsUp, [BankNext]_bankAllVars PROVE CountsUp'
  <1>1. BankTypeOK'
    BY TypeStep DEF BankInv
  <1>2. ASSUME UNCHANGED offers PROVE CountsUp'
    BY <1>2 DEF CountsUp, Latest, Rejected
  <1>3. ASSUME NEW m \in inflight, Transact(m) PROVE CountsUp'
    <2>1. CASE StaffApprove(m) \/ StaffReject(m) \/ StaffCancel(m) \/ AdminReject(m) \/ Refuse(m)
      BY <1>2, <2>1, DecisionsBookNothing
    <2> QED BY <1>1, <1>3, <2>1, AdminApproveCountsUp, AcceptCountsUp, RejectCountsUp,
               ScheduleCountsUp DEF Transact
  <1>4. CASE \E s \in Staff, a \in App, op \in StaffOp : AdmitStaff(s, a, op)
    BY <1>2, <1>4 DEF AdmitStaff
  <1>5. CASE \E a \in App, op \in CustomerOp : AdmitCustomer(a, op)
    BY <1>2, <1>5 DEF AdmitCustomer
  <1>6. CASE ConfigureBranches \/ NextDay
    BY <1>2, <1>6 DEF ConfigureBranches, NextDay
  <1>7. CASE UNCHANGED bankAllVars
    BY <1>2, <1>7 DEF bankAllVars
  <1> QED BY <1>3, <1>4, <1>5, <1>6, <1>7 DEF BankNext

LEMMA CountsUpHolds == BankSpec => []CountsUp
  <1>1. BankInit => CountsUp
    BY DEF BankInit, BankIdle, CountsUp
  <1>2. BankInv /\ CountsUp /\ [BankNext]_bankAllVars => CountsUp'
    BY CountsUpStep
  <1> QED BY <1>1, <1>2, BankInvHolds, PTL DEF BankSpec

(* The count of the latest appointment is the number of appointments the    *)
(* customer turned down, whatever the bank fixed by hand in between.        *)
THEOREM ReschedulesAreCounted == BankSpec => []ReschedulesCounted
  <1>1. CountsUp => ReschedulesCounted
    BY DEF CountsUp, ReschedulesCounted
  <1> QED BY <1>1, CountsUpHolds, PTL

(* The appointment that replaces one turned down is at a time not offered   *)
(* to the application on that day before.  No other transaction appends to  *)
(* a row that was turned down, since it never is the latest one.            *)
THEOREM NothingReoffered == BankSpec => NeverReoffered
  <1> DEFINE Fresh ==
        \A a \in App :
          /\ offers[a] # <<>> /\ Len(offers'[a]) > Len(offers[a])
          /\ offers'[a][Len(offers[a])].status = "rejected"
          => ~PreviouslyOffered(offers, a, Latest(offers', a).day, Latest(offers', a).time)
  <1>1. BankInv /\ CountsUp /\ [BankNext]_bankAllVars => Fresh
    <2> SUFFICES ASSUME BankInv, CountsUp, [BankNext]_bankAllVars, NEW a \in App,
                        offers[a] # <<>>, Len(offers'[a]) > Len(offers[a]),
                        offers'[a][Len(offers[a])].status = "rejected"
                 PROVE  ~PreviouslyOffered(offers, a, Latest(offers', a).day,
                                           Latest(offers', a).time)
      OBVIOUS
    <2>1. offers \in [App -> Seq(Offer)] /\ offers[a] \in Seq(Offer)
      BY DEF BankInv, BankTypeOK
    <2>2. /\ Len(offers[a]) \in Nat /\ DOMAIN offers[a] = 1..Len(offers[a])
          /\ Len(offers[a]) \in DOMAIN offers[a]
      BY <2>1, EmptySeq, LenProperties
    <2>3. offers' # offers
      BY <2>2
    <2>4. PICK m \in inflight : Transact(m)
      BY <2>3, OnlyTransactionsWrite
    <2>5. m.app = a
      BY <2>2, <2>4, WritesOwnApplication
    <2>6. Latest(offers, a).status # "rejected"
      BY DEF CountsUp
    <2>7. CASE StaffApprove(m) \/ StaffReject(m) \/ StaffCancel(m) \/ AdminReject(m) \/ Refuse(m)
      BY <2>3, <2>7, DecisionsBookNothing
    <2>8. CASE AdminApprove(m)
      BY <2>5, <2>8, AdminApproveBooks
    <2>9. CASE Accept(m)
      <3>1. Len(offers'[a]) = Len(offers[a])
        BY <2>5, <2>9, AcceptedRow
      <3> QED BY <2>2, <3>1
    <2>10. CASE Reject(m)
      <3>1. PICK e \in Offer :
              /\ Books(a, TurnedDown(a), e, "APPOINTMENT_PROPOSED")
              /\ ~PreviouslyOffered(offers, a, e.day, e.time)
        BY <2>5, <2>10, RejectBooks
      <3>2. TurnedDown(a) \in Seq(Offer)
        BY <2>5, <2>10, RejectBooks
      <3>3. offers'[a] = Append(TurnedDown(a), e)
        BY <2>1, <3>1 DEF Books
      <3>4. Latest(offers', a) = e
        BY <3>2, <3>3, AppendRow DEF Latest
      <3> QED BY <3>1, <3>4
    <2>11. ASSUME NEW b \in Branch, NEW d \in Day, NEW t \in Time, NEW direct \in BOOLEAN,
                  ScheduleManual(m, b, d, t, direct)
           PROVE  FALSE
      <3>1. PICK e \in Offer, to \in {"APPOINTMENT_CONFIRMED", "APPOINTMENT_PROPOSED"} :
              Books(a, CancelActive(offers[a]), e, to)
        BY <2>5, <2>11, ScheduleBooks
      <3>2. offers'[a] = Append(CancelActive(offers[a]), e)
        BY <2>1, <3>1 DEF Books
      <3>3. offers'[a][Len(offers[a])] = CancelActive(offers[a])[Len(offers[a])]
        <4>1. /\ CancelActive(offers[a]) \in Seq(Offer)
              /\ Len(offers[a]) \in 1..Len(CancelActive(offers[a]))
          BY <2>1, <2>2, CancelActiveRows
        <4> QED BY <3>2, <4>1, AppendRow
      <3>4. offers[a][Len(offers[a])] \in Offer
        BY <2>1, <2>2, CountOfRow
      <3>5. CancelActive(offers[a])[Len(offers[a])].status # "rejected"
        BY <2>2, <2>6, <3>4 DEF CancelActive, Latest, Offer
      <3> QED BY <3>3, <3>5
    <2> QED BY <2>4, <2>7, <2>8, <2>9, <2>10, <2>11 DEF Transact
  <1>2. BankInv /\ CountsUp /\ [BankNext]_bankAllVars => [Fresh]_bankAllVars
    BY <1>1
  <1> QED BY <1>2, BankInvHolds, CountsUpHolds, PTL DEF BankSpec, NeverReoffered
=============================================================================
