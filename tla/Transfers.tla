------------------------------ MODULE Transfers ------------------------------
(***************************************************************************)
(* The core ledger: deposits, transfer requests and their approval by a     *)
(* second member of staff.  A balance is not stored: it is the sum of the   *)
(* posted entries.                                                          *)
(*                                                                         *)
(* A transaction that reads under locks only is one step.  An approval is   *)
(* two: it locks the request row, then looks its accounts up without a      *)
(* lock, and that plain read fixes the snapshot of the transaction          *)
(* (REPEATABLE READ); it locks the accounts later, and sums the entries of  *)
(* the snapshot.                                                            *)
(***************************************************************************)
EXTENDS Integers, Sequences, FiniteSetsExt

CONSTANTS
  Account,           \* the customers' current accounts, active and in TND
  Cash,              \* the cash-settlement account of the bank
  Proposer,          \* the staff whose role may propose transfers
  Admin,             \* those of them who are administrators
  Nobody,
  Home, BranchOf,    \* branch_id of a proposer and of an account
  Amount,            \* amounts, in millimes
  Key,               \* Idempotency-Key values of proposals
  DepositKey,        \* Idempotency-Key values of deposits
  PerTransferLimit, DailyLimit,
  MaxRequests, MaxDeposits, LastDay   \* bounds

ASSUME TransferAssumption ==
  /\ Cash \notin Account /\ Admin \subseteq Proposer /\ Nobody \notin Proposer
  /\ Amount \subseteq Nat \ {0}
  /\ {PerTransferLimit, DailyLimit, MaxRequests, MaxDeposits, LastDay} \subseteq Nat \ {0}

VARIABLES
  requests,   \* banking_transfer_requests; the id is the position
  review,     \* review[i]: who is approving request i, and how many postings they see
  ledger,     \* ledger_transactions with their two entries, in the order of commits
  day

vars == <<requests, review, ledger, day>>

(* The key an approval posts under shares its column with the keys clients  *)
(* choose for deposits.                                                     *)
RequestKey(i) == <<"transfer-request", i>>

Posting == [key : DepositKey \cup {RequestKey(i) : i \in 1..MaxRequests},
            type : {"deposit", "transfer"}, from : Account \cup {Cash}, to : Account,
            amount : Amount]

TypeOK ==
  /\ requests \in Seq([key : Key, source : Account, destination : Account, amount : Amount,
                       on : 1..LastDay, status : {"pending", "approved", "rejected"},
                       maker : Proposer, checker : Admin \cup {Nobody}, posting : Nat])
  /\ review \in [1..MaxRequests -> [by : Admin \cup {Nobody}, seen : Nat]]
  /\ ledger \in Seq(Posting)
  /\ day \in 1..LastDay

NoReview == [by |-> Nobody, seen |-> 0]

Init ==
  /\ requests = <<>> /\ ledger = <<>> /\ day = 1
  /\ review = [i \in 1..MaxRequests |-> NoReview]

-----------------------------------------------------------------------------
(* What the first n postings make of an account: credits less debits.       *)
Delta(a, p) ==
  (IF p.to = a THEN p.amount ELSE 0) - (IF p.from = a THEN p.amount ELSE 0)

Balance(a, n) == MapThenSumSet(LAMBDA k : Delta(a, ledger[k]), 1..n)

UnderReview(i) == review[i].by # Nobody

(* Mutant of MatchesExisting: the key alone identifies a posting.           *)
MatchesKey(p, q) == p.key = q.key

(* The type and the hash of the payload of an earlier posting must agree.   *)
MatchesExisting(p, q) == p = q

(* postIdempotently: a key in use returns its posting, or is a conflict.    *)
Posts(p, funded) ==
  IF \E n \in DOMAIN ledger : ledger[n].key = p.key
    THEN /\ \E n \in DOMAIN ledger : ledger[n].key = p.key /\ MatchesExisting(ledger[n], p)
         /\ UNCHANGED ledger
    ELSE funded /\ ledger' = Append(ledger, p)

Deposit(k, a, n) ==
  /\ Cardinality({m \in DOMAIN ledger : ledger[m].from = Cash}) < MaxDeposits
  /\ Posts([key |-> k, type |-> "deposit", from |-> Cash, to |-> a, amount |-> n], TRUE)
  /\ UNCHANGED <<requests, review, day>>

-----------------------------------------------------------------------------
(* Mutant of Reserved: only what was approved counts.                       *)
ReservedByApproved(a) ==
  MapThenSumSet(LAMBDA i : requests[i].amount,
    {i \in DOMAIN requests : requests[i].source = a /\ requests[i].on = day
                               /\ requests[i].status = "approved"})

(* Pending and approved requests of the day reserve the limit.              *)
Reserved(a) ==
  MapThenSumSet(LAMBDA i : requests[i].amount,
    {i \in DOMAIN requests : requests[i].source = a /\ requests[i].on = day
                               /\ requests[i].status # "rejected"})

(* The daily limit is never below the limit of one transfer.                *)
DailyCap == IF DailyLimit < PerTransferLimit THEN PerTransferLimit ELSE DailyLimit

MayDebit(s, a) == s \in Admin \/ Home[s] = BranchOf[a]

(* All under the lock of the source account; the day's requests are summed  *)
(* by a locking read, which waits for those under review.                   *)
Propose(s, k, a, b, n) ==
  /\ Len(requests) < MaxRequests
  /\ a # b /\ MayDebit(s, a)
  /\ \A i \in DOMAIN requests :
       /\ requests[i].key # k
       /\ UnderReview(i) => requests[i].source # a \/ requests[i].on # day
  /\ n <= PerTransferLimit /\ Reserved(a) + n <= DailyCap
  /\ requests' = Append(requests,
       [key |-> k, source |-> a, destination |-> b, amount |-> n, on |-> day,
        status |-> "pending", maker |-> s, checker |-> Nobody, posting |-> 0])
  /\ UNCHANGED <<review, ledger, day>>

(* Mutant of MayCheck: the status the request was bound with is trusted.    *)
MayCheckBound(i, s) == ~UnderReview(i) /\ requests[i].maker # s

(* The row lock obtained, the request still pending, and somebody else's.   *)
MayCheck(i, s) ==
  ~UnderReview(i) /\ requests[i].status = "pending" /\ requests[i].maker # s

Approve(i, s) ==
  /\ MayCheck(i, s)
  /\ review' = [review EXCEPT ![i] = [by |-> s, seen |-> Len(ledger)]]
  /\ UNCHANGED <<requests, ledger, day>>

TransferOf(i) ==
  [key |-> RequestKey(i), type |-> "transfer", from |-> requests[i].source,
   to |-> requests[i].destination, amount |-> requests[i].amount]

(* Mutant of Funded: an account may be overdrawn by the smallest amount.    *)
FundedAlmost(i) ==
  Balance(requests[i].source, review[i].seen) >= requests[i].amount - 1

(* balanceMillimes, a plain read: of the snapshot.                          *)
Funded(i) == Balance(requests[i].source, review[i].seen) >= requests[i].amount

PostTransfer(i) ==
  /\ UnderReview(i) /\ Posts(TransferOf(i), Funded(i))
  /\ requests' = [requests EXCEPT ![i].status = "approved", ![i].checker = review[i].by,
       ![i].posting = CHOOSE n \in DOMAIN ledger' : ledger'[n].key = RequestKey(i)]
  /\ review' = [review EXCEPT ![i] = NoReview]
  /\ UNCHANGED day

(* Insufficient funds, a key conflict, a deadlock or a lost connection.     *)
RollBack(i) ==
  /\ UnderReview(i)
  /\ review' = [review EXCEPT ![i] = NoReview]
  /\ UNCHANGED <<requests, ledger, day>>

Reject(i, s) ==
  /\ MayCheck(i, s)
  /\ requests' = [requests EXCEPT ![i].status = "rejected", ![i].checker = s]
  /\ UNCHANGED <<review, ledger, day>>

NextDay == day < LastDay /\ day' = day + 1 /\ UNCHANGED <<requests, review, ledger>>

Next ==
  \/ \E k \in DepositKey, a \in Account, n \in Amount : Deposit(k, a, n)
  \/ \E s \in Proposer, k \in Key, a, b \in Account, n \in Amount : Propose(s, k, a, b, n)
  \/ \E i \in DOMAIN requests :
       \/ \E s \in Admin : Approve(i, s) \/ Reject(i, s)
       \/ PostTransfer(i) \/ RollBack(i)
  \/ NextDay

Spec == Init /\ [][Next]_vars

-----------------------------------------------------------------------------
(* The request and the ledger agree: an approved request has its own        *)
(* posting, with its accounts and its amount, every transfer in the ledger  *)
(* is that of an approved request, and no key is posted twice.              *)
ApprovalsPostedOnce ==
  /\ \A i \in DOMAIN requests : requests[i].status = "approved" =>
       requests[i].posting \in DOMAIN ledger /\ ledger[requests[i].posting] = TransferOf(i)
  /\ \A n \in DOMAIN ledger : ledger[n].type = "transfer" =>
       \E i \in DOMAIN requests : requests[i].posting = n /\ requests[i].status = "approved"
  /\ \A m, n \in DOMAIN ledger : ledger[m].key = ledger[n].key => m = n

(* What leaves an account by requests of one day stays within its limit,    *)
(* whenever they are approved, and however many are proposed at once.       *)
DailyLimitHeld ==
  \A a \in Account, d \in 1..LastDay :
    MapThenSumSet(LAMBDA i : requests[i].amount,
      {i \in DOMAIN requests : requests[i].source = a /\ requests[i].on = d
                                 /\ requests[i].status # "rejected"}) <= DailyCap

(* A request is decided once, and what is posted stays as it is.            *)
DecidedOnce ==
  [][/\ \A i \in DOMAIN requests :
          requests[i].status # "pending" => requests'[i] = requests[i]
     /\ \A n \in DOMAIN ledger : ledger'[n] = ledger[n]]_vars

(* An approval overdraws an account only when another transfer out of it    *)
(* was posted between the approval's snapshot and its own posting.          *)
OverdrawnOnlyByOverlap ==
  [][\A a \in Account :
       Balance(a, Len(ledger))' < 0 /\ Len(ledger') > Len(ledger)
         /\ ledger'[Len(ledger')].from = a /\ Balance(a, Len(ledger)) >= 0
       => \E i \in DOMAIN requests : \E n \in (review[i].seen + 1)..Len(ledger) :
            UnderReview(i) /\ review'[i] = NoReview /\ ledger[n].from = a]_vars

-----------------------------------------------------------------------------
(* What the documentation says, and the code does not ensure: the balance   *)
(* rechecked under the account locks covers what is posted.                 *)
NeverOverdrawn == \A a \in Account : Balance(a, Len(ledger)) >= 0
=============================================================================
