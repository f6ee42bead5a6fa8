--------------------------- MODULE TransferProofs ---------------------------
(***************************************************************************)
(* Proofs about Transfers, for any accounts, staff, keys, amounts and       *)
(* numbers of requests.                                                     *)
(***************************************************************************)
EXTENDS Transfers, SequenceTheorems, FiniteSetTheorems, WellFoundedInduction, TLAPS

-----------------------------------------------------------------------------
(* Sums over finite sets: MapThenSumSet takes an element out, again and     *)
(* again.                                                                   *)
One(s) == CHOOSE x \in s : TRUE
Sums(g, f, T) ==
  g = [s \in SUBSET T |-> IF s = {} THEN 0 ELSE f[One(s)] + g[s \ {One(s)}]]
Total(f, T) == (CHOOSE g : Sums(g, f, T))[T]

(* Among subsets of a finite set one has no other below it.                 *)
LEMMA LeastSubset ==
  ASSUME NEW T, IsFiniteSet(T), NEW P \in SUBSET SUBSET T, P # {}
  PROVE  \E s \in P : \A r \in P : r \subseteq s => r = s
  <1>1. IsWellFoundedOn(StrictSubsetOrdering(T), SUBSET T)
    BY FS_StrictSubsetOrderingWellFounded, FS_FiniteSubsetsOfFinite
  <1>2. PICK s \in P : \A r \in P : <<r, s>> \notin StrictSubsetOrdering(T)
    BY <1>1, WFMin
  <1> QED BY <1>2 DEF StrictSubsetOrdering

LEMMA OneOf ==
  ASSUME NEW s, s # {}
  PROVE  One(s) \in s /\ s \ {One(s)} \subseteq s /\ s \ {One(s)} # s
  BY DEF One

LEMMA SumsAt ==
  ASSUME NEW f, NEW T, NEW g, Sums(g, f, T), NEW s \in SUBSET T
  PROVE  g[s] = IF s = {} THEN 0 ELSE f[One(s)] + g[s \ {One(s)}]
  <1> DEFINE body(r) == IF r = {} THEN 0 ELSE f[One(r)] + g[r \ {One(r)}]
  <1>1. g = [r \in SUBSET T |-> body(r)]
    BY DEF Sums
  <1>2. g[s] = body(s)
    <2> HIDE DEF body
    <2> QED BY <1>1
  <1> QED BY <1>2

(* Summing two functions that agree, below two sets, agrees.                *)
LEMMA SumsAgree ==
  ASSUME NEW f, NEW h, NEW S, NEW T, NEW g, NEW k, Sums(g, f, S), Sums(k, h, T),
         IsFiniteSet(T), NEW U \in SUBSET (S \cap T), \A x \in U : f[x] = h[x]
  PROVE  g[U] = k[U]
  <1> DEFINE P == {s \in SUBSET U : g[s] # k[s]}
  <1>1. ASSUME P # {} PROVE FALSE
    <2>1. IsFiniteSet(U)
      BY FS_Subset
    <2>2. PICK s \in P : \A r \in P : r \subseteq s => r = s
      <3>1. P \in SUBSET SUBSET U
        OBVIOUS
      <3> HIDE DEF P
      <3> QED BY <1>1, <2>1, <3>1, LeastSubset
    <2>3. s \in SUBSET S /\ s \in SUBSET T
      OBVIOUS
    <2>4. s # {}
      <3>1. g[{}] = 0
        BY ZenonT(40), SumsAt
      <3>2. k[{}] = 0
        BY SumsAt
      <3> QED BY <2>2, <3>1, <3>2
    <2>5. One(s) \in U /\ g[s \ {One(s)}] = k[s \ {One(s)}]
      BY <2>2, <2>4, OneOf
    <2> QED BY <2>2, <2>3, <2>4, <2>5, SumsAt
  <1> QED BY <1>1

LEMMA SumsExist ==
  ASSUME NEW f, NEW T, IsFiniteSet(T)
  PROVE  \E g : Sums(g, f, T)
  <1> DEFINE P == {s \in SUBSET T : ~\E g : Sums(g, f, s)}
  <1>1. ASSUME P # {} PROVE FALSE
    <2>1. PICK s \in P : \A r \in P : r \subseteq s => r = s
      <3>1. P \in SUBSET SUBSET T
        OBVIOUS
      <3> HIDE DEF P
      <3> QED BY <1>1, <3>1, LeastSubset
    <2> DEFINE G(r) == CHOOSE g : Sums(g, f, r)
               body(r) == IF r = {} THEN 0 ELSE f[One(r)] + G(r \ {One(r)})[r \ {One(r)}]
               all == [r \in SUBSET s |-> body(r)]
    <2>2. \A r \in SUBSET s : r # s => Sums(G(r), f, r)
      BY <2>1
    <2>3. \A r \in SUBSET s : r # s => all[r] = G(r)[r]
      <3> SUFFICES ASSUME NEW r \in SUBSET s, r # s PROVE body(r) = G(r)[r]
        OBVIOUS
      <3>1. CASE r = {}
        BY <2>2, <3>1, SumsAt
      <3>2. CASE r # {}
        <4> DEFINE q == r \ {One(r)}
        <4>1. q \in SUBSET s /\ q # s /\ q \in SUBSET r
          BY <3>2, OneOf
        <4>2. IsFiniteSet(q)
          BY <4>1, FS_Subset
        <4>3. G(q)[q] = G(r)[q]
          <5>1. Sums(G(q), f, q) /\ Sums(G(r), f, r)
            BY <2>2, <4>1
          <5> HIDE DEF G, q
          <5>2. q \in SUBSET (r \cap q)
            BY <4>1
          <5> QED BY <4>2, <5>1, <5>2, SumsAgree
        <4>4. G(r)[r] = f[One(r)] + G(r)[q]
          BY <2>2, <3>2, SumsAt
        <4> QED BY <3>2, <4>3, <4>4
      <3> QED BY <3>1, <3>2
    <2>4. \A r \in SUBSET s : body(r) = IF r = {} THEN 0 ELSE f[One(r)] + all[r \ {One(r)}]
      <3> SUFFICES ASSUME NEW r \in SUBSET s, r # {}
                   PROVE  G(r \ {One(r)})[r \ {One(r)}] = all[r \ {One(r)}]
        <4> HIDE DEF G, all
        <4> QED OBVIOUS
      <3>1. r \ {One(r)} \in SUBSET s /\ r \ {One(r)} # s
        BY OneOf
      <3> HIDE DEF all, G
      <3> QED BY <2>3, <3>1
    <2>5. Sums(all, f, s)
      <3>1. all = [r \in SUBSET s |-> IF r = {} THEN 0 ELSE f[One(r)] + all[r \ {One(r)}]]
        <4> DEFINE next(r) == IF r = {} THEN 0 ELSE f[One(r)] + all[r \ {One(r)}]
        <4>1. \A r \in SUBSET s : body(r) = next(r)
          BY <2>4
        <4>2. all = [r \in SUBSET s |-> body(r)]
          OBVIOUS
        <4> HIDE DEF next, body, all
        <4>3. all = [r \in SUBSET s |-> next(r)]
          BY <4>1, <4>2
        <4> QED BY <4>3 DEF next
      <3> HIDE DEF all
      <3> QED BY <3>1 DEF Sums
    <2> HIDE DEF all
    <2> QED BY <2>5
  <1>2. T \notin P
    BY <1>1
  <1> QED BY <1>2

(* So the total is what any such function says.                             *)
LEMMA TotalIs ==
  ASSUME NEW f, NEW h, NEW S, NEW T \in SUBSET S, NEW g, Sums(g, f, S),
         IsFiniteSet(T), \A x \in T : f[x] = h[x]
  PROVE  Total(h, T) = g[T]
  <1> DEFINE k == CHOOSE k : Sums(k, h, T)
  <1>1. Sums(k, h, T)
    BY SumsExist
  <1> HIDE DEF k
  <1>2. T \in SUBSET (S \cap T)
    OBVIOUS
  <1>3. g[T] = k[T]
    BY <1>1, <1>2, SumsAgree
  <1> QED BY <1>3 DEF Total, k

LEMMA SumsAreNumbers ==
  ASSUME NEW f, NEW T, NEW g, Sums(g, f, T), IsFiniteSet(T), \A x \in T : f[x] \in Int
  PROVE  \A s \in SUBSET T : g[s] \in Int
  <1> DEFINE P == {s \in SUBSET T : g[s] \notin Int}
  <1>1. ASSUME P # {} PROVE FALSE
    <2>1. PICK s \in P : \A r \in P : r \subseteq s => r = s
      <3>1. P \in SUBSET SUBSET T
        OBVIOUS
      <3> HIDE DEF P
      <3> QED BY <1>1, <3>1, LeastSubset
    <2>2. s # {}
      <3>1. g[{}] = 0
        BY SumsAt
      <3> QED BY <2>1, <3>1
    <2>3. One(s) \in T /\ g[s \ {One(s)}] \in Int
      BY <2>1, <2>2, OneOf
    <2>4. g[s] = f[One(s)] + g[s \ {One(s)}] /\ f[One(s)] \in Int
      BY <2>2, <2>3, SumsAt
    <2> QED BY <2>1, <2>3, <2>4
  <1> QED BY <1>1

(* Whichever element is taken out first.                                    *)
LEMMA SumsWithout ==
  ASSUME NEW f, NEW T, NEW g, Sums(g, f, T), IsFiniteSet(T), \A x \in T : f[x] \in Int
  PROVE  \A s \in SUBSET T : \A t \in s : g[s] = f[t] + g[s \ {t}]
  <1> DEFINE P == {s \in SUBSET T : \E t \in s : g[s] # f[t] + g[s \ {t}]}
  <1>1. ASSUME P # {} PROVE FALSE
    <2>1. PICK s \in P : \A r \in P : r \subseteq s => r = s
      <3>1. P \in SUBSET SUBSET T
        OBVIOUS
      <3> HIDE DEF P
      <3> QED BY <1>1, <3>1, LeastSubset
    <2>2. PICK t \in s : g[s] # f[t] + g[s \ {t}]
      OBVIOUS
    <2> DEFINE x == One(s)
               r == s \ {x}
               q == s \ {t}
    <2>3. x \in s /\ g[s] = f[x] + g[r]
      BY <2>2, OneOf, SumsAt
    <2>4. x # t
      BY <2>2, <2>3
    <2>5. r \notin P /\ q \notin P
      BY <2>1, <2>3
    <2>6. r \in SUBSET T /\ q \in SUBSET T /\ t \in r /\ x \in q
      BY <2>3, <2>4
    <2>7. g[r] = f[t] + g[r \ {t}] /\ g[q] = f[x] + g[q \ {x}]
      BY <2>5, <2>6
    <2>8. r \ {t} = q \ {x} /\ r \ {t} \in SUBSET T
      OBVIOUS
    <2>9. g[r \ {t}] \in Int /\ f[x] \in Int /\ f[t] \in Int
      BY <2>3, <2>8, SumsAreNumbers
    <2>10. g[s \ {t}] = f[x] + g[r \ {t}]
      BY <2>7, <2>8
    <2>11. g[r] = f[t] + g[r \ {t}]
      BY <2>7
    <2> HIDE DEF x, r, q, P
    <2>12. g[s] = f[t] + g[s \ {t}]
      BY <2>3, <2>9, <2>10, <2>11
    <2> QED BY <2>2, <2>12
  <1> QED BY <1>1

(* What the totals of the model are good for: they are numbers, those of    *)
(* the same values are the same, and one more value adds to them.           *)
LEMMA TotalNone == \A f : Total(f, {}) = 0
  <1> TAKE f
  <1>1. IsFiniteSet({})
    BY FS_EmptySet
  <1>2. PICK g : Sums(g, f, {})
    BY <1>1, SumsExist
  <1>3. Total(f, {}) = g[{}]
    BY <1>1, <1>2, TotalIs
  <1> QED BY <1>2, <1>3, SumsAt

LEMMA TotalNumber ==
  ASSUME NEW f, NEW T, IsFiniteSet(T), \A x \in T : f[x] \in Int
  PROVE  Total(f, T) \in Int
  <1>1. PICK g : Sums(g, f, T)
    BY SumsExist
  <1>2. Total(f, T) = g[T]
    BY <1>1, TotalIs
  <1> QED BY <1>1, <1>2, SumsAreNumbers

LEMMA TotalSame ==
  ASSUME NEW f, NEW h, NEW T, IsFiniteSet(T), \A x \in T : f[x] = h[x]
  PROVE  Total(f, T) = Total(h, T)
  <1>1. PICK g : Sums(g, f, T)
    BY SumsExist
  <1> QED BY <1>1, TotalIs

LEMMA TotalWith ==
  ASSUME NEW f, NEW T, NEW t, t \notin T, IsFiniteSet(T), \A x \in T \cup {t} : f[x] \in Int
  PROVE  Total(f, T \cup {t}) = Total(f, T) + f[t]
  <1> DEFINE S == T \cup {t}
  <1>1. IsFiniteSet(S)
    BY FS_AddElement
  <1>2. PICK g : Sums(g, f, S)
    BY <1>1, SumsExist
  <1>3. Total(f, S) = g[S] /\ Total(f, T) = g[T]
    BY <1>1, <1>2, TotalIs
  <1>4. g[S] = f[t] + g[S \ {t}] /\ S \ {t} = T
    BY <1>1, <1>2, SumsWithout
  <1>5. g[T] \in Int /\ f[t] \in Int
    BY <1>1, <1>2, SumsAreNumbers
  <1>6. Total(f, S) = Total(f, T) + f[t]
    <2>1. g[S] = f[t] + g[T]
      BY <1>4
    <2> HIDE DEF S
    <2>2. g[S] = g[T] + f[t]
      BY <1>5, <2>1
    <2> QED BY <1>3, <2>2
  <1> QED BY <1>6

(* More numbers, none of them negative, make no less.                       *)
LEMMA TotalGrows ==
  ASSUME NEW f, NEW S, NEW T \in SUBSET S, IsFiniteSet(S), \A x \in S : f[x] \in Int,
         \A x \in S \ T : f[x] >= 0
  PROVE  Total(f, T) <= Total(f, S)
  <1> DEFINE P == {r \in SUBSET S : T \subseteq r /\ Total(f, r) < Total(f, T)}
  <1>1. \A r \in SUBSET S : IsFiniteSet(r) /\ Total(f, r) \in Int
    BY FS_Subset, TotalNumber
  <1>2. ASSUME P # {} PROVE FALSE
    <2>1. PICK s \in P : \A r \in P : r \subseteq s => r = s
      <3>1. P \in SUBSET SUBSET S
        OBVIOUS
      <3> HIDE DEF P
      <3> QED BY <1>2, <3>1, LeastSubset
    <2>2. Total(f, s) < Total(f, T) /\ s # T
      BY <1>1, <2>1
    <2>3. PICK t \in s \ T : TRUE
      BY <2>1, <2>2
    <2> DEFINE r == s \ {t}
    <2>4. r \in SUBSET S /\ T \subseteq r /\ t \notin r /\ r \cup {t} = s /\ r \notin P
      BY <2>1, <2>3
    <2>5. f[t] \in Int /\ f[t] >= 0
      BY <2>1, <2>3
    <2>6. ~(Total(f, r) < Total(f, T))
      BY <2>4
    <2> HIDE DEF r
    <2>7. Total(f, r \cup {t}) = Total(f, r) + f[t]
      BY <1>1, <2>1, <2>4, TotalWith
    <2>8. Total(f, r) \in Int /\ Total(f, T) \in Int
      BY <1>1, <2>4
    <2>9. Total(f, s) = Total(f, r) + f[t]
      BY <2>4, <2>7
    <2> QED BY <2>2, <2>5, <2>6, <2>8, <2>9
  <1>3. ~(Total(f, S) < Total(f, T))
    BY <1>2
  <1> QED BY <1>1, <1>3

(* The sums of the model are such totals.                                   *)
AmountIn(rows) == [i \in DOMAIN rows |-> rows[i].amount]
DeltaIn(a, rows) == [k \in DOMAIN rows |-> Delta(a, rows[k])]

LEMMA AmountsAdd ==
  ASSUME NEW rows, NEW S \in SUBSET DOMAIN rows, IsFiniteSet(S)
  PROVE  MapThenSumSet(LAMBDA i : rows[i].amount, S) = Total(AmountIn(rows), S)
  <1> DEFINE Adds(g) == g = [s \in SUBSET S |-> IF s = {} THEN 0
                                               ELSE rows[One(s)].amount + g[s \ {One(s)}]]
  <1>1. \A g : Sums(g, AmountIn(rows), S) => Adds(g)
    <2> SUFFICES ASSUME NEW g, Sums(g, AmountIn(rows), S) PROVE Adds(g)
      OBVIOUS
    <2>1. \A s \in SUBSET S : s # {} => AmountIn(rows)[One(s)] = rows[One(s)].amount
      BY OneOf DEF AmountIn
    <2> QED BY <2>1 DEF Sums
  <1>2. PICK g : Sums(g, AmountIn(rows), S)
    BY SumsExist
  <1> DEFINE h == CHOOSE h : Adds(h)
  <1>3. Adds(h)
    BY <1>1, <1>2
  <1>4. MapThenSumSet(LAMBDA i : rows[i].amount, S) = h[S]
    BY DEF MapThenSumSet, MapThenFoldSet, One
  <1> HIDE DEF h
  <1>5. Sums(h, AmountIn(rows), S)
    <2>1. \A s \in SUBSET S : s # {} => AmountIn(rows)[One(s)] = rows[One(s)].amount
      BY OneOf DEF AmountIn
    <2> QED BY <1>3, <2>1 DEF Sums
  <1>6. Total(AmountIn(rows), S) = h[S]
    BY <1>5, TotalIs
  <1> QED BY <1>4, <1>6

LEMMA DeltasAdd ==
  ASSUME NEW a, NEW rows, NEW S \in SUBSET DOMAIN rows, IsFiniteSet(S)
  PROVE  MapThenSumSet(LAMBDA k : Delta(a, rows[k]), S) = Total(DeltaIn(a, rows), S)
  <1> DEFINE Adds(g) == g = [s \in SUBSET S |-> IF s = {} THEN 0
                                               ELSE Delta(a, rows[One(s)]) + g[s \ {One(s)}]]
  <1>0. \A s \in SUBSET S : s # {} => DeltaIn(a, rows)[One(s)] = Delta(a, rows[One(s)])
    BY OneOf DEF DeltaIn
  <1>1. \A g : Sums(g, DeltaIn(a, rows), S) => Adds(g)
    BY <1>0 DEF Sums
  <1>2. PICK g : Sums(g, DeltaIn(a, rows), S)
    BY SumsExist
  <1> DEFINE h == CHOOSE h : Adds(h)
  <1>3. Adds(h)
    BY <1>1, <1>2
  <1>4. MapThenSumSet(LAMBDA k : Delta(a, rows[k]), S) = h[S]
    BY DEF MapThenSumSet, MapThenFoldSet, One
  <1> HIDE DEF h
  <1>5. Sums(h, DeltaIn(a, rows), S)
    BY <1>0, <1>3 DEF Sums
  <1>6. Total(DeltaIn(a, rows), S) = h[S]
    BY <1>5, TotalIs
  <1> QED BY <1>4, <1>6

-----------------------------------------------------------------------------
(* Requests and postings. *)
USE TransferAssumption DEF TransferAssumption

TransferRequest ==
  [key : Key, source : Account, destination : Account, amount : Amount,
   on : 1..LastDay, status : {"pending", "approved", "rejected"},
   maker : Proposer, checker : Admin \cup {Nobody}, posting : Nat]

(* Only a pending request is under review: an approval holds its row lock   *)
(* from the moment it found it pending.                                     *)
ReviewedIsPending ==
  \A i \in 1..MaxRequests : UnderReview(i) =>
    i \in DOMAIN requests /\ requests[i].status = "pending"

PostingOf(i) ==
  requests[i].posting \in DOMAIN ledger /\ ledger[requests[i].posting] = TransferOf(i)
ApprovedPosted ==
  \A i \in DOMAIN requests : requests[i].status = "approved" => PostingOf(i)
TransfersApproved ==
  \A n \in DOMAIN ledger : ledger[n].type = "transfer" =>
    \E i \in DOMAIN requests : requests[i].posting = n /\ requests[i].status = "approved"
KeysUnique == \A m, n \in DOMAIN ledger : ledger[m].key = ledger[n].key => m = n

TransferInv ==
  /\ TypeOK /\ Len(requests) <= MaxRequests /\ ReviewedIsPending
  /\ ApprovedPosted /\ TransfersApproved /\ KeysUnique

-----------------------------------------------------------------------------
(* What the type invariant says of a request and of a posting.              *)
LEMMA Rows ==
  ASSUME TypeOK
  PROVE  /\ requests \in Seq(TransferRequest) /\ ledger \in Seq(Posting)
         /\ Len(requests) \in Nat /\ DOMAIN requests = 1..Len(requests)
         /\ Len(ledger) \in Nat /\ DOMAIN ledger = 1..Len(ledger)
         /\ \A i \in DOMAIN requests : requests[i] \in TransferRequest
         /\ \A n \in DOMAIN ledger : ledger[n] \in Posting
  <1>1. requests \in Seq(TransferRequest) /\ ledger \in Seq(Posting)
    BY DEF TypeOK, TransferRequest
  <1> QED BY <1>1, LenProperties, ElementOfSeq

(* Appending a row leaves the others where they are.                        *)
LEMMA Appended ==
  ASSUME NEW S, NEW rows \in Seq(S), NEW e \in S
  PROVE  /\ Append(rows, e) \in Seq(S)
         /\ Len(Append(rows, e)) = Len(rows) + 1
         /\ DOMAIN Append(rows, e) = 1..(Len(rows) + 1)
         /\ Append(rows, e)[Len(rows) + 1] = e
         /\ \A i \in 1..Len(rows) : Append(rows, e)[i] = rows[i]
  OBVIOUS

(* Updating a row leaves the others as they are.                            *)
LEMMA Updated ==
  ASSUME NEW S, NEW rows \in Seq(S), NEW i \in DOMAIN rows, NEW e \in S
  PROVE  /\ [rows EXCEPT ![i] = e] \in Seq(S)
         /\ Len([rows EXCEPT ![i] = e]) = Len(rows)
         /\ DOMAIN [rows EXCEPT ![i] = e] = DOMAIN rows
         /\ [rows EXCEPT ![i] = e][i] = e
         /\ \A j \in DOMAIN rows : j # i => [rows EXCEPT ![i] = e][j] = rows[j]
  <1>1. i \in 1..Len(rows)
    BY LenProperties
  <1> QED BY <1>1, ExceptSeq

(* A posting either goes to the end of the ledger, under a key nobody used, *)
(* or is there already.                                                     *)
LEMMA PostsOnce ==
  ASSUME TypeOK, NEW p \in Posting, NEW funded, Posts(p, funded)
  PROVE  \/ /\ ledger' = ledger
            /\ \E n \in DOMAIN ledger : ledger[n] = p
         \/ /\ \A n \in DOMAIN ledger : ledger[n].key # p.key
            /\ ledger' = Append(ledger, p)
  BY DEF Posts, MatchesExisting

(* So the postings stay, no key is used twice, and the posting is there.    *)
LEMMA LedgerGrows ==
  ASSUME TypeOK, KeysUnique, NEW p \in Posting, NEW funded, Posts(p, funded)
  PROVE  /\ ledger' \in Seq(Posting)
         /\ DOMAIN ledger \subseteq DOMAIN ledger'
         /\ \A n \in DOMAIN ledger : ledger'[n] = ledger[n]
         /\ \A n \in DOMAIN ledger' \ DOMAIN ledger : ledger'[n] = p
         /\ \A m, n \in DOMAIN ledger' : ledger'[m].key = ledger'[n].key => m = n
         /\ \E n \in DOMAIN ledger' : ledger'[n] = p
  <1>1. CASE ledger' = ledger /\ \E n \in DOMAIN ledger : ledger[n] = p
    BY <1>1, Rows DEF KeysUnique
  <1>2. CASE /\ \A n \in DOMAIN ledger : ledger[n].key # p.key
             /\ ledger' = Append(ledger, p)
    <2>1. /\ ledger' \in Seq(Posting) /\ DOMAIN ledger' = 1..(Len(ledger) + 1)
          /\ ledger'[Len(ledger) + 1] = p
          /\ \A n \in 1..Len(ledger) : ledger'[n] = ledger[n]
      BY <1>2, Rows, Appended
    <2>2. Len(ledger) \in Nat /\ DOMAIN ledger = 1..Len(ledger)
      BY Rows
    <2>3. \A n \in DOMAIN ledger' : n \in DOMAIN ledger \/ n = Len(ledger) + 1
      BY <2>1, <2>2
    <2>4. \A m, n \in DOMAIN ledger' : ledger'[m].key = ledger'[n].key => m = n
      BY <1>2, <2>1, <2>2, <2>3 DEF KeysUnique
    <2> QED BY <2>1, <2>2, <2>3, <2>4
  <1> QED BY <1>1, <1>2, PostsOnce

LEMMA TransferIsPosting ==
  ASSUME TypeOK, NEW i \in DOMAIN requests, i \in 1..MaxRequests
  PROVE  TransferOf(i) \in Posting
  <1>1. requests[i] \in TransferRequest
    BY Rows
  <1> QED BY <1>1 DEF TransferOf, Posting, TransferRequest

-----------------------------------------------------------------------------
LEMMA InitInv == Init => TransferInv
  <1> SUFFICES ASSUME Init PROVE TransferInv
    OBVIOUS
  <1>1. requests = <<>> /\ ledger = <<>> /\ day = 1
    BY DEF Init
  <1>2. \A i \in 1..MaxRequests : review[i].by = Nobody
    BY DEF Init, NoReview
  <1>3. TypeOK
    BY <1>1 DEF Init, TypeOK, NoReview
  <1> QED
    BY <1>1, <1>2, <1>3 DEF TransferInv, ReviewedIsPending, UnderReview, ApprovedPosted,
                            TransfersApproved, KeysUnique

(* A deposit posts nothing a request has to do with.                        *)
LEMMA DepositKeepsInv ==
  ASSUME TransferInv, NEW k \in DepositKey, NEW a \in Account, NEW n \in Amount,
         Deposit(k, a, n)
  PROVE  TransferInv'
  <1> DEFINE p == [key |-> k, type |-> "deposit", from |-> Cash, to |-> a, amount |-> n]
  <1>1. TypeOK /\ KeysUnique /\ UNCHANGED <<requests, review, day>>
    BY DEF TransferInv, Deposit
  <1>2. p \in Posting /\ p.type = "deposit"
    BY DEF Posting
  <1>3. Posts(p, TRUE)
    BY DEF Deposit
  <1> HIDE DEF p
  <1>4. /\ ledger' \in Seq(Posting)
        /\ DOMAIN ledger \subseteq DOMAIN ledger'
        /\ \A m \in DOMAIN ledger : ledger'[m] = ledger[m]
        /\ \A m \in DOMAIN ledger' \ DOMAIN ledger : ledger'[m] = p
        /\ KeysUnique'
    BY <1>1, <1>2, <1>3, LedgerGrows DEF KeysUnique
  <1>5. TypeOK'
    BY <1>1, <1>4 DEF TypeOK
  <1>6. ReviewedIsPending'
    BY <1>1 DEF TransferInv, ReviewedIsPending, UnderReview
  <1>7. ApprovedPosted'
    BY <1>1, <1>4 DEF TransferInv, ApprovedPosted, PostingOf, TransferOf
  <1>8. TransfersApproved'
    BY <1>1, <1>2, <1>4 DEF TransferInv, TransfersApproved
  <1> QED BY <1>1, <1>4, <1>5, <1>6, <1>7, <1>8 DEF TransferInv

(* A new request is pending.                                                *)
LEMMA ProposeKeepsInv ==
  ASSUME TransferInv,
         NEW s \in Proposer, NEW k \in Key, NEW a \in Account, NEW b \in Account,
         NEW n \in Amount, Propose(s, k, a, b, n)
  PROVE  TransferInv'
  <1> DEFINE r == [key |-> k, source |-> a, destination |-> b, amount |-> n, on |-> day,
                   status |-> "pending", maker |-> s, checker |-> Nobody, posting |-> 0]
  <1>1. TypeOK /\ UNCHANGED <<review, ledger, day>> /\ Len(requests) < MaxRequests
    BY DEF TransferInv, Propose
  <1>2. r \in TransferRequest /\ r.status = "pending"
    BY <1>1 DEF TransferRequest, TypeOK
  <1>3. requests' = Append(requests, r)
    BY DEF Propose
  <1> HIDE DEF r
  <1>4. /\ requests' \in Seq(TransferRequest) /\ Len(requests') = Len(requests) + 1
        /\ DOMAIN requests' = 1..(Len(requests) + 1)
        /\ requests'[Len(requests) + 1] = r
        /\ \A i \in DOMAIN requests : requests'[i] = requests[i]
    BY <1>1, <1>2, <1>3, Rows, Appended
  <1>5. Len(requests) \in Nat /\ DOMAIN requests = 1..Len(requests)
    BY <1>1, Rows
  <1>6. \A i \in DOMAIN requests' : i \in DOMAIN requests \/ requests'[i].status = "pending"
    BY <1>2, <1>4, <1>5
  <1>7. TypeOK' /\ Len(requests') <= MaxRequests
    BY <1>1, <1>4, <1>5 DEF TypeOK, TransferRequest
  <1>8. ReviewedIsPending'
    BY <1>1, <1>4, <1>5 DEF TransferInv, ReviewedIsPending, UnderReview
  <1>9. ApprovedPosted'
    BY <1>1, <1>4, <1>6 DEF TransferInv, ApprovedPosted, PostingOf, TransferOf
  <1>10. TransfersApproved'
    BY <1>1, <1>4, <1>5 DEF TransferInv, TransfersApproved
  <1> QED BY <1>1, <1>7, <1>8, <1>9, <1>10 DEF TransferInv, KeysUnique

(* An approval begins and ends a review without a trace in the rows.        *)
LEMMA ReviewKeepsInv ==
  ASSUME TransferInv, NEW i \in DOMAIN requests,
         (\E s \in Admin : Approve(i, s)) \/ RollBack(i)
  PROVE  TransferInv'
  <1>1. TypeOK /\ UNCHANGED <<requests, ledger, day>>
    BY DEF TransferInv, Approve, RollBack
  <1>2. Len(ledger) \in Nat
    BY <1>1, Rows
  <1>3. /\ review' \in [1..MaxRequests -> [by : Admin \cup {Nobody}, seen : Nat]]
        /\ \A j \in 1..MaxRequests : j # i => review'[j] = review[j]
        /\ UnderReview(i)' => requests[i].status = "pending"
    <2>1. review \in [1..MaxRequests -> [by : Admin \cup {Nobody}, seen : Nat]]
      BY <1>1 DEF TypeOK
    <2>2. i \in 1..MaxRequests
      BY <1>1, Rows DEF TransferInv
    <2>3. ASSUME NEW s \in Admin, Approve(i, s)
          PROVE  /\ review' = [review EXCEPT ![i] = [by |-> s, seen |-> Len(ledger)]]
                 /\ requests[i].status = "pending"
      BY <2>3 DEF Approve, MayCheck
    <2>4. RollBack(i) => review' = [review EXCEPT ![i] = [by |-> Nobody, seen |-> 0]]
      BY DEF RollBack, NoReview
    <2>5. ASSUME NEW s \in Admin, Approve(i, s)
          PROVE  review' \in [1..MaxRequests -> [by : Admin \cup {Nobody}, seen : Nat]]
      BY <1>2, <2>1, <2>3, <2>5
    <2>6. ASSUME RollBack(i)
          PROVE  review' \in [1..MaxRequests -> [by : Admin \cup {Nobody}, seen : Nat]]
      BY <2>1, <2>4, <2>6
    <2>7. \A j \in 1..MaxRequests : j # i => review'[j] = review[j]
      BY <2>1, <2>3, <2>4
    <2>8. UnderReview(i)' => requests[i].status = "pending"
      BY <2>1, <2>2, <2>3, <2>4 DEF UnderReview
    <2> QED BY <2>5, <2>6, <2>7, <2>8
  <1>4. TypeOK'
    BY <1>1, <1>3 DEF TypeOK
  <1>5. ReviewedIsPending'
    BY <1>1, <1>3 DEF TransferInv, ReviewedIsPending, UnderReview
  <1> QED
    BY <1>1, <1>4, <1>5 DEF TransferInv, ApprovedPosted, PostingOf, TransferOf,
                            TransfersApproved, KeysUnique

(* The update of a pending request's row: what the others say stays true.   *)
LEMMA PostKeepsInv ==
  ASSUME TransferInv, NEW i \in DOMAIN requests, PostTransfer(i)
  PROVE  TransferInv'
  <1> DEFINE n == CHOOSE m \in DOMAIN ledger' : ledger'[m].key = RequestKey(i)
             r == [requests[i] EXCEPT !.status = "approved", !.checker = review[i].by,
                                      !.posting = n]
  <1>1. TypeOK /\ KeysUnique /\ day' = day /\ Len(requests) <= MaxRequests
    BY DEF TransferInv, PostTransfer
  <1>2. i \in 1..MaxRequests /\ requests[i].status = "pending" /\ requests[i] \in TransferRequest
    <2>1. i \in 1..Len(requests) /\ requests[i] \in TransferRequest /\ Len(requests) \in Nat
      BY <1>1, Rows
    <2>2. i \in 1..MaxRequests
      BY <1>1, <2>1
    <2> QED BY <2>1, <2>2 DEF TransferInv, ReviewedIsPending, PostTransfer
  <1>3. TransferOf(i) \in Posting /\ TransferOf(i).key = RequestKey(i)
    BY <1>1, <1>2, TransferIsPosting DEF TransferOf
  <1>4. /\ ledger' \in Seq(Posting)
        /\ DOMAIN ledger \subseteq DOMAIN ledger'
        /\ \A m \in DOMAIN ledger : ledger'[m] = ledger[m]
        /\ \A m \in DOMAIN ledger' \ DOMAIN ledger : ledger'[m] = TransferOf(i)
        /\ KeysUnique'
        /\ \E m \in DOMAIN ledger' : ledger'[m] = TransferOf(i)
    BY <1>1, <1>3, LedgerGrows DEF PostTransfer, KeysUnique
  <1>5. n \in DOMAIN ledger' /\ ledger'[n] = TransferOf(i)
    <2>1. PICK m \in DOMAIN ledger' : ledger'[m] = TransferOf(i)
      BY <1>4
    <2>2. n \in DOMAIN ledger' /\ ledger'[n].key = RequestKey(i)
      BY <1>3, <2>1
    <2> HIDE DEF n
    <2> QED BY <1>3, <1>4, <2>1, <2>2 DEF KeysUnique
  <1>6. n \in Nat
    <2> HIDE DEF n
    <2> QED BY <1>4, <1>5, LenProperties
  <1>7. requests' = [requests EXCEPT ![i].status = "approved", ![i].checker = review[i].by,
                                     ![i].posting = n]
    BY DEF PostTransfer
  <1> HIDE DEF n
  <1>8. /\ r \in TransferRequest /\ r.status = "approved" /\ r.posting = n
        /\ r.source = requests[i].source /\ r.destination = requests[i].destination
        /\ r.amount = requests[i].amount
    BY <1>1, <1>2, <1>6 DEF TransferRequest, TypeOK
  <1>9. /\ requests' \in Seq(TransferRequest) /\ Len(requests') = Len(requests)
        /\ DOMAIN requests' = DOMAIN requests /\ requests'[i] = r
        /\ \A j \in DOMAIN requests : j # i => requests'[j] = requests[j]
    <2>1. /\ requests \in Seq(TransferRequest) /\ DOMAIN requests = 1..Len(requests)
          /\ requests \in [1..Len(requests) -> TransferRequest]
      BY <1>1, Rows, LenProperties
    <2>2. requests' = [requests EXCEPT ![i] = r]
      BY <1>7, <2>1
    <2> HIDE DEF r
    <2> QED BY <1>8, <2>1, <2>2, Updated
  <1> HIDE DEF r
  <1>10. review' = [review EXCEPT ![i] = NoReview]
    BY DEF PostTransfer
  <1>11. TypeOK'
    BY <1>1, <1>4, <1>9, <1>10 DEF TypeOK, TransferRequest, NoReview
  <1>12. ReviewedIsPending'
    BY <1>1, <1>2, <1>9, <1>10 DEF TransferInv, ReviewedIsPending, UnderReview, NoReview, TypeOK
  <1>13. ApprovedPosted'
    <2>1. PostingOf(i)'
      BY <1>5, <1>8, <1>9 DEF PostingOf, TransferOf
    <2>2. ASSUME NEW j \in DOMAIN requests, j # i, requests'[j].status = "approved"
          PROVE  PostingOf(j)'
      BY <1>4, <1>9, <2>2 DEF TransferInv, ApprovedPosted, PostingOf, TransferOf
    <2> QED BY <1>9, <2>1, <2>2 DEF ApprovedPosted
  <1>14. TransfersApproved'
    <2>1. ASSUME NEW m \in DOMAIN ledger, ledger[m].type = "transfer"
          PROVE  \E j \in DOMAIN requests' :
                   requests'[j].posting = m /\ requests'[j].status = "approved"
      <3>1. PICK j \in DOMAIN requests : requests[j].posting = m /\ requests[j].status = "approved"
        BY <2>1 DEF TransferInv, TransfersApproved
      <3> QED BY <1>2, <1>9, <3>1
    <2>2. ASSUME NEW m \in DOMAIN ledger' \ DOMAIN ledger
          PROVE  m = n
      BY <1>4, <1>5, <2>2 DEF KeysUnique
    <2> QED BY <1>4, <1>8, <1>9, <2>1, <2>2 DEF TransfersApproved
  <1> QED BY <1>1, <1>4, <1>9, <1>11, <1>12, <1>13, <1>14 DEF TransferInv

LEMMA RejectKeepsInv ==
  ASSUME TransferInv, NEW i \in DOMAIN requests, NEW s \in Admin, Reject(i, s)
  PROVE  TransferInv'
  <1> DEFINE r == [requests[i] EXCEPT !.status = "rejected", !.checker = s]
  <1>1. /\ TypeOK /\ UNCHANGED <<review, ledger, day>>
        /\ ~UnderReview(i) /\ requests[i].status = "pending"
    BY DEF TransferInv, Reject, MayCheck
  <1>2. r \in TransferRequest /\ r.status = "rejected"
    BY <1>1, Rows DEF TransferRequest
  <1>3. requests' = [requests EXCEPT ![i] = r]
    BY DEF Reject
  <1> HIDE DEF r
  <1>4. /\ requests' \in Seq(TransferRequest) /\ Len(requests') = Len(requests)
        /\ DOMAIN requests' = DOMAIN requests /\ requests'[i] = r
        /\ \A j \in DOMAIN requests : j # i => requests'[j] = requests[j]
    <2>1. requests \in Seq(TransferRequest)
      BY <1>1, Rows
    <2> QED BY <1>2, <1>3, <2>1, Updated
  <1>5. TypeOK'
    BY <1>1, <1>4 DEF TypeOK, TransferRequest
  <1>6. ReviewedIsPending'
    BY <1>1, <1>4 DEF TransferInv, ReviewedIsPending, UnderReview
  <1>7. ApprovedPosted'
    BY <1>1, <1>2, <1>4 DEF TransferInv, ApprovedPosted, PostingOf, TransferOf
  <1>8. TransfersApproved'
    BY <1>1, <1>4 DEF TransferInv, TransfersApproved
  <1> QED BY <1>1, <1>4, <1>5, <1>6, <1>7, <1>8 DEF TransferInv, KeysUnique

LEMMA InvStep == TransferInv /\ [Next]_vars => TransferInv'
  <1> SUFFICES ASSUME TransferInv, [Next]_vars PROVE TransferInv'
    OBVIOUS
  <1>1. CASE \E k \in DepositKey, a \in Account, n \in Amount : Deposit(k, a, n)
    BY <1>1, DepositKeepsInv
  <1>2. CASE \E s \in Proposer, k \in Key, a, b \in Account, n \in Amount : Propose(s, k, a, b, n)
    BY <1>2, ProposeKeepsInv
  <1>3. ASSUME NEW i \in DOMAIN requests,
               \/ \E s \in Admin : Approve(i, s) \/ Reject(i, s)
               \/ PostTransfer(i) \/ RollBack(i)
        PROVE  TransferInv'
    BY <1>3, ReviewKeepsInv, RejectKeepsInv, PostKeepsInv
  <1>4. CASE NextDay
    BY <1>4 DEF NextDay, TransferInv, TypeOK, ReviewedIsPending, UnderReview, ApprovedPosted,
                PostingOf, TransferOf, TransfersApproved, KeysUnique
  <1>5. CASE UNCHANGED vars
    BY <1>5 DEF vars, TransferInv, TypeOK, ReviewedIsPending, UnderReview, ApprovedPosted,
                PostingOf, TransferOf, TransfersApproved, KeysUnique
  <1> QED BY <1>1, <1>2, <1>3, <1>4, <1>5 DEF Next

-----------------------------------------------------------------------------
(* The requests, the reviews and the ledger keep their types.               *)
THEOREM TransfersTypeCorrect == Spec => []TypeOK
  <1>1. TransferInv => TypeOK
    BY DEF TransferInv
  <1> QED BY <1>1, InitInv, InvStep, PTL DEF Spec

(* Each approved request has exactly its posting, each transfer posted is   *)
(* an approved request's, and no idempotency key is posted twice.           *)
THEOREM PostedOnce == Spec => []ApprovalsPostedOnce
  <1>1. TransferInv => ApprovalsPostedOnce
    BY DEF TransferInv, ApprovalsPostedOnce, ApprovedPosted, PostingOf, TransfersApproved, KeysUnique
  <1> QED BY <1>1, InitInv, InvStep, PTL DEF Spec

(* A decided request stays as it is, and so does what is posted, whoever    *)
(* approves, rejects or deposits at the same time.                          *)
THEOREM DecisionsStand == Spec => DecidedOnce
  <1> DEFINE Stands == /\ \A i \in DOMAIN requests :
                            requests[i].status # "pending" => requests'[i] = requests[i]
                       /\ \A n \in DOMAIN ledger : ledger'[n] = ledger[n]
  <1>1. TransferInv /\ [Next]_vars => [Stands]_vars
    <2> SUFFICES ASSUME TransferInv, Next PROVE Stands
      OBVIOUS
    <2>0. TypeOK /\ KeysUnique /\ Len(requests) <= MaxRequests
      BY DEF TransferInv
    <2>1. CASE \E k \in DepositKey, a \in Account, n \in Amount : Deposit(k, a, n)
      <3>1. PICK k \in DepositKey, a \in Account, n \in Amount : Deposit(k, a, n)
        BY <2>1
      <3> DEFINE p == [key |-> k, type |-> "deposit", from |-> Cash, to |-> a, amount |-> n]
      <3>2. p \in Posting
        BY DEF Posting
      <3>3. Posts(p, TRUE) /\ requests' = requests
        BY <3>1 DEF Deposit
      <3> HIDE DEF p
      <3> QED BY <2>0, <3>2, <3>3, LedgerGrows
    <2>2. CASE \E s \in Proposer, k \in Key, a, b \in Account, n \in Amount :
                 Propose(s, k, a, b, n)
      <3>1. PICK s \in Proposer, k \in Key, a \in Account, b \in Account, n \in Amount :
              Propose(s, k, a, b, n)
        BY <2>2
      <3>2. ledger' = ledger
        BY <3>1 DEF Propose
      <3>3. requests \in Seq(TransferRequest) /\ DOMAIN requests = 1..Len(requests)
        BY <2>0, Rows
      <3>4. \A i \in DOMAIN requests : requests'[i] = requests[i]
        BY <3>1, <3>3 DEF Propose
      <3> QED BY <3>2, <3>4
    <2>3. ASSUME NEW i \in DOMAIN requests,
                 (\E s \in Admin : Approve(i, s)) \/ RollBack(i)
          PROVE  Stands
      BY <2>3 DEF Approve, RollBack
    <2>4. ASSUME NEW i \in DOMAIN requests, NEW s \in Admin, Reject(i, s)
          PROVE  Stands
      BY <2>4 DEF Reject, MayCheck
    <2>5. ASSUME NEW i \in DOMAIN requests, PostTransfer(i)
          PROVE  Stands
      <3>1. i \in 1..MaxRequests
        BY <2>0, Rows
      <3>2. requests[i].status = "pending"
        BY <2>5, <3>1 DEF TransferInv, ReviewedIsPending, PostTransfer
      <3>3. \A j \in DOMAIN requests : j # i => requests'[j] = requests[j]
        BY <2>5 DEF PostTransfer
      <3>4. \A n \in DOMAIN ledger : ledger'[n] = ledger[n]
        BY <2>0, <2>5, <3>1, TransferIsPosting, LedgerGrows DEF PostTransfer
      <3> QED BY <3>2, <3>3, <3>4
    <2>6. CASE NextDay
      BY <2>6 DEF NextDay
    <2> QED BY <2>1, <2>2, <2>3, <2>4, <2>5, <2>6 DEF Next
  <1> QED BY <1>1, InitInv, InvStep, PTL DEF Spec, DecidedOnce

-----------------------------------------------------------------------------
(* The daily limit. *)

Reserving(rows, a, d) ==
  {i \in DOMAIN rows : rows[i].source = a /\ rows[i].on = d /\ rows[i].status # "rejected"}

WithinLimit ==
  \A a \in Account, d \in 1..LastDay :
    Total(AmountIn(requests), Reserving(requests, a, d)) <= DailyCap

LEMMA AmountsTyped ==
  ASSUME NEW rows \in Seq(TransferRequest)
  PROVE  /\ DOMAIN rows = 1..Len(rows) /\ Len(rows) \in Nat
         /\ \A i \in DOMAIN rows : rows[i] \in TransferRequest
         /\ \A i \in DOMAIN rows : AmountIn(rows)[i] = rows[i].amount
                                     /\ AmountIn(rows)[i] \in Int /\ AmountIn(rows)[i] >= 0
         /\ \A a, d : IsFiniteSet(Reserving(rows, a, d)) /\ Reserving(rows, a, d) \subseteq DOMAIN rows
  <1>1. DOMAIN rows = 1..Len(rows) /\ Len(rows) \in Nat
    BY LenProperties
  <1>2. \A i \in DOMAIN rows : rows[i] \in TransferRequest
    BY ElementOfSeq, <1>1
  <1>3. IsFiniteSet(DOMAIN rows)
    BY <1>1, FS_Interval
  <1>4. \A a, d : Reserving(rows, a, d) \subseteq DOMAIN rows
    BY DEF Reserving
  <1>5. \A a, d : IsFiniteSet(Reserving(rows, a, d))
    BY <1>3, <1>4, FS_Subset
  <1>6. \A i \in DOMAIN rows : AmountIn(rows)[i] = rows[i].amount
    BY DEF AmountIn
  <1>7. \A i \in DOMAIN rows : rows[i].amount \in Int /\ rows[i].amount >= 0
    <2>1. \A i \in DOMAIN rows : rows[i].amount \in Amount
      BY <1>2 DEF TransferRequest
    <2>2. \A n \in Amount : n \in Int /\ n >= 0
      OBVIOUS
    <2> QED BY <2>1, <2>2
  <1> HIDE DEF AmountIn
  <1> QED BY <1>1, <1>2, <1>4, <1>5, <1>6, <1>7

(* Rows that reserve for no more than others do, and the same amounts.      *)
LEMMA ReservesLess ==
  ASSUME NEW rows \in Seq(TransferRequest), NEW next \in Seq(TransferRequest), NEW a, NEW d,
         DOMAIN next = DOMAIN rows, \A i \in DOMAIN rows : next[i].amount = rows[i].amount,
         Reserving(next, a, d) \subseteq Reserving(rows, a, d)
  PROVE  Total(AmountIn(next), Reserving(next, a, d)) <= Total(AmountIn(rows), Reserving(rows, a, d))
  <1> DEFINE S == Reserving(rows, a, d)
             T == Reserving(next, a, d)
  <1>1. /\ IsFiniteSet(S) /\ IsFiniteSet(T) /\ T \in SUBSET S
        /\ \A i \in S : AmountIn(rows)[i] \in Int /\ AmountIn(rows)[i] >= 0
        /\ \A i \in T : AmountIn(next)[i] = AmountIn(rows)[i]
    BY AmountsTyped
  <1> HIDE DEF S, T
  <1>2. Total(AmountIn(rows), T) <= Total(AmountIn(rows), S)
    BY <1>1, TotalGrows
  <1>3. Total(AmountIn(next), T) = Total(AmountIn(rows), T)
    BY <1>1, TotalSame
  <1>4. Total(AmountIn(next), T) <= Total(AmountIn(rows), S)
    BY <1>2, <1>3
  <1> QED BY <1>4 DEF S, T

(* A proposal adds to what its account reserves today, and to nothing else. *)
LEMMA ProposeKeepsLimit ==
  ASSUME TransferInv, WithinLimit,
         NEW s \in Proposer, NEW k \in Key, NEW a \in Account, NEW b \in Account,
         NEW n \in Amount, Propose(s, k, a, b, n)
  PROVE  WithinLimit'
  <1> DEFINE r == [key |-> k, source |-> a, destination |-> b, amount |-> n, on |-> day,
                   status |-> "pending", maker |-> s, checker |-> Nobody, posting |-> 0]
             t == Len(requests) + 1
  <1>1. TypeOK /\ requests \in Seq(TransferRequest)
    BY Rows DEF TransferInv
  <1>2. r \in TransferRequest /\ r.source = a /\ r.on = day /\ r.amount = n /\ r.status = "pending"
    BY <1>1 DEF TransferRequest, TypeOK
  <1>3. requests' = Append(requests, r)
    BY DEF Propose
  <1> HIDE DEF r
  <1>4. /\ requests' \in Seq(TransferRequest) /\ DOMAIN requests' = DOMAIN requests \cup {t}
        /\ requests'[t] = r /\ t \notin DOMAIN requests
        /\ \A i \in DOMAIN requests : requests'[i] = requests[i]
    <2>1. Len(requests) \in Nat /\ DOMAIN requests = 1..Len(requests)
      BY <1>1, Rows
    <2> QED BY <1>1, <1>2, <1>3, <2>1, Appended
  <1> HIDE DEF t
  <1> SUFFICES ASSUME NEW e \in Account, NEW d \in 1..LastDay
               PROVE  Total(AmountIn(requests'), Reserving(requests', e, d)) <= DailyCap
    BY DEF WithinLimit
  <1> DEFINE S == Reserving(requests, e, d)
  <1>5. /\ IsFiniteSet(S) /\ S \subseteq DOMAIN requests
        /\ \A i \in S \cup {t} : AmountIn(requests')[i] \in Int
        /\ \A i \in S : AmountIn(requests')[i] = AmountIn(requests)[i]
        /\ AmountIn(requests')[t] = n
    <2>1. IsFiniteSet(S) /\ S \subseteq DOMAIN requests
      BY <1>1, AmountsTyped
    <2>2. \A i \in DOMAIN requests : AmountIn(requests)[i] = requests[i].amount
      BY <1>1, AmountsTyped
    <2>3. \A i \in DOMAIN requests' : AmountIn(requests')[i] = requests'[i].amount
                                     /\ AmountIn(requests')[i] \in Int
      BY <1>4, AmountsTyped
    <2>4. \A i \in S \cup {t} : i \in DOMAIN requests'
      BY <1>4, <2>1
    <2> HIDE DEF S
    <2> QED BY <1>2, <1>4, <2>1, <2>2, <2>3, <2>4
  <1>6. Total(AmountIn(requests), S) <= DailyCap
    BY DEF WithinLimit
  <1>7. Total(AmountIn(requests'), S) = Total(AmountIn(requests), S)
    <2> HIDE DEF S
    <2> QED BY <1>5, TotalSame
  <1>8. CASE e = a /\ d = day
    <2>1. Reserving(requests', e, d) = S \cup {t}
      BY <1>2, <1>4, <1>8 DEF Reserving
    <2>2. Reserved(a) = Total(AmountIn(requests), S)
      BY <1>5, <1>8, AmountsAdd DEF Reserved, Reserving
    <2>3. Reserved(a) + n <= DailyCap
      BY DEF Propose
    <2>4. t \notin S
      BY <1>4, <1>5
    <2> HIDE DEF S
    <2>5. Total(AmountIn(requests'), S \cup {t}) = Total(AmountIn(requests'), S) + n
      BY <1>5, <2>4, TotalWith
    <2> QED BY <1>7, <2>1, <2>2, <2>3, <2>5
  <1>9. CASE ~(e = a /\ d = day)
    <2>1. Reserving(requests', e, d) = S
      BY <1>2, <1>4, <1>9 DEF Reserving
    <2> HIDE DEF S
    <2> QED BY <1>6, <1>7, <2>1
  <1> QED BY <1>8, <1>9

(* A decision reserves nothing more.                                        *)
LEMMA DecisionKeepsLimit ==
  ASSUME TransferInv, TransferInv', WithinLimit, NEW i \in DOMAIN requests,
         PostTransfer(i) \/ \E s \in Admin : Reject(i, s)
  PROVE  WithinLimit'
  <1>1. requests \in Seq(TransferRequest) /\ requests' \in Seq(TransferRequest)
    BY Rows DEF TransferInv, TypeOK, TransferRequest
  <1>2. requests[i].status = "pending"
    <2>1. i \in 1..MaxRequests
      BY Rows DEF TransferInv
    <2> QED BY <2>1 DEF TransferInv, ReviewedIsPending, PostTransfer, Reject, MayCheck
  <1>3. \A j \in DOMAIN requests : requests[j] \in TransferRequest
    BY <1>1, AmountsTyped
  <1>4. /\ DOMAIN requests' = DOMAIN requests
        /\ \A j \in DOMAIN requests : /\ requests'[j].amount = requests[j].amount
                                      /\ requests'[j].source = requests[j].source
                                      /\ requests'[j].on = requests[j].on
                                      /\ j # i => requests'[j] = requests[j]
    <2>1. PICK u, v, w : \/ requests' = [requests EXCEPT ![i].status = u, ![i].checker = v,
                                                         ![i].posting = w]
                         \/ requests' = [requests EXCEPT ![i].status = u, ![i].checker = v]
      <3>1. CASE PostTransfer(i)
        <4> DEFINE w == CHOOSE n \in DOMAIN ledger' : ledger'[n].key = RequestKey(i)
        <4>1. requests' = [requests EXCEPT ![i].status = "approved", ![i].checker = review[i].by,
                                           ![i].posting = w]
          BY <3>1 DEF PostTransfer
        <4> HIDE DEF w
        <4> QED BY <4>1
      <3>2. CASE \E s \in Admin : Reject(i, s)
        BY <3>2 DEF Reject
      <3> QED BY <3>1, <3>2
    <2>2. requests = [j \in DOMAIN requests |-> requests[j]]
      BY <1>1
    <2>3. DOMAIN requests' = DOMAIN requests
      BY <2>1, <2>2
    <2>4. \A j \in DOMAIN requests : j # i => requests'[j] = requests[j]
      BY <2>1, <2>2
    <2>5. /\ requests'[i].amount = requests[i].amount
          /\ requests'[i].source = requests[i].source
          /\ requests'[i].on = requests[i].on
      <3>1. requests[i] \in TransferRequest
        BY <1>3
      <3>2. \/ requests'[i] = [requests[i] EXCEPT !.status = u, !.checker = v, !.posting = w]
            \/ requests'[i] = [requests[i] EXCEPT !.status = u, !.checker = v]
        BY <2>1, <2>2
      <3> QED BY <3>1, <3>2 DEF TransferRequest
    <2> QED BY <2>3, <2>4, <2>5
  <1>5. \A a, d : Reserving(requests', a, d) \subseteq Reserving(requests, a, d)
    BY <1>2, <1>4 DEF Reserving
  <1> SUFFICES ASSUME NEW a \in Account, NEW d \in 1..LastDay
               PROVE  Total(AmountIn(requests'), Reserving(requests', a, d)) <= DailyCap
    BY DEF WithinLimit
  <1>6. Total(AmountIn(requests'), Reserving(requests', a, d))
          <= Total(AmountIn(requests), Reserving(requests, a, d))
    BY <1>1, <1>4, <1>5, ReservesLess
  <1>7. Total(AmountIn(requests), Reserving(requests, a, d)) <= DailyCap
    BY DEF WithinLimit
  <1>8. /\ Total(AmountIn(requests'), Reserving(requests', a, d)) \in Int
        /\ Total(AmountIn(requests), Reserving(requests, a, d)) \in Int /\ DailyCap \in Int
    <2>1. /\ IsFiniteSet(Reserving(requests', a, d)) /\ IsFiniteSet(Reserving(requests, a, d))
          /\ \A j \in Reserving(requests', a, d) : AmountIn(requests')[j] \in Int
          /\ \A j \in Reserving(requests, a, d) : AmountIn(requests)[j] \in Int
      BY <1>1, AmountsTyped
    <2> QED BY <2>1, TotalNumber DEF DailyCap
  <1> QED BY <1>6, <1>7, <1>8

LEMMA LimitStep == TransferInv /\ TransferInv' /\ WithinLimit /\ [Next]_vars => WithinLimit'
  <1> SUFFICES ASSUME TransferInv, TransferInv', WithinLimit, [Next]_vars PROVE WithinLimit'
    OBVIOUS
  <1>1. CASE requests' = requests
    BY <1>1 DEF WithinLimit
  <1>2. CASE \E s \in Proposer, k \in Key, a, b \in Account, n \in Amount : Propose(s, k, a, b, n)
    BY <1>2, ProposeKeepsLimit
  <1>3. CASE \E i \in DOMAIN requests : PostTransfer(i) \/ \E s \in Admin : Reject(i, s)
    BY <1>3, DecisionKeepsLimit
  <1> QED BY <1>1, <1>2, <1>3 DEF Next, Deposit, Approve, RollBack, NextDay, vars

-----------------------------------------------------------------------------
(* Balances. *)

(* An approval sees no more postings than there are.                        *)
SeenBefore == \A i \in 1..MaxRequests : review[i].seen <= Len(ledger)

LEMMA SeenStep == TransferInv /\ TransferInv' /\ SeenBefore /\ [Next]_vars => SeenBefore'
  <1> SUFFICES ASSUME TransferInv, TransferInv', SeenBefore, [Next]_vars PROVE SeenBefore'
    OBVIOUS
  <1>1. Len(ledger) \in Nat /\ Len(ledger') \in Nat /\ Len(ledger) <= Len(ledger')
    <2>1. ledger \in Seq(Posting) /\ ledger' \in Seq(Posting)
      BY DEF TransferInv, TypeOK
    <2>2. ledger' = ledger \/ \E p \in Posting : ledger' = Append(ledger, p)
      <3>1. CASE \E k \in DepositKey, a \in Account, n \in Amount : Deposit(k, a, n)
        BY <3>1 DEF Deposit, Posts, Posting
      <3>2. CASE \E i \in DOMAIN requests : PostTransfer(i)
        <4>1. PICK i \in DOMAIN requests : PostTransfer(i)
          BY <3>2
        <4>2. TransferOf(i) \in Posting
          BY Rows, TransferIsPosting DEF TransferInv
        <4> QED BY <4>1, <4>2 DEF PostTransfer, Posts
      <3> QED BY <3>1, <3>2 DEF Next, Propose, Approve, Reject, RollBack, NextDay, vars
    <2> QED BY <2>1, <2>2, LenProperties, Appended
  <1>2. review \in [1..MaxRequests -> [by : Admin \cup {Nobody}, seen : Nat]]
    BY DEF TransferInv, TypeOK
  <1>3. \A j \in 1..MaxRequests : review'[j].seen \in {review[j].seen, Len(ledger), 0}
    <2> SUFFICES ASSUME NEW j \in 1..MaxRequests
                 PROVE  review'[j].seen \in {review[j].seen, Len(ledger), 0}
      OBVIOUS
    <2>1. CASE review' = review
      BY <2>1
    <2>2. CASE \E i \in DOMAIN requests, s \in Admin : Approve(i, s)
      <3>1. PICK i \in DOMAIN requests, s \in Admin : Approve(i, s)
        BY <2>2
      <3>2. review' = [review EXCEPT ![i] = [by |-> s, seen |-> Len(ledger)]]
        BY <3>1 DEF Approve
      <3> QED BY <1>2, <3>2
    <2>3. CASE \E i \in DOMAIN requests : PostTransfer(i) \/ RollBack(i)
      <3>1. PICK i \in DOMAIN requests : PostTransfer(i) \/ RollBack(i)
        BY <2>3
      <3>2. review' = [review EXCEPT ![i] = [by |-> Nobody, seen |-> 0]]
        BY <3>1 DEF PostTransfer, RollBack, NoReview
      <3> QED BY <1>2, <3>2
    <2> QED BY <2>1, <2>2, <2>3 DEF Next, Deposit, Propose, Reject, NextDay, vars
  <1> QED BY <1>1, <1>2, <1>3 DEF SeenBefore

LEMMA BalanceIs ==
  ASSUME TypeOK, NEW a, NEW n \in 0..Len(ledger)
  PROVE  Balance(a, n) = Total(DeltaIn(a, ledger), 1..n)
  <1>1. 1..n \in SUBSET DOMAIN ledger /\ IsFiniteSet(1..n)
    <2>1. Len(ledger) \in Nat /\ DOMAIN ledger = 1..Len(ledger)
      BY Rows
    <2>2. n \in Int /\ n <= Len(ledger)
      BY <2>1
    <2>3. IsFiniteSet(1..n)
      BY <2>2, FS_Interval
    <2> QED BY <2>1, <2>2, <2>3
  <1> QED BY <1>1, DeltasAdd DEF Balance

LEMMA BalanceWillBe ==
  ASSUME TypeOK', NEW a \in Account
  PROVE  Balance(a, Len(ledger))' = Total(DeltaIn(a, ledger'), 1..Len(ledger'))
  <1>1. ledger' \in Seq(Posting)
    BY DEF TypeOK
  <1>2. Len(ledger') \in Nat /\ DOMAIN ledger' = 1..Len(ledger')
    BY <1>1, LenProperties
  <1>3. 1..Len(ledger') \in SUBSET DOMAIN ledger' /\ IsFiniteSet(1..Len(ledger'))
    <2>1. IsFiniteSet(1..Len(ledger'))
      BY <1>2, FS_Interval
    <2> QED BY <1>2, <2>1
  <1>4. MapThenSumSet(LAMBDA k : Delta(a, ledger'[k]), 1..Len(ledger'))
          = Total(DeltaIn(a, ledger'), 1..Len(ledger'))
    BY <1>3, DeltasAdd
  <1> QED BY <1>4 DEF Balance, MapThenSumSet, MapThenFoldSet

LEMMA Deltas ==
  ASSUME NEW a, NEW p \in Posting
  PROVE  /\ Delta(a, p) \in Int /\ Delta(a, p) >= 0 - p.amount
         /\ p.from # a => Delta(a, p) >= 0
  <1>1. p.amount \in Int /\ p.amount >= 0
    <2>1. p.amount \in Amount
      BY DEF Posting
    <2>2. Amount \subseteq Nat
      OBVIOUS
    <2>3. p.amount \in Nat
      BY <2>1, <2>2
    <2> QED BY <2>3
  <1> DEFINE n == p.amount
  <1>2. Delta(a, p) = (IF p.to = a THEN n ELSE 0) - (IF p.from = a THEN n ELSE 0)
    BY DEF Delta
  <1> HIDE DEF n
  <1>3. n \in Int /\ n >= 0
    BY <1>1 DEF n
  <1>4. CASE p.to = a
    BY <1>2, <1>3, <1>4 DEF n
  <1>5. CASE p.to # a
    BY <1>2, <1>3, <1>5 DEF n
  <1> QED BY <1>4, <1>5

LEMMA BalanceIsNumber ==
  ASSUME TypeOK', NEW a \in Account
  PROVE  Balance(a, Len(ledger))' \in Int
  <1>1. Len(ledger') \in Nat /\ DOMAIN ledger' = 1..Len(ledger')
          /\ \A k \in DOMAIN ledger' : ledger'[k] \in Posting
    <2>1. ledger' \in Seq(Posting)
      BY DEF TypeOK
    <2> QED BY <2>1, LenProperties, ElementOfSeq
  <1>2. \A k \in 1..Len(ledger') : DeltaIn(a, ledger')[k] \in Int
    BY <1>1, Deltas DEF DeltaIn
  <1>3. IsFiniteSet(1..Len(ledger'))
    BY <1>1, FS_Interval
  <1> QED BY <1>2, <1>3, TotalNumber, BalanceWillBe

(* An approval that saw all that left the account leaves it covered.        *)
LEMMA CoveredPosting ==
  ASSUME TransferInv, TransferInv', SeenBefore, NEW i \in DOMAIN requests, PostTransfer(i),
         ledger' = Append(ledger, TransferOf(i)), Funded(i),
         NEW a \in Account, requests[i].source = a,
         \A n \in (review[i].seen + 1)..Len(ledger) : ledger[n].from # a
  PROVE  Balance(a, Len(ledger))' >= 0
  <1>1. TypeOK /\ TypeOK' /\ i \in 1..MaxRequests
    BY Rows DEF TransferInv
  <1>2. PICK n \in Nat : n = Len(ledger)
    BY <1>1, Rows
  <1>3. PICK m \in 0..n : m = review[i].seen
    <2>1. review[i].seen \in Nat
      BY <1>1 DEF TypeOK
    <2>2. review[i].seen <= n
      BY <1>1, <1>2 DEF SeenBefore
    <2> QED BY <2>1, <2>2
  <1>4. PICK p \in Posting : p = TransferOf(i)
    BY <1>1, TransferIsPosting
  <1>5. p.amount = requests[i].amount /\ p.from = a /\ p.amount \in Int
    <2>1. p.amount = requests[i].amount /\ p.from = a
      BY <1>4 DEF TransferOf
    <2>2. p.amount \in Int
      <3>1. p.amount \in Amount
        BY DEF Posting
      <3>2. Amount \subseteq Int
        OBVIOUS
      <3> QED BY <3>1, <3>2
    <2> QED BY <2>1, <2>2
  <1>6. /\ Len(ledger') = n + 1 /\ ledger'[n + 1] = p
        /\ DOMAIN ledger' = 1..(n + 1) /\ DOMAIN ledger = 1..n
        /\ \A k \in 1..n : ledger'[k] = ledger[k] /\ ledger[k] \in Posting
    <2>1. ledger \in Seq(Posting) /\ DOMAIN ledger = 1..n /\ \A k \in 1..n : ledger[k] \in Posting
      BY <1>1, <1>2, Rows
    <2> QED BY <1>2, <1>4, <2>1, Appended
  <1> DEFINE f == DeltaIn(a, ledger)
             g == DeltaIn(a, ledger')
  <1>7. \A k \in 1..n : f[k] = Delta(a, ledger[k]) /\ g[k] = f[k]
    <2>1. \A k \in 1..n : k \in 1..(n + 1)
      OBVIOUS
    <2> QED BY <1>6, <2>1 DEF DeltaIn
  <1>8. g[n + 1] = Delta(a, p)
    <2>1. n + 1 \in 1..(n + 1)
      OBVIOUS
    <2> QED BY <1>6, <2>1 DEF DeltaIn
  <1>9. Balance(a, m) = Total(f, 1..m)
    BY <1>1, <1>2, <1>3, BalanceIs
  <1>10. Balance(a, Len(ledger))' = Total(g, 1..(n + 1))
    <2>1. Balance(a, Len(ledger))' = Total(DeltaIn(a, ledger'), 1..Len(ledger'))
      BY <1>1, BalanceWillBe
    <2> QED BY <1>6, <2>1
  <1> HIDE DEF f, g
  <1>11. \A k \in 1..n : f[k] \in Int
    BY <1>6, <1>7, Deltas
  <1>12. g[n + 1] \in Int /\ g[n + 1] >= 0 - p.amount
    BY <1>8, Deltas
  <1>13. \A k \in (1..n) \ (1..m) : f[k] >= 0
    <2> SUFFICES ASSUME NEW k \in (1..n) \ (1..m) PROVE f[k] >= 0
      OBVIOUS
    <2>1. k \in (m + 1)..n /\ k \in 1..n
      BY <1>3
    <2>2. ledger[k].from # a /\ ledger[k] \in Posting
      BY <1>2, <1>3, <1>6, <2>1
    <2> QED BY <1>7, <2>1, <2>2, Deltas
  <1>14. Total(f, 1..m) >= p.amount
    BY <1>3, <1>5, <1>9 DEF Funded
  <1>15. IsFiniteSet(1..n) /\ IsFiniteSet(1..m)
    <2>1. 1 \in Int /\ n \in Int /\ m \in Int
      BY <1>3
    <2> QED BY <2>1, FS_Interval
  <1>16. 1..m \in SUBSET (1..n) /\ n + 1 \notin 1..n /\ 1..(n + 1) = (1..n) \cup {n + 1}
    BY <1>3
  <1>17. Total(f, 1..m) <= Total(f, 1..n)
    BY <1>11, <1>13, <1>15, <1>16, TotalGrows
  <1>18. \A k \in 1..n : g[k] = f[k]
    BY <1>7
  <1>19. Total(g, (1..n) \cup {n + 1}) = Total(g, 1..n) + g[n + 1]
    <2>1. \A k \in (1..n) \cup {n + 1} : g[k] \in Int
      BY <1>11, <1>12, <1>18
    <2> QED BY <1>15, <1>16, <2>1, TotalWith
  <1>20. Total(g, 1..n) = Total(f, 1..n)
    BY <1>15, <1>18, TotalSame
  <1>21. Total(f, 1..n) \in Int /\ Total(f, 1..m) \in Int
    <2>1. \A k \in 1..m : f[k] \in Int
      BY <1>11, <1>16
    <2> QED BY <1>11, <1>15, <2>1, TotalNumber
  <1> QED
    <2> DEFINE B == Balance(a, Len(ledger))'
               x == Total(f, 1..n)
               y == Total(f, 1..m)
               z == g[n + 1]
    <2>1. B = x + z
      BY <1>10, <1>16, <1>19, <1>20
    <2>2. x \in Int /\ y \in Int /\ z \in Int /\ y <= x /\ y >= p.amount /\ z >= 0 - p.amount
      BY <1>12, <1>14, <1>17, <1>21
    <2> HIDE DEF B, x, y, z
    <2>3. B >= 0
      BY <1>5, <2>1, <2>2
    <2> QED BY <2>3 DEF B

-----------------------------------------------------------------------------
FullInv == TransferInv /\ WithinLimit /\ SeenBefore

LEMMA FullInit == Init => FullInv
  <1> SUFFICES ASSUME Init PROVE FullInv
    OBVIOUS
  <1>1. requests = <<>> /\ ledger = <<>>
    BY DEF Init
  <1>2. \A a, d : Reserving(requests, a, d) = {}
    BY <1>1 DEF Reserving
  <1>3. DailyCap >= 0
    BY DEF DailyCap
  <1>4. WithinLimit
    BY <1>2, <1>3, TotalNone DEF WithinLimit
  <1>5. SeenBefore
    BY <1>1 DEF Init, SeenBefore, NoReview
  <1> QED BY <1>4, <1>5, InitInv DEF FullInv

LEMMA FullStep == FullInv /\ [Next]_vars => FullInv'
  BY InvStep, LimitStep, SeenStep DEF FullInv

(* Whatever is proposed, approved and rejected at once, the requests of a   *)
(* day from one account stay within its limit.                              *)
THEOREM LimitHolds == Spec => []DailyLimitHeld
  <1>1. FullInv => DailyLimitHeld
    <2> SUFFICES ASSUME FullInv, NEW a \in Account, NEW d \in 1..LastDay
                 PROVE  MapThenSumSet(LAMBDA i : requests[i].amount,
                          {i \in DOMAIN requests :
                             requests[i].source = a /\ requests[i].on = d
                               /\ requests[i].status # "rejected"}) <= DailyCap
      BY DEF DailyLimitHeld
    <2> DEFINE S == {i \in DOMAIN requests : requests[i].source = a /\ requests[i].on = d
                                               /\ requests[i].status # "rejected"}
    <2>1. requests \in Seq(TransferRequest)
      BY Rows DEF FullInv, TransferInv
    <2>2. S = Reserving(requests, a, d)
      BY DEF Reserving
    <2>3. S \in SUBSET DOMAIN requests /\ IsFiniteSet(S)
      <3>1. IsFiniteSet(Reserving(requests, a, d)) /\ Reserving(requests, a, d) \subseteq DOMAIN requests
        BY <2>1, AmountsTyped
      <3> HIDE DEF S
      <3> QED BY <2>2, <3>1
    <2>4. MapThenSumSet(LAMBDA i : requests[i].amount, S) = Total(AmountIn(requests), S)
      BY <2>3, AmountsAdd
    <2> QED BY <2>2, <2>4 DEF FullInv, WithinLimit
  <1> QED BY <1>1, FullInit, FullStep, PTL DEF Spec

(* An account is overdrawn by an approval only when another transfer out of *)
(* it was posted after the approval had read the balance.                   *)
THEOREM OverlapOverdraws == Spec => OverdrawnOnlyByOverlap
  <1> DEFINE Overlaps ==
        \A a \in Account :
          Balance(a, Len(ledger))' < 0 /\ Len(ledger') > Len(ledger)
            /\ ledger'[Len(ledger')].from = a /\ Balance(a, Len(ledger)) >= 0
          => \E i \in DOMAIN requests : \E n \in (review[i].seen + 1)..Len(ledger) :
               UnderReview(i) /\ review'[i] = NoReview /\ ledger[n].from = a
  <1>1. FullInv /\ FullInv' /\ [Next]_vars => [Overlaps]_vars
    <2> SUFFICES ASSUME FullInv, FullInv', Next, NEW a \in Account,
                        Balance(a, Len(ledger))' < 0, Len(ledger') > Len(ledger),
                        ledger'[Len(ledger')].from = a
                 PROVE  \E i \in DOMAIN requests : \E n \in (review[i].seen + 1)..Len(ledger) :
                          UnderReview(i) /\ review'[i] = NoReview /\ ledger[n].from = a
      OBVIOUS
    <2>1. TypeOK /\ TransferInv /\ TransferInv' /\ SeenBefore
      BY DEF FullInv, TransferInv
    <2>2. ledger' # ledger
      <3>1. Len(ledger) \in Nat
        BY <2>1, Rows
      <3> QED BY <3>1
    <2>3. CASE \E k \in DepositKey, b \in Account, n \in Amount : Deposit(k, b, n)
      <3>1. PICK k \in DepositKey, b \in Account, n \in Amount : Deposit(k, b, n)
        BY <2>3
      <3> DEFINE p == [key |-> k, type |-> "deposit", from |-> Cash, to |-> b, amount |-> n]
      <3>2. ledger' = Append(ledger, p)
        BY <2>2, <3>1 DEF Deposit, Posts
      <3>3. p \in Posting /\ p.from = Cash
        BY DEF Posting
      <3> HIDE DEF p
      <3>4. ledger'[Len(ledger')] = p
        BY <2>1, <3>2, <3>3, Rows, Appended
      <3> QED BY <3>3, <3>4
    <2>4. CASE \E i \in DOMAIN requests : PostTransfer(i)
      <3>1. PICK i \in DOMAIN requests : PostTransfer(i)
        BY <2>4
      <3>2. ledger' = Append(ledger, TransferOf(i)) /\ Funded(i)
        BY <2>2, <3>1 DEF PostTransfer, Posts
      <3>3. requests[i].source = a
        <4>1. TransferOf(i) \in Posting
          BY <2>1, Rows, TransferIsPosting DEF TransferInv
        <4>2. ledger'[Len(ledger')] = TransferOf(i)
          BY <2>1, <3>2, <4>1, Rows, Appended
        <4> QED BY <4>2 DEF TransferOf
      <3>4. UnderReview(i) /\ review'[i] = NoReview
        <4>1. i \in 1..MaxRequests
          BY <2>1, Rows DEF TransferInv
        <4>2. DOMAIN review = 1..MaxRequests
          BY <2>1 DEF TypeOK
        <4> QED BY <3>1, <4>1, <4>2 DEF PostTransfer
      <3>5. ~(Balance(a, Len(ledger))' >= 0)
        <4>1. Balance(a, Len(ledger))' \in Int
          BY <2>1, BalanceIsNumber DEF TransferInv
        <4> QED BY <4>1
      <3>6. \E n \in (review[i].seen + 1)..Len(ledger) : ledger[n].from = a
        BY <2>1, <3>1, <3>2, <3>3, <3>5, CoveredPosting
      <3> QED BY <3>4, <3>6
    <2>5. CASE ~(\/ \E k \in DepositKey, b \in Account, n \in Amount : Deposit(k, b, n)
                 \/ \E i \in DOMAIN requests : PostTransfer(i))
      BY <2>2, <2>5 DEF Next, Propose, Approve, Reject, RollBack, NextDay
    <2> QED BY <2>3, <2>4, <2>5
  <1> QED BY <1>1, FullInit, FullStep, PTL DEF Spec, OverdrawnOnlyByOverlap
=============================================================================
