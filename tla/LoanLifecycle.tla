--------------------------- MODULE LoanLifecycle ---------------------------
(***************************************************************************)
(* What the system promises about a credit application, whoever acts on it: *)
(* it is prepared, withdrawn or submitted once; the bank refuses it, closes *)
(* it, or gives it an appointment; an appointment slot belongs to one       *)
(* application at a time; the customer changes it a limited number of times *)
(* and never gets the slot that was turned down.                            *)
(***************************************************************************)
EXTENDS Naturals

CONSTANTS
  Loan, Slot,
  NoSlot,      \* no slot, not a member of Slot
  MaxChanges   \* a natural number

VARIABLES
  stage,    \* "new", "draft", "deleted", "review", "meeting", "agreed" or "closed"
  slot,     \* the appointment slot the application holds
  changes   \* how often the customer changed it

lifecycleVars == <<stage, slot, changes>>

Init ==
  /\ stage = [a \in Loan |-> "new"]
  /\ slot = [a \in Loan |-> NoSlot]
  /\ changes = [a \in Loan |-> 0]

Advance(a, from, to) == stage[a] \in from /\ stage' = [stage EXCEPT ![a] = to]

Prepare(a) ==
  /\ \/ Advance(a, {"new"}, "draft") \/ Advance(a, {"draft"}, "deleted")
     \/ Advance(a, {"draft"}, "review") \/ Advance(a, {"draft", "review"}, "closed")
  /\ UNCHANGED <<slot, changes>>

Unheld(s) == \A x \in Loan : slot[x] # s

(* The bank books: any stage from the review on, its own slot may be kept.  *)
Book(a, s) ==
  /\ Unheld(s) \/ slot[a] = s
  /\ \/ Advance(a, {"review", "meeting", "agreed"}, "meeting")
     \/ Advance(a, {"review", "meeting", "agreed"}, "agreed")
  /\ slot' = [slot EXCEPT ![a] = s]
  /\ UNCHANGED changes

Agree(a) == Advance(a, {"meeting"}, "agreed") /\ UNCHANGED <<slot, changes>>

(* The customer changes: a slot that is new, and one change less left.      *)
Change(a, s) ==
  /\ Unheld(s) /\ changes[a] < MaxChanges
  /\ Advance(a, {"meeting"}, "meeting")
  /\ slot' = [slot EXCEPT ![a] = s]
  /\ changes' = [changes EXCEPT ![a] = @ + 1]

Next ==
  \E a \in Loan :
    \/ Prepare(a)
    \/ Agree(a)
    \/ \E s \in Slot : Book(a, s) \/ Change(a, s)

Spec == Init /\ [][Next]_lifecycleVars
=============================================================================
