--------------------------- MODULE MCLoanWorkflow ---------------------------
(***************************************************************************)
(* A small instance of the composed system: two requests of the customer's  *)
(* side in flight, an admin, one branch with two slots a day.               *)
(***************************************************************************)
EXTENDS LoanWorkflow, TLC

CONSTANTS b1

MCRole == [s \in Staff |-> "admin"]
MCHome == [s \in Staff |-> NoBranch]
MCMatch == [a \in App |-> b1]
MCCapacity == [b \in Branch |-> 2]
MCSlotTimes == [b \in Branch |-> <<1, 2>>]

Symmetry == Permutations(Request)
=============================================================================
