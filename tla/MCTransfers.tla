---------------------------- MODULE MCTransfers ----------------------------
(***************************************************************************)
(* A small instance of Transfers: a branch manager and an administrator,    *)
(* two accounts at different branches, and a deposit made under the very    *)
(* key that the approval of the first request will use.                     *)
(***************************************************************************)
EXTENDS Transfers

CONSTANTS a1, manager

MCHome == [s \in Proposer |-> IF s = manager THEN 1 ELSE 0]
MCBranchOf == [a \in Account |-> IF a = a1 THEN 1 ELSE 2]
MCDepositKey == {RequestKey(1), <<"deposit", 1>>}
=============================================================================
