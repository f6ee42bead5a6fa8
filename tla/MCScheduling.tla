---------------------------- MODULE MCScheduling ----------------------------
(***************************************************************************)
(* Small instances of Scheduling: one member of staff at branch b1 and one  *)
(* admin.  With two dossiers the dates are a Sunday and a Monday, so that   *)
(* all compete for the slots of one working day; with one dossier they are  *)
(* a Monday and a Tuesday, so that time passes between offers.              *)
(***************************************************************************)
EXTENDS Scheduling, TLC

CONSTANTS a1, b1, clerk, boss

MCRole == [s \in Staff |-> IF s = boss THEN "admin" ELSE "operational"]
MCHome == [s \in Staff |-> IF s = boss THEN NoBranch ELSE b1]

Symmetry == Permutations(App)

MCMatch == [a \in App |-> b1]

(* Capacity 4 is the code's default; with two slots a day, one branch is    *)
(* full after two bookings, the other after one.                            *)
MCCapacity == [b \in Branch |-> IF b = b1 THEN 2 ELSE 1]
MCSlotTimes == [b \in Branch |-> IF b = b1 THEN <<1, 2>> ELSE <<1>>]
=============================================================================
