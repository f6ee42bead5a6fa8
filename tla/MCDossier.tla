----------------------------- MODULE MCDossier ------------------------------
(***************************************************************************)
(* Small instances of Dossier.  One dossier is explored with its documents; *)
(* a second one, entered after it, competes with it for the codes of the    *)
(* counter rows and for the workers while neither has a document.           *)
(***************************************************************************)
EXTENDS Dossier, TLC

CONSTANTS a1, a2

SecondIsThin ==
  row[a2] # "absent" =>
    /\ row[a1] # "absent"
    /\ \A a \in App, d \in Doc : docs[a][d] = "none"

(* Workers are interchangeable. *)
Symmetry == Permutations(Request)
=============================================================================
