------------------------------- MODULE MCLocks -------------------------------
(***************************************************************************)
(* LockOrder for TLC.                                                      *)
(***************************************************************************)
EXTENDS LockOrder

CONSTANTS r1, r2, a1, a2, b1, b2

KindOrder ==
  <<"save", "resave", "submit", "route", "adminApprove", "accept", "reject", "schedule",
    "upload", "note", "post", "delete", "decide">>
Number(kind) == CHOOSE i \in DOMAIN KindOrder : KindOrder[i] = kind

(* Requests, applications and branches have no names in LockOrder: of the   *)
(* initial states that differ by an exchange of the two of a kind only, one *)
(* is enough.  No step changes a job, so that whole behaviours are left out.*)
OneOfEach ==
  /\ Number(job[r1].kind) <= Number(job[r2].kind)
  /\ job[r1].app = a1
  /\ job[r1].place # b2
=============================================================================
