--------------------------- MODULE MCReportThread ---------------------------
(* One customer, one member of staff and one admin on the same thread, and, *)
(* apart from it, what one of their pages lets its author do.               *)
EXTENDS ReportThread, Composer

LOCAL INSTANCE Functions

CONSTANTS phone, clerk, boss

MCPortal == [t \in Tab |-> CASE t = clerk -> "staff" [] t = boss -> "admin" [] OTHER -> "client"]

ChatInit == ThreadInit /\ (ComposerIdle \/ ComposerInit)
ChatNext == \/ author = "none" /\ ThreadNext /\ UNCHANGED composerVars
            \/ author # "none" /\ ComposerNext /\ UNCHANGED vars
ChatSpec == ChatInit /\ [][ChatNext]_<<vars, composerVars>>

(* One desk at a time, and the admin's with one message at most: the        *)
(* properties are about the other two pages.                                *)
Present(t) == view[t].stage # "away" \/ \E c \in calls : c.tab = t
OneDesk == Present(boss) => ~Present(clerk) /\ Len(log) <= 1 /\ reruns = 0

(* Two requests and timers are out, none while a file is attached.          *)
SmallComposer ==
  LET out == FoldFunction(LAMBDA m, n : m + n, 0, posts)
               + FoldFunction(LAMBDA m, n : m + n, 0, timers)
  IN /\ out + (IF Sending THEN 1 ELSE 0) <= 2
     /\ attached => out = 0 /\ popup = "none"

(* A broadcast is repeated for the first message, and not after a ban. *)
FewReruns ==
  /\ reruns > 0 => Len(log) <= 1 /\ ~banned
  /\ banned => Len(log) <= 1

Small == OneDesk /\ FewReruns /\ SmallComposer

=============================================================================
