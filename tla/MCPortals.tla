----------------------------- MODULE MCPortals -----------------------------
(* Four kinds of page, one of them open: they share nothing but the server. *)
EXTENDS Listings, Review, AppointmentPage, Wizard

(* Two filters; a change leaves the first one page instead of two, and the  *)
(* second without a row.                                                    *)
MCPagesOf == << <<2, 1>>, <<1, 0>> >>

(* Both files go to the same card. *)
MCCardOf == [d \in {1, 2} |-> "client"]

(* Two admin pages that load as the staff's do. *)
MCPages == DOMAIN Profile \ {"adminAppointments", "adminAnalytics"}
ASSUME SameAsStaff ==
  /\ Profile["adminAppointments"] = Profile["staffAppointments"]
  /\ Profile["adminAnalytics"] = Profile["staffAnalytics"]

PortalsInit ==
  \/ ListingInit /\ ReviewIdle /\ AppointmentsIdle /\ WizardIdle
  \/ ListingIdle /\ ReviewInit /\ AppointmentsIdle /\ WizardIdle
  \/ ListingIdle /\ ReviewIdle /\ AppointmentsInit /\ WizardIdle
  \/ ListingIdle /\ ReviewIdle /\ AppointmentsIdle /\ WizardInit

PortalsNext ==
  \/ where # "idle" /\ ListingNext /\ UNCHANGED <<reviewVars, appointmentVars, wizardVars>>
  \/ desk # "none" /\ ReviewNext /\ UNCHANGED <<listingVars, appointmentVars, wizardVars>>
  \/ visit # "none" /\ AppointmentsNext /\ UNCHANGED <<listingVars, reviewVars, wizardVars>>
  \/ step # "idle" /\ WizardNext /\ UNCHANGED <<listingVars, reviewVars, appointmentVars>>

portalsVars == <<listingVars, reviewVars, appointmentVars, wizardVars>>

(* Others change the data of polling pages only, hiding the tab waits for   *)
(* the loads, and of loads and command two are out.                         *)
SmallListing ==
  /\ Page.polls \/ version = 0
  /\ Cardinality(loads) + (IF command.stage = "none" THEN 0 ELSE 1) <= 2
  /\ ~inView => loads = {} /\ command.stage = "none"

(* The customer's second dossier has a proposal, the staff move the first   *)
(* one, and of reads and answer two are out.                                *)
SmallAppointments ==
  /\ moved \subseteq {1}
  /\ visit = "loading" => stage[2] = "proposed"
  /\ Cardinality(details) + (IF Answering THEN 1 ELSE 0) <= 2
  /\ ~(notice /\ missed)

BusyWith(r) ==
  << saving # NoSave, upload # NoUpload, removal # NoRemoval, control # NoControl,
     read \in {"sent", "answered"} >>[r]

(* Of read, save, uploads, removal and check two are out, and the second    *)
(* document is neither removed nor rejected.                                *)
SmallWizard ==
  /\ Cardinality({r \in 1..5 : BusyWith(r)}) <= 2
  /\ verdicts[2] \notin {"deleted", "invalid"}

Small == SmallListing /\ SmallAppointments /\ SmallWizard

PortalsSpec ==
  PortalsInit /\ [][PortalsNext]_portalsVars /\ ListingFairness /\ ReviewFairness

(* Every page that polls is up to date again and again. *)
PagesCatchUp == CatchesUp /\ ReviewCatchesUp
=============================================================================
