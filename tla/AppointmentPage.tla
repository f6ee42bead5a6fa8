-------------------------- MODULE AppointmentPage --------------------------
(***************************************************************************)
(* The customer's page of appointments: a list of dossiers read once, one   *)
(* of them picked, its appointment read each time another is picked, and    *)
(* the answers to the proposal.  Nothing cancels a request and the page     *)
(* does not poll, while the staff may give the dossier another slot.  (A    *)
(* dossier is locked out in data written by the seeder only.)               *)
(***************************************************************************)
EXTENDS Naturals, FiniteSets

CONSTANTS
  Dossier,      \* the customer's dossiers, positive numbers
  MaxChanges,   \* changes of slot the customer may ask for
  MaxDetails,   \* bound: reads of an appointment without an answer
  MaxSlots      \* bound: slots given to a dossier

ASSUME AppointmentAssumption ==
  /\ Dossier \subseteq Nat \ {0} /\ MaxChanges \in Nat /\ MaxDetails \in Nat \ {0}

VARIABLES
  visit,      \* "none", "loading" the list, "open"
  picked,     \* the dossier picked, or 0
  offer,      \* the appointment on the page
  stages,     \* the dossiers' stages in the page's list
  details,    \* reads of an appointment out
  changing,   \* the dialog that asks to confirm a change of slot
  request,    \* the customer's answer under way
  notice,     \* an error message is on the page
  missed,     \* the last read of an appointment failed
  crossed,    \* "no"; "yes", requests overlapped or an answer was lost; "ending",
              \* a read is out alone since
  stage,      \* the server's: "studied", "proposed", "confirmed", "locked"
  slot,       \* the slot proposed or confirmed, the n-th of its dossier
  changes,    \* changes of slot the customer asked for
  moved       \* dossiers the staff gave another slot during the visit

onPage == <<visit, picked, offer, stages, changing, notice>>
reads == <<details, missed, crossed>>
bank == <<stage, slot, changes, moved>>
appointmentVars == <<onPage, reads, request, bank>>

Stage == {"studied", "proposed", "confirmed", "locked"}
NoOffer == [of |-> 0, slot |-> 0, accepted |-> FALSE, left |-> 0]
NoRequest == [deed |-> "none", of |-> 0, stage |-> "none", offer |-> NoOffer]
OfferOf(d) ==
  [of |-> d, slot |-> slot[d], accepted |-> stage[d] = "confirmed",
   left |-> MaxChanges - changes[d]]

Nowhere ==
  /\ picked = 0 /\ offer = NoOffer
  /\ stages = [d \in Dossier |-> "studied"] /\ details = {}
  /\ changing = FALSE /\ request = NoRequest /\ notice = FALSE /\ missed = FALSE
  /\ crossed = "no" /\ slot = [d \in Dossier |-> 1] /\ changes = [d \in Dossier |-> 0]
  /\ moved = {}

AppointmentsInit ==
  /\ visit = "loading" /\ Nowhere
  /\ stage \in [Dossier -> Stage]

AppointmentsIdle == visit = "none" /\ Nowhere /\ stage = [d \in Dossier |-> "studied"]

-----------------------------------------------------------------------------
(* The list of dossiers, and the appointment of the one picked. *)

Eligible(st) == {d \in Dossier : st[d] # "studied"}
FreeDetails == {s \in 1..MaxDetails : \A r \in details : r.id # s}

ReadDetails(d) ==
  /\ FreeDetails # {}
  /\ details' = details \cup {[id |-> CHOOSE s \in FreeDetails : \A r \in FreeDetails : s <= r,
                               of |-> d, offer |-> NoOffer]}
  /\ crossed' = IF details # {} \/ request.stage # "none" THEN "yes"
                ELSE IF crossed = "no" THEN "no" ELSE "ending"
  /\ UNCHANGED missed

FirstOf(dossiers) == CHOOSE d \in dossiers : \A e \in dossiers : d <= e

ShowApplications ==
  /\ visit = "loading"
  /\ visit' = "open" /\ stages' = stage
  /\ IF Eligible(stage) = {} THEN UNCHANGED <<picked, reads>>
     ELSE picked' = FirstOf(Eligible(stage)) /\ ReadDetails(picked')
  /\ UNCHANGED <<offer, changing, notice, request, bank>>

FailApplications ==
  /\ visit = "loading"
  /\ visit' = "open" /\ notice' = TRUE
  /\ UNCHANGED <<picked, offer, stages, changing, reads, request, bank>>

(* The main part of the page, for a dossier that is not locked out. *)
Planning == visit = "open" /\ picked # 0 /\ stages[picked] # "locked"

(* Mutant of PickDossier: the appointment is read for the first one only.   *)
PickWithoutReading(d) ==
  /\ Planning /\ ~changing /\ d \in Eligible(stages) \ {picked}
  /\ picked' = d
  /\ UNCHANGED <<visit, offer, stages, changing, notice, reads, request, bank>>

(* The switcher is not disabled while an answer is under way. *)
PickDossier(d) ==
  /\ Planning /\ ~changing /\ d \in Eligible(stages) \ {picked}
  /\ picked' = d /\ ReadDetails(d)
  /\ UNCHANGED <<visit, offer, stages, changing, notice, request, bank>>

ServeDetails(r) ==
  /\ r.offer = NoOffer
  /\ details' = (details \ {r}) \cup {[r EXCEPT !.offer = OfferOf(r.of)]}
  /\ UNCHANGED <<onPage, missed, crossed, request, bank>>

ShowDetails(r) ==
  /\ r.offer # NoOffer
  /\ details' = details \ {r} /\ offer' = r.offer /\ missed' = FALSE
  /\ crossed' = IF crossed = "ending" /\ details = {r} THEN "no" ELSE crossed
  /\ UNCHANGED <<visit, picked, stages, changing, notice, request, bank>>

(* A read that fails says nothing: what was shown stays. *)
FailDetails(r) ==
  /\ r.offer = NoOffer
  /\ details' = details \ {r} /\ missed' = TRUE
  /\ UNCHANGED <<onPage, crossed, request, bank>>

-----------------------------------------------------------------------------
(* The customer's answers. *)

Answering == request.stage # "none"
OfferStands ==
  Planning /\ offer # NoOffer /\ ~offer.accepted /\ stages[picked] # "confirmed"

AskForChange ==
  /\ OfferStands /\ ~Answering /\ ~changing /\ offer.left > 0
  /\ changing' = TRUE
  /\ UNCHANGED <<visit, picked, offer, stages, notice, reads, request, bank>>

KeepSlot ==
  /\ changing
  /\ changing' = FALSE
  /\ UNCHANGED <<visit, picked, offer, stages, notice, reads, request, bank>>

SendAnswer(deed) ==
  /\ request' = [deed |-> deed, of |-> picked, stage |-> "sent", offer |-> NoOffer]
  /\ notice' = FALSE
  /\ crossed' = IF details # {} THEN "yes" ELSE crossed
  /\ UNCHANGED <<visit, picked, offer, stages, changing, details, missed, bank>>

AcceptOffer == OfferStands /\ ~Answering /\ ~changing /\ SendAnswer("accept")
ChangeSlot == changing /\ ~Answering /\ SendAnswer("change")

(* The server: a proposal is confirmed, or another slot found in its place  *)
(* while the customer may still ask; whatever else is sent is refused.      *)
ServerSays(offered) == request' = [request EXCEPT !.stage = "answered", !.offer = offered]

ServeAccept ==
  LET d == request.of IN
  /\ request.deed = "accept" /\ request.stage = "sent" /\ stage[d] = "proposed"
  /\ stage' = [stage EXCEPT ![d] = "confirmed"]
  /\ ServerSays([OfferOf(d) EXCEPT !.accepted = TRUE])
  /\ UNCHANGED <<onPage, reads, slot, changes, moved>>

ServeChange ==
  LET d == request.of IN
  /\ request.deed = "change" /\ request.stage = "sent" /\ stage[d] = "proposed"
  /\ changes[d] < MaxChanges
  /\ slot[d] < MaxSlots
  /\ slot' = [slot EXCEPT ![d] = @ + 1] /\ changes' = [changes EXCEPT ![d] = @ + 1]
  /\ ServerSays([of |-> d, slot |-> slot[d] + 1, accepted |-> FALSE,
                 left |-> MaxChanges - changes'[d]])
  /\ UNCHANGED <<onPage, reads, stage, moved>>

(* The answer is put on the page whichever dossier is picked by now.        *)
ShowAnswer ==
  /\ request.stage = "answered"
  /\ offer' = request.offer
  /\ stages' = [stages EXCEPT ![request.of] =
                  IF request.deed = "accept" THEN "confirmed" ELSE "proposed"]
  /\ changing' = (changing /\ request.deed # "change")
  /\ request' = NoRequest
  /\ UNCHANGED <<visit, picked, notice, reads, bank>>

ShowNoAnswer ==
  /\ Answering
  /\ request' = NoRequest /\ notice' = TRUE /\ crossed' = "yes"
  /\ UNCHANGED <<visit, picked, offer, stages, changing, details, missed, bank>>

-----------------------------------------------------------------------------
StaffMoves(d) ==
  /\ visit # "none" /\ stage[d] # "studied" /\ slot[d] < MaxSlots
  /\ slot' = [slot EXCEPT ![d] = @ + 1] /\ moved' = moved \cup {d}
  /\ \E st \in {"proposed", "confirmed"} : stage' = [stage EXCEPT ![d] = st]
  /\ UNCHANGED <<onPage, reads, request, changes>>

LeaveAppointments ==
  /\ visit = "open" /\ ~changing
  /\ visit' = "none" /\ picked' = 0 /\ offer' = NoOffer
  /\ stages' = [d \in Dossier |-> "studied"]
  /\ details' = {} /\ request' = NoRequest /\ notice' = FALSE /\ missed' = FALSE
  /\ crossed' = "no" /\ moved' = {}
  /\ UNCHANGED <<changing, stage, slot, changes>>

AppointmentsNext ==
  \/ ShowApplications \/ FailApplications
  \/ \E d \in Dossier : PickDossier(d) \/ StaffMoves(d)
  \/ \E r \in details : ServeDetails(r) \/ ShowDetails(r) \/ FailDetails(r)
  \/ AskForChange \/ KeepSlot \/ AcceptOffer \/ ChangeSlot
  \/ ServeAccept \/ ServeChange \/ ShowAnswer \/ ShowNoAnswer
  \/ LeaveAppointments
-----------------------------------------------------------------------------
AppointmentsTypeOK ==
  /\ visit \in {"none", "loading", "open"} /\ picked \in Dossier \cup {0}
  /\ offer.of \in Dossier \cup {0} /\ offer.left \in 0..MaxChanges
  /\ stages \in [Dossier -> Stage] /\ stage \in [Dossier -> Stage]
  /\ request.deed \in {"none", "accept", "change"}
  /\ changing \in BOOLEAN /\ moved \subseteq Dossier

(* The slot a customer confirms is the one on the page of which the button  *)
(* was pressed, of the dossier picked there, unless the staff moved it      *)
(* during the visit, a read was still out or failed, or requests had        *)
(* overlapped or gone unanswered since the last read alone.                 *)
ConfirmsWhatIsShown ==
  [][request'.stage = "sent" /\ request' # request /\ crossed = "no" /\ ~missed /\ details = {}
       => offer.of = picked /\ (offer.slot = slot[picked] \/ picked \in moved)]_appointmentVars
=============================================================================
