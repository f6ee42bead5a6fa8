---------------------------- MODULE ThreadProofs ----------------------------
(***************************************************************************)
(* Proofs about ReportThread, for any tabs and any numbers of messages,    *)
(* requests and repeated broadcasts, and about Composer.                   *)
(***************************************************************************)
EXTENDS ReportThread, Composer, Integers, SequenceTheorems, TLAPS

USE TabAssumption, ThreadBoundAssumption DEF TabAssumption, ThreadBoundAssumption

Page == [stage : {"away", "loading", "open", "failed", "login"},
         messages : Seq(Nat), closed : BOOLEAN]

LogOK ==
  /\ log \in Seq(Entry) /\ Len(log) <= MaxMessages
  /\ outbox \subseteq Nat /\ closed \in BOOLEAN
CallsOK == calls \subseteq Call
PagesOK == view \in [Tab -> Page]

(* A page waits for one load at most, and only while it is loading.        *)
Loads(t) == {c \in calls : c.op = "load" /\ c.tab = t}
LoadsOnce ==
  \A t \in Tab : \A c \in Loads(t) :
    c.mounted /\ view[t].stage = "loading" /\ Loads(t) = {c}

ThreadInv ==
  LogOK /\ CallsOK /\ PagesOK /\ LoadsOnce /\ TurnsAlternate /\ ShownOnce

-----------------------------------------------------------------------------
(* What the server makes of a request: it stays the same request, and at   *)
(* most one message is appended, the customer's only in his turn.          *)
Served(c) ==
  /\ view' = view
  /\ \E d \in Call : /\ calls' = (calls \ {c}) \cup {d}
                     /\ d.tab = c.tab /\ d.op = c.op /\ d.mounted = c.mounted
  /\ \/ log' = log /\ outbox' = outbox
     \/ \E e \in Entry :
          /\ Len(log) < MaxMessages /\ log' = Append(log, e)
          /\ outbox' = outbox \cup {Len(log) + 1}
          /\ e.from = "customer" => CustomersTurn

LEMMA AnswerServes ==
  ASSUME NEW c \in Call, NEW id \in 0..MaxMessages,
         NEW stage \in {"sent", "admitted", "answered", "refused", "signedOut"},
         Answer(c, stage, id)
  PROVE  \E d \in Call : /\ calls' = (calls \ {c}) \cup {d}
                         /\ d.tab = c.tab /\ d.op = c.op /\ d.mounted = c.mounted
  <1>1. [c EXCEPT !.stage = stage, !.id = id] \in Call
    BY DEF Call
  <1> QED BY <1>1 DEF Answer, Call

LEMMA AdmittedServes ==
  ASSUME NEW c \in Call, NEW bound \in BOOLEAN, Admitted(c, bound)
  PROVE  \E d \in Call : /\ calls' = (calls \ {c}) \cup {d}
                         /\ d.tab = c.tab /\ d.op = c.op /\ d.mounted = c.mounted
  <1>1. [c EXCEPT !.stage = "admitted", !.bound = bound] \in Call
    BY DEF Call
  <1> QED BY <1>1 DEF Admitted, Call

LEMMA PostServes ==
  ASSUME LogOK, NEW c \in Call, NEW from \in {"customer", "staff"}, NEW kind \in Notice,
         Post(c, from, kind), view' = view, from = "customer" => CustomersTurn
  PROVE  Served(c)
  <1>1. Len(log) \in Nat /\ Len(log) < MaxMessages
    BY LenProperties DEF LogOK, Post
  <1>2. Len(log) + 1 \in 0..MaxMessages
    BY <1>1
  <1>3. [from |-> from, kind |-> kind] \in Entry
    BY DEF Entry
  <1>4. \E d \in Call : /\ calls' = (calls \ {c}) \cup {d}
                        /\ d.tab = c.tab /\ d.op = c.op /\ d.mounted = c.mounted
    BY <1>2, AnswerServes DEF Post
  <1> QED BY <1>1, <1>3, <1>4 DEF Post, Served

LEMMA ServeServes ==
  ASSUME LogOK, NEW c \in Call, Serve(c)
  PROVE  Served(c) /\ closed' \in BOOLEAN
  <1>0. closed' \in BOOLEAN
    BY DEF LogOK, Serve, RefuseSuspended, ListMessages, AdmitCustomer, AdmitReopening, PostCustomer,
           PostStaff, CloseThread, ReopenThread, BanFromApplication, ScheduleAppointment, serverVars
  <1> SUFFICES Served(c)
    BY <1>0
  <1>1. CASE RefuseSuspended(c)
    BY <1>1, AnswerServes DEF RefuseSuspended, Served, serverVars
  <1>2. CASE ListMessages(c)
    <2> DEFINE d == [c EXCEPT !.stage = "answered", !.id = Len(log), !.bound = closed]
    <2>1. Len(log) \in 0..MaxMessages
      BY LenProperties DEF LogOK
    <2> USE DEF LogOK
    <2>2. d \in Call /\ d.tab = c.tab /\ d.op = c.op /\ d.mounted = c.mounted
      BY <2>1 DEF Call
    <2>3. calls' = (calls \ {c}) \cup {d} /\ UNCHANGED <<view, log, outbox>>
      BY <1>2 DEF ListMessages, serverVars
    <2> HIDE DEF d
    <2> QED BY <2>2, <2>3 DEF Served
  <1>3. CASE AdmitCustomer(c)
    <2>1. CASE closed
      BY <1>3, <2>1, AnswerServes DEF AdmitCustomer, Served, serverVars
    <2>2. CASE ~closed
      BY <1>3, <2>2, AdmittedServes DEF AdmitCustomer, Served, serverVars
    <2> QED BY <2>1, <2>2
  <1>4. CASE AdmitReopening(c)
    BY <1>4, AdmittedServes DEF AdmitReopening, Served, serverVars, LogOK
  <1>5. CASE PostCustomer(c)
    <2>1. CASE CustomersTurn
      BY <1>5, <2>1, PostServes DEF PostCustomer, Notice
    <2>2. CASE ~CustomersTurn
      BY <1>5, <2>2, AnswerServes DEF PostCustomer, Served
    <2> QED BY <2>1, <2>2
  <1>6. CASE PostStaff(c)
    BY <1>6, PostServes DEF PostStaff, Notice
  <1>7. CASE CloseThread(c)
    BY <1>7, PostServes DEF CloseThread, Notice
  <1>8. CASE ReopenThread(c)
    BY <1>8, PostServes DEF ReopenThread, Notice
  <1>9. CASE BanFromApplication(c)
    BY <1>9, PostServes DEF BanFromApplication, Notice
  <1>10. CASE ScheduleAppointment(c)
    <2>1. CASE Post(c, "staff", "text")
      BY <1>10, <2>1, PostServes DEF ScheduleAppointment, Notice
    <2>2. CASE Answer(c, "refused", 0) /\ UNCHANGED <<log, outbox>>
      BY <1>10, <2>2, AnswerServes DEF ScheduleAppointment, Served
    <2> QED BY <1>10, <2>1, <2>2 DEF ScheduleAppointment
  <1> QED
    BY <1>1, <1>2, <1>3, <1>4, <1>5, <1>6, <1>7, <1>8, <1>9, <1>10 DEF Serve

(* The turns alternate in what is appended.                                *)
LEMMA ServedKeepsTurns ==
  ASSUME LogOK, TurnsAlternate, NEW c \in Call, Served(c), closed' \in BOOLEAN
  PROVE  LogOK' /\ TurnsAlternate'
  <1>1. CASE log' = log /\ outbox' = outbox
    BY <1>1 DEF LogOK, TurnsAlternate
  <1>2. CASE \E e \in Entry :
               /\ Len(log) < MaxMessages /\ log' = Append(log, e)
               /\ outbox' = outbox \cup {Len(log) + 1}
               /\ e.from = "customer" => CustomersTurn
    <2>1. PICK e \in Entry :
            /\ Len(log) < MaxMessages /\ log' = Append(log, e)
            /\ outbox' = outbox \cup {Len(log) + 1}
            /\ e.from = "customer" => CustomersTurn
      BY <1>2
    <2>2. log \in Seq(Entry) /\ Len(log) \in Nat
      BY LenProperties DEF LogOK
    <2>3. /\ log' \in Seq(Entry) /\ Len(log') = Len(log) + 1
          /\ log'[Len(log) + 1] = e
          /\ \A i \in 1..Len(log) : log'[i] = log[i]
      BY <2>1, <2>2, AppendProperties
    <2>4. LogOK'
      <3>1. Len(log') <= MaxMessages
        BY <2>1, <2>2, <2>3
      <3>2. outbox' \subseteq Nat
        <4>1. outbox' = outbox \cup {Len(log) + 1}
          BY <2>1
        <4>2. outbox \subseteq Nat
          BY DEF LogOK
        <4>3. Len(log) + 1 \in Nat
          BY <2>2
        <4> QED BY <4>1, <4>2, <4>3, Zenon
      <3> QED BY <2>3, <3>1, <3>2 DEF LogOK
    <2>5. ASSUME NEW i \in 2..Len(log'), log'[i].from = "customer"
          PROVE  log'[i - 1].from = "staff"
      <3>1. CASE i \in 2..Len(log)
        BY <2>2, <2>3, <2>5, <3>1 DEF TurnsAlternate
      <3>2. CASE i = Len(log) + 1
        <4>1. Len(log) >= 1 /\ log # <<>> /\ i - 1 = Len(log)
          BY <2>2, <2>3, <2>5, <3>2
        <4>2. log[Len(log)].from = "staff"
          BY <2>1, <2>3, <2>5, <3>2, <4>1 DEF CustomersTurn, Last
        <4> QED BY <2>3, <4>1, <4>2
      <3> QED BY <2>2, <2>3, <2>5, <3>1, <3>2
    <2> QED BY <2>4, <2>5 DEF TurnsAlternate
  <1> QED BY <1>1, <1>2 DEF Served

(* An answered load is still the same load.                                *)
LEMMA ServedKeepsLoads ==
  ASSUME CallsOK, LoadsOnce, NEW c \in calls, Served(c)
  PROVE  CallsOK' /\ LoadsOnce'
  <1>1. PICK d \in Call : /\ calls' = (calls \ {c}) \cup {d}
                          /\ d.tab = c.tab /\ d.op = c.op /\ d.mounted = c.mounted
    BY DEF Served
  <1>2. CallsOK' /\ view' = view
    BY <1>1 DEF CallsOK, Served
  <1>3. ASSUME NEW t \in Tab, NEW x \in Loads(t)'
        PROVE  x.mounted /\ view'[t].stage = "loading" /\ Loads(t)' = {x}
    <2>1. CASE c \in Loads(t)
      <3>1. c.mounted /\ view[t].stage = "loading" /\ Loads(t) = {c}
        BY <2>1 DEF LoadsOnce
      <3>2. Loads(t)' = {d}
        BY <1>1, <2>1, <3>1 DEF Loads
      <3> QED BY <1>1, <1>2, <1>3, <3>1, <3>2
    <2>2. CASE c \notin Loads(t)
      <3>1. Loads(t)' = Loads(t)
        BY <1>1, <2>2 DEF Loads
      <3> QED BY <1>2, <1>3, <3>1 DEF LoadsOnce
    <2> QED BY <2>1, <2>2
  <1> QED BY <1>2, <1>3 DEF LoadsOnce

-----------------------------------------------------------------------------
(* What a step makes of a page: nothing, one message more, nothing shown, or *)
(* the answer to its load.                                                 *)
Moved(t) ==
  \/ view'[t].messages = view[t].messages
  \/ \E id \in Nat : view'[t].messages = Shown(view[t].messages, id)
  \/ view'[t].messages = <<>> /\ view'[t].stage # "open"
  \/ view[t].stage = "loading" /\ \E n \in Nat : view'[t].messages = [i \in 1..n |-> i]

LEMMA ShownInjective ==
  ASSUME NEW s \in Seq(Nat), NEW id \in Nat
  PROVE  /\ Shown(s, id) \in Seq(Nat)
         /\ IsPrefix(s, Shown(s, id))
         /\ IsInjective(s) => IsInjective(Shown(s, id))
  <1>0. Len(s) \in Nat /\ DOMAIN s = 1..Len(s)
    BY LenProperties
  <1>1. CASE id \in ToSet(s)
    BY <1>1 DEF Shown, IsPrefix
  <1>2. CASE id \notin ToSet(s)
    <2>1. Shown(s, id) = Append(s, id)
      BY <1>2 DEF Shown
    <2>2. /\ Append(s, id) \in Seq(Nat) /\ Len(Append(s, id)) = Len(s) + 1
          /\ DOMAIN Append(s, id) = 1..(Len(s) + 1)
          /\ Append(s, id)[Len(s) + 1] = id
          /\ \A i \in 1..Len(s) : Append(s, id)[i] = s[i]
      BY AppendProperties, LenProperties
    <2>3. \A i \in 1..Len(s) : s[i] # id
      BY <1>0, <1>2 DEF ToSet
    <2>4. IsPrefix(s, Append(s, id))
      BY <1>0, <2>2 DEF IsPrefix
    <2>5. IsInjective(s) => IsInjective(Append(s, id))
      BY <1>0, <2>2, <2>3 DEF IsInjective
    <2> QED BY <2>1, <2>2, <2>4, <2>5
  <1> QED BY <1>1, <1>2

LEMMA MovedKeepsOnce ==
  ASSUME PagesOK, PagesOK', NEW t \in Tab, Moved(t)
  PROVE  /\ IsInjective(view[t].messages) => IsInjective(view'[t].messages)
         /\ view[t].stage = "open" /\ view'[t].stage = "open"
              => IsPrefix(view[t].messages, view'[t].messages)
  <1>1. view[t].messages \in Seq(Nat)
    BY DEF PagesOK, Page
  <1>2. CASE view'[t].messages = view[t].messages
    BY <1>1, <1>2 DEF IsPrefix
  <1>3. CASE \E id \in Nat : view'[t].messages = Shown(view[t].messages, id)
    BY <1>1, <1>3, ShownInjective
  <1>4. CASE view'[t].messages = <<>> /\ view'[t].stage # "open"
    BY <1>4 DEF IsInjective
  <1>5. CASE /\ view[t].stage = "loading"
             /\ \E n \in Nat : view'[t].messages = [i \in 1..n |-> i]
    BY <1>5 DEF IsInjective
  <1> QED BY <1>2, <1>3, <1>4, <1>5 DEF Moved
(* A page left takes its load along.                                       *)
LEMMA UnmountedLoads ==
  ASSUME CallsOK, NEW t \in Tab, calls' = Unmounted(t)
  PROVE  /\ CallsOK' /\ Loads(t)' = {}
         /\ \A u \in Tab : u # t => Loads(u)' = Loads(u)
  <1>1. ASSUME NEW d \in Call
        PROVE  /\ [d EXCEPT !.mounted = FALSE] \in Call
               /\ [d EXCEPT !.mounted = FALSE].tab = d.tab
               /\ [d EXCEPT !.mounted = FALSE].op = d.op
    BY DEF Call
  <1>2. \A x \in calls' : \/ x \in calls /\ x.tab # t
                         \/ \E d \in calls : /\ d.tab = t /\ d.op # "load"
                                             /\ x = [d EXCEPT !.mounted = FALSE]
    BY DEF Unmounted, Outlives
  <1>3. \A x \in calls : x.tab # t => x \in calls'
    BY DEF Unmounted
  <1>4. \A x \in calls' : x \in Call /\ (x.op = "load" => x \in calls /\ x.tab # t)
    <2> SUFFICES ASSUME NEW x \in calls'
                 PROVE  x \in Call /\ (x.op = "load" => x \in calls /\ x.tab # t)
      OBVIOUS
    <2>1. CASE x \in calls /\ x.tab # t
      BY <2>1 DEF CallsOK
    <2>2. CASE \E d \in calls : d.tab = t /\ d.op # "load" /\ x = [d EXCEPT !.mounted = FALSE]
      BY <1>1, <2>2 DEF CallsOK
    <2> QED BY <1>2, <2>1, <2>2
  <1> QED BY <1>3, <1>4 DEF CallsOK, Loads

(* The invariant of the pages, and what their steps do to what they show.  *)
PagesStep ==
  /\ CallsOK' /\ PagesOK' /\ LoadsOnce'
  /\ \A t \in Tab : Portal[t] # "admin" => Moved(t)

LEMMA RequestAdds ==
  ASSUME CallsOK, NEW t \in Tab, NEW op \in Op, Request(t, op)
  PROVE  /\ CallsOK'
         /\ \E c \in Call : /\ calls' = calls \cup {c} /\ c.tab = t /\ c.op = op /\ c.mounted
  <1>1. PICK s \in FreeSlot(t) :
          calls' = calls \cup {[tab |-> t, op |-> op, slot |-> s, stage |-> "sent", id |-> 0,
                                bound |-> FALSE, mounted |-> TRUE]}
    BY DEF Request
  <1> DEFINE c == [tab |-> t, op |-> op, slot |-> s, stage |-> "sent", id |-> 0,
                   bound |-> FALSE, mounted |-> TRUE]
  <1>2. c \in Call /\ c.tab = t /\ c.op = op /\ c.mounted
    BY DEF Call, FreeSlot
  <1>3. calls' = calls \cup {c}
    BY <1>1
  <1> HIDE DEF c
  <1> QED BY <1>2, <1>3 DEF CallsOK

(* What a page posts is no load, and it shows nothing else for it.         *)
LEMMA PostingStep ==
  ASSUME CallsOK, PagesOK, LoadsOnce, NEW t \in Tab, NEW op \in Op, op # "load", Request(t, op),
         view' = view
  PROVE  PagesStep
  <1>1. PICK c \in Call : calls' = calls \cup {c} /\ c.tab = t /\ c.op = op /\ c.mounted
    BY RequestAdds
  <1>2. \A u \in Tab : Loads(u)' = Loads(u)
    BY <1>1 DEF Loads
  <1> QED BY <1>2, RequestAdds DEF PagesStep, PagesOK, LoadsOnce, Moved

LEMMA EnterStep ==
  ASSUME CallsOK, PagesOK, LoadsOnce, NEW t \in Tab, Enter(t)
  PROVE  PagesStep
  <1>1. view[t].stage = "away" /\ view' = [view EXCEPT ![t] = Opening]
    BY DEF Enter
  <1>2. PICK c \in Call : calls' = calls \cup {c} /\ c.tab = t /\ c.op = "load" /\ c.mounted
    BY RequestAdds DEF Enter, Op
  <1>3. Loads(t) = {}
    BY <1>1 DEF LoadsOnce, Loads
  <1>4. Loads(t)' = {c} /\ \A u \in Tab : u # t => Loads(u)' = Loads(u)
    BY <1>2, <1>3 DEF Loads
  <1>5. Opening \in Page /\ Opening.stage = "loading" /\ Opening.messages = <<>>
    BY EmptySeq DEF Opening, Away, Page
  <1> HIDE DEF Opening
  <1>6. /\ PagesOK' /\ view'[t] = Opening
        /\ \A u \in Tab : u # t => view'[u] = view[u]
    BY <1>1, <1>5 DEF PagesOK
  <1>7. LoadsOnce'
    BY <1>2, <1>4, <1>5, <1>6 DEF LoadsOnce
  <1>8. CallsOK'
    BY <1>2 DEF CallsOK
  <1> QED BY <1>5, <1>6, <1>7, <1>8 DEF PagesStep, Moved

(* Leaving, and being signed out.                                          *)
LEMMA AwayStep ==
  ASSUME CallsOK, PagesOK, LoadsOnce, NEW t \in Tab, NEW v \in Page,
         v.stage \in {"away", "login"}, v.messages = <<>>,
         view' = [view EXCEPT ![t] = v], calls' = Unmounted(t)
  PROVE  PagesStep
  <1>1. /\ CallsOK' /\ Loads(t)' = {}
        /\ \A u \in Tab : u # t => Loads(u)' = Loads(u)
    BY UnmountedLoads
  <1>2. /\ PagesOK' /\ view'[t] = v
        /\ \A u \in Tab : u # t => view'[u] = view[u]
    BY DEF PagesOK
  <1>3. LoadsOnce'
    BY <1>1, <1>2 DEF LoadsOnce
  <1> QED BY <1>1, <1>2, <1>3 DEF PagesStep, Moved

LEMMA BroadcastStep ==
  ASSUME LogOK, CallsOK, PagesOK, LoadsOnce, NEW m \in outbox, Broadcast(m)
  PROVE  PagesStep /\ log' = log /\ outbox' \subseteq Nat /\ closed' = closed
  <1>1. m \in Nat /\ calls' = calls /\ log' = log /\ outbox' \subseteq Nat /\ closed' = closed
    BY DEF Broadcast, LogOK
  <1>2. ASSUME NEW v \in Page
        PROVE  /\ OnReportMessage(v, m) \in Page
               /\ OnReportMessage(v, m).stage = v.stage
               /\ OnReportMessage(v, m).messages = Shown(v.messages, m)
    <2>1. Shown(v.messages, m) \in Seq(Nat)
      BY <1>1, ShownInjective DEF Page
    <2>2. ClosedAfter(v.closed, m) \in BOOLEAN
      BY DEF ClosedAfter, Page
    <2> QED BY <2>1, <2>2 DEF OnReportMessage, Page
  <1>3. view' = [t \in Tab |-> IF live[t] THEN OnReportMessage(view[t], m) ELSE view[t]]
    BY DEF Broadcast
  <1>4. PagesOK' /\ \A t \in Tab : view'[t].stage = view[t].stage
    BY <1>2, <1>3 DEF PagesOK
  <1>5. \A t \in Tab : Moved(t)
    BY <1>1, <1>2, <1>3 DEF PagesOK, Moved
  <1>6. CallsOK' /\ LoadsOnce'
    BY <1>1, <1>4 DEF CallsOK, LoadsOnce, Loads
  <1> QED BY <1>1, <1>4, <1>5, <1>6 DEF PagesStep

(* An answer is taken: the call is gone, its page may show more.           *)
LEMMA ForgetStep ==
  ASSUME CallsOK, PagesOK, LoadsOnce, NEW c \in calls, Forget(c),
         NEW v \in Page, view' = [view EXCEPT ![c.tab] = v],
         c.op = "load" \/ v.stage = view[c.tab].stage,
         \/ v.messages = view[c.tab].messages
         \/ \E id \in Nat : v.messages = Shown(view[c.tab].messages, id)
         \/ c.op = "load" /\ \E n \in Nat : v.messages = [i \in 1..n |-> i]
         \/ Portal[c.tab] = "admin"
  PROVE  PagesStep
  <1>1. c \in Call /\ c.tab \in Tab
    BY DEF CallsOK, Call
  <1>2. /\ PagesOK' /\ view'[c.tab] = v
        /\ \A t \in Tab : t # c.tab => view'[t] = view[t]
    BY <1>1 DEF PagesOK
  <1>3. \A t \in Tab : Loads(t)' = Loads(t) \ {c}
    BY DEF Forget, Loads
  <1>4. c.op = "load" => view[c.tab].stage = "loading" /\ Loads(c.tab)' = {}
    BY <1>1, <1>3 DEF LoadsOnce, Loads
  <1>5. LoadsOnce'
    <2> SUFFICES ASSUME NEW t \in Tab, NEW x \in Loads(t)'
                 PROVE  x.mounted /\ view'[t].stage = "loading" /\ Loads(t)' = {x}
      BY DEF LoadsOnce
    <2>1. x \in Loads(t) /\ x # c
      BY <1>3
    <2>2. x.mounted /\ view[t].stage = "loading" /\ Loads(t) = {x}
      BY <2>1 DEF LoadsOnce
    <2>3. Loads(t)' = {x}
      BY <1>3, <2>1, <2>2
    <2>4. view'[t].stage = view[t].stage
      BY <1>2, <1>4, <2>3
    <2> QED BY <2>2, <2>3, <2>4
  <1>6. CallsOK'
    BY DEF CallsOK, Forget
  <1>7. \A t \in Tab : Portal[t] # "admin" => Moved(t)
    BY <1>1, <1>2, <1>4 DEF Moved
  <1> QED BY <1>2, <1>5, <1>6, <1>7 DEF PagesStep

LEMMA TakeAnswerStep ==
  ASSUME LogOK, CallsOK, PagesOK, LoadsOnce, NEW c \in calls, TakeAnswer(c)
  PROVE  PagesStep /\ UNCHANGED <<log, outbox, closed>>
  <1>0. UNCHANGED <<log, outbox, closed>>
    BY DEF TakeAnswer, ShowThread, ShowSent, ShowCommand, ShowError, SignOut, DropAnswer, serverVars
  <1>1. /\ c \in Call /\ c.tab \in Tab /\ c.id \in Nat /\ c.bound \in BOOLEAN
        /\ view[c.tab] \in Page
    BY DEF CallsOK, Call, PagesOK
  <1> DEFINE p == view[c.tab]
  <1>2. CASE ShowThread(c)
    <2> DEFINE v == [stage |-> "open", messages |-> [i \in 1..c.id |-> i], closed |-> c.bound]
    <2>1. [i \in 1..c.id |-> i] \in Seq(Nat)
      BY <1>1
    <2>2. v \in Page
      BY <1>1, <2>1 DEF Page
    <2>3. view' = [view EXCEPT ![c.tab] = v] /\ Forget(c) /\ c.op = "load"
      BY <1>2 DEF ShowThread
    <2>4. v.messages = [i \in 1..c.id |-> i]
      OBVIOUS
    <2> HIDE DEF v
    <2>5. PagesStep
      BY <1>1, <2>2, <2>3, <2>4, ForgetStep
    <2> QED BY <1>0, <2>5
  <1>3. CASE ShowSent(c)
    <2> DEFINE s == IF Portal[c.tab] = "admin" THEN Append(p.messages, c.id)
                    ELSE Shown(p.messages, c.id)
               v == [p EXCEPT !.messages = s]
    <2>1. s \in Seq(Nat)
      BY <1>1, ShownInjective, AppendProperties DEF Page
    <2>2. view' = [view EXCEPT ![c.tab].messages = s] /\ Forget(c)
      BY <1>3 DEF ShowSent
    <2>3. Portal[c.tab] = "admin" \/ s = Shown(p.messages, c.id)
      OBVIOUS
    <2> HIDE DEF s
    <2>4. v \in Page /\ v.stage = p.stage /\ v.messages = s
      BY <1>1, <2>1 DEF Page
    <2>5. view' = [view EXCEPT ![c.tab] = v]
      BY <1>1, <2>2 DEF PagesOK
    <2> HIDE DEF v
    <2>6. PagesStep
      BY <1>1, <2>2, <2>3, <2>4, <2>5, ForgetStep
    <2> QED BY <1>0, <2>6
  <1>4. CASE ShowCommand(c)
    <2> DEFINE b == IF c.op = "schedule" THEN p.closed ELSE c.op # "reopen"
               v == [p EXCEPT !.messages = Shown(p.messages, c.id), !.closed = b]
    <2>1. Shown(p.messages, c.id) \in Seq(Nat) /\ b \in BOOLEAN
      BY <1>1, ShownInjective DEF Page
    <2>2. view' = [view EXCEPT ![c.tab].messages = Shown(p.messages, c.id), ![c.tab].closed = b]
      BY <1>1, <1>4 DEF ShowCommand, PagesOK
    <2>3. Forget(c)
      BY <1>4 DEF ShowCommand
    <2> HIDE DEF b
    <2>4. v \in Page /\ v.stage = p.stage /\ v.messages = Shown(p.messages, c.id)
      BY <1>1, <2>1 DEF Page
    <2>5. view' = [view EXCEPT ![c.tab] = v]
      BY <1>1, <2>2 DEF PagesOK
    <2> HIDE DEF v
    <2>6. PagesStep
      BY <1>1, <2>3, <2>4, <2>5, ForgetStep
    <2> QED BY <1>0, <2>6
  <1>5. CASE ShowError(c)
    <2>1. Forget(c)
      BY <1>5 DEF ShowError
    <2>2. CASE c.op # "load"
      <3>1. view' = [view EXCEPT ![c.tab] = p]
        BY <1>1, <1>5, <2>2 DEF ShowError, PagesOK
      <3> HIDE DEF p
      <3> QED BY <1>0, <1>1, <2>1, <3>1, ForgetStep DEF p
    <2>3. CASE c.op = "load" /\ Portal[c.tab] = "admin"
      <3> DEFINE v == [p EXCEPT !.stage = "open", !.messages = <<>>]
      <3>1. v \in Page
        BY <1>1, EmptySeq DEF Page
      <3>2. view' = [view EXCEPT ![c.tab] = v]
        BY <1>5, <2>3 DEF ShowError
      <3> HIDE DEF v
      <3> QED BY <1>0, <2>1, <2>3, <3>1, <3>2, ForgetStep
    <2>4. CASE c.op = "load" /\ Portal[c.tab] # "admin"
      <3> DEFINE v == [p EXCEPT !.stage = "failed"]
      <3>1. v \in Page /\ v.messages = p.messages
        BY <1>1 DEF Page
      <3>2. view' = [view EXCEPT ![c.tab] = v]
        BY <1>5, <2>4 DEF ShowError
      <3> HIDE DEF v
      <3> QED BY <1>0, <2>1, <2>4, <3>1, <3>2, ForgetStep
    <2> QED BY <2>2, <2>3, <2>4
  <1>6. CASE SignOut(c)
    <2> DEFINE v == [Away EXCEPT !.stage = "login"]
    <2>1. v \in Page /\ v.stage = "login" /\ v.messages = <<>>
      BY EmptySeq DEF Away, Page
    <2>2. view' = [view EXCEPT ![c.tab] = v] /\ calls' = Unmounted(c.tab)
      BY <1>6 DEF SignOut
    <2> HIDE DEF v
    <2> QED BY <1>0, <1>1, <2>1, <2>2, AwayStep
  <1>7. CASE DropAnswer(c)
    <2>1. Forget(c) /\ view' = [view EXCEPT ![c.tab] = p]
      BY <1>1, <1>7 DEF DropAnswer, PagesOK
    <2> HIDE DEF p
    <2> QED BY <1>0, <1>1, <2>1, ForgetStep DEF p
  <1> QED BY <1>2, <1>3, <1>4, <1>5, <1>6, <1>7 DEF TakeAnswer

-----------------------------------------------------------------------------
LEMMA InitInv == ThreadInit => ThreadInv
  <1> SUFFICES ASSUME ThreadInit PROVE ThreadInv
    OBVIOUS
  <1>1. LogOK /\ CallsOK /\ TurnsAlternate
    <2>1. log = <<>> /\ log \in Seq(Entry) /\ Len(log) = 0
      BY EmptySeq DEF ThreadInit
    <2>2. LogOK /\ CallsOK
      <3>1. outbox = {} /\ calls = {} /\ closed = FALSE
        BY DEF ThreadInit
      <3>2. Len(log) <= MaxMessages
        BY <2>1
      <3> QED BY <2>1, <3>1, <3>2 DEF LogOK, CallsOK
    <2>3. 2..Len(log) = {}
      BY <2>1
    <2> QED BY <2>2, <2>3 DEF TurnsAlternate
  <1>2. Away \in Page /\ Away.messages = <<>>
    BY EmptySeq DEF Away, Page
  <1>3. PagesOK
    BY <1>2 DEF ThreadInit, PagesOK
  <1>4. LoadsOnce
    BY DEF ThreadInit, LoadsOnce, Loads
  <1>5. ShownOnce
    BY <1>2 DEF ThreadInit, ShownOnce, IsInjective
  <1> QED BY <1>1, <1>3, <1>4, <1>5 DEF ThreadInv

(* Every step of the system is one of these.                               *)
LEMMA NextStep ==
  ASSUME ThreadInv, [ThreadNext]_vars
  PROVE  PagesStep /\ LogOK' /\ TurnsAlternate'
  <1>0. LogOK /\ CallsOK /\ PagesOK /\ LoadsOnce /\ TurnsAlternate
    BY DEF ThreadInv
  <1>1. ASSUME NEW c \in calls, Serve(c)
        PROVE  PagesStep /\ LogOK' /\ TurnsAlternate'
    <2>1. c \in Call
      BY <1>0 DEF CallsOK
    <2>2. Served(c) /\ closed' \in BOOLEAN
      BY <1>0, <1>1, <2>1, ServeServes
    <2>3. LogOK' /\ TurnsAlternate'
      BY <1>0, <2>1, <2>2, ServedKeepsTurns
    <2>4. CallsOK' /\ LoadsOnce'
      BY <1>0, <2>2, ServedKeepsLoads
    <2>5. view' = view
      BY <2>2 DEF Served
    <2> QED BY <1>0, <2>3, <2>4, <2>5 DEF PagesStep, PagesOK, Moved
  <1>2. ASSUME NEW c \in calls, TakeAnswer(c)
        PROVE  PagesStep /\ LogOK' /\ TurnsAlternate'
    BY <1>0, <1>2, TakeAnswerStep DEF LogOK, TurnsAlternate
  <1>3. ASSUME NEW m \in outbox, Broadcast(m)
        PROVE  PagesStep /\ LogOK' /\ TurnsAlternate'
    BY <1>0, <1>3, BroadcastStep DEF LogOK, TurnsAlternate
  <1>4. ASSUME NEW t \in Tab, Enter(t)
        PROVE  PagesStep /\ LogOK' /\ TurnsAlternate'
    <2>1. UNCHANGED <<log, outbox, closed>>
      BY <1>4 DEF Enter, serverVars
    <2> QED BY <1>0, <1>4, <2>1, EnterStep DEF LogOK, TurnsAlternate
  <1>5. ASSUME NEW t \in Tab, Leave(t)
        PROVE  PagesStep /\ LogOK' /\ TurnsAlternate'
    <2>1. UNCHANGED <<log, outbox, closed>>
      BY <1>5 DEF Leave, serverVars
    <2>2. view' = [view EXCEPT ![t] = Away] /\ calls' = Unmounted(t)
      BY <1>5 DEF Leave
    <2>3. Away \in Page /\ Away.stage = "away" /\ Away.messages = <<>>
      BY EmptySeq DEF Away, Page
    <2>4. PagesStep
      BY <1>0, <2>2, <2>3, AwayStep
    <2> QED BY <1>0, <2>1, <2>4 DEF LogOK, TurnsAlternate
  <1>6. CASE UNCHANGED <<log, outbox, closed, view, calls>>
    <2>1. \A t \in Tab : Loads(t)' = Loads(t)
      BY <1>6 DEF Loads
    <2> QED
      BY <1>0, <1>6, <2>1 DEF PagesStep, Moved, LogOK, CallsOK, PagesOK, LoadsOnce, TurnsAlternate
  <1>7. ASSUME NEW t \in Tab, Subscribe(t) \/ LoseSocket(t)
        PROVE  PagesStep /\ LogOK' /\ TurnsAlternate'
    BY <1>6, <1>7 DEF Subscribe, LoseSocket, serverVars
  <1>8. ASSUME NEW t \in Tab, NEW op \in Op, op # "load", Request(t, op),
               UNCHANGED <<serverVars, view>>
        PROVE  PagesStep /\ LogOK' /\ TurnsAlternate'
    <2>1. UNCHANGED <<log, outbox, closed, view>>
      BY <1>8 DEF serverVars
    <2>2. PagesStep
      BY <1>0, <1>8, <2>1, PostingStep
    <2> QED BY <1>0, <2>1, <2>2 DEF LogOK, TurnsAlternate
  <1>9. ASSUME NEW t \in Tab, ClientSend(t) \/ StaffSend(t) \/ AdminSend(t)
        PROVE  PagesStep /\ LogOK' /\ TurnsAlternate'
    <2>1. Request(t, "send") /\ UNCHANGED <<serverVars, view>>
      BY <1>9 DEF ClientSend, StaffSend, AdminSend
    <2> QED BY <1>8, <2>1 DEF Op
  <1>10. ASSUME NEW t \in Tab, NEW op \in {"schedule", "close", "reopen", "ban"},
                DeskCommand(t, op)
         PROVE  PagesStep /\ LogOK' /\ TurnsAlternate'
    BY <1>8, <1>10 DEF DeskCommand, Op
  <1>11. CASE UNCHANGED vars
    BY <1>6, <1>11 DEF vars
  <1> QED
    BY <1>1, <1>2, <1>3, <1>4, <1>5, <1>7, <1>9, <1>10, <1>11 DEF ThreadNext

LEMMA InvStep == ThreadInv /\ [ThreadNext]_vars => ThreadInv'
  <1> SUFFICES ASSUME ThreadInv, [ThreadNext]_vars PROVE ThreadInv'
    OBVIOUS
  <1>1. PagesStep /\ LogOK' /\ TurnsAlternate'
    BY NextStep
  <1>2. ShownOnce'
    BY <1>1, MovedKeepsOnce DEF ThreadInv, PagesStep, ShownOnce
  <1> QED BY <1>1, <1>2 DEF ThreadInv, PagesStep

(* Between two messages of the customer's stands one of the bank's.        *)
THEOREM CustomersWaitTheirTurn == ThreadSpec => []TurnsAlternate
  <1>1. ThreadInv => TurnsAlternate
    BY DEF ThreadInv
  <1> QED BY <1>1, InitInv, InvStep, PTL DEF ThreadSpec

(* The customer's and the staff's page show no message twice, however often*)
(* and in whatever order they learn of it.                                 *)
THEOREM MessagesShownOnce == ThreadSpec => []ShownOnce
  <1>1. ThreadInv => ShownOnce
    BY DEF ThreadInv
  <1> QED BY <1>1, InitInv, InvStep, PTL DEF ThreadSpec

(* What they show stays where it is.                                       *)
THEOREM MessagesStay == ThreadSpec => ShownStays
  <1> DEFINE Stay == \A t \in Tab :
                       Portal[t] # "admin" /\ view[t].stage = "open" /\ view'[t].stage = "open"
                         => IsPrefix(view[t].messages, view'[t].messages)
  <1>1. ThreadInv /\ [ThreadNext]_vars => [Stay]_vars
    <2> SUFFICES ASSUME ThreadInv, [ThreadNext]_vars PROVE Stay
      OBVIOUS
    <2>1. PagesStep /\ PagesOK
      BY NextStep DEF ThreadInv
    <2> QED BY <2>1, MovedKeepsOnce DEF PagesStep
  <1> QED BY <1>1, InitInv, InvStep, PTL DEF ThreadSpec, ShownStays

-----------------------------------------------------------------------------
(* The place where messages are written.                                   *)

ComposerSpec == (ComposerInit \/ ComposerIdle) /\ [][ComposerNext]_composerVars

(* Only typing leads to a list of less than all commands, and typing       *)
(* selects the first of them.                                              *)
SelectedListed ==
  /\ author \in {"customer", "staff", "admin", "none"} /\ draft \in Draft
  /\ selected \in 1..5
  /\ draft = "narrow" => selected <= 2
  /\ draft \in Kind => selected = 1

LEMMA ListedCommands ==
  ASSUME draft \in Draft, Listed # <<>>
  PROVE  \/ draft = "slash" /\ Len(Listed) = 5
         \/ draft = "narrow" /\ Len(Listed) = 2
         \/ draft \in Kind /\ Len(Listed) = 1
  <1>1. Listed = StaffListed \/ Listed = AdminListed
    BY DEF Listed
  <1>2. Len(StaffCommands) = 5 /\ Len(AdminCommands) = 5
        /\ StaffCommands \in Seq(Kind) /\ AdminCommands \in Seq(Kind)
    BY DEF StaffCommands, AdminCommands, Kind
  <1>3. Len(SubSeq(StaffCommands, 2, 3)) = 2 /\ Len(SubSeq(AdminCommands, 2, 3)) = 2
    BY <1>2, SubSeqProperties
  <1>4. draft \in {"slash", "narrow"} \/ draft \in Kind
    BY <1>1 DEF StaffListed, AdminListed
  <1>5. CASE draft = "slash"
    BY <1>1, <1>2, <1>5 DEF StaffListed, AdminListed
  <1>6. CASE draft = "narrow"
    BY <1>1, <1>3, <1>6 DEF StaffListed, AdminListed
  <1>7. CASE draft \in Kind
    <2>1. Listed = <<draft>>
      BY <1>1, <1>7 DEF StaffListed, AdminListed, Kind
    <2> QED BY <1>7, <2>1
  <1> QED BY <1>4, <1>5, <1>6, <1>7

(* The arrows are offered, and the pointer finds something, in a list only.*)
LEMMA OfferedInList ==
  ASSUME "arrow" \in Offered \/ "point" \in Offered
  PROVE  Listed # <<>>
  <1>1. "arrow" \in StaffField \/ "arrow" \in AdminField \/ "point" \in StaffOverlay
          \/ "point" \in AdminOverlay => Listed # <<>>
    BY DEF StaffField, AdminField, StaffOverlay, AdminOverlay, When
  <1>2. /\ "arrow" \notin StaffBanner \cup StaffToolbar \cup StaffOverlay \cup StaffPill
        /\ "arrow" \notin AdminBanner \cup AdminToolbar \cup AdminOverlay \cup AdminPill
        /\ "point" \notin StaffBanner \cup StaffToolbar \cup StaffPill \cup StaffField
        /\ "point" \notin AdminBanner \cup AdminToolbar \cup AdminPill \cup AdminField
    BY DEF StaffBanner, StaffToolbar, StaffOverlay, StaffPill, StaffField, AdminBanner,
       AdminToolbar, AdminOverlay, AdminPill, AdminField, When
  <1>3. \A deed \in {"arrow", "point"} :
          deed \notin StaffScheduleDialog \cup StaffBanDialog \cup StaffCloseDialog
                 \cup AdminScheduleDialog \cup AdminBanDialog \cup AdminCloseDialog
                 \cup CustomerFooter
    BY DEF StaffScheduleDialog, StaffBanDialog, StaffCloseDialog, AdminScheduleDialog,
       AdminBanDialog, AdminCloseDialog, CustomerFooter, When
  <1> QED BY <1>1, <1>2, <1>3 DEF Offered

LEMMA ExecuteKeeps ==
  ASSUME SelectedListed, NEW kind, Execute(kind)
  PROVE  SelectedListed'
  <1>1. author' = author /\ selected' = selected /\ draft' \in {"empty", "preset"}
    BY DEF Execute
  <1> QED BY <1>1 DEF SelectedListed, Draft, Kind

LEMMA MovesInList ==
  ASSUME SelectedListed, Arrow \/ Point
  PROVE  SelectedListed'
  <1>1. author' = author /\ draft' = draft
    BY DEF Arrow, Point
  <1>2. Listed # <<>>
    BY OfferedInList DEF Arrow, Point
  <1>3. selected \in 1..5 /\ Len(Listed) \in 1..5
    BY <1>2, ListedCommands DEF SelectedListed
  <1>4. selected' \in 1..Len(Listed)
    <2>1. CASE Point
      BY <2>1 DEF Point
    <2>2. CASE Arrow
      <3>1. \A m \in Nat, n \in 1..5 : (m % n) + 1 \in 1..n
        OBVIOUS
      <3>2. selected \in Nat /\ selected + Len(Listed) - 2 \in Nat
        BY SMTT(20), <1>3
      <3> QED BY <2>2, <1>3, <3>1, <3>2 DEF Arrow
    <2> QED BY <2>1, <2>2
  <1>5. \/ draft = "slash" /\ Len(Listed) = 5
        \/ draft = "narrow" /\ Len(Listed) = 2
        \/ draft \in Kind /\ Len(Listed) = 1
    BY <1>2, ListedCommands DEF SelectedListed
  <1>6. /\ selected' \in 1..5
        /\ draft = "narrow" => selected' <= 2
        /\ draft \in Kind => selected' = 1
    <2>1. CASE draft = "slash" /\ Len(Listed) = 5
      BY <1>4, <2>1 DEF Kind
    <2>2. CASE draft = "narrow" /\ Len(Listed) = 2
      BY <1>4, <2>2 DEF Kind
    <2>3. CASE draft \in Kind /\ Len(Listed) = 1
      BY <1>4, <2>3 DEF Kind
    <2> QED BY <1>5, <2>1, <2>2, <2>3
  <1> QED BY <1>1, <1>6 DEF SelectedListed

LEMMA ComposerStep == SelectedListed /\ [ComposerNext]_composerVars => SelectedListed'
  <1> SUFFICES ASSUME SelectedListed, [ComposerNext]_composerVars PROVE SelectedListed'
    OBVIOUS
  <1> DEFINE Same == UNCHANGED <<author, draft, selected>>
  <1>1. Same => SelectedListed'
    BY DEF SelectedListed
  <1>2. CASE UNCHANGED composerVars
    BY <1>1, <1>2 DEF composerVars, field
  <1>3. CASE \E d \in Draft : TypeDraft(d)
    BY <1>3 DEF TypeDraft, SelectedListed
  <1>4. CASE Arrow \/ Point
    BY <1>4, MovesInList
  <1>5. CASE Clear \/ PutSlash \/ Delivered
    BY <1>5 DEF Clear, PutSlash, Delivered, SelectedListed, Draft, Kind
  <1>6. CASE RunSelected \/ PickCommand
    BY <1>6, ExecuteKeeps DEF RunSelected, PickCommand
  <1>7. CASE SendDraft
    <2>1. CASE author # "customer" /\ draft \in Kind
      BY <1>7, <2>1, ExecuteKeeps DEF SendDraft
    <2>2. CASE ~(author # "customer" /\ draft \in Kind)
      BY <1>1, <1>7, <2>2 DEF SendDraft, field
    <2> QED BY <2>1, <2>2
  <1>8. CASE \E kind \in Kind : Toolbar(kind)
    <2>1. author' = author /\ selected' = selected /\ (draft' = draft \/ draft' = "preset")
      BY <1>8 DEF Toolbar
    <2> QED BY <2>1 DEF SelectedListed, Draft, Kind
  <1>9. CASE Attach \/ Detach \/ DismissPopup \/ Submit \/ NotDelivered \/ HearMessage \/ HearClosed
    BY <1>1, <1>9 DEF Attach, Detach, DismissPopup, Submit, NotDelivered, HearMessage,
       HearClosed, field
  <1>10. CASE \/ Scheduled \/ Banned \/ Closed \/ Reopened
              \/ \E kind \in Posted : Refused(kind)
              \/ \E kind \in DOMAIN timers : TimerEnds(kind)
    BY <1>1, <1>10 DEF Scheduled, Banned, Closed, Reopened, Refused, TimerEnds, field
  <1> QED BY <1>2, <1>3, <1>4, <1>5, <1>6, <1>7, <1>8, <1>9, <1>10 DEF ComposerNext

(* Enter executes a command of the list that is shown.                     *)
THEOREM EnterExecutesListed == ComposerSpec => []EnterRunsListed
  <1>1. ComposerInit \/ ComposerIdle => SelectedListed
    BY DEF ComposerInit, ComposerIdle, NothingWritten, StaffOpens, AdminOpens, CustomerOpens,
       SelectedListed, Draft, Kind
  <1>2. SelectedListed => EnterRunsListed
    <2> SUFFICES ASSUME SelectedListed, Listed # <<>> PROVE selected \in 1..Len(Listed)
      BY DEF EnterRunsListed
    <2>1. selected \in 1..5 /\ (draft = "narrow" => selected <= 2) /\ (draft \in Kind => selected = 1)
      BY DEF SelectedListed
    <2>2. \/ draft = "slash" /\ Len(Listed) = 5
          \/ draft = "narrow" /\ Len(Listed) = 2
          \/ draft \in Kind /\ Len(Listed) = 1
      BY ListedCommands DEF SelectedListed
    <2>3. CASE draft = "slash" /\ Len(Listed) = 5
      BY <2>1, <2>3
    <2>4. CASE draft = "narrow" /\ Len(Listed) = 2
      BY <2>1, <2>4
    <2>5. CASE draft \in Kind /\ Len(Listed) = 1
      BY <2>1, <2>5
    <2> QED BY <2>2, <2>3, <2>4, <2>5
  <1> QED BY <1>1, <1>2, ComposerStep, PTL DEF ComposerSpec
=============================================================================
