------------------------- MODULE RoundsSerialProofs -------------------------
(***************************************************************************)
(* What holds when requests and events come one at a time (~Overlap), for  *)
(* every number of admin requests, rounds, crashes and failing store calls:*)
(*                                                                         *)
(*   - at most one round collects (CollectingInv), and the scheduler opens *)
(*     none whose deadline is near or past (OpeningInv), also when the     *)
(*     admin's handler carries on after a failed read or write;            *)
(*   - at most one round is upcoming, and none is closed before its        *)
(*     deadline (SerialInv), when it gives up instead (~CarriesOn).        *)
(*                                                                         *)
(* The promises are about the tables, the handlers check them first and    *)
(* write later.  The invariants say what each place in a handler may rely  *)
(* on (NoneCollecting, Hand, SchedHand); one process at a time (Solo)      *)
(* means nobody else can take it away.                                     *)
(***************************************************************************)
EXTENDS RoundsOverlapProofs, FiniteSetTheorems

Idle(p) == pc[p] = "idle"

\* One process is at work, and no request is while events wait in memory.
Solo == /\ \A p, q \in Procs : p = q \/ Idle(p) \/ Idle(q)
        /\ queue = {} \/ \A a \in Admins : Idle(a)

\* It is at work already, nobody is, or the scheduler goes on with its list.
MayAct(p) == ~Idle(p) \/ AllIdle \/ (p = Sched /\ queue # {})

\* Where a process is about to open a round.
OpeningPC == {"fresh", "reanchor", "status", "early"}

OneCollecting == \A i, j \in Collecting : i = j
NoneCollecting == \A p \in Procs : pc[p] \in OpeningPC => Collecting = {}

CollectingInv == TypeInv /\ Solo /\ OneCollecting /\ NoneCollecting

-----------------------------------------------------------------------------
(* One process at a time.                                                  *)

\* When a process acts every other one is idle, and stays so.
LEMMA OneActs ==
    ASSUME TypeOK, Solo, NEW p \in Procs, MayAct(p), NEW l, NEW v, Goto(p, l, v)
    PROVE  /\ \A q \in Procs \ {p} : pc[q] = "idle" /\ pc'[q] = "idle"
           /\ pc'[p] = l /\ (l # "idle" => loc'[p] = v)
           /\ p \in Admins => queue = {}
<1>1. \A q \in Procs \ {p} : pc[q] = "idle"
  BY ParamAssumption DEF Solo, MayAct, Idle, AllIdle, Procs
<1>2. \A q \in Procs \ {p} : pc'[q] = pc[q]
  BY DEF Goto, TypeOK
<1>3. pc'[p] = l /\ (l # "idle" => loc'[p] = v)
  BY DEF Goto, TypeOK
<1>4. p \in Admins => queue = {}
  BY ParamAssumption DEF Solo, MayAct, Idle, AllIdle, Procs
<1> QED BY <1>1, <1>2, <1>3, <1>4

\* So one process is at work after it.
LEMMA StaysSolo ==
    ASSUME TypeOK, Solo, NEW p \in Procs, MayAct(p), NEW l, NEW v, Goto(p, l, v),
           queue' \subseteq queue
    PROVE  Solo'
<1>1. \A q \in Procs \ {p} : pc'[q] = "idle"
  BY OneActs
<1>2. p \in Admins => queue' = {}
  BY OneActs
<1>3. p \notin Admins => \A a \in Admins : pc'[a] = "idle"
  BY <1>1 DEF Procs
<1> QED BY <1>1, <1>2, <1>3 DEF Solo, Idle

-----------------------------------------------------------------------------
(* At most one round collects answers.                                     *)

\* What a step of a process may do to the set of collecting rounds: shrink it, on
\* the way to opening a round only when it is empty, or put the one round in it.
Opens(p) ==
    \E l : /\ \E v : Goto(p, l, v)
           /\ \/ Collecting' \subseteq Collecting /\ (l \in OpeningPC => Collecting = {})
              \/ Collecting = {} /\ l \notin OpeningPC /\ \E i : Collecting' \subseteq {i}

\* A step of that shape keeps the invariant.
LEMMA OpensKeeps ==
    ASSUME CollectingInv, TypeInv', NEW p \in Procs, MayAct(p), Opens(p), queue' \subseteq queue
    PROVE  CollectingInv'
<1>0. TypeOK /\ Solo
  BY DEF CollectingInv, TypeInv
<1>1. PICK l, v :
         /\ Goto(p, l, v)
         /\ \/ Collecting' \subseteq Collecting /\ (l \in OpeningPC => Collecting = {})
            \/ Collecting = {} /\ l \notin OpeningPC /\ \E i : Collecting' \subseteq {i}
  BY DEF Opens
<1>2. Solo' /\ pc'[p] = l /\ \A q \in Procs \ {p} : pc'[q] = "idle"
  BY <1>0, <1>1, OneActs, StaysSolo
<1>3. OneCollecting'
  BY <1>1 DEF CollectingInv, OneCollecting
<1>4. NoneCollecting'
  BY <1>1, <1>2 DEF NoneCollecting, OpeningPC
<1> QED BY <1>2, <1>3, <1>4 DEF CollectingInv

\* Unless its status is written, a round collects as before.
LEMMA SameStatus ==
    ASSUME issues' = issues \/ \A i \in Issues : issues'[i].status = issues[i].status
    PROVE  Collecting' = Collecting /\ Drafts' = Drafts
BY DEF Collecting, Drafts, WithStatus

\* Writing a row that does not collect, the set does not grow.
LEMMA OtherStatus ==
    ASSUME TypeOK, NEW j, NEW r, r.status # "collecting", issues' = [issues EXCEPT ![j] = r]
    PROVE  Collecting' \subseteq Collecting
BY DEF TypeOK, Collecting, WithStatus

\* A draft's new schedule leaves the statuses alone.
LEMMA ReanchoredStatus ==
    ASSUME TypeOK, NEW p, NEW l, UpdateIssueSchedule(p, l)
    PROVE  /\ \A i \in Issues : issues'[i].status = issues[i].status
           /\ \E m \in {l, "idle", loc[p].ret} : Goto(p, m, loc[p])
<1> DEFINE v == loc[p]
<1>1. \/ issues' = issues
      \/ issues' = [issues EXCEPT ![v.issue].opensAt = v.opens, ![v.issue].deadline = v.close]
  BY DEF UpdateIssueSchedule
<1>2. \A i \in Issues : issues'[i].status = issues[i].status
  BY <1>1 DEF TypeOK, Issue
<1>3. \E m \in {l, "idle", v.ret} : Goto(p, m, v)
  BY DEF UpdateIssueSchedule
<1> QED BY <1>2, <1>3

\* The steps that the scheduler and the admin's handlers share.
LEMMA SharedOpens ==
    ASSUME TypeInv, NoneCollecting, NEW p \in Procs, SharedStep(p)
    PROVE  Opens(p)
<1> DEFINE v == loc[p]
<1>t. TypeOK /\ issues \in [Issues -> Issue] /\ v.ret \in {"idle", "mark"}
  BY ProcFacts DEF TypeInv, TypeOK, Local
<1>g. ASSUME NEW l, NEW w, Goto(p, l, w), l \notin OpeningPC, Collecting' \subseteq Collecting
      PROVE  Opens(p)
  BY <1>g DEF Opens
<1>1. CASE PublishIssue(p)
  <2>1. Collecting' \subseteq Collecting
    BY <1>1, <1>t DEF PublishIssue, Collecting, WithStatus, Issue
  <2>2. \E l \in {"announce", "publishNext"} : \E w : Goto(p, l, w)
    BY <1>1, Zenon DEF PublishIssue
  <2> QED BY <1>g, <2>1, <2>2 DEF OpeningPC
<1>2. CASE AfterPublish(p) \/ QueuePending(p) \/ QueueClear(p) \/ QueueDraft(p) \/ QueueEvent(p)
           \/ ScheduleIssueEvents(p)
  <2>1. issues' = issues
    BY <1>2 DEF AfterPublish, QueuePending, QueueClear, QueueDraft, QueueEvent, ScheduleIssueEvents, db
  <2>2. \E l \in {v.ret, "qPending", "qClear", "qDraft", "qCreate", "qEvent", "qReanchor", "mark", "idle"} :
           \E w : Goto(p, l, w)
    BY <1>2, Zenon DEF AfterPublish, QueuePending, QueueClear, QueueDraft, QueueEvent,
       ScheduleIssueEvents, AfterLifecycle
  <2> QED BY <1>g, <1>t, <2>1, <2>2, SameStatus DEF OpeningPC
<1>3. CASE QueueReanchor(p)
  <2>1. UpdateIssueSchedule(p, "qEvent")
    BY <1>3 DEF QueueReanchor
  <2> QED BY <1>g, <1>t, <2>1, ReanchoredStatus, SameStatus DEF OpeningPC
<1>c. ASSUME NEW l, CreateIssue(p, l)
      PROVE  Collecting' \subseteq Collecting /\ \E w : Goto(p, l, w)
  BY <1>c, <1>t, OtherStatus DEF CreateIssue
<1>4. CASE QueueCreate(p)
  BY <1>4, <1>c, <1>g DEF QueueCreate, OpeningPC
<1>5. CASE CreateFresh(p)
  <2>1. Collecting = {}
    BY <1>5 DEF CreateFresh, NoneCollecting, OpeningPC
  <2> QED BY <1>5, <1>c, <2>1 DEF CreateFresh, Opens
<1>6. CASE SetCollecting(p)
  <2>1. Collecting = {}
    BY <1>6 DEF SetCollecting, NoneCollecting, OpeningPC
  <2>2. Collecting' \subseteq {v.issue}
    BY <1>6, <1>t, <2>1 DEF SetCollecting, Collecting, WithStatus
  <2>3. Goto(p, "lifecycle", v)
    BY <1>6 DEF SetCollecting
  <2> QED BY <2>1, <2>2, <2>3 DEF Opens, OpeningPC
<1> QED BY <1>1, <1>2, <1>3, <1>4, <1>5, <1>6 DEF SharedStep

\* The scheduler's own steps.
LEMMA SchedulerOpens ==
    ASSUME TypeInv, NoneCollecting,
           \/ TakeEvent \/ GuardEvent \/ SendMail \/ MarkEventFired
           \/ CheckClose \/ CreateNextIssue \/ ReanchorDraft \/ ReconcileAutoCreate
    PROVE  Opens(Sched)
<1>t. TypeOK /\ Sched \in Procs /\ loc[Sched].ret \in {"idle", "mark"}
  BY ProcFacts DEF TypeInv, TypeOK, Local, Procs
<1>1. CASE TakeEvent \/ GuardEvent \/ SendMail \/ MarkEventFired \/ CheckClose \/ ReconcileAutoCreate
  <2>1. issues' = issues
    BY <1>1 DEF TakeEvent, GuardEvent, SendMail, MarkEventFired, CheckClose, ReconcileAutoCreate, db
  <2>2. \E l \in {"guard", "idle", "mark", "closeW", "qPending", HandlerOf(loc[Sched].ev)} : \E w : Goto(Sched, l, w)
    BY <1>1, Zenon DEF TakeEvent, GuardEvent, SendMail, MarkEventFired, CheckClose, ReconcileAutoCreate
  <2>3. HandlerOf(loc[Sched].ev) \in {"remind", "close", "open"}
    BY DEF HandlerOf
  <2> QED BY <2>1, <2>2, <2>3, SameStatus DEF Opens, OpeningPC
<1>2. CASE CreateNextIssue
  <2>1. issues' = issues
    BY <1>2 DEF CreateNextIssue, db
  <2>2. (\E l \in {"mark"} : \E w : Goto(Sched, l, w)) \/ (Collecting = {} /\ \E l : \E w : Goto(Sched, l, w))
    BY <1>2, Zenon DEF CreateNextIssue
  <2> QED BY <2>1, <2>2, SameStatus DEF Opens, OpeningPC
<1>3. CASE ReanchorDraft
  <2>1. Collecting = {} /\ UpdateIssueSchedule(Sched, "status")
    BY <1>3, <1>t DEF ReanchorDraft, NoneCollecting, OpeningPC
  <2> QED BY <1>t, <2>1, ReanchoredStatus, SameStatus DEF Opens
<1> QED BY <1>1, <1>2, <1>3

\* A request, from its first read to its write.
LEMMA AdminOpens ==
    ASSUME TypeInv, NoneCollecting, NEW a \in Admins, ~(BeginRestore(a) /\ Begin(a)),
           \/ Begin(a) \/ OpenDraftEarly(a) \/ ApplySchedule(a) \/ UpdateDraftIssue(a)
           \/ UpdateSettings(a) \/ CancelEvents(a)
    PROVE  Opens(a)
<1> DEFINE v == loc[a]
<1>t. TypeOK /\ a \in Procs /\ issues \in [Issues -> Issue]
  BY DEF TypeInv, TypeOK, Procs
<1>1. CASE Begin(a)
  <2>1. issues' = issues
    BY <1>1 DEF Begin, BeginPublish, BeginCreate, BeginMoveDeadline, BeginPinNext, BeginMoveDraft,
       BeginSettings, BeginArchive, BeginRestore, BeginCreateBlind, db
  <2>2. CASE BeginPublish(a) \/ BeginMoveDeadline(a) \/ BeginPinNext(a) \/ BeginMoveDraft(a)
             \/ BeginSettings(a) \/ BeginArchive(a)
    <3>1. \E l \in {"publish", "apply", "draftW", "settingsW", "cancel"} : \E w : Goto(a, l, w)
      BY <2>2, Zenon DEF BeginPublish, BeginMoveDeadline, BeginPinNext, BeginMoveDraft, BeginSettings, BeginArchive
    <3> QED BY <2>1, <3>1, SameStatus DEF Opens, OpeningPC
  <2>3. CASE BeginCreate(a) \/ BeginCreateBlind(a)
    <3>1. ActiveIssues = {} /\ \E l : \E w : Goto(a, l, w)
      BY <2>3, Zenon DEF BeginCreate, BeginCreateBlind, NewRound
    <3>2. Collecting = {}
      BY <3>1 DEF ActiveIssues
    <3> QED BY <2>1, <3>1, <3>2, SameStatus DEF Opens
  <2>4. ~BeginRestore(a)
    BY <1>1
  <2> QED BY <1>1, <2>2, <2>3, <2>4, Zenon DEF Begin
<1>g. ASSUME NEW w, Goto(a, "idle", w), Collecting' \subseteq Collecting
      PROVE  Opens(a)
  BY <1>g DEF Opens, OpeningPC
<1>2. CASE OpenDraftEarly(a)
  <2>1. Collecting = {} /\ Goto(a, "idle", v)
    BY <1>2, <1>t DEF OpenDraftEarly, NoneCollecting, OpeningPC
  <2>0. "idle" \notin OpeningPC
    BY DEF OpeningPC
  <2>2. \E i : Collecting' \subseteq {i}
    <3>1. CASE issues' = issues
      BY <2>1, <3>1, SameStatus
    <3>2. CASE issues' = [issues EXCEPT ![v.issue] = [status |-> "collecting",
                                        opensAt |-> v.opens, deadline |-> v.close]]
      BY <1>t, <2>1, <3>2 DEF Collecting, WithStatus
    <3> QED BY <1>2, <3>1, <3>2 DEF OpenDraftEarly
  <2> QED BY <2>0, <2>1, <2>2, Zenon DEF Opens
<1>3. CASE ApplySchedule(a)
  <2> DEFINE moved == IF v.close = Null THEN issues ELSE [issues EXCEPT ![v.issue].deadline = v.close]
             pinned == [status |-> "draft", opensAt |-> v.next,
                        deadline |-> atLocalHour(v.next + Days(v.days), deadlineLocalHour)]
  <2>1. issues' = issues \/ issues' = moved \/ \E d : issues' = [moved EXCEPT ![d] = pinned]
    BY <1>3, Zenon DEF ApplySchedule, db
  <2>2. \A i \in Issues : moved[i].status = issues[i].status
    BY <1>t DEF Issue
  <2>3. DOMAIN moved = Issues /\ pinned.status = "draft"
    BY <1>t
  <2>4. Collecting' \subseteq Collecting
    <3> HIDE DEF moved, pinned
    <3> SUFFICES ASSUME NEW i \in Issues, issues'[i].status = "collecting"
                 PROVE  issues[i].status = "collecting"
      BY DEF Collecting, WithStatus
    <3>1. ASSUME NEW d, issues' = [moved EXCEPT ![d] = pinned]
          PROVE  issues[i].status = "collecting"
      BY <2>2, <2>3, <3>1
    <3> QED BY <2>1, <2>2, <3>1
  <2>5. Goto(a, "idle", v)
    BY <1>3 DEF ApplySchedule
  <2> QED BY <1>g, <2>4, <2>5
<1>4. CASE UpdateDraftIssue(a)
  <2>1. issues' = issues \/ issues' = [issues EXCEPT ![v.issue].deadline = v.close]
    BY <1>4 DEF UpdateDraftIssue
  <2>2. \A i \in Issues : issues'[i].status = issues[i].status
    BY <1>t, <2>1 DEF Issue
  <2> QED BY <1>4, <1>g, <2>2, SameStatus DEF UpdateDraftIssue
<1>5. CASE UpdateSettings(a) \/ CancelEvents(a)
  BY <1>5, <1>g, SameStatus DEF UpdateSettings, CancelEvents
<1> QED BY <1>1, <1>2, <1>3, <1>4, <1>5

\* A failing store call.
LEMMA FaultOpens ==
    ASSUME TypeInv, NEW p \in Procs, Fault(p) \/ LifecycleFault(p)
    PROVE  Opens(p)
<1>1. issues' = issues
  BY DEF Fault, LifecycleFault, db
<1>2. loc[p].ret \in {"idle", "mark"}
  BY ProcFacts DEF Local
<1>3. \E l : Goto(p, l, loc[p]) /\ l \notin OpeningPC
  <2>1. CASE LifecycleFault(p)
    BY <2>1 DEF LifecycleFault, AfterLifecycle, OpeningPC
  <2>2. CASE Fault(p)
    <3>1. PICK l \in OnFault(p) : Goto(p, l, loc[p])
      BY <2>2 DEF Fault
    <3>2. l \notin OpeningPC
      BY <1>2, <3>1 DEF OnFault, HandlerOf, OpeningPC
    <3> QED BY <3>1, <3>2
  <2> QED BY <2>1, <2>2
<1> QED BY <1>1, <1>3, SameStatus DEF Opens

\* Whoever acts may act, and only the read of overdue events adds to the list.
LEMMA ActsInTurn ==
    ASSUME TypeInv, ~Overlap, NEW p \in Procs
    PROVE  /\ SharedStep(p) \/ Fault(p) \/ LifecycleFault(p) => MayAct(p) /\ queue' \subseteq queue
           /\ (\/ p \in Admins /\ Begin(p)
               \/ OpenDraftEarly(p) \/ ApplySchedule(p) \/ UpdateDraftIssue(p)
               \/ UpdateSettings(p) \/ CancelEvents(p))
              => MayAct(p) /\ queue' \subseteq queue
           /\ (\/ TakeEvent \/ GuardEvent \/ SendMail \/ MarkEventFired
               \/ CheckClose \/ CreateNextIssue \/ ReanchorDraft \/ ReconcileAutoCreate)
              => MayAct(Sched) /\ queue' \subseteq queue
<1>1. SharedStep(p) => ~Idle(p) /\ queue' = queue
  BY DEF SharedStep, PublishIssue, AfterPublish, QueuePending, QueueClear, QueueDraft, QueueReanchor,
     QueueCreate, QueueEvent, CreateFresh, SetCollecting, ScheduleIssueEvents, Idle
<1>2. Fault(p) \/ LifecycleFault(p) => ~Idle(p) /\ queue' = queue
  BY DEF Fault, LifecycleFault, Idle
<1>3. p \in Admins /\ Begin(p) => AllIdle /\ queue' = queue
  BY DEF Begin, MayBegin
<1>4. (OpenDraftEarly(p) \/ ApplySchedule(p) \/ UpdateDraftIssue(p) \/ UpdateSettings(p) \/ CancelEvents(p))
      => ~Idle(p) /\ queue' = queue
  BY DEF OpenDraftEarly, ApplySchedule, UpdateDraftIssue, UpdateSettings, CancelEvents, Idle
<1>5. (GuardEvent \/ SendMail \/ MarkEventFired \/ CheckClose \/ CreateNextIssue \/ ReanchorDraft)
      => ~Idle(Sched) /\ queue' = queue
  BY DEF GuardEvent, SendMail, MarkEventFired, CheckClose, CreateNextIssue, ReanchorDraft, Idle
<1>6. ReconcileAutoCreate => AllIdle /\ queue' = queue
  BY DEF ReconcileAutoCreate, MayBegin
<1>7. TakeEvent => queue # {} /\ queue' \subseteq queue
  BY DEF TakeEvent
<1> QED BY <1>1, <1>2, <1>3, <1>4, <1>5, <1>6, <1>7 DEF MayAct

\* The steps of the clock, the server's process and the read of overdue events.
EnvStep == Tick \/ Crash \/ Restart \/ FetchOverdue \/ \E a \in Admins : BeginRestore(a) /\ Begin(a)

\* They leave the rounds alone, and every process where it is or idle.
LEMMA EnvStill ==
    ASSUME TypeInv, Solo, ~Overlap, EnvStep \/ UNCHANGED vars
    PROVE  /\ issues' = issues /\ events' = events /\ Solo'
           /\ \/ UNCHANGED <<pc, loc>>
              \/ \A p \in Procs : pc'[p] = "idle"
<1>1. CASE Tick \/ Restart \/ UNCHANGED vars
  BY <1>1 DEF Tick, Restart, vars, db, Solo, Idle
<1>2. CASE Crash
  <2>1. \A p \in Procs : pc'[p] = "idle"
    BY <1>2 DEF Crash
  <2> QED BY <1>2, <2>1 DEF Crash, db, Solo, Idle, Procs
<1>3. CASE FetchOverdue
  <2>1. AllIdle /\ UNCHANGED <<pc, loc, issues, events>>
    BY <1>3 DEF FetchOverdue, MayBegin, db
  <2> QED BY <2>1 DEF AllIdle, Solo, Idle, Procs
<1>4. ASSUME NEW a \in Admins, BeginRestore(a), Begin(a)
      PROVE  UNCHANGED <<pc, loc, issues, events, queue>>
  BY <1>4 DEF BeginRestore, Begin
<1> QED BY <1>1, <1>2, <1>3, <1>4 DEF EnvStep, Solo, Idle

\* Every step keeps the invariant.
LEMMA NextCollecting == ~Overlap /\ CollectingInv /\ [Next]_vars => CollectingInv'
<1> SUFFICES ASSUME ~Overlap, CollectingInv, [Next]_vars PROVE CollectingInv'
  OBVIOUS
<1>0. TypeInv /\ TypeInv' /\ Solo /\ NoneCollecting
  BY NextType DEF CollectingInv
<1>1. CASE EnvStep \/ UNCHANGED vars
  <2>1. Solo' /\ issues' = issues /\ (UNCHANGED pc \/ \A p \in Procs : pc'[p] = "idle")
    BY <1>0, <1>1, EnvStill
  <2>2. Collecting' = Collecting
    BY <2>1, SameStatus
  <2> QED BY <1>0, <2>1, <2>2 DEF CollectingInv, OneCollecting, NoneCollecting, OpeningPC
<1>2. ASSUME NEW p \in Procs, Opens(p), MayAct(p), queue' \subseteq queue
      PROVE  CollectingInv'
  BY <1>0, <1>2, OpensKeeps
<1>3. ASSUME NEW p \in Procs, SharedStep(p) \/ Fault(p) \/ LifecycleFault(p)
      PROVE  CollectingInv'
  BY <1>0, <1>2, <1>3, ActsInTurn, SharedOpens, FaultOpens
<1>4. CASE \/ TakeEvent \/ GuardEvent \/ SendMail \/ MarkEventFired
           \/ CheckClose \/ CreateNextIssue \/ ReanchorDraft \/ ReconcileAutoCreate
  <2>1. Sched \in Procs
    BY DEF Procs
  <2>2. Opens(Sched)
    BY <1>0, <1>4, SchedulerOpens
  <2>3. MayAct(Sched) /\ queue' \subseteq queue
    BY <1>0, <1>4, <2>1, ActsInTurn
  <2> QED BY <1>2, <2>1, <2>2, <2>3
<1>5. ASSUME NEW a \in Admins, ~(BeginRestore(a) /\ Begin(a)),
             \/ Begin(a) \/ OpenDraftEarly(a) \/ ApplySchedule(a) \/ UpdateDraftIssue(a)
             \/ UpdateSettings(a) \/ CancelEvents(a)
      PROVE  CollectingInv'
  <2>1. a \in Procs
    BY DEF Procs
  <2>2. Opens(a)
    BY <1>0, <1>5, AdminOpens
  <2>3. MayAct(a) /\ queue' \subseteq queue
    BY <1>0, <1>5, <2>1, ActsInTurn
  <2> QED BY <1>2, <2>1, <2>2, <2>3
<1> QED BY <1>1, <1>3, <1>4, <1>5 DEF EnvStep, Next, SchedStep, AdminStep, Procs

\* A launched Loop has one round.
LEMMA InitCollecting == Init => CollectingInv
<1> SUFFICES ASSUME Init PROVE CollectingInv
  OBVIOUS
<1>1. Collecting \subseteq {1} /\ Solo /\ NoneCollecting
  BY DEF Init, Collecting, WithStatus, Solo, Idle, NoneCollecting, OpeningPC, Procs
<1> QED BY <1>1, InitType DEF CollectingInv, OneCollecting

\* A set whose elements are all the same has at most one.
LEMMA AtMostOne ==
    ASSUME NEW S, \A x, y \in S : x = y
    PROVE  Cardinality(S) <= 1
<1>1. CASE S = {}
  BY <1>1, FS_EmptySet
<1>2. CASE S # {}
  <2>1. PICK x : S = {x}
    BY <1>2
  <2> QED BY <2>1, FS_Singleton
<1> QED BY <1>1, <1>2

\* With requests and events one at a time at most one round collects answers,
\* whatever crashes and failing store calls come in between: a process on its way
\* to open a round has seen that none collects.
THEOREM OneRoundCollects == ~Overlap /\ Spec => []AtMostOneCollecting
<1>1. CollectingInv => AtMostOneCollecting
  BY AtMostOne DEF CollectingInv, OneCollecting, AtMostOneCollecting
<1> SUFFICES ASSUME ~Overlap PROVE Spec => []AtMostOneCollecting
  OBVIOUS
<1>2. CollectingInv /\ [Next]_vars => CollectingInv'
  BY NextCollecting
<1> QED BY <1>1, <1>2, InitCollecting, PTL DEF Spec

-----------------------------------------------------------------------------
(* One round upcoming, deadlines met and time left.                        *)

QueuedOpenings == {e \in events : Pending(e) /\ e.type = "create_next_issue"}

OneDraft == \A i, j \in Drafts : i = j
OneOpening == \A e, f \in QueuedOpenings : e = f

\* A pending auto_close event never comes before its round's deadline.
ClosesInTime ==
    \A e \in events : Pending(e) /\ e.type = "auto_close" =>
        \/ issues[e.issue].status = "published"
        \/ issues[e.issue].status = "collecting" /\ e.at >= issues[e.issue].deadline

\* What a process at l with locals v can rely on.
Hand(l, v) ==
    /\ l \in {"fresh", "qCreate"} => Drafts = {}
    /\ l \in {"qDraft", "qReanchor", "qCreate", "qEvent"} => QueuedOpenings = {}
    /\ l = "status" => v.issue \in Drafts /\ issues[v.issue].deadline = v.close
    /\ l = "lifecycle" => v.issue \in Collecting /\ issues[v.issue].deadline = v.close
    /\ l = "early" => \A s \in v.specs : /\ s.type # "create_next_issue"
                                         /\ s.type = "auto_close" => s.at = v.close
    /\ l = "publish" => issues[v.issue].status # "none"

\* ... and the scheduler, besides.
SchedHand(l, v) ==
    /\ l = "guard" => v.issue = v.ev.issue /\ IsEventPending(v.ev)
    /\ l = "close" => issues[v.issue].status = "published" \/ issues[v.issue].deadline <= now
    /\ l = "closeW" => issues[v.issue].deadline <= now
    /\ l \in {"close", "closeW"} => issues[v.issue].status # "none"
    /\ l \in {"fresh", "reanchor", "status"} => v.close > now + minReminderLead

Hands == (\A p \in Procs : Hand(pc[p], loc[p])) /\ SchedHand(pc[Sched], loc[Sched])

TablesOK == OneDraft /\ OneOpening /\ ClosesInTime

SerialInv == CollectingInv /\ TimesInv /\ TablesOK /\ Hands

\* A step of p after which it can rely on what it needs.
Ready(p, l, v) ==
    /\ l \in {"fresh", "qCreate"} => Drafts' = {}
    /\ l \in {"qDraft", "qReanchor", "qCreate", "qEvent"} => QueuedOpenings' = {}
    /\ l = "status" => v.issue \in Drafts' /\ issues'[v.issue].deadline = v.close
    /\ l = "lifecycle" => v.issue \in Collecting' /\ issues'[v.issue].deadline = v.close
    /\ l = "early" => \A s \in v.specs : /\ s.type # "create_next_issue"
                                         /\ s.type = "auto_close" => s.at = v.close
    /\ l = "publish" => issues'[v.issue].status # "none"
    /\ p = Sched /\ l = "guard" => v.issue = v.ev.issue /\ \E e \in events' : SameRow(e, v.ev) /\ Pending(e)
    /\ p = Sched /\ l = "close" => issues'[v.issue].status = "published" \/ issues'[v.issue].deadline <= now'
    /\ p = Sched /\ l = "closeW" => issues'[v.issue].deadline <= now'
    /\ p = Sched /\ l \in {"close", "closeW"} => issues'[v.issue].status # "none"
    /\ p = Sched /\ l \in {"fresh", "reanchor", "status"} => v.close > now' + minReminderLead

GetsReady(p) == \E l : \E v : Goto(p, l, v) /\ Ready(p, l, v)

\* Such a step leaves every process what it relies on: the others are idle.
LEMMA ReadyHands ==
    ASSUME TypeOK, Solo, NEW p \in Procs, MayAct(p), GetsReady(p)
    PROVE  Hands'
<1>1. PICK l, v : Goto(p, l, v) /\ Ready(p, l, v)
  BY DEF GetsReady
<1>2. /\ \A q \in Procs \ {p} : pc'[q] = "idle"
      /\ pc'[p] = l /\ (l # "idle" => loc'[p] = v)
  BY <1>1, OneActs
<1>3. ASSUME NEW q \in Procs PROVE Hand(pc[q], loc[q])'
  <2>1. CASE pc'[q] = "idle"
    BY <2>1 DEF Hand
  <2>2. CASE pc'[q] # "idle"
    <3>1. pc'[q] = l /\ loc'[q] = v
      BY <1>2, <2>2
    <3> QED BY <1>1, <3>1 DEF Ready, Hand
  <2> QED BY <2>1, <2>2
<1>4. SchedHand(pc[Sched], loc[Sched])'
  <2>1. CASE pc'[Sched] = "idle"
    BY <2>1 DEF SchedHand
  <2>2. CASE pc'[Sched] # "idle"
    <3>1. p = Sched /\ pc'[Sched] = l /\ loc'[Sched] = v
      BY <1>2, <2>2 DEF Procs
    <3> QED BY <1>1, <3>1 DEF Ready, SchedHand, IsEventPending, SameRow, Pending
  <2> QED BY <2>1, <2>2
<1> QED BY <1>3, <1>4 DEF Hands

\* Where nothing is relied on there is nothing to get ready.
Restful == {"idle", "mark", "remind", "open", "announce", "publishNext", "qPending", "qClear",
            "apply", "draftW", "settingsW", "cancel"}

\* A step to such a place gets the process ready for it.
LEMMA RestfulReady ==
    ASSUME NEW p, NEW l \in Restful, NEW v, Goto(p, l, v)
    PROVE  GetsReady(p)
BY DEF Restful, GetsReady, Ready

-----------------------------------------------------------------------------
(* What happens to the tables.                                             *)

\* A step that leaves the rounds alone and adds no row to the table, though it may
\* mark rows, leaves the tables sound.
LEMMA FewerRows ==
    ASSUME TablesOK, issues' = issues,
           \A e \in events' : Pending(e) => e \in events
    PROVE  TablesOK' /\ QueuedOpenings' \subseteq QueuedOpenings
<1>1. QueuedOpenings' \subseteq QueuedOpenings
  BY DEF QueuedOpenings, Pending
<1>2. OneDraft' /\ OneOpening'
  BY <1>1, SameStatus DEF TablesOK, OneDraft, OneOpening
<1>3. ClosesInTime'
  BY DEF TablesOK, ClosesInTime, Pending
<1> QED BY <1>1, <1>2, <1>3 DEF TablesOK

\* The events that a new lifecycle holds.
LEMMA LifecycleKinds ==
    ASSUME NEW dl, NEW s \in issueEventSpecs(dl)
    PROVE  s.type # "create_next_issue" /\ (s.type = "auto_close" => s.at = dl)
BY DEF issueEventSpecs, SpecsWithoutLead

\* A default deadline leaves a reader more than the lead of a reminder.
LEMMA DeadlineLead ==
    ASSUME now \in Nat, NEW days \in Nat
    PROVE  defaultDeadline(now, days) > now + minReminderLead
<1>1. PICK w \in Nat : w = effectiveWindowDays(days) /\ w >= 3
  BY DEF effectiveWindowDays, minSubmissionWindowDays
<1>2. PICK t \in Nat : t = now + 24 * w
  BY <1>1
<1>3. 24 * (t \div 24) + 21 > t - 4
  BY <1>2
<1>4. t >= now + 72
  BY <1>1, <1>2
<1>5. defaultDeadline(now, days) = 24 * (t \div 24) + 21
  BY <1>1, <1>2 DEF defaultDeadline, Days, atLocalHour, deadlineLocalHour
<1> QED BY <1>2, <1>3, <1>4, <1>5 DEF minReminderLead

-----------------------------------------------------------------------------
(* Every action gets ready and leaves the tables sound.                    *)

Sound(p) == GetsReady(p) /\ TablesOK'

\* A step to a restful place that leaves the rounds alone and adds no pending row.
LEMMA RestfulSound ==
    ASSUME TablesOK, NEW p, NEW l \in Restful, NEW v, Goto(p, l, v), issues' = issues,
           \A e \in events' : Pending(e) => e \in events
    PROVE  Sound(p)
BY RestfulReady, FewerRows DEF Sound

\* The steps of queueNextIssueEvent: stale openings go first, so that one is queued
\* and one round upcoming at the end.
LEMMA QueueSound ==
    ASSUME SerialInv, NEW p \in Procs,
           \/ QueuePending(p) \/ QueueClear(p) \/ QueueDraft(p)
           \/ QueueReanchor(p) \/ QueueEvent(p)
    PROVE  Sound(p)
<1> DEFINE v == loc[p]
<1>t. /\ TypeInv /\ TypeOK /\ issues \in [Issues -> Issue] /\ TablesOK /\ Hand(pc[p], v)
      /\ v.ret \in Restful
  BY ProcFacts DEF SerialInv, CollectingInv, TypeInv, TypeOK, Hands, Local, Restful
<1>1. CASE QueuePending(p)
  <2>1. "qClear" \in Restful
    BY DEF Restful
  <2> QED BY <1>1, <1>t, <2>1, RestfulSound DEF QueuePending, db
<1>2. CASE QueueClear(p)
  <2>1. TablesOK' /\ QueuedOpenings' = {}
    <3>1. issues' = issues /\ events' \subseteq events
      BY <1>2 DEF QueueClear, DropQueuedNext
    <3>2. QueuedOpenings' = {}
      BY <1>2 DEF QueueClear, DropQueuedNext, QueuedOpenings, Pending
    <3> QED BY <1>t, <3>1, <3>2, FewerRows
  <2>2. Goto(p, "qDraft", v)
    BY <1>2 DEF QueueClear
  <2> QED BY <2>1, <2>2 DEF Sound, GetsReady, Ready
<1>3. CASE QueueDraft(p)
  <2>1. issues' = issues /\ events' = events
    BY <1>3 DEF QueueDraft, db
  <2>2. TablesOK' /\ QueuedOpenings' = {} /\ Drafts' = Drafts
    <3>1. QueuedOpenings = {}
      BY <1>3, <1>t DEF QueueDraft, Hand
    <3> QED BY <1>t, <2>1, <3>1, FewerRows, SameStatus
  <2>3. \/ Drafts = {} /\ \E w : Goto(p, "qCreate", w)
        \/ \E l \in {"qEvent", "qReanchor"} : \E w : Goto(p, l, w)
    BY <1>3, Zenon DEF QueueDraft
  <2>4. ASSUME NEW l \in {"qCreate", "qEvent", "qReanchor"}, NEW w, l = "qCreate" => Drafts = {}
        PROVE  Ready(p, l, w)
    BY <2>2, <2>4 DEF Ready
  <2>5. GetsReady(p)
    <3>1. ASSUME NEW w, Goto(p, "qCreate", w), Drafts = {} PROVE GetsReady(p)
      BY <2>4, <3>1 DEF GetsReady
    <3>2. ASSUME NEW l \in {"qEvent", "qReanchor"}, NEW w, Goto(p, l, w) PROVE GetsReady(p)
      BY <2>4, <3>2 DEF GetsReady
    <3> QED BY <2>3, <3>1, <3>2
  <2> QED BY <2>2, <2>5 DEF Sound
<1>4. CASE QueueReanchor(p)
  <2>1. UpdateIssueSchedule(p, "qEvent") /\ events' = events /\ QueuedOpenings = {}
    BY <1>4, <1>t DEF QueueReanchor, Hand
  <2>2. (\A i \in Issues : issues'[i].status = issues[i].status) /\ Drafts' = Drafts
    BY <1>t, <2>1, ReanchoredStatus, SameStatus
  <2>3. \A i \in Issues : issues[i].status # "draft" => issues'[i] = issues[i]
    BY <1>t, <2>1 DEF UpdateIssueSchedule, Drafts, WithStatus
  <2>4. TablesOK' /\ QueuedOpenings' = {}
    <3>1. QueuedOpenings' = {}
      BY <2>1 DEF QueuedOpenings
    <3>2. \A e \in events : e.issue \in Issues
      BY <1>t DEF TypeOK, Event
    <3>3. ClosesInTime'
      BY <1>t, <2>1, <2>2, <2>3, <3>2 DEF TablesOK, ClosesInTime
    <3> QED BY <1>t, <2>2, <3>1, <3>3 DEF TablesOK, OneDraft, OneOpening
  <2>5. \E m \in {"qEvent", "idle", v.ret} : Goto(p, m, v)
    BY <1>t, <2>1, ReanchoredStatus
  <2>6. Goto(p, "qEvent", v) => GetsReady(p)
    BY <2>4 DEF GetsReady, Ready
  <2>7. "idle" \in Restful
    BY DEF Restful
  <2> QED BY <1>t, <2>4, <2>5, <2>6, <2>7, RestfulReady DEF Sound
<1>5. CASE QueueEvent(p)
  <2> DEFINE s == [type |-> "create_next_issue", at |-> v.opens, imm |-> FALSE]
  <2>1. QueuedOpenings = {} /\ issues' = issues /\ Goto(p, v.ret, v) /\ events' \subseteq events \cup {Row(nextTx, v.issue, s)}
    BY <1>5, <1>t DEF QueueEvent, Hand, Insert
  <2>2. Row(nextTx, v.issue, s).type = "create_next_issue"
    BY DEF Row
  <2>3. OneOpening'
    <3>1. QueuedOpenings' \subseteq {Row(nextTx, v.issue, s)}
      <4> HIDE DEF s
      <4> QED BY <2>1 DEF QueuedOpenings, Pending
    <3> QED BY <3>1 DEF OneOpening
  <2>4. ClosesInTime'
    <3> HIDE DEF s
    <3> QED BY <1>t, <2>1, <2>2 DEF TablesOK, ClosesInTime, Pending
  <2>5. TablesOK'
    BY <1>t, <2>1, <2>3, <2>4, SameStatus DEF TablesOK, OneDraft
  <2> QED BY <1>t, <2>1, <2>5, RestfulReady DEF Sound
<1> QED BY <1>1, <1>2, <1>3, <1>4, <1>5

\* A round that is created is the only draft, and has no events.
LEMMA CreateSound ==
    ASSUME SerialInv, NEW p \in Procs, QueueCreate(p) \/ CreateFresh(p)
    PROVE  Sound(p)
<1> DEFINE v == loc[p]
           draft == [status |-> "draft", opensAt |-> v.opens, deadline |-> v.close]
<1>t. /\ TypeInv /\ TypeOK /\ issues \in [Issues -> Issue] /\ TablesOK /\ Hand(pc[p], v)
      /\ SchedHand(pc[Sched], loc[Sched]) /\ v \in Local
  BY ProcFacts DEF SerialInv, CollectingInv, TypeInv, TypeOK, Hands
<1>1. PICK l \in {"qEvent", "status"} :
         /\ CreateIssue(p, l) /\ events' = events /\ now' = now
         /\ pc[p] = (IF l = "qEvent" THEN "qCreate" ELSE "fresh")
  BY DEF QueueCreate, CreateFresh, env
<1>2. PICK i \in FreshIssues :
         /\ issues' = [issues EXCEPT ![i] = draft]
         /\ Goto(p, l, [v EXCEPT !.issue = i])
  BY <1>1 DEF CreateIssue
<1>3. i \in Issues /\ issues[i].status = "none"
  BY DEF FreshIssues
<1>4. Drafts = {}
  BY <1>1, <1>t DEF Hand
<1>5. Drafts' = {i} /\ issues'[i].deadline = v.close /\ \A j \in Issues \ {i} : issues'[j] = issues[j]
  BY <1>2, <1>3, <1>4, <1>t DEF Drafts, WithStatus
<1>6. ClosesInTime'
  <2>1. \A e \in events : e.issue \in Issues
    BY <1>t DEF TypeOK, Event
  <2> QED BY <1>1, <1>3, <1>5, <1>t, <2>1 DEF TablesOK, ClosesInTime
<1>7. QueuedOpenings' = QueuedOpenings
  BY <1>1 DEF QueuedOpenings
<1>8. TablesOK'
  BY <1>5, <1>6, <1>7, <1>t DEF TablesOK, OneDraft, OneOpening
<1>9. PICK w : w = [v EXCEPT !.issue = i]
  OBVIOUS
<1>10. w.issue = i /\ w.close = v.close
  BY <1>9, <1>t DEF Local
<1>11. Ready(p, l, w)
  <2>1. l = "qEvent" => QueuedOpenings' = {}
    BY <1>1, <1>7, <1>t DEF Hand
  <2>2. p = Sched /\ l = "status" => w.close > now' + minReminderLead
    BY <1>1, <1>10, <1>t DEF SchedHand
  <2> QED BY <1>5, <1>10, <2>1, <2>2 DEF Ready
<1> QED BY <1>2, <1>8, <1>9, <1>11 DEF Sound, GetsReady

\* Publishing, opening and queueing a lifecycle.
LEMMA OpeningSound ==
    ASSUME SerialInv, NEW p \in Procs,
           \/ PublishIssue(p) \/ AfterPublish(p) \/ SetCollecting(p)
           \/ ScheduleIssueEvents(p) \/ LifecycleFault(p)
    PROVE  Sound(p)
<1> DEFINE v == loc[p]
<1>t. /\ TypeInv /\ TypeOK /\ issues \in [Issues -> Issue] /\ TablesOK /\ Hand(pc[p], v)
      /\ v.ret \in Restful
  BY ProcFacts DEF SerialInv, CollectingInv, TypeInv, TypeOK, Hands, Local, Restful
<1>e. \A e \in events : e.issue \in Issues
  BY <1>t DEF TypeOK, Event
<1>s. ASSUME NEW st, st # "draft", issues' = [issues EXCEPT ![v.issue].status = st], events' = events
      PROVE  /\ \A i \in Issues : issues'[i].status = IF i = v.issue THEN st ELSE issues[i].status
             /\ \A i \in Issues : issues'[i].deadline = issues[i].deadline
             /\ OneDraft' /\ OneOpening'
  <2>1. /\ \A i \in Issues : issues'[i].status = IF i = v.issue THEN st ELSE issues[i].status
        /\ \A i \in Issues : issues'[i].deadline = issues[i].deadline
    BY <1>s, <1>t DEF Issue
  <2>2. Drafts' \subseteq Drafts
    BY <1>s, <2>1 DEF Drafts, WithStatus
  <2> QED BY <1>s, <1>t, <2>1, <2>2 DEF TablesOK, OneDraft, OneOpening, QueuedOpenings
<1>1. CASE PublishIssue(p)
  <2>1. events' = events /\ issues' = [issues EXCEPT ![v.issue].status = "published"]
    BY <1>1 DEF PublishIssue
  <2>2. ClosesInTime'
    BY <1>e, <1>s, <1>t, <2>1 DEF TablesOK, ClosesInTime
  <2>3. \E l \in {"announce", "publishNext"} : Goto(p, l, v)
    BY <1>1, Zenon DEF PublishIssue
  <2>4. {"announce", "publishNext"} \subseteq Restful
    BY DEF Restful
  <2> QED BY <1>s, <2>1, <2>2, <2>3, <2>4, RestfulReady DEF Sound, TablesOK
<1>2. CASE AfterPublish(p)
  <2>1. \E l \in {"qPending", v.ret} : \E w : Goto(p, l, w)
    BY <1>2, Zenon DEF AfterPublish
  <2>2. "qPending" \in Restful
    BY DEF Restful
  <2>3. issues' = issues /\ events' = events
    BY <1>2 DEF AfterPublish, db
  <2> QED BY <1>t, <2>1, <2>2, <2>3, RestfulSound
<1>3. CASE SetCollecting(p)
  <2>1. /\ events' = events /\ issues' = [issues EXCEPT ![v.issue].status = "collecting"]
        /\ v.issue \in Drafts /\ issues[v.issue].deadline = v.close
        /\ Goto(p, "lifecycle", v)
    BY <1>3, <1>t DEF SetCollecting, Hand
  <2>2. v.issue \in Issues /\ issues[v.issue].status = "draft"
    BY <2>1 DEF Drafts, WithStatus
  <2>3. ClosesInTime'
    BY <1>e, <1>s, <1>t, <2>1, <2>2 DEF TablesOK, ClosesInTime
  <2>4. v.issue \in Collecting' /\ issues'[v.issue].deadline = v.close
    BY <1>s, <2>1, <2>2 DEF Collecting, WithStatus
  <2>5. GetsReady(p)
    BY <2>1, <2>4 DEF GetsReady, Ready
  <2> QED BY <1>s, <2>1, <2>3, <2>5 DEF Sound, TablesOK
<1>4. CASE ScheduleIssueEvents(p) \/ LifecycleFault(p)
  <2>1. /\ issues' = issues /\ pc[p] = "lifecycle"
        /\ \E l \in {"mark", "idle"} : Goto(p, l, v)
        /\ \E specs \in SUBSET issueEventSpecs(v.close) : events' = Insert(events, v.issue, specs)
    BY <1>4, Zenon DEF ScheduleIssueEvents, LifecycleFault, AfterLifecycle, Queueable
  <2>2. PICK specs \in SUBSET issueEventSpecs(v.close) : events' = Insert(events, v.issue, specs)
    BY <2>1
  <2>3. v.issue \in Collecting /\ issues[v.issue].deadline = v.close /\ v.close \in Int
    BY <1>t, <2>1, ProcFacts DEF Hand
  <2>4. \A e \in events' : e \in events \/ (/\ e.issue = v.issue /\ e.type # "create_next_issue"
                                            /\ e.type = "auto_close" => e.at = v.close)
    <3>1. ASSUME NEW s \in specs, NEW e, e = Row(nextTx, v.issue, s)
          PROVE  /\ e.issue = v.issue /\ e.type # "create_next_issue"
                 /\ e.type = "auto_close" => e.at = v.close
      BY <3>1, LifecycleKinds DEF Row
    <3> QED BY <2>2, <3>1 DEF Insert
  <2>5. QueuedOpenings' \subseteq QueuedOpenings
    BY <2>4 DEF QueuedOpenings
  <2>6. issues[v.issue].status = "collecting"
    BY <2>3 DEF Collecting, WithStatus
  <2>7. ClosesInTime'
    BY <1>t, <2>1, <2>3, <2>4, <2>6 DEF TablesOK, ClosesInTime, Pending
  <2>8. TablesOK'
    BY <1>t, <2>1, <2>5, <2>7, SameStatus DEF TablesOK, OneDraft, OneOpening
  <2>9. {"mark", "idle"} \subseteq Restful
    BY DEF Restful
  <2> QED BY <2>1, <2>8, <2>9, RestfulReady DEF Sound
<1> QED BY <1>1, <1>2, <1>3, <1>4

\* The auto_close event the scheduler holds has not come before its round's
\* deadline: its row is still there, with the time it was listed with.
LEMMA DueToClose ==
    ASSUME SerialInv, pc[Sched] = "guard", loc[Sched].ev.type = "auto_close"
    PROVE  LET i == loc[Sched].issue
           IN  /\ issues[i].status = "published" \/ issues[i].deadline <= now
               /\ issues[i].status # "none"
<1> DEFINE v == loc[Sched]
<1>1. v.issue = v.ev.issue /\ IsEventPending(v.ev)
  BY DEF SerialInv, Hands, SchedHand
<1>2. PICK e \in events : SameRow(e, v.ev) /\ Pending(e)
  BY <1>1 DEF IsEventPending
<1>3. e.at = v.ev.at /\ v.ev.at <= now
  BY <1>2 DEF SerialInv, TimesInv, DueInHand, Known
<1>4. e.issue = v.issue /\ e.type = "auto_close"
  BY <1>1, <1>2 DEF SameRow
<1>5. /\ issues[v.issue].status = "published" \/ e.at >= issues[v.issue].deadline
      /\ issues[v.issue].status \in {"published", "collecting"}
  BY <1>2, <1>4 DEF SerialInv, TablesOK, ClosesInTime
<1>6. e.at \in Int /\ e.issue \in Issues /\ now \in Int
  BY DEF SerialInv, CollectingInv, TypeInv, TypeOK, Event
<1>7. issues[v.issue].deadline \in Int
  BY <1>4, <1>6, RowsType DEF SerialInv, CollectingInv, TypeInv
<1> QED BY <1>3, <1>5, <1>6, <1>7

\* The handler an event goes to is ready for it.
LEMMA HandlerReady ==
    ASSUME SerialInv, pc[Sched] = "guard", issues' = issues, now' = now,
           Goto(Sched, HandlerOf(loc[Sched].ev), loc[Sched])
    PROVE  GetsReady(Sched)
<1>1. CASE HandlerOf(loc[Sched].ev) = "close"
  <2>1. loc[Sched].ev.type = "auto_close"
    BY <1>1 DEF HandlerOf
  <2>2. Ready(Sched, "close", loc[Sched])
    BY <2>1, DueToClose DEF Ready
  <2> QED BY <1>1, <2>2 DEF GetsReady
<1>2. CASE HandlerOf(loc[Sched].ev) # "close"
  <2>1. HandlerOf(loc[Sched].ev) \in Restful
    BY <1>2 DEF HandlerOf, Restful
  <2> QED BY <2>1, RestfulReady
<1> QED BY <1>1, <1>2

\* Marking rows, as fired or as referred to, leaves the tables sound.
LEMMA MarkedRows ==
    ASSUME TablesOK, issues' = issues, NEW M, events' = {M[e] : e \in events},
           \A e \in events : /\ SameRow(M[e], e) /\ M[e].at = e.at
                             /\ Pending(M[e]) => Pending(e)
    PROVE  TablesOK'
<1>1. \A e \in events : /\ M[e].type = e.type /\ M[e].issue = e.issue
  BY DEF SameRow
<1>2. OneOpening'
  BY <1>1 DEF TablesOK, OneOpening, QueuedOpenings, Pending
<1>3. ClosesInTime'
  BY <1>1 DEF TablesOK, ClosesInTime, Pending
<1> QED BY <1>2, <1>3, SameStatus DEF TablesOK, OneDraft

\* The steps of fireEvent around its handlers.
LEMMA FireSound ==
    ASSUME SerialInv, TakeEvent \/ GuardEvent \/ SendMail \/ MarkEventFired \/ CheckClose
    PROVE  Sound(Sched)
<1> DEFINE v == loc[Sched]
<1>t. /\ TypeOK /\ TablesOK /\ SchedHand(pc[Sched], v) /\ events \subseteq Event
      /\ {"idle", "mark"} \subseteq Restful
  BY DEF SerialInv, CollectingInv, TypeInv, TypeOK, Hands, Restful
<1>s. ASSUME issues' = issues, events' = events
      PROVE  TablesOK'
  BY <1>s, <1>t, FewerRows
<1>1. CASE TakeEvent
  <2>1. PICK ev \in queue : Goto(Sched, IF IsEventPending(ev) THEN "guard" ELSE "idle",
                                 [NoLocal EXCEPT !.ev = ev, !.issue = ev.issue, !.ret = "mark"])
    BY <1>1 DEF TakeEvent
  <2>2. issues' = issues /\ events' = events
    BY <1>1 DEF TakeEvent, db
  <2>3. PICK w : w = [NoLocal EXCEPT !.ev = ev, !.issue = ev.issue, !.ret = "mark"]
    OBVIOUS
  <2>4. w.ev = ev /\ w.issue = ev.issue
    BY <2>3 DEF NoLocal
  <2>5. CASE IsEventPending(ev)
    <3>1. Ready(Sched, "guard", w)
      BY <2>2, <2>4, <2>5 DEF Ready, IsEventPending
    <3> QED BY <1>s, <2>1, <2>2, <2>3, <2>5, <3>1 DEF Sound, GetsReady
  <2>6. CASE ~IsEventPending(ev)
    BY <1>s, <1>t, <2>1, <2>2, <2>6, RestfulReady DEF Sound
  <2> QED BY <2>5, <2>6
<1>2. CASE GuardEvent
  <2>1. issues' = issues /\ events' = events /\ now' = now /\ pc[Sched] = "guard"
    BY <1>2 DEF GuardEvent, db, env
  <2>2. Goto(Sched, "mark", v) \/ Goto(Sched, HandlerOf(v.ev), v)
    BY <1>2 DEF GuardEvent
  <2> QED BY <1>s, <1>t, <2>1, <2>2, HandlerReady, RestfulReady DEF Sound
<1>3. CASE SendMail
  <2>1. issues' = issues /\ \E l \in {"mark", "idle"} : Goto(Sched, l, v)
    BY <1>3, Zenon DEF SendMail
  <2>2. TablesOK'
    <3>1. CASE events' = events
      BY <1>s, <2>1, <3>1
    <3>2. ASSUME NEW due \in BOOLEAN,
                 events' = {IF SameRow(e, v.ev) THEN [e EXCEPT !.logged = @ \/ due] ELSE e : e \in events}
          PROVE  TablesOK'
      <4> DEFINE Log == [e \in events |-> IF SameRow(e, v.ev) THEN [e EXCEPT !.logged = @ \/ due] ELSE e]
      <4>1. \A e \in events : /\ SameRow(Log[e], e) /\ Log[e].at = e.at
                              /\ Pending(Log[e]) => Pending(e)
        BY <1>t DEF Event, SameRow, Pending
      <4>2. events' = {Log[e] : e \in events}
        BY <3>2
      <4> HIDE DEF Log
      <4> QED BY <1>t, <2>1, <4>1, <4>2, MarkedRows
    <3> QED BY <1>3, <3>1, <3>2 DEF SendMail
  <2> QED BY <1>t, <2>1, <2>2, RestfulReady DEF Sound
<1>4. CASE MarkEventFired
  <2> DEFINE Mark == [e \in events |-> IF SameRow(e, v.ev) THEN [e EXCEPT !.firedAt = now, !.logged = FALSE] ELSE e]
  <2>0. now \in Nat /\ now # Null
    BY <1>t DEF TypeOK, Null
  <2>1. issues' = issues /\ Goto(Sched, "idle", v) /\ events' = {Mark[e] : e \in events}
    BY <1>4 DEF MarkEventFired
  <2>2. \A e \in events : /\ SameRow(Mark[e], e) /\ Mark[e].at = e.at
                          /\ Pending(Mark[e]) => Pending(e)
    BY <1>t, <2>0 DEF Event, SameRow, Pending
  <2>3. TablesOK'
    <3> HIDE DEF Mark
    <3> QED BY <1>t, <2>1, <2>2, MarkedRows
  <2> QED BY <1>t, <2>1, <2>3, RestfulReady DEF Sound
<1>5. CASE CheckClose
  <2>1. issues' = issues /\ events' = events /\ now' = now /\ pc[Sched] = "close"
    BY <1>5 DEF CheckClose, db, env
  <2>2. CASE issues[v.issue].status = "published"
    BY <1>5, <1>s, <1>t, <2>1, <2>2, RestfulReady DEF Sound, CheckClose
  <2>3. CASE issues[v.issue].status # "published"
    <3>1. Ready(Sched, "closeW", v)
      BY <1>t, <2>1, <2>3 DEF Ready, SchedHand
    <3> QED BY <1>5, <1>s, <2>1, <2>3, <3>1 DEF Sound, CheckClose, GetsReady
  <2> QED BY <2>2, <2>3
<1> QED BY <1>1, <1>2, <1>3, <1>4, <1>5

\* Opening a round leaves time to answer: a deadline that is near or past is moved.
LEMMA OpenSound ==
    ASSUME SerialInv, CreateNextIssue \/ ReanchorDraft \/ ReconcileAutoCreate
    PROVE  Sound(Sched)
<1> DEFINE v == loc[Sched]
           fresh == [v EXCEPT !.opens = now, !.close = defaultDeadline(now, window)]
<1>t. /\ TypeOK /\ TablesOK /\ SchedHand(pc[Sched], v) /\ v \in Local
      /\ {"idle", "mark", "qPending"} \subseteq Restful /\ v.ret \in Restful
      /\ issues \in [Issues -> Issue] /\ now \in Nat /\ window \in Nat
  BY ProcFacts DEF SerialInv, CollectingInv, TypeInv, TypeOK, Hands, Restful, Local, Procs
<1>1. CASE ReconcileAutoCreate
  <2>1. issues' = issues /\ events' = events /\ \E w : Goto(Sched, "qPending", w)
    BY <1>1 DEF ReconcileAutoCreate, db
  <2> QED BY <1>t, <2>1, RestfulSound
<1>2. CASE CreateNextIssue
  <2>1. issues' = issues /\ events' = events /\ now' = now /\ TablesOK' /\ Drafts' = Drafts
    BY <1>2, <1>t, FewerRows, SameStatus DEF CreateNextIssue, db, env
  <2>2. ASSUME Goto(Sched, "mark", v)
        PROVE  GetsReady(Sched)
    BY <1>t, <2>2, RestfulReady
  <2>3. ASSUME NEW l \in {"fresh", "reanchor"}, l = "fresh" => Drafts = {}, NEW w, Goto(Sched, l, w),
               w.close = defaultDeadline(now, window)
        PROVE  GetsReady(Sched)
    <3>1. w.close > now' + minReminderLead
      BY <1>t, <2>1, <2>3, DeadlineLead
    <3>2. Ready(Sched, l, w)
      BY <2>1, <2>3, <3>1 DEF Ready
    <3> QED BY <2>3, <3>2 DEF GetsReady
  <2>4. ASSUME NEW d \in EarliestDrafts, ~NeedsReanchor(d), NEW w, Goto(Sched, "status", w),
               w.issue = d, w.close = issues[d].deadline
        PROVE  GetsReady(Sched)
    <3>1. d \in Drafts /\ issues[d].deadline \in Int
      BY <1>t, RowsType DEF EarliestDrafts
    <3>2. w.close > now' + minReminderLead
      BY <1>t, <2>1, <2>4, <3>1 DEF NeedsReanchor, minReminderLead
    <3>3. Ready(Sched, "status", w)
      BY <2>1, <2>4, <3>1, <3>2 DEF Ready
    <3> QED BY <2>4, <3>3 DEF GetsReady
  <2>5. /\ fresh.close = defaultDeadline(now, window)
        /\ \A d : [fresh EXCEPT !.issue = d].close = defaultDeadline(now, window)
        /\ \A d : /\ [v EXCEPT !.issue = d, !.close = issues[d].deadline].issue = d
                  /\ [v EXCEPT !.issue = d, !.close = issues[d].deadline].close = issues[d].deadline
    BY <1>t DEF Local
  <2>6. ASSUME Drafts = {}, Goto(Sched, "fresh", fresh)
        PROVE  GetsReady(Sched)
    <3> HIDE DEF fresh
    <3> QED BY <2>3, <2>5, <2>6
  <2>7. ASSUME NEW d, Goto(Sched, "reanchor", [fresh EXCEPT !.issue = d])
        PROVE  GetsReady(Sched)
    <3> HIDE DEF fresh
    <3> QED BY <2>3, <2>5, <2>7
  <2>8. ASSUME NEW d \in EarliestDrafts, ~NeedsReanchor(d),
               Goto(Sched, "status", [v EXCEPT !.issue = d, !.close = issues[d].deadline])
        PROVE  GetsReady(Sched)
    BY <2>4, <2>5, <2>8
  <2>9. \/ Goto(Sched, "mark", v)
        \/ Drafts = {} /\ Goto(Sched, "fresh", fresh)
        \/ \E d \in EarliestDrafts :
              \/ Goto(Sched, "mark", v)
              \/ Goto(Sched, "reanchor", [fresh EXCEPT !.issue = d])
              \/ ~NeedsReanchor(d) /\ Goto(Sched, "status", [v EXCEPT !.issue = d, !.close = issues[d].deadline])
    BY <1>2, Zenon DEF CreateNextIssue
  <2>10. GetsReady(Sched)
    <3> HIDE DEF fresh
    <3> QED BY <2>2, <2>6, <2>7, <2>8, <2>9
  <2> QED BY <2>1, <2>10 DEF Sound
<1>3. CASE ReanchorDraft
  <2>1. UpdateIssueSchedule(Sched, "status") /\ events' = events /\ now' = now /\ pc[Sched] = "reanchor"
    BY <1>3 DEF ReanchorDraft, env
  <2>2. (\A i \in Issues : issues'[i].status = issues[i].status) /\ Drafts' = Drafts
    BY <1>t, <2>1, ReanchoredStatus, SameStatus
  <2>3. \A i \in Issues : issues[i].status # "draft" => issues'[i] = issues[i]
    BY <1>t, <2>1 DEF UpdateIssueSchedule, Drafts, WithStatus
  <2>4. TablesOK'
    <3>1. \A e \in events : e.issue \in Issues
      BY <1>t DEF TypeOK, Event
    <3>2. ClosesInTime'
      BY <1>t, <2>1, <2>2, <2>3, <3>1 DEF TablesOK, ClosesInTime
    <3> QED BY <1>t, <2>1, <2>2, <3>2 DEF TablesOK, OneDraft, OneOpening, QueuedOpenings
  <2>5. CASE v.issue \in Drafts
    <3>1. Goto(Sched, "status", v) /\ v.issue \in Drafts'
      BY <2>1, <2>2, <2>5 DEF UpdateIssueSchedule
    <3>2. issues'[v.issue].deadline = v.close
      BY <1>t, <2>1, <2>5 DEF UpdateIssueSchedule, Drafts, WithStatus, Issue
    <3>3. Ready(Sched, "status", v)
      BY <1>t, <2>1, <3>1, <3>2 DEF Ready, SchedHand
    <3> QED BY <2>4, <3>1, <3>3 DEF Sound, GetsReady
  <2>6. CASE v.issue \notin Drafts
    BY <1>t, <2>1, <2>4, <2>6, RestfulReady DEF Sound, UpdateIssueSchedule
  <2> QED BY <2>5, <2>6
<1> QED BY <1>1, <1>2, <1>3

\* A failing store call sends no process where it is not ready to go.
LEMMA FaultSound ==
    ASSUME SerialInv, ~CarriesOn, NEW p \in Procs, Fault(p)
    PROVE  Sound(p)
<1>1. PICK l \in OnFault(p) : Goto(p, l, loc[p])
  BY DEF Fault
<1>2. TablesOK' /\ issues' = issues /\ now' = now
  BY FewerRows DEF SerialInv, Fault, db, env
<1>3. \/ l \in Restful
      \/ pc[p] = "guard" /\ l = HandlerOf(loc[p].ev)
  BY <1>1, ProcFacts DEF SerialInv, CollectingInv, OnFault, Restful, Local
<1>4. CASE p # Sched /\ l = HandlerOf(loc[p].ev)
  <2>1. l \in {"remind", "open", "close"}
    BY <1>4 DEF HandlerOf
  <2> QED BY <1>1, <1>2, <1>4, <2>1 DEF Sound, GetsReady, Ready
<1> QED BY <1>1, <1>2, <1>3, <1>4, HandlerReady, RestfulReady DEF Sound

\* A request that begins has seen what it relies on.
LEMMA BeginSound ==
    ASSUME SerialInv, ~CarriesOn, NEW a \in Admins, Begin(a), ~BeginRestore(a)
    PROVE  Sound(a)
<1>t. TypeOK /\ TablesOK /\ now \in Nat /\ window \in Nat
  BY DEF SerialInv, CollectingInv, TypeInv, TypeOK
<1>0. issues' = issues /\ events' = events
  BY DEF Begin, BeginPublish, BeginCreate, BeginMoveDeadline, BeginPinNext, BeginMoveDraft,
       BeginSettings, BeginArchive, BeginRestore, BeginCreateBlind, db
<1>1. CASE BeginMoveDeadline(a) \/ BeginPinNext(a) \/ BeginMoveDraft(a)
             \/ BeginSettings(a) \/ BeginArchive(a)
  <2>1. \E l \in {"apply", "draftW", "settingsW", "cancel"} : \E w : Goto(a, l, w)
    BY <1>1, Zenon DEF BeginMoveDeadline, BeginPinNext, BeginMoveDraft, BeginSettings, BeginArchive
  <2>2. {"apply", "draftW", "settingsW", "cancel"} \subseteq Restful
    BY DEF Restful
  <2> QED BY <1>0, <1>t, <2>1, <2>2, RestfulSound
<1>2. CASE BeginCreate(a)
  <2>0. TablesOK' /\ Drafts' = Drafts
    BY <1>0, <1>t, FewerRows, SameStatus
  <2>1. CASE Drafts = {} /\ NewRound(a)
    <3>1. \E w : Goto(a, "fresh", w)
      BY <2>1, Zenon DEF NewRound
    <3>2. a # Sched
      BY ParamAssumption
    <3>3. \A w : Ready(a, "fresh", w)
      BY <2>0, <2>1, <3>2 DEF Ready
    <3> QED BY <2>0, <3>1, <3>3 DEF Sound, GetsReady
  <2> DEFINE dl == defaultDeadline(now, window)
             new(d) == [NoLocal EXCEPT !.issue = d, !.opens = now, !.close = dl, !.specs = issueEventSpecs(dl)]
  <2>2. ASSUME NEW d, Goto(a, "early", new(d))
        PROVE  Sound(a)
    <3>1. new(d).specs = issueEventSpecs(dl) /\ new(d).close = dl
      BY DEF NoLocal
    <3>2. Ready(a, "early", new(d))
      <4> HIDE DEF new, dl
      <4> QED BY <3>1, LifecycleKinds DEF Ready
    <3> HIDE DEF new
    <3> QED BY <2>0, <2>2, <3>2 DEF Sound, GetsReady
  <2> QED BY <1>2, <2>1, <2>2 DEF BeginCreate
<1>3. ~BeginCreateBlind(a)
  BY DEF BeginCreateBlind
<1>4. CASE BeginPublish(a)
  <2>1. PICK i \in Collecting \cup Drafts : Goto(a, "publish", [NoLocal EXCEPT !.issue = i])
    BY <1>4 DEF BeginPublish
  <2>2. PICK w : w = [NoLocal EXCEPT !.issue = i]
    OBVIOUS
  <2>3. w.issue = i /\ issues[i].status # "none"
    BY <2>2 DEF NoLocal, Collecting, Drafts, WithStatus
  <2>4. Ready(a, "publish", w)
    BY <1>0, <2>3, ParamAssumption DEF Ready
  <2>5. TablesOK'
    BY <1>0, <1>t, FewerRows
  <2> QED BY <2>1, <2>2, <2>4, <2>5 DEF Sound, GetsReady
<1> QED BY <1>1, <1>2, <1>3, <1>4, Zenon DEF Begin

\* Opening a draft early brings its lifecycle along, in one transaction.
LEMMA EarlySound ==
    ASSUME SerialInv, NEW a \in Admins, OpenDraftEarly(a)
    PROVE  Sound(a)
<1> DEFINE v == loc[a]
<1>t. /\ TypeOK /\ TablesOK /\ issues \in [Issues -> Issue] /\ a \in Procs /\ Hand(pc[a], v)
      /\ v.close \in Int /\ "idle" \in Restful /\ Goto(a, "idle", v)
  BY ProcFacts DEF SerialInv, CollectingInv, TypeInv, TypeOK, Hands, Restful, Procs, OpenDraftEarly
<1>1. CASE issues' = issues /\ events' = events
  BY <1>1, <1>t, RestfulSound
<1>2. CASE /\ v.issue \in Drafts
           /\ issues' = [issues EXCEPT ![v.issue] = [status |-> "collecting", opensAt |-> v.opens, deadline |-> v.close]]
           /\ events' = Insert(DropQueuedNext(events), v.issue, v.specs)
  <2>1. \A s \in v.specs : s.type # "create_next_issue" /\ (s.type = "auto_close" => s.at = v.close)
    BY <1>t DEF OpenDraftEarly, Hand
  <2>2. /\ v.issue \in Issues /\ issues[v.issue].status = "draft"
        /\ issues'[v.issue].status = "collecting" /\ issues'[v.issue].deadline = v.close
        /\ \A i \in Issues \ {v.issue} : issues'[i] = issues[i]
    BY <1>2, <1>t DEF Drafts, WithStatus
  <2>3. \A e \in events' : \/ e \in events /\ ~(Pending(e) /\ e.type = "create_next_issue")
                           \/ /\ e.issue = v.issue /\ e.type # "create_next_issue"
                              /\ e.type = "auto_close" => e.at = v.close
    <3>1. ASSUME NEW s \in v.specs, NEW e, e = Row(nextTx, v.issue, s)
          PROVE  /\ e.issue = v.issue /\ e.type # "create_next_issue"
                 /\ e.type = "auto_close" => e.at = v.close
      BY <2>1, <3>1 DEF Row
    <3> QED BY <1>2, <3>1 DEF Insert, DropQueuedNext
  <2>4. OneOpening'
    BY <2>3 DEF OneOpening, QueuedOpenings, Pending
  <2>5. ClosesInTime'
    <3>1. \A e \in events : e.issue \in Issues
      BY <1>t DEF TypeOK, Event
    <3> QED BY <1>t, <2>2, <2>3, <3>1 DEF TablesOK, ClosesInTime, Pending
  <2>6. OneDraft'
    <3>1. Drafts' \subseteq Drafts
      BY <2>2 DEF Drafts, WithStatus
    <3> QED BY <1>t, <3>1 DEF TablesOK, OneDraft
  <2> QED BY <1>t, <2>4, <2>5, <2>6, RestfulReady DEF Sound, TablesOK
<1> QED BY <1>1, <1>2 DEF OpenDraftEarly

\* ApplySchedule replaces a lifecycle as a whole, and pins one round.
LEMMA ApplySound ==
    ASSUME SerialInv, NEW a \in Admins, ApplySchedule(a)
    PROVE  Sound(a)
<1> DEFINE v == loc[a]
           moved == IF v.close = Null THEN issues ELSE [issues EXCEPT ![v.issue].deadline = v.close]
           one == [type |-> "create_next_issue", at |-> v.next, imm |-> FALSE]
           pinned == [status |-> "draft", opensAt |-> v.next,
                      deadline |-> atLocalHour(v.next + Days(v.days), deadlineLocalHour)]
           rows == RescheduledEvents(v)
<1>t. /\ TypeOK /\ TablesOK /\ issues \in [Issues -> Issue] /\ a \in Procs
      /\ v.close \in Int /\ "idle" \in Restful /\ Goto(a, "idle", v)
      /\ \A e \in events : e.issue \in Issues
  BY ProcFacts DEF SerialInv, CollectingInv, TypeInv, TypeOK, Event, Restful, Procs, ApplySchedule
<1>1. \/ issues' = issues /\ events' = events
      \/ CanReschedule(v) /\ issues' = moved /\ events' = rows
      \/ /\ CanReschedule(v)
         /\ \E d \in (IF Drafts = {} THEN FreshIssues ELSE EarliestDrafts) :
               /\ issues' = [moved EXCEPT ![d] = pinned]
               /\ events' = Insert(DropQueuedNext(rows), d, {one})
  BY Zenon DEF ApplySchedule, db
<1>2. CASE issues' = issues /\ events' = events
  BY <1>2, <1>t, RestfulSound
<1>3. DOMAIN moved = Issues /\ \A i \in Issues : moved[i].status = issues[i].status
  BY <1>t DEF Issue
<1>4. ASSUME CanReschedule(v)
      PROVE  /\ \A e \in rows : Pending(e) /\ e.type = "create_next_issue" => e \in events
             /\ \A e \in rows : Pending(e) /\ e.type = "auto_close" =>
                  /\ e.issue \in Issues
                  /\ \/ moved[e.issue].status = "published"
                     \/ moved[e.issue].status = "collecting" /\ e.at >= moved[e.issue].deadline
  <2>1. CASE v.close = Null
    BY <1>t, <2>1 DEF RescheduledEvents, TablesOK, ClosesInTime
  <2>2. CASE v.close # Null
    <3>1. v.issue \in Issues /\ issues[v.issue].status = "collecting"
      BY <1>4, <2>2 DEF CanReschedule, Collecting, WithStatus
    <3>2. /\ moved[v.issue].status = "collecting" /\ moved[v.issue].deadline = v.close
          /\ \A i \in Issues \ {v.issue} : moved[i] = issues[i]
      BY <1>t, <2>2, <3>1 DEF Issue
    <3>3. Lifecycle(v.specs, v.close)
      BY <2>2 DEF ApplySchedule, SerialInv, TimesInv, SpecsInHand, SpecsOf
    <3>4. ASSUME NEW s \in v.specs, NEW e, e = Row(nextTx, v.issue, s)
          PROVE  /\ e.issue = v.issue /\ e.type # "create_next_issue"
                 /\ e.type = "auto_close" => e.at = v.close
      BY <3>3, <3>4 DEF Row, Lifecycle
    <3>5. \A e \in rows : \/ e \in events /\ ~(Pending(e) /\ e.issue = v.issue)
                          \/ /\ e.issue = v.issue /\ e.type # "create_next_issue"
                             /\ e.type = "auto_close" => e.at = v.close
      BY <2>2, <3>4 DEF RescheduledEvents, Insert, DropPending
    <3> HIDE DEF moved, rows
    <3> QED BY <1>t, <3>1, <3>2, <3>5 DEF TablesOK, ClosesInTime
  <2> QED BY <2>1, <2>2
<1>5. ASSUME CanReschedule(v), issues' = moved, events' = rows
      PROVE  TablesOK'
  <2> HIDE DEF moved, rows
  <2>1. Drafts' = Drafts
    BY <1>3, <1>5, SameStatus
  <2>2. QueuedOpenings' \subseteq QueuedOpenings
    BY <1>4, <1>5 DEF QueuedOpenings, Pending
  <2>3. ClosesInTime'
    BY <1>4, <1>5 DEF ClosesInTime, Pending
  <2> QED BY <1>t, <2>1, <2>2, <2>3 DEF TablesOK, OneDraft, OneOpening
<1>6. ASSUME CanReschedule(v), NEW d \in (IF Drafts = {} THEN FreshIssues ELSE EarliestDrafts),
             issues' = [moved EXCEPT ![d] = pinned], events' = Insert(DropQueuedNext(rows), d, {one})
      PROVE  TablesOK'
  <2> HIDE DEF moved, rows
  <2>1. d \in Issues /\ issues[d].status \in {"none", "draft"} /\ (Drafts = {} \/ d \in Drafts)
    BY DEF FreshIssues, EarliestDrafts, Drafts, WithStatus
  <2>2. \A i \in Issues \ {d} : issues'[i] = moved[i]
    BY <1>3, <1>6
  <2>3. Drafts' \subseteq Drafts \cup {d}
    BY <1>3, <2>2 DEF Drafts, WithStatus
  <2>4. Row(nextTx, d, one).type = "create_next_issue"
    BY DEF Row
  <2>5. \A e \in events' : \/ e = Row(nextTx, d, one)
                           \/ e \in rows /\ ~(Pending(e) /\ e.type = "create_next_issue")
    <3> HIDE DEF one
    <3> QED BY <1>6 DEF Insert, DropQueuedNext
  <2> HIDE DEF one, pinned
  <2>6. OneOpening'
    BY <2>5 DEF OneOpening, QueuedOpenings, Pending
  <2>7. ClosesInTime'
    <3> SUFFICES ASSUME NEW e \in events', Pending(e), e.type = "auto_close"
                 PROVE  \/ issues'[e.issue].status = "published"
                        \/ issues'[e.issue].status = "collecting" /\ e.at >= issues'[e.issue].deadline
      BY DEF ClosesInTime, Pending
    <3>1. e \in rows
      BY <2>4, <2>5
    <3>2. /\ e.issue \in Issues
          /\ \/ moved[e.issue].status = "published"
             \/ moved[e.issue].status = "collecting" /\ e.at >= moved[e.issue].deadline
      BY <1>4, <1>6, <3>1
    <3>3. e.issue # d
      BY <1>3, <2>1, <3>2
    <3> QED BY <2>2, <3>2, <3>3
  <2>8. OneDraft'
    BY <1>t, <2>1, <2>3 DEF TablesOK, OneDraft
  <2> QED BY <2>6, <2>7, <2>8 DEF TablesOK
<1>7. CASE TablesOK'
  BY <1>7, <1>t, RestfulReady DEF Sound
<1> HIDE DEF moved, rows, pinned, one
<1> QED BY <1>1, <1>2, <1>5, <1>6, <1>7

\* The other writes of a request.
LEMMA WriteSound ==
    ASSUME SerialInv, NEW a \in Admins, UpdateDraftIssue(a) \/ UpdateSettings(a) \/ CancelEvents(a)
    PROVE  Sound(a)
<1> DEFINE v == loc[a]
<1>t. TypeOK /\ TablesOK /\ issues \in [Issues -> Issue] /\ "idle" \in Restful /\ \A e \in events : e.issue \in Issues
  BY DEF SerialInv, CollectingInv, TypeInv, TypeOK, Event, Restful
<1>1. CASE UpdateSettings(a) \/ CancelEvents(a)
  <2>1. issues' = issues /\ events' \subseteq events /\ \E w : Goto(a, "idle", w)
    BY <1>1 DEF UpdateSettings, CancelEvents
  <2> QED BY <1>t, <2>1, RestfulSound
<1>2. CASE UpdateDraftIssue(a)
  <2>1. Goto(a, "idle", v) /\ events' = events
    BY <1>2 DEF UpdateDraftIssue
  <2>2. CASE issues' = issues
    BY <1>t, <2>1, <2>2, RestfulSound
  <2>3. CASE v.issue \in Drafts /\ issues' = [issues EXCEPT ![v.issue].deadline = v.close]
    <3>1. \A i \in Issues : /\ issues'[i].status = issues[i].status
                            /\ issues[i].status # "draft" => issues'[i] = issues[i]
      BY <1>t, <2>3 DEF Drafts, WithStatus, Issue
    <3>2. ClosesInTime'
      BY <1>t, <2>1, <3>1 DEF TablesOK, ClosesInTime
    <3>3. TablesOK'
      BY <1>t, <2>1, <3>1, <3>2, SameStatus DEF TablesOK, OneDraft, OneOpening, QueuedOpenings
    <3> QED BY <1>t, <2>1, <3>3, RestfulReady DEF Sound
  <2> QED BY <1>2, <2>2, <2>3 DEF UpdateDraftIssue, StillDraft
<1> QED BY <1>1, <1>2

\* Every step keeps the invariant.
LEMMA NextSerial == ~Overlap /\ ~CarriesOn /\ SerialInv /\ [Next]_vars => SerialInv'
<1> SUFFICES ASSUME ~Overlap, ~CarriesOn, SerialInv, [Next]_vars PROVE SerialInv'
  OBVIOUS
<1>0. CollectingInv' /\ TimesInv' /\ TypeInv /\ TypeOK /\ Solo /\ TablesOK
  BY NextCollecting, NextTimes DEF SerialInv, CollectingInv, TypeInv
<1>1. CASE EnvStep \/ UNCHANGED vars
  <2>1. /\ issues' = issues /\ events' = events
        /\ UNCHANGED <<pc, loc>> \/ \A p \in Procs : pc'[p] = "idle"
    BY <1>0, <1>1, EnvStill
  <2>2. TablesOK' /\ Drafts' = Drafts /\ Collecting' = Collecting
    BY <1>0, <2>1, FewerRows, SameStatus
  <2>3. CASE \A p \in Procs : pc'[p] = "idle"
    <3>1. Hands'
      BY <2>3 DEF Hands, Hand, SchedHand, Procs
    <3> QED BY <1>0, <2>2, <3>1 DEF SerialInv
  <2>4. CASE UNCHANGED <<pc, loc>> /\ ~\A p \in Procs : pc'[p] = "idle"
    <3>1. now' = now
      BY <1>1, <2>4 DEF EnvStep, Tick, Crash, Restart, FetchOverdue, BeginRestore, Begin, AllIdle, env, vars
    <3>2. \A p \in Procs : Hand(pc[p], loc[p])'
      BY <2>1, <2>2, <2>4 DEF SerialInv, Hands, Hand, QueuedOpenings
    <3>3. SchedHand(pc[Sched], loc[Sched])'
      BY <2>1, <2>4, <3>1 DEF SerialInv, Hands, SchedHand, IsEventPending
    <3> QED BY <1>0, <2>2, <3>2, <3>3 DEF SerialInv, Hands
  <2> QED BY <2>1, <2>3, <2>4
<1>2. ASSUME NEW p \in Procs, Sound(p), MayAct(p)
      PROVE  SerialInv'
  BY <1>0, <1>2, ReadyHands DEF Sound, SerialInv
<1>3. ASSUME NEW p \in Procs, SharedStep(p) \/ Fault(p) \/ LifecycleFault(p)
      PROVE  SerialInv'
  <2>1. MayAct(p)
    BY <1>0, <1>3, ActsInTurn
  <2>2. Sound(p)
    BY <1>3, QueueSound, CreateSound, OpeningSound, FaultSound DEF SharedStep
  <2> QED BY <1>2, <2>1, <2>2
<1>4. CASE \/ TakeEvent \/ GuardEvent \/ SendMail \/ MarkEventFired
           \/ CheckClose \/ CreateNextIssue \/ ReanchorDraft \/ ReconcileAutoCreate
  <2>1. Sched \in Procs
    BY DEF Procs
  <2>2. MayAct(Sched)
    BY <1>0, <1>4, <2>1, ActsInTurn
  <2>3. Sound(Sched)
    BY <1>4, FireSound, OpenSound
  <2> QED BY <1>2, <2>1, <2>2, <2>3
<1>5. ASSUME NEW a \in Admins, ~(BeginRestore(a) /\ Begin(a)),
             \/ Begin(a) \/ OpenDraftEarly(a) \/ ApplySchedule(a) \/ UpdateDraftIssue(a)
             \/ UpdateSettings(a) \/ CancelEvents(a)
      PROVE  SerialInv'
  <2>1. a \in Procs
    BY DEF Procs
  <2>2. MayAct(a)
    BY <1>0, <1>5, <2>1, ActsInTurn
  <2>3. Sound(a)
    BY <1>5, BeginSound, EarlySound, ApplySound, WriteSound
  <2> QED BY <1>2, <2>1, <2>2, <2>3
<1> QED BY <1>1, <1>3, <1>4, <1>5 DEF EnvStep, Next, SchedStep, AdminStep, Procs

\* A launched Loop's tables are sound.
LEMMA InitSerial == Init => SerialInv
<1> SUFFICES ASSUME Init PROVE SerialInv
  OBVIOUS
<1> DEFINE dl == defaultDeadline(now, window)
<1>1. CollectingInv /\ TimesInv /\ dl \in Int
  <2>1. now \in Nat /\ window \in Nat
    BY ParamAssumption DEF Init
  <2> QED BY <2>1, InitCollecting, InitTimes, CalendarType
<1>2. /\ events = {Row(0, 1, s) : s \in issueEventSpecs(dl)}
      /\ 1 \in Issues /\ issues[1].status = "collecting" /\ issues[1].deadline = dl
      /\ \A i \in Issues : issues[i].status # "draft"
      /\ \A p \in Procs : pc[p] = "idle"
  BY ParamAssumption DEF Init, Issues
<1> HIDE DEF dl
<1>3. \A e \in events : /\ e.issue = 1 /\ e.type # "create_next_issue"
                        /\ e.type = "auto_close" => e.at = dl
  BY <1>2, LifecycleKinds DEF Row
<1>4. TablesOK
  BY <1>1, <1>2, <1>3 DEF TablesOK, OneDraft, Drafts, WithStatus, OneOpening, QueuedOpenings, ClosesInTime
<1>5. Hands
  BY <1>2 DEF Hands, Hand, SchedHand, Procs
<1> QED BY <1>1, <1>4, <1>5 DEF SerialInv

-----------------------------------------------------------------------------
(* What follows.                                                           *)

\* One round is upcoming and one opening queued for it: what is queued was cleared
\* before, and a draft is created where there was none.
THEOREM OneUpcoming == ~Overlap /\ ~CarriesOn /\ Spec => []OneUpcomingRound
<1> SUFFICES ASSUME ~Overlap, ~CarriesOn PROVE Spec => []OneUpcomingRound
  OBVIOUS
<1>1. SerialInv => OneUpcomingRound
  <2> SUFFICES ASSUME SerialInv PROVE OneUpcomingRound
    OBVIOUS
  <2>1. QueuedNext \subseteq QueuedOpenings
    BY DEF QueuedNext, QueuedOpenings
  <2> QED BY <2>1, AtMostOne DEF SerialInv, TablesOK, OneDraft, OneOpening, OneUpcomingRound
<1>2. SerialInv /\ [Next]_vars => SerialInv'
  BY NextSerial
<1> QED BY <1>1, <1>2, InitSerial, PTL DEF Spec

\* The scheduler publishes a round only once its deadline has come: the pending
\* auto_close event of a round is never before it.
THEOREM ClosesAtDeadline == ~Overlap /\ ~CarriesOn /\ Spec => AutoCloseAtDeadline
<1> SUFFICES ASSUME ~Overlap, ~CarriesOn PROVE Spec => AutoCloseAtDeadline
  OBVIOUS
<1>1. SerialInv => [(pc[Sched] = "closeW" /\ pc'[Sched] = "announce")
          => issues[loc[Sched].issue].deadline <= now]_vars
  BY DEF SerialInv, Hands, SchedHand
<1>2. SerialInv /\ [Next]_vars => SerialInv'
  BY NextSerial
<1> QED BY <1>1, <1>2, InitSerial, PTL DEF Spec, AutoCloseAtDeadline

-----------------------------------------------------------------------------
(* Time left to answer, whatever a handler carries on after.               *)

\* On its way to open a round the scheduler has a deadline in hand that leaves time
\* to answer, at the end the one of the round.
OpensInTime(l, v) ==
    /\ l \in {"fresh", "reanchor", "status"} => v.close > now + minReminderLead
    /\ l = "status" => issues[v.issue].deadline = v.close

OpeningInv == CollectingInv /\ OpensInTime(pc[Sched], loc[Sched])

\* The scheduler elsewhere needs no deadline.
LEMMA ElsewhereInTime ==
    ASSUME TypeOK, NEW l, NEW v, Goto(Sched, l, v), l \notin {"fresh", "reanchor", "status"}
    PROVE  OpensInTime(pc[Sched], loc[Sched])'
<1>1. pc'[Sched] = l
  BY DEF Goto, TypeOK, Procs
<1> QED BY <1>1 DEF OpensInTime

\* It arrives with the deadline it needs.
LEMMA ArrivesInTime ==
    ASSUME TypeOK, now' = now, NEW l \in {"fresh", "reanchor", "status"}, NEW v, Goto(Sched, l, v),
           v.close > now + minReminderLead, l = "status" => issues'[v.issue].deadline = v.close
    PROVE  OpensInTime(pc[Sched], loc[Sched])'
<1>1. pc'[Sched] = l /\ loc'[Sched] = v
  BY DEF Goto, TypeOK, Procs
<1> QED BY <1>1 DEF OpensInTime

\* A created round has the deadline the scheduler had in hand.
LEMMA FreshInTime ==
    ASSUME OpeningInv, CreateFresh(Sched)
    PROVE  OpensInTime(pc[Sched], loc[Sched])'
<1> DEFINE v == loc[Sched]
<1>t. TypeOK /\ v \in Local /\ issues \in [Issues -> Issue]
  BY ProcFacts DEF OpeningInv, CollectingInv, TypeInv, TypeOK, Procs
<1>1. pc[Sched] = "fresh" /\ now' = now /\ CreateIssue(Sched, "status")
  BY DEF CreateFresh, env
<1>2. v.close > now + minReminderLead
  BY <1>1 DEF OpeningInv, OpensInTime
<1>3. PICK i \in FreshIssues :
        /\ issues' = [issues EXCEPT ![i] = [status |-> "draft", opensAt |-> v.opens, deadline |-> v.close]]
        /\ Goto(Sched, "status", [v EXCEPT !.issue = i])
  BY <1>1 DEF CreateIssue
<1>4. issues'[i].deadline = v.close
  BY <1>3, <1>t DEF FreshIssues
<1>5. PICK w : w = [v EXCEPT !.issue = i]
  OBVIOUS
<1>6. w.issue = i /\ w.close = v.close
  BY <1>5, <1>t DEF Local
<1>7. Goto(Sched, "status", w) /\ w.close > now + minReminderLead /\ issues'[w.issue].deadline = w.close
  BY <1>2, <1>3, <1>4, <1>5, <1>6
<1> QED BY <1>1, <1>7, <1>t, ArrivesInTime

\* So has a draft whose deadline was near.
LEMMA ReanchoredInTime ==
    ASSUME OpeningInv, ReanchorDraft
    PROVE  OpensInTime(pc[Sched], loc[Sched])'
<1> DEFINE v == loc[Sched]
<1>t. TypeOK /\ issues \in [Issues -> Issue]
  BY DEF OpeningInv, CollectingInv, TypeInv, TypeOK
<1>1. pc[Sched] = "reanchor" /\ now' = now /\ UpdateIssueSchedule(Sched, "status")
  BY DEF ReanchorDraft, env
<1>2. v.close > now + minReminderLead
  BY <1>1 DEF OpeningInv, OpensInTime
<1>3. CASE v.issue \in Drafts
  <2>1. Goto(Sched, "status", v) /\ issues'[v.issue].deadline = v.close
    BY <1>1, <1>3, <1>t DEF UpdateIssueSchedule, Drafts, WithStatus, Issue
  <2> QED BY <1>1, <1>2, <1>t, <2>1, ArrivesInTime
<1>4. CASE v.issue \notin Drafts
  BY <1>1, <1>4, <1>t, ElsewhereInTime DEF UpdateIssueSchedule
<1> QED BY <1>3, <1>4

\* CreateNextIssue takes a default deadline, or that of a draft that is not near.
LEMMA NextIssueInTime ==
    ASSUME OpeningInv, CreateNextIssue
    PROVE  OpensInTime(pc[Sched], loc[Sched])'
<1> DEFINE v == loc[Sched]
           fresh == [v EXCEPT !.opens = now, !.close = defaultDeadline(now, window)]
<1>t. /\ TypeOK /\ v \in Local /\ issues \in [Issues -> Issue] /\ now \in Nat /\ window \in Nat
  BY ProcFacts DEF OpeningInv, CollectingInv, TypeInv, TypeOK, Procs
<1>1. now' = now /\ issues' = issues
  BY DEF CreateNextIssue, db, env
<1>2. /\ fresh.close = defaultDeadline(now, window)
      /\ \A d : [fresh EXCEPT !.issue = d].close = defaultDeadline(now, window)
      /\ \A d : /\ [v EXCEPT !.issue = d, !.close = issues[d].deadline].issue = d
                /\ [v EXCEPT !.issue = d, !.close = issues[d].deadline].close = issues[d].deadline
  BY <1>t DEF Local
<1>3. \/ Goto(Sched, "mark", v)
      \/ Goto(Sched, "fresh", fresh)
      \/ \E d \in EarliestDrafts :
            \/ Goto(Sched, "reanchor", [fresh EXCEPT !.issue = d])
            \/ ~NeedsReanchor(d) /\ Goto(Sched, "status", [v EXCEPT !.issue = d, !.close = issues[d].deadline])
  BY Zenon DEF CreateNextIssue
<1>4. CASE Goto(Sched, "mark", v)
  BY <1>4, <1>t, ElsewhereInTime
<1>5. ASSUME NEW l \in {"fresh", "reanchor"}, NEW w, Goto(Sched, l, w), w.close = defaultDeadline(now, window)
      PROVE  OpensInTime(pc[Sched], loc[Sched])'
  <2>1. w.close > now + minReminderLead
    BY <1>5, <1>t, DeadlineLead
  <2>2. l # "status" /\ l \in {"fresh", "reanchor", "status"}
    OBVIOUS
  <2> QED BY <1>1, <1>5, <1>t, <2>1, <2>2, ArrivesInTime
<1>6. ASSUME NEW d \in EarliestDrafts, ~NeedsReanchor(d), NEW w, Goto(Sched, "status", w),
             w.issue = d, w.close = issues[d].deadline
      PROVE  OpensInTime(pc[Sched], loc[Sched])'
  <2>1. issues[d].deadline \in Int
    BY <1>t, RowsType DEF EarliestDrafts
  <2>2. w.close > now + minReminderLead
    BY <1>6, <1>t, <2>1 DEF NeedsReanchor, minReminderLead
  <2> QED BY <1>1, <1>6, <1>t, <2>2, ArrivesInTime
<1> HIDE DEF fresh
<1> QED BY <1>2, <1>3, <1>4, <1>5, <1>6

\* The scheduler's other steps lead elsewhere.
LEMMA OtherStepsInTime ==
    ASSUME TypeInv,
           \/ TakeEvent \/ GuardEvent \/ SendMail \/ MarkEventFired \/ CheckClose \/ ReconcileAutoCreate
           \/ SharedStep(Sched) /\ ~CreateFresh(Sched)
           \/ Fault(Sched) \/ LifecycleFault(Sched)
    PROVE  OpensInTime(pc[Sched], loc[Sched])'
<1> DEFINE Elsewhere == {"idle", "mark", "guard", "remind", "close", "closeW", "open", "announce", "publishNext",
                         "qPending", "qClear", "qDraft", "qReanchor", "qCreate", "qEvent", "lifecycle"}
<1>t. TypeOK /\ loc[Sched].ret \in {"idle", "mark"} /\ \A ev : HandlerOf(ev) \in {"remind", "open", "close"}
  BY ProcFacts DEF TypeInv, TypeOK, Local, HandlerOf, Procs
<1>1. \E l \in Elsewhere : \E w : Goto(Sched, l, w)
  <2>1. CASE TakeEvent \/ GuardEvent
    BY <1>t, <2>1, Zenon DEF TakeEvent, GuardEvent
  <2>2. CASE SendMail \/ MarkEventFired \/ CheckClose \/ ReconcileAutoCreate
    BY <2>2, Zenon DEF SendMail, MarkEventFired, CheckClose, ReconcileAutoCreate
  <2>3. CASE SharedStep(Sched) /\ ~CreateFresh(Sched)
    <3>1. CASE PublishIssue(Sched) \/ AfterPublish(Sched)
      BY <1>t, <3>1, Zenon DEF PublishIssue, AfterPublish
    <3>2. CASE QueuePending(Sched) \/ QueueClear(Sched) \/ QueueDraft(Sched)
      BY <1>t, <3>2, Zenon DEF QueuePending, QueueClear, QueueDraft
    <3>3. CASE QueueReanchor(Sched) \/ QueueCreate(Sched) \/ QueueEvent(Sched)
      BY <1>t, <3>3, Zenon DEF QueueReanchor, QueueCreate, QueueEvent, UpdateIssueSchedule, CreateIssue
    <3>4. CASE SetCollecting(Sched) \/ ScheduleIssueEvents(Sched)
      BY <3>4, Zenon DEF SetCollecting, ScheduleIssueEvents, AfterLifecycle
    <3> QED BY <2>3, <3>1, <3>2, <3>3, <3>4 DEF SharedStep
  <2>4. CASE Fault(Sched)
    BY <1>t, <2>4 DEF Fault, OnFault
  <2>5. CASE LifecycleFault(Sched)
    BY <2>5, Zenon DEF LifecycleFault, AfterLifecycle
  <2> QED BY <2>1, <2>2, <2>3, <2>4, <2>5
<1> QED BY <1>1, <1>t, ElsewhereInTime

\* Every step keeps the invariant: while the scheduler opens a round nobody else acts.
LEMMA NextOpening == ~Overlap /\ OpeningInv /\ [Next]_vars => OpeningInv'
<1> SUFFICES ASSUME ~Overlap, OpeningInv, [Next]_vars PROVE OpensInTime(pc[Sched], loc[Sched])'
  BY NextCollecting DEF OpeningInv
<1>0. TypeInv /\ TypeOK /\ Solo /\ Sched \in Procs
  BY DEF OpeningInv, CollectingInv, TypeInv, Procs
<1>1. CASE EnvStep \/ UNCHANGED vars
  <2>1. issues' = issues /\ (UNCHANGED <<pc, loc>> \/ pc'[Sched] = "idle")
    BY <1>0, <1>1, EnvStill
  <2>2. CASE pc'[Sched] = "idle"
    BY <2>2 DEF OpensInTime
  <2>3. CASE UNCHANGED <<pc, loc>> /\ pc'[Sched] # "idle"
    <3>1. now' = now
      BY <1>0, <1>1, <2>3 DEF EnvStep, Tick, Crash, Restart, FetchOverdue, BeginRestore, Begin, AllIdle, env, vars
    <3> QED BY <2>1, <2>3, <3>1 DEF OpeningInv, OpensInTime
  <2> QED BY <2>1, <2>2, <2>3
<1>2. ASSUME NEW a \in Admins, ~(BeginRestore(a) /\ Begin(a)),
             Begin(a) \/ AdminStep(a) \/ Fault(a) \/ LifecycleFault(a)
      PROVE  OpensInTime(pc[Sched], loc[Sched])'
  <2>1. a \in Procs /\ a # Sched
    BY ParamAssumption DEF Procs
  <2>2. MayAct(a)
    BY <1>0, <1>2, <2>1, ActsInTurn DEF AdminStep
  <2>3. pc[Sched] = "idle"
    BY <1>0, <2>1, <2>2 DEF Solo, MayAct, Idle, AllIdle
  <2>4. Opens(a)
    BY <1>0, <1>2, <2>1, SharedOpens, AdminOpens, FaultOpens DEF OpeningInv, CollectingInv, AdminStep
  <2>5. pc'[Sched] = pc[Sched]
    BY <1>0, <2>1, <2>4 DEF Opens, Goto, TypeOK
  <2> QED BY <2>3, <2>5 DEF OpensInTime
<1>3. CASE SchedStep \/ ReconcileAutoCreate \/ Fault(Sched) \/ LifecycleFault(Sched)
  BY <1>0, <1>3, FreshInTime, ReanchoredInTime, NextIssueInTime, OtherStepsInTime DEF SchedStep
<1> QED BY <1>1, <1>2, <1>3 DEF EnvStep, Next, Procs

\* The scheduler opens a round with more than a reminder's lead left to answer:
\* CreateNextIssue moves a deadline that is near or past.
THEOREM OpensWithTimeLeft == ~Overlap /\ Spec => NeverOpensExpired
<1> SUFFICES ASSUME ~Overlap PROVE Spec => NeverOpensExpired
  OBVIOUS
<1>1. OpeningInv => [(pc[Sched] = "status" /\ pc'[Sched] = "lifecycle")
          => issues[loc[Sched].issue].deadline > now + minReminderLead]_vars
  BY DEF OpeningInv, OpensInTime
<1>2. Init => OpeningInv
  BY InitCollecting DEF OpeningInv, OpensInTime, Init, Procs
<1>3. OpeningInv /\ [Next]_vars => OpeningInv'
  BY NextOpening
<1> QED BY <1>1, <1>2, <1>3, PTL DEF Spec, NeverOpensExpired

-----------------------------------------------------------------------------
(* The rounds follow their cycle.                                          *)

\* No round changes its status, or one goes from a status to another.
Still == \A i \in Issues : issues'[i].status = issues[i].status

Advances(i, from, to) ==
    /\ issues[i].status = from /\ issues'[i].status = to
    /\ \A j \in Issues \ {i} : issues'[j].status = issues[j].status

\* What the cycle says of each.
LEMMA StillCycle ==
    ASSUME Still
    PROVE  Cycle!CycleNext \/ UNCHANGED [i \in Issues |-> issues[i].status]
BY DEF Still

LEMMA AdvancesCycle ==
    ASSUME NEW i \in Issues
    PROVE  /\ Advances(i, "none", "draft") /\ Drafts = {} => Cycle!CycleNext
           /\ Advances(i, "draft", "collecting") /\ Collecting = {} => Cycle!CycleNext
           /\ Advances(i, "draft", "published") \/ Advances(i, "collecting", "published") => Cycle!CycleNext
<1> DEFINE st == [j \in Issues |-> issues[j].status]
<1>1. ASSUME NEW from, NEW to, Advances(i, from, to)
      PROVE  st[i] = from /\ st' = [st EXCEPT ![i] = to]
  BY <1>1 DEF Advances
<1>2. Advances(i, "none", "draft") /\ Drafts = {} => Cycle!Draft(i)
  BY <1>1 DEF Cycle!Draft, Cycle!At, Drafts, WithStatus
<1>3. Advances(i, "draft", "collecting") /\ Collecting = {} => Cycle!Open(i)
  BY <1>1 DEF Cycle!Open, Cycle!At, Collecting, WithStatus
<1>4. Advances(i, "draft", "published") \/ Advances(i, "collecting", "published") => Cycle!Publish(i)
  BY <1>1 DEF Cycle!Publish
<1> QED BY <1>2, <1>3, <1>4 DEF Cycle!CycleNext

\* Publishing, opening and drafting a round are steps of the cycle: the process
\* relies on what the cycle asks.
LEMMA TurnsCycle ==
    ASSUME SerialInv, NEW p \in Procs,
           PublishIssue(p) \/ SetCollecting(p) \/ QueueCreate(p) \/ CreateFresh(p)
    PROVE  Still \/ Cycle!CycleNext
<1> DEFINE v == loc[p]
<1>t. /\ TypeInv /\ issues \in [Issues -> Issue] /\ Hand(pc[p], v) /\ SchedHand(pc[Sched], loc[Sched])
      /\ NoneCollecting
  BY DEF SerialInv, CollectingInv, TypeInv, TypeOK, Hands
<1>1. CASE PublishIssue(p)
  <2>1. issues' = [issues EXCEPT ![v.issue].status = "published"] /\ issues[v.issue].status # "none"
    BY <1>1, <1>t DEF PublishIssue, Hand, SchedHand
  <2>2. CASE v.issue \in Issues /\ issues[v.issue].status # "published"
    <3>1. issues[v.issue].status \in {"draft", "collecting"}
      BY <1>t, <2>1, <2>2 DEF Issue, Status
    <3>2. \E st \in {"draft", "collecting"} : Advances(v.issue, st, "published")
      BY <1>t, <2>1, <2>2, <3>1 DEF Advances, Issue
    <3> QED BY <2>2, <3>2, AdvancesCycle
  <2>3. CASE v.issue \notin Issues \/ issues[v.issue].status = "published"
    BY <1>t, <2>1, <2>3 DEF Still, Issue
  <2> QED BY <2>2, <2>3
<1>2. CASE SetCollecting(p)
  <2>1. v.issue \in Drafts /\ Collecting = {}
    BY <1>2, <1>t DEF SetCollecting, Hand, NoneCollecting, OpeningPC
  <2>2. v.issue \in Issues /\ Advances(v.issue, "draft", "collecting")
    BY <1>2, <1>t, <2>1 DEF SetCollecting, Drafts, WithStatus, Advances, Issue
  <2> QED BY <2>1, <2>2, AdvancesCycle
<1>3. CASE QueueCreate(p) \/ CreateFresh(p)
  <2>1. Drafts = {} /\ \E l : CreateIssue(p, l)
    BY <1>3, <1>t DEF QueueCreate, CreateFresh, Hand
  <2>2. PICK i \in FreshIssues :
           issues' = [issues EXCEPT ![i] = [status |-> "draft", opensAt |-> v.opens, deadline |-> v.close]]
    BY <2>1 DEF CreateIssue
  <2>3. i \in Issues /\ Advances(i, "none", "draft")
    BY <1>t, <2>2 DEF FreshIssues, Advances
  <2> QED BY <2>1, <2>3, AdvancesCycle
<1> QED BY <1>1, <1>2, <1>3

\* So are the transactions of the admin's handlers.
LEMMA WritesCycle ==
    ASSUME SerialInv, NEW a \in Admins, OpenDraftEarly(a) \/ ApplySchedule(a) \/ UpdateDraftIssue(a)
    PROVE  Still \/ Cycle!CycleNext
<1> DEFINE v == loc[a]
<1>t. TypeInv /\ issues \in [Issues -> Issue] /\ NoneCollecting /\ a \in Procs
  BY DEF SerialInv, CollectingInv, TypeInv, TypeOK, Procs
<1>1. CASE OpenDraftEarly(a)
  <2>1. Collecting = {}
    BY <1>1, <1>t DEF OpenDraftEarly, NoneCollecting, OpeningPC
  <2>2. CASE /\ v.issue \in Drafts
             /\ issues' = [issues EXCEPT ![v.issue] = [status |-> "collecting",
                                        opensAt |-> v.opens, deadline |-> v.close]]
    <3>1. v.issue \in Issues /\ Advances(v.issue, "draft", "collecting")
      BY <1>t, <2>2 DEF Drafts, WithStatus, Advances
    <3> QED BY <2>1, <3>1, AdvancesCycle
  <2>3. CASE issues' = issues
    BY <2>3 DEF Still
  <2> QED BY <1>1, <2>2, <2>3 DEF OpenDraftEarly
<1>2. CASE ApplySchedule(a)
  <2> DEFINE moved == IF v.close = Null THEN issues ELSE [issues EXCEPT ![v.issue].deadline = v.close]
             pinned == [status |-> "draft", opensAt |-> v.next,
                        deadline |-> atLocalHour(v.next + Days(v.days), deadlineLocalHour)]
  <2>1. \/ issues' = issues \/ issues' = moved
        \/ \E d \in (IF Drafts = {} THEN FreshIssues ELSE EarliestDrafts) : issues' = [moved EXCEPT ![d] = pinned]
    BY <1>2, Zenon DEF ApplySchedule, db
  <2>2. /\ \A i \in Issues : moved[i].status = issues[i].status
        /\ DOMAIN moved = Issues /\ pinned.status = "draft"
    BY <1>t DEF Issue
  <2> HIDE DEF moved, pinned
  <2>3. CASE issues' = issues \/ issues' = moved
    BY <2>2, <2>3 DEF Still
  <2>4. ASSUME NEW d \in (IF Drafts = {} THEN FreshIssues ELSE EarliestDrafts), issues' = [moved EXCEPT ![d] = pinned]
        PROVE  Still \/ Cycle!CycleNext
    <3>1. /\ d \in Issues /\ issues'[d].status = "draft"
          /\ \A j \in Issues \ {d} : issues'[j].status = issues[j].status
      BY <2>2, <2>4 DEF FreshIssues, EarliestDrafts, Drafts, WithStatus
    <3>2. CASE Drafts = {}
      <4>1. issues[d].status = "none"
        BY <2>4, <3>2 DEF FreshIssues
      <4> QED BY <3>1, <3>2, <4>1, AdvancesCycle DEF Advances
    <3>3. CASE Drafts # {}
      <4>1. issues[d].status = "draft"
        BY <2>4, <3>3 DEF EarliestDrafts, Drafts, WithStatus
      <4> QED BY <3>1, <4>1 DEF Still
    <3> QED BY <3>2, <3>3
  <2> QED BY <2>1, <2>3, <2>4
<1>3. CASE UpdateDraftIssue(a)
  <2>1. issues' = issues \/ issues' = [issues EXCEPT ![v.issue].deadline = v.close]
    BY <1>3 DEF UpdateDraftIssue
  <2> QED BY <1>t, <2>1 DEF Still, Issue
<1> QED BY <1>1, <1>2, <1>3

\* Every step is one of the cycle, or leaves the statuses as they are.
LEMMA NextCycle ==
    ASSUME ~Overlap, SerialInv, [Next]_vars
    PROVE  Still \/ Cycle!CycleNext
<1>t. TypeInv /\ TypeOK /\ Solo
  BY DEF SerialInv, CollectingInv, TypeInv
<1>0. issues' = issues => Still
  BY DEF Still
<1>1. CASE EnvStep \/ UNCHANGED vars
  BY <1>0, <1>1, <1>t, EnvStill
<1>2. ASSUME NEW p \in Procs, SharedStep(p) \/ Fault(p) \/ LifecycleFault(p)
      PROVE  Still \/ Cycle!CycleNext
  <2>1. CASE PublishIssue(p) \/ SetCollecting(p) \/ QueueCreate(p) \/ CreateFresh(p)
    BY <2>1, TurnsCycle
  <2>2. CASE AfterPublish(p) \/ QueuePending(p) \/ QueueClear(p) \/ QueueDraft(p) \/ QueueEvent(p)
             \/ ScheduleIssueEvents(p) \/ Fault(p) \/ LifecycleFault(p)
    BY <1>0, <2>2 DEF AfterPublish, QueuePending, QueueClear, QueueDraft, QueueEvent, ScheduleIssueEvents,
       Fault, LifecycleFault, db
  <2>3. CASE QueueReanchor(p)
    BY <1>t, <2>3, ReanchoredStatus DEF QueueReanchor, Still
  <2> QED BY <1>2, <2>1, <2>2, <2>3 DEF SharedStep
<1>3. CASE \/ TakeEvent \/ GuardEvent \/ SendMail \/ MarkEventFired
           \/ CheckClose \/ CreateNextIssue \/ ReanchorDraft \/ ReconcileAutoCreate
  <2>1. CASE ReanchorDraft
    BY <1>t, <2>1, ReanchoredStatus DEF ReanchorDraft, Still
  <2>2. CASE ~ReanchorDraft
    BY <1>0, <1>3, <2>2 DEF TakeEvent, GuardEvent, SendMail, MarkEventFired, CheckClose, CreateNextIssue,
       ReconcileAutoCreate, db
  <2> QED BY <2>1, <2>2
<1>4. ASSUME NEW a \in Admins,
             \/ Begin(a) \/ OpenDraftEarly(a) \/ ApplySchedule(a) \/ UpdateDraftIssue(a)
             \/ UpdateSettings(a) \/ CancelEvents(a)
      PROVE  Still \/ Cycle!CycleNext
  <2>1. CASE OpenDraftEarly(a) \/ ApplySchedule(a) \/ UpdateDraftIssue(a)
    BY <2>1, WritesCycle
  <2>2. CASE Begin(a) \/ UpdateSettings(a) \/ CancelEvents(a)
    BY <1>0, <2>2 DEF UpdateSettings, CancelEvents, Begin, BeginPublish, BeginCreate, BeginMoveDeadline,
       BeginPinNext, BeginMoveDraft, BeginSettings, BeginArchive, BeginRestore, BeginCreateBlind, db
  <2> QED BY <1>4, <2>1, <2>2
<1> QED BY <1>1, <1>2, <1>3, <1>4 DEF EnvStep, Next, SchedStep, AdminStep, Procs

\* A launched Loop's first round collects.
LEMMA InitCycle ==
    ASSUME Init
    PROVE  Cycle!CycleInit
<1>1. 1 \in Issues
  BY ParamAssumption DEF Issues
<1>2. [i \in Issues |-> issues[i].status] = [i \in Issues |-> IF i = 1 THEN "collecting" ELSE "none"]
  BY DEF Init
<1> QED BY <1>1, <1>2 DEF Cycle!CycleInit

\* One at a time, the handlers and the scheduler implement the cycle, step by step:
\* the updates that do not look at the status they overwrite are reached only by a
\* process that has looked, and nobody has changed it since.
THEOREM CycleImplemented == ~Overlap /\ ~CarriesOn /\ Spec => FollowsTheCycle
<1> SUFFICES ASSUME ~Overlap, ~CarriesOn PROVE Spec => FollowsTheCycle
  OBVIOUS
<1>1. SerialInv /\ [Next]_vars => [Cycle!CycleNext]_([i \in Issues |-> issues[i].status])
  BY NextCycle, StillCycle
<1>2. SerialInv /\ [Next]_vars => SerialInv'
  BY NextSerial
<1>3. Init => Cycle!CycleInit
  BY InitCycle
<1> QED BY <1>1, <1>2, <1>3, InitSerial, PTL DEF Spec, FollowsTheCycle, Cycle!CycleSpec
=============================================================================
