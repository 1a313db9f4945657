---------------------------- MODULE RoundsProofs ----------------------------
(***************************************************************************)
(* Proofs about Rounds, for every number of admins and issues, every       *)
(* cadence, window, move and pin, and every bound.                         *)
(***************************************************************************)
EXTENDS Rounds, TLAPS

-----------------------------------------------------------------------------
(* The inductive invariant behind type correctness.                        *)

\* Where a process is about to use the issue it has in hand.
NeedsIssue == {"guard", "remind", "close", "closeW", "announce", "publish", "publishNext",
               "status", "lifecycle", "reanchor", "qReanchor", "qEvent", "early"}

IssueInHand ==
    \A p \in Procs :
        (pc[p] \in NeedsIssue \/ (pc[p] = "apply" /\ loc[p].close # Null)) => loc[p].issue \in Issues

TypeInv == TypeOK /\ IssueInHand

-----------------------------------------------------------------------------
(* The operators.                                                          *)

\* An idle handler holds nothing of the wrong type.
LEMMA NoLocalType == NoLocal \in Local
BY DEF NoLocal, Local, Null

\* Pinning a time to a local hour gives a time.
LEMMA HourType ==
    ASSUME NEW t \in Int, NEW h \in Int
    PROVE  atLocalHour(t, h) \in Int
BY DEF atLocalHour

\* The deadlines and openings computed from the settings are times.
LEMMA CalendarType ==
    ASSUME now \in Nat, NEW t \in Int, NEW days \in Nat
    PROVE  /\ defaultDeadline(t, days) \in Int
           /\ cadenceNextOpen(t) \in Int
<1>1. t + Days(effectiveWindowDays(days)) \in Int
  BY DEF effectiveWindowDays, Days, minSubmissionWindowDays
<1>2. nextIssueOpenTime(t) \in Int
  BY ParamAssumption DEF nextIssueOpenTime, Days
<1>3. atLocalHour(nextIssueOpenTime(t), nextOpenLocalHour) \in Int
  BY <1>2, HourType DEF nextOpenLocalHour
<1>4. defaultDeadline(t, days) \in Int
  BY <1>1, HourType DEF defaultDeadline, deadlineLocalHour
<1>5. cadenceNextOpen(t) \in Int
  BY <1>3 DEF cadenceNextOpen, Days
<1> QED BY <1>4, <1>5

\* The events computed for a round are event specifications.
LEMMA SpecsType ==
    ASSUME now \in Nat, NEW dl \in Int
    PROVE  /\ issueEventSpecs(dl) \subseteq EventSpec
           /\ \A i \in Issues : rescheduledIssueEventSpecs(i, dl) \subseteq EventSpec
<1>1. /\ atLocalHour(dl - Days(3), reminderLocalHour) \in Int
      /\ atLocalHour(dl - Days(1), reminderLocalHour) \in Int
  BY HourType DEF Days, reminderLocalHour
<1>2. SpecsWithoutLead(dl) \subseteq EventSpec
  BY <1>1 DEF SpecsWithoutLead, EventSpec, EventType, Mails, Reminders
<1>3. issueEventSpecs(dl) \subseteq EventSpec
  BY <1>2 DEF issueEventSpecs
<1>4. [type |-> "reminder_2", at |-> now, imm |-> TRUE] \in EventSpec
  BY DEF EventSpec, EventType, Mails, Reminders
<1> QED BY <1>3, <1>4 DEF rescheduledIssueEventSpecs

\* A specification becomes a row of the event table.
LEMMA RowType ==
    ASSUME NEW tx \in Nat, NEW i \in Issues, NEW s \in EventSpec
    PROVE  Row(tx, i, s) \in Event
BY DEF Row, Event, EventSpec, Null

\* Inserting specifications leaves a set of rows.
LEMMA InsertType ==
    ASSUME nextTx \in Nat, NEW es \in SUBSET Event, NEW i \in Issues, NEW specs \in SUBSET EventSpec
    PROVE  Insert(es, i, specs) \subseteq Event
BY RowType DEF Insert

\* A step of one process keeps the types of the two tables of processes.
LEMMA GotoType ==
    ASSUME TypeOK, NEW p \in Procs, NEW l \in PC, NEW v \in Local, Goto(p, l, v)
    PROVE  /\ pc' \in [Procs -> PC] /\ loc' \in [Procs -> Local]
           /\ pc'[p] = l
           /\ l # "idle" => loc'[p] = v
           /\ \A q \in Procs \ {p} : pc'[q] = pc[q] /\ loc'[q] = loc[q]
BY NoLocalType DEF Goto, TypeOK

\* A step of p that goes on at l with v keeps every issue in hand.
LEMMA GotoInHand ==
    ASSUME TypeInv, NEW p \in Procs, NEW l \in PC, NEW v \in Local, Goto(p, l, v),
           (l \in NeedsIssue \/ (l = "apply" /\ v.close # Null)) => v.issue \in Issues
    PROVE  IssueInHand'
BY GotoType DEF TypeInv, IssueInHand, NeedsIssue

\* The rounds and rows that a step reads, and the sets it picks from, have
\* their types.
LEMMA RowsType ==
    ASSUME TypeOK
    PROVE  /\ \A i \in Issues : issues[i] \in Issue
           /\ \A i \in Issues : /\ issues[i].opensAt \in Int /\ issues[i].deadline \in Int
           /\ Drafts \subseteq Issues /\ Collecting \subseteq Issues
           /\ EarliestDrafts \subseteq Issues /\ ActiveIssues \subseteq Issues
           /\ FreshIssues \subseteq Issues /\ WithStatus("published") \subseteq Issues
BY DEF TypeOK, Issue, Drafts, Collecting, WithStatus, EarliestDrafts, ActiveIssues, FreshIssues

-----------------------------------------------------------------------------
(* Every action keeps the types.                                           *)

\* A launched Loop satisfies the invariant.
LEMMA InitType == Init => TypeInv
<1> SUFFICES ASSUME Init PROVE TypeInv
  OBVIOUS
<1>1. now \in Nat /\ window \in Nat /\ nextTx \in Nat
  BY ParamAssumption DEF Init
<1>2. defaultDeadline(now, window) \in Int
  BY <1>1, CalendarType
<1>3. issueEventSpecs(defaultDeadline(now, window)) \subseteq EventSpec
  BY <1>1, <1>2, SpecsType
<1>4. 1 \in Issues
  BY ParamAssumption DEF Issues
<1>5. \A s \in EventSpec : Row(0, 1, s) \in Event
  BY <1>4, RowType
<1>6. events \subseteq Event
  BY <1>3, <1>5 DEF Init
<1>7. issues \in [Issues -> Issue]
  BY <1>1, <1>2 DEF Init, Issue, Status
<1>8. TypeOK
  BY <1>1, <1>6, <1>7, NoLocalType DEF Init, TypeOK, PC
<1> QED BY <1>8 DEF TypeInv, IssueInHand, Init, NeedsIssue

\* What every process step must show: where it goes on, with which locals,
\* and that the rows it leaves are rows.
LEMMA StepType ==
    ASSUME TypeInv, NEW p \in Procs, NEW l \in PC, NEW v \in Local, Goto(p, l, v),
           (l \in NeedsIssue \/ (l = "apply" /\ v.close # Null)) => v.issue \in Issues,
           issues' \in [Issues -> Issue], events' \subseteq Event, nextTx' \in Nat,
           active' \in BOOLEAN, auto' \in BOOLEAN, window' \in Nat,
           queue' \subseteq Event, spent' \in [requests : Nat, troubles : Nat],
           now' \in Nat, up' \in BOOLEAN, passed' \in BOOLEAN
    PROVE  TypeInv'
BY GotoType, GotoInHand DEF TypeInv, TypeOK

\* The clock, a crash, a restart and the read of overdue events keep the types.
LEMMA EnvironmentType ==
    ASSUME TypeInv, Tick \/ Crash \/ Restart \/ FetchOverdue
    PROVE  TypeInv'
<1>1. CASE Tick
  <2>1. now' \in Nat
    BY <1>1 DEF Tick, TypeInv, TypeOK
  <2>2. passed' = FALSE /\ UNCHANGED <<up, db, pc, loc, queue, spent>>
    BY <1>1 DEF Tick
  <2>3. TypeOK'
    BY <2>1, <2>2 DEF TypeInv, TypeOK, db
  <2>4. IssueInHand'
    BY <2>2 DEF TypeInv, IssueInHand
  <2> QED BY <2>3, <2>4 DEF TypeInv
<1>2. CASE Crash
  <2>1. pc' \in [Procs -> PC] /\ loc' \in [Procs -> Local]
    BY <1>2, NoLocalType DEF Crash, PC
  <2>2. spent' \in [requests : Nat, troubles : Nat]
    BY <1>2 DEF Crash, TypeInv, TypeOK
  <2>4. up' = FALSE /\ queue' = {} /\ UNCHANGED <<now, passed, db>>
    BY <1>2 DEF Crash
  <2>5. TypeOK'
    BY <2>1, <2>2, <2>4 DEF TypeInv, TypeOK, db
  <2>3. IssueInHand'
    BY <1>2 DEF Crash, IssueInHand, NeedsIssue
  <2> QED BY <2>3, <2>5 DEF TypeInv
<1>3. CASE Restart
  BY <1>3 DEF Restart, TypeInv, TypeOK, IssueInHand, db
<1>4. CASE FetchOverdue
  BY <1>4 DEF FetchOverdue, Overdue, TypeInv, TypeOK, IssueInHand, db
<1> QED BY <1>1, <1>2, <1>3, <1>4

\* What a process holds has its type.
LEMMA ProcFacts ==
    ASSUME TypeInv, NEW p \in Procs
    PROVE  /\ loc[p] \in Local /\ pc[p] \in PC
           /\ Sched \in Procs /\ Admins \subseteq Procs
           /\ loc[p].opens \in Int /\ loc[p].close \in Int /\ loc[p].next \in Int
           /\ loc[p].specs \subseteq EventSpec /\ loc[p].days \in Nat
           /\ loc[p].on \in BOOLEAN /\ loc[p].ret \in PC
           /\ pc[p] \in NeedsIssue => loc[p].issue \in Issues
BY DEF TypeInv, TypeOK, IssueInHand, Local, PC, SchedPC, Procs

\* The scheduler's own steps.
LEMMA SchedulerType ==
    ASSUME TypeInv,
           \/ TakeEvent \/ GuardEvent \/ SendMail \/ MarkEventFired
           \/ CheckClose \/ CreateNextIssue \/ ReanchorDraft \/ ReconcileAutoCreate
    PROVE  TypeInv'
<1> DEFINE v == loc[Sched]
<1>0. /\ Sched \in Procs /\ v \in Local /\ TypeOK
      /\ pc[Sched] \in NeedsIssue => v.issue \in Issues
  BY ProcFacts DEF Procs, TypeInv
<1>l. {"idle", "guard", "remind", "close", "closeW", "open", "mark", "fresh", "reanchor", "status",
       "qPending"} \subseteq PC
  BY DEF PC, SchedPC, QueuePC, OpenPC
<1>1. CASE TakeEvent
  <2>1. PICK ev \in queue :
           /\ queue' = queue \ {ev}
           /\ Goto(Sched, IF IsEventPending(ev) THEN "guard" ELSE "idle",
                   [NoLocal EXCEPT !.ev = ev, !.issue = ev.issue, !.ret = "mark"])
    BY <1>1 DEF TakeEvent
  <2>2. ev \in Event /\ ev.issue \in Issues
    BY <1>0 DEF TypeOK, Event
  <2> DEFINE w == [NoLocal EXCEPT !.ev = ev, !.issue = ev.issue, !.ret = "mark"]
  <2>3. w \in Local /\ w.issue \in Issues
    BY <2>2, NoLocalType DEF NoLocal, Local
  <2>4. queue' \subseteq Event
    BY <2>1, <1>0 DEF TypeOK
  <2> QED BY <1>0, <1>1, <1>l, <2>1, <2>3, <2>4, StepType DEF TakeEvent, TypeOK, env, db, NeedsIssue
<1>2. CASE GuardEvent
  <2>1. HandlerOf(v.ev) \in {"remind", "close", "open"}
    BY DEF HandlerOf
  <2>2. (IF ~active \/ shouldSkipEvent(v.ev) THEN "mark" ELSE HandlerOf(v.ev))
            \in {"mark", "remind", "close", "open"}
    BY <2>1
  <2>3. v.issue \in Issues
    BY <1>0, <1>2 DEF GuardEvent, NeedsIssue
  <2> HIDE DEF v
  <2>4. Goto(Sched, IF ~active \/ shouldSkipEvent(v.ev) THEN "mark" ELSE HandlerOf(v.ev), v)
    BY <1>2 DEF GuardEvent, v
  <2> QED BY <1>0, <1>2, <1>l, <2>2, <2>3, <2>4, StepType DEF GuardEvent, TypeOK, env, db
<1>3. CASE SendMail
  <2>1. events' \subseteq Event
    <3>1. \A e \in Event, b \in BOOLEAN : [e EXCEPT !.logged = @ \/ b] \in Event
      BY DEF Event
    <3>2. events \subseteq Event
      BY <1>0 DEF TypeOK
    <3> QED BY <1>3, <3>1, <3>2 DEF SendMail
  <2>2. \E l \in {"mark", "idle"} : Goto(Sched, l, v)
    BY <1>3 DEF SendMail
  <2> QED BY <1>0, <1>3, <1>l, <2>1, <2>2, StepType DEF SendMail, TypeOK, env, NeedsIssue
<1>4. CASE MarkEventFired
  <2>1. events' \subseteq Event
    <3>1. \A e \in Event, t \in Int : [e EXCEPT !.firedAt = t, !.logged = FALSE] \in Event
      BY DEF Event
    <3>2. events \subseteq Event /\ now \in Int
      BY <1>0 DEF TypeOK
    <3> QED BY <1>4, <3>1, <3>2 DEF MarkEventFired
  <2> QED BY <1>0, <1>4, <1>l, <2>1, StepType DEF MarkEventFired, TypeOK, env, NeedsIssue
<1>5. CASE CheckClose
  <2>1. \E l \in {"mark", "closeW"} : Goto(Sched, l, v)
    BY <1>5 DEF CheckClose
  <2>2. v.issue \in Issues
    BY <1>0, <1>5 DEF CheckClose, NeedsIssue
  <2> QED BY <1>0, <1>5, <1>l, <2>1, <2>2, StepType DEF CheckClose, TypeOK, env, db
<1>6. CASE CreateNextIssue
  <2> DEFINE fresh == [v EXCEPT !.opens = now, !.close = defaultDeadline(now, window)]
  <2>0. now \in Int /\ defaultDeadline(now, window) \in Int
    BY <1>0, CalendarType DEF TypeOK
  <2>1. fresh \in Local
    BY <1>0, <2>0 DEF Local
  <2>2. \A d \in EarliestDrafts :
           /\ d \in Issues
           /\ [fresh EXCEPT !.issue = d] \in Local
           /\ [fresh EXCEPT !.issue = d].issue = d
           /\ [v EXCEPT !.issue = d, !.close = issues[d].deadline] \in Local
           /\ [v EXCEPT !.issue = d, !.close = issues[d].deadline].issue = d
    BY <1>0, <2>1, RowsType DEF Local
  <2> DEFINE Typed == \E l \in {"mark", "fresh", "reanchor", "status"}, w \in Local :
                         /\ Goto(Sched, l, w)
                         /\ l \in {"reanchor", "status"} => w.issue \in Issues
  <2>3. Typed
    <3>1. CASE Goto(Sched, "mark", v)
      BY <3>1, <1>0
    <3>2. CASE Goto(Sched, "fresh", fresh)
      BY <3>2, <2>1
    <3>3. ASSUME NEW d \in EarliestDrafts, Goto(Sched, "reanchor", [fresh EXCEPT !.issue = d])
          PROVE  Typed
      BY <3>3, <2>2
    <3>4. ASSUME NEW d \in EarliestDrafts,
                 Goto(Sched, "status", [v EXCEPT !.issue = d, !.close = issues[d].deadline])
          PROVE  Typed
      BY <3>4, <2>2
    <3> QED BY <1>6, <3>1, <3>2, <3>3, <3>4 DEF CreateNextIssue
  <2> QED BY <1>0, <1>6, <1>l, <2>3, StepType DEF CreateNextIssue, TypeOK, env, db, NeedsIssue
<1>7. CASE ReanchorDraft
  <2>1. v.issue \in Issues /\ v.opens \in Int /\ v.close \in Int
    BY <1>0, <1>7 DEF ReanchorDraft, NeedsIssue, Local
  <2>2. issues' \in [Issues -> Issue]
    BY <1>0, <1>7, <2>1 DEF ReanchorDraft, UpdateIssueSchedule, TypeOK, Issue
  <2>3. \E l \in {"status", "idle"} : Goto(Sched, l, v)
    BY <1>7 DEF ReanchorDraft, UpdateIssueSchedule
  <2> QED BY <1>0, <1>7, <1>l, <2>1, <2>2, <2>3, StepType DEF ReanchorDraft, TypeOK, env
<1>8. CASE ReconcileAutoCreate
  <2>1. PICK i \in WithStatus("published") :
           Goto(Sched, "qPending", [NoLocal EXCEPT !.opens = issues[i].opensAt, !.days = window])
    BY <1>8 DEF ReconcileAutoCreate
  <2>3. issues[i].opensAt \in Int /\ window \in Nat
    BY <1>0, RowsType DEF TypeOK
  <2>2. [NoLocal EXCEPT !.opens = issues[i].opensAt, !.days = window] \in Local
    BY <2>3, NoLocalType DEF Local
  <2> QED BY <1>0, <1>8, <1>l, <2>1, <2>2, StepType DEF ReconcileAutoCreate, TypeOK, env, db, NeedsIssue
<1> QED BY <1>1, <1>2, <1>3, <1>4, <1>5, <1>6, <1>7, <1>8

\* The steps the scheduler and the admin's handlers share.
LEMMA SharedType ==
    ASSUME TypeInv, NEW p \in Procs, SharedStep(p)
    PROVE  TypeInv'
<1> DEFINE v == loc[p]
<1>0. /\ v \in Local /\ TypeOK /\ v.ret \in {"idle", "mark"}
      /\ v.opens \in Int /\ v.close \in Int /\ v.days \in Nat
      /\ pc[p] \in NeedsIssue => v.issue \in Issues
  BY ProcFacts DEF TypeInv, Local
<1>l. {"idle", "mark", "announce", "publishNext", "status", "lifecycle",
       "qPending", "qClear", "qDraft", "qReanchor", "qCreate", "qEvent"} \subseteq PC
  BY DEF PC, SchedPC, QueuePC, OpenPC, AdminPC
<1>t. now \in Nat /\ window \in Nat /\ nextTx \in Nat /\ nextTx + 1 \in Nat /\ events \subseteq Event
  BY <1>0 DEF TypeOK
<1>1. CASE PublishIssue(p)
  <2>1. v.issue \in Issues
    BY <1>0, <1>1 DEF PublishIssue, NeedsIssue
  <2>2. issues' \in [Issues -> Issue]
    BY <1>0, <1>1, <2>1 DEF PublishIssue, TypeOK, Issue, Status
  <2>3. \E l \in {"announce", "publishNext"} : Goto(p, l, v)
    BY <1>1 DEF PublishIssue
  <2> QED BY <1>0, <1>1, <1>l, <2>1, <2>2, <2>3, StepType DEF PublishIssue, TypeOK, env
<1>2. CASE AfterPublish(p)
  <2> DEFINE w == [v EXCEPT !.opens = issues[v.issue].opensAt, !.days = window]
  <2>1. v.issue \in Issues
    BY <1>0, <1>2 DEF AfterPublish, NeedsIssue
  <2>2. w \in Local
    BY <1>0, <1>t, <2>1, RowsType DEF Local
  <2>3. \E l \in {"qPending", "idle", "mark"} : Goto(p, l, w)
    BY <1>0, <1>2 DEF AfterPublish
  <2> HIDE DEF w
  <2> QED BY <1>0, <1>2, <1>l, <2>2, <2>3, StepType DEF AfterPublish, TypeOK, env, db, NeedsIssue
<1>3. CASE QueuePending(p)
  <2>1. \E l \in {"qClear", "idle", "mark"} : Goto(p, l, v)
    BY <1>0, <1>3 DEF QueuePending
  <2> QED BY <1>0, <1>3, <1>l, <2>1, StepType DEF QueuePending, TypeOK, env, db, NeedsIssue
<1>4. CASE QueueClear(p)
  <2>1. Goto(p, "qDraft", v) /\ events' \subseteq Event
    BY <1>t, <1>4 DEF QueueClear, DropQueuedNext
  <2> QED BY <1>0, <1>4, <1>l, <2>1, StepType DEF QueueClear, TypeOK, env, NeedsIssue
<1>5. CASE QueueDraft(p)
  <2> DEFINE slot == cadenceNextOpen(v.opens)
             new == [v EXCEPT !.opens = slot, !.close = defaultDeadline(slot, v.days)]
             Typed == \E l \in {"qCreate", "qReanchor", "qEvent"}, w \in Local :
                         /\ Goto(p, l, w)
                         /\ l \in {"qReanchor", "qEvent"} => w.issue \in Issues
  <2>1. slot \in Int /\ defaultDeadline(slot, v.days) \in Int
    BY <1>0, <1>t, CalendarType
  <2>2. new \in Local
    <3> HIDE DEF slot
    <3> QED BY <1>0, <2>1 DEF Local
  <2>3. \A d \in EarliestDrafts :
           /\ d \in Issues
           /\ [new EXCEPT !.issue = d] \in Local
           /\ [new EXCEPT !.issue = d].issue = d
           /\ [v EXCEPT !.issue = d, !.opens = issues[d].opensAt] \in Local
           /\ [v EXCEPT !.issue = d, !.opens = issues[d].opensAt].issue = d
    <3> HIDE DEF slot
    <3> QED BY <1>0, <2>2, RowsType DEF Local
  <2>4. Typed
    <3>1. CASE Goto(p, "qCreate", new)
      BY <3>1, <2>2
    <3>2. ASSUME NEW d \in EarliestDrafts,
                 Goto(p, "qEvent", [v EXCEPT !.issue = d, !.opens = issues[d].opensAt])
          PROVE  Typed
      BY <3>2, <2>3
    <3>3. ASSUME NEW d \in EarliestDrafts, Goto(p, "qReanchor", [new EXCEPT !.issue = d])
          PROVE  Typed
      BY <3>3, <2>3
    <3> QED BY <1>5, <3>1, <3>2, <3>3 DEF QueueDraft
  <2> QED BY <1>0, <1>5, <1>l, <2>4, StepType DEF QueueDraft, TypeOK, env, db, NeedsIssue
<1>6. CASE QueueReanchor(p)
  <2>1. v.issue \in Issues
    BY <1>0, <1>6 DEF QueueReanchor, NeedsIssue
  <2>2. issues' \in [Issues -> Issue]
    BY <1>0, <1>6, <2>1 DEF QueueReanchor, UpdateIssueSchedule, TypeOK, Issue
  <2>3. \E l \in {"qEvent", "idle", "mark"} : Goto(p, l, v)
    BY <1>0, <1>6 DEF QueueReanchor, UpdateIssueSchedule
  <2> QED BY <1>0, <1>6, <1>l, <2>1, <2>2, <2>3, StepType DEF QueueReanchor, TypeOK, env
<1>7. CASE QueueCreate(p) \/ CreateFresh(p)
  <2>1. PICK i \in FreshIssues, l \in {"qEvent", "status"} :
           /\ issues' = [issues EXCEPT ![i] =
                            [status |-> "draft", opensAt |-> v.opens, deadline |-> v.close]]
           /\ Goto(p, l, [v EXCEPT !.issue = i])
    BY <1>7 DEF QueueCreate, CreateFresh, CreateIssue
  <2>2. i \in Issues
    BY <1>0, RowsType
  <2>3. issues' \in [Issues -> Issue]
    BY <1>0, <2>1, <2>2 DEF TypeOK, Issue, Status
  <2>4. [v EXCEPT !.issue = i] \in Local /\ [v EXCEPT !.issue = i].issue = i
    BY <1>0, <2>2 DEF Local
  <2>5. UNCHANGED <<env, events, nextTx, active, auto, window, queue, spent>>
    BY <1>7 DEF QueueCreate, CreateFresh
  <2> QED BY <1>0, <1>l, <2>1, <2>2, <2>3, <2>4, <2>5, StepType DEF TypeOK, env
<1>8. CASE QueueEvent(p)
  <2>1. v.issue \in Issues
    BY <1>0, <1>8 DEF QueueEvent, NeedsIssue
  <2>2. {[type |-> "create_next_issue", at |-> v.opens, imm |-> FALSE]} \subseteq EventSpec
    BY <1>0 DEF EventSpec, EventType
  <2>3. events' \subseteq Event
    BY <1>8, <1>t, <2>1, <2>2, InsertType DEF QueueEvent
  <2>4. Goto(p, v.ret, v) /\ nextTx' = nextTx + 1
    BY <1>8 DEF QueueEvent
  <2> QED BY <1>0, <1>8, <1>l, <1>t, <2>3, <2>4, StepType DEF QueueEvent, TypeOK, env, NeedsIssue
<1>9. CASE SetCollecting(p)
  <2>1. v.issue \in Issues
    BY <1>0, <1>9 DEF SetCollecting, NeedsIssue
  <2>2. issues' \in [Issues -> Issue]
    BY <1>0, <1>9, <2>1 DEF SetCollecting, TypeOK, Issue, Status
  <2>3. Goto(p, "lifecycle", v)
    BY <1>9 DEF SetCollecting
  <2> QED BY <1>0, <1>9, <1>l, <2>1, <2>2, <2>3, StepType DEF SetCollecting, TypeOK, env
<1>10. CASE ScheduleIssueEvents(p)
  <2>1. v.issue \in Issues
    BY <1>0, <1>10 DEF ScheduleIssueEvents, NeedsIssue
  <2>2. Queueable(v.issue, issueEventSpecs(v.close)) \subseteq EventSpec
    BY <1>0, <1>t, SpecsType DEF Queueable
  <2>3. events' \subseteq Event
    BY <1>10, <1>t, <2>1, <2>2, InsertType DEF ScheduleIssueEvents
  <2>4. (\E l \in {"idle", "mark"} : Goto(p, l, v)) /\ nextTx' = nextTx + 1
    BY <1>10 DEF ScheduleIssueEvents, AfterLifecycle
  <2> QED BY <1>0, <1>10, <1>l, <1>t, <2>3, <2>4, StepType DEF ScheduleIssueEvents, TypeOK, env, NeedsIssue
<1> QED BY <1>1, <1>2, <1>3, <1>4, <1>5, <1>6, <1>7, <1>8, <1>9, <1>10 DEF SharedStep

\* The admin's requests: what a handler reads.
LEMMA BeginType ==
    ASSUME TypeInv, NEW a \in Admins, Begin(a)
    PROVE  TypeInv'
<1>0. /\ TypeOK /\ a \in Procs /\ NoLocal \in Local
      /\ now \in Nat /\ window \in Nat /\ Windows \subseteq Nat /\ Moves \subseteq Int /\ PinDays \subseteq Int
  BY NoLocalType, ParamAssumption DEF TypeInv, TypeOK, Procs
<1>l. {"publish", "early", "fresh", "apply", "draftW", "settingsW", "cancel"} \subseteq PC
  BY DEF PC, AdminPC, OpenPC
<1>s. spent' \in [requests : Nat, troubles : Nat] /\ UNCHANGED <<env, queue>>
  <2>1. spent \in [requests : Nat, troubles : Nat]
    BY <1>0 DEF TypeOK
  <2>2. /\ [spent EXCEPT !.requests = @ + 1] \in [requests : Nat, troubles : Nat]
        /\ [spent EXCEPT !.requests = @ + 1, !.troubles = @ + 1] \in [requests : Nat, troubles : Nat]
    <3>1. spent.requests + 1 \in Nat /\ spent.troubles + 1 \in Nat
      BY <2>1
    <3>2. \A r, t \in Nat : /\ [spent EXCEPT !.requests = r] \in [requests : Nat, troubles : Nat]
                            /\ [spent EXCEPT !.requests = r, !.troubles = t] \in [requests : Nat, troubles : Nat]
      BY <2>1
    <3> QED BY <3>1, <3>2
  <2>3. \/ spent' = [spent EXCEPT !.requests = @ + 1]
        \/ spent' = [spent EXCEPT !.requests = @ + 1, !.troubles = @ + 1]
    BY Zenon DEF Begin
  <2>4. UNCHANGED <<env, queue>>
    BY DEF Begin
  <2> QED BY <2>2, <2>3, <2>4
<1> DEFINE Typed == \E l \in {"publish", "early", "fresh", "apply", "draftW", "settingsW", "cancel"}, w \in Local :
                       /\ Goto(a, l, w)
                       /\ (l \in {"publish", "early"} \/ (l = "apply" /\ w.close # Null)) => w.issue \in Issues
<1>1. ASSUME Typed, UNCHANGED <<issues, events, nextTx, auto, window>>, active' \in BOOLEAN
      PROVE  TypeInv'
  BY <1>0, <1>l, <1>s, <1>1, StepType DEF TypeOK, env, NeedsIssue
<1>2. CASE BeginPublish(a)
  <2>1. PICK i \in Collecting \cup Drafts : Goto(a, "publish", [NoLocal EXCEPT !.issue = i])
    BY <1>2 DEF BeginPublish
  <2>2. i \in Issues
    BY <1>0, RowsType
  <2>3. [NoLocal EXCEPT !.issue = i] \in Local /\ [NoLocal EXCEPT !.issue = i].issue = i
    BY <1>0, <2>2 DEF Local
  <2>4. Typed
    BY <2>1, <2>2, <2>3
  <2> QED BY <1>0, <1>1, <1>2, <2>4 DEF BeginPublish, db, TypeOK
<1>3. ASSUME NewRound(a)
      PROVE  Typed
  <2>1. PICK open \in {now} \cup {now + m : m \in Moves} :
        \E dl \in {defaultDeadline(open, window)} \cup {now + m : m \in Moves} :
           Goto(a, "fresh", [NoLocal EXCEPT !.opens = open, !.close = dl])
    BY <1>3 DEF NewRound
  <2>2. open \in Int /\ \A m \in Moves : now + m \in Int
    BY <1>0
  <2>3. PICK dl \in Int : Goto(a, "fresh", [NoLocal EXCEPT !.opens = open, !.close = dl])
    BY <1>0, <2>1, <2>2, CalendarType
  <2>4. [NoLocal EXCEPT !.opens = open, !.close = dl] \in Local
    BY <1>0, <2>2 DEF Local
  <2> QED BY <2>3, <2>4
<1>4. CASE BeginCreate(a)
  <2> DEFINE dl == defaultDeadline(now, window)
  <2>1. dl \in Int /\ issueEventSpecs(dl) \subseteq EventSpec
    BY <1>0, CalendarType, SpecsType
  <2>2. ASSUME NEW d \in EarliestDrafts,
               Goto(a, "early", [NoLocal EXCEPT !.issue = d, !.opens = now, !.close = dl,
                                                !.specs = issueEventSpecs(dl)])
        PROVE  Typed
    <3> DEFINE sp == issueEventSpecs(dl)
               w == [NoLocal EXCEPT !.issue = d, !.opens = now, !.close = dl, !.specs = sp]
    <3>1. d \in Issues
      BY <1>0, RowsType
    <3>2. sp \subseteq EventSpec
      BY <2>1
    <3>3. now \in Int
      BY <1>0
    <3>4. w \in Local /\ w.issue = d
      <4> HIDE DEF sp, dl
      <4> QED BY <1>0, <2>1, <3>1, <3>2, <3>3 DEF Local
    <3> QED BY <2>2, <3>1, <3>4
  <2>3. Typed
    BY <1>3, <1>4, <2>2 DEF BeginCreate
  <2> QED BY <1>0, <1>1, <1>4, <2>3 DEF BeginCreate, db, TypeOK
<1>5. CASE BeginCreateBlind(a)
  <2>1. Typed
    BY <1>3, <1>5 DEF BeginCreateBlind
  <2> QED BY <1>0, <1>1, <1>5, <2>1 DEF BeginCreateBlind, db, TypeOK
<1>6. CASE BeginMoveDeadline(a)
  <2>1. PICK i \in Collecting, m \in Moves :
           Goto(a, "apply", [NoLocal EXCEPT !.issue = i, !.close = now + m,
                               !.specs = rescheduledIssueEventSpecs(i, now + m)])
    BY <1>6 DEF BeginMoveDeadline
  <2> DEFINE sp == rescheduledIssueEventSpecs(i, now + m)
             w == [NoLocal EXCEPT !.issue = i, !.close = now + m, !.specs = sp]
  <2>2. i \in Issues /\ now + m \in Int
    BY <1>0, RowsType
  <2>3. sp \subseteq EventSpec
    BY <1>0, <2>2, SpecsType
  <2>4. w \in Local /\ w.issue = i
    <3> HIDE DEF sp
    <3> QED BY <1>0, <2>2, <2>3 DEF Local
  <2>5. Typed
    BY <2>1, <2>2, <2>4
  <2> QED BY <1>0, <1>1, <1>6, <2>5 DEF BeginMoveDeadline, db, TypeOK
<1>7. CASE BeginPinNext(a)
  <2>1. PICK k \in PinDays, w \in Windows :
           LET open == atLocalHour(now + Days(k), nextOpenLocalHour)
               pin == [NoLocal EXCEPT !.next = open, !.days = w]
           IN  \/ Goto(a, "apply", pin)
               \/ \E c \in Collecting, m \in Moves :
                     LET dl == atLocalHour(now + m, deadlineLocalHour)
                     IN  Goto(a, "apply", [pin EXCEPT !.issue = c, !.close = dl,
                                             !.specs = rescheduledIssueEventSpecs(c, dl)])
    BY <1>7 DEF BeginPinNext
  <2> DEFINE open == atLocalHour(now + Days(k), nextOpenLocalHour)
             pin == [NoLocal EXCEPT !.next = open, !.days = w]
  <2>2. open \in Int
    BY <1>0, HourType DEF Days, nextOpenLocalHour
  <2>3. pin \in Local /\ pin.close = Null
    <3> HIDE DEF open
    <3> QED BY <1>0, <2>2 DEF Local, NoLocal
  <2>4. ASSUME NEW c \in Collecting, NEW m \in Moves,
               Goto(a, "apply", [pin EXCEPT !.issue = c, !.close = atLocalHour(now + m, deadlineLocalHour),
                                   !.specs = rescheduledIssueEventSpecs(c, atLocalHour(now + m, deadlineLocalHour))])
        PROVE  Typed
    <3> DEFINE dl == atLocalHour(now + m, deadlineLocalHour)
               sp == rescheduledIssueEventSpecs(c, dl)
               u == [pin EXCEPT !.issue = c, !.close = dl, !.specs = sp]
    <3>1. c \in Issues /\ dl \in Int
      BY <1>0, RowsType, HourType DEF deadlineLocalHour
    <3>2. sp \subseteq EventSpec
      BY <1>0, <3>1, SpecsType
    <3>3. u \in Local /\ u.issue = c
      <4> HIDE DEF sp, dl, pin
      <4> QED BY <2>3, <3>1, <3>2 DEF Local
    <3> QED BY <2>4, <3>1, <3>3
  <2>5. ASSUME Goto(a, "apply", pin)
        PROVE  Typed
    BY <2>3, <2>5
  <2>6. Typed
    BY <2>1, <2>4, <2>5
  <2> QED BY <1>0, <1>1, <1>7, <2>6 DEF BeginPinNext, db, TypeOK
<1>8. CASE BeginMoveDraft(a)
  <2>1. PICK d \in Drafts, m \in Moves : Goto(a, "draftW", [NoLocal EXCEPT !.issue = d, !.close = now + m])
    BY <1>8 DEF BeginMoveDraft
  <2>2. d \in Issues /\ now + m \in Int
    BY <1>0, RowsType
  <2>3. [NoLocal EXCEPT !.issue = d, !.close = now + m] \in Local
    BY <1>0, <2>2 DEF Local
  <2>4. Typed
    BY <2>1, <2>3
  <2> QED BY <1>0, <1>1, <1>8, <2>4 DEF BeginMoveDraft, db, TypeOK
<1>9. CASE BeginSettings(a)
  <2>1. PICK w \in {window} \cup Windows, on \in BOOLEAN :
           Goto(a, "settingsW", [NoLocal EXCEPT !.on = on, !.days = w])
    BY <1>9, Zenon DEF BeginSettings
  <2>2. w \in Nat
    BY <1>0
  <2>4. [NoLocal EXCEPT !.on = on, !.days = w] \in Local
    BY <1>0, <2>2 DEF Local
  <2>3. Typed
    BY <2>1, <2>4
  <2> QED BY <1>0, <1>1, <1>9, <2>3 DEF BeginSettings, db, TypeOK
<1>10. CASE BeginArchive(a)
  <2>1. Typed
    BY <1>0, <1>10 DEF BeginArchive
  <2> QED BY <1>1, <1>10, <2>1 DEF BeginArchive
<1>11. CASE BeginRestore(a)
  <2>1. active' = TRUE /\ UNCHANGED <<pc, loc, issues, events, nextTx, auto, window>>
    BY <1>11 DEF BeginRestore
  <2>2. TypeOK'
    BY <1>0, <1>s, <2>1 DEF TypeOK, env
  <2> QED BY <2>1, <2>2 DEF TypeInv, IssueInHand
<1> QED BY <1>2, <1>4, <1>5, <1>6, <1>7, <1>8, <1>9, <1>10, <1>11 DEF Begin

\* The admin's requests: what a handler writes.
LEMMA AdminType ==
    ASSUME TypeInv, NEW a \in Admins, AdminStep(a)
    PROVE  TypeInv'
<1> DEFINE v == loc[a]
<1>0. /\ TypeOK /\ a \in Procs /\ v \in Local
      /\ v.opens \in Int /\ v.close \in Int /\ v.next \in Int
      /\ v.specs \subseteq EventSpec /\ v.days \in Nat /\ v.on \in BOOLEAN
  BY ProcFacts DEF TypeInv, Procs
<1>t. /\ nextTx \in Nat /\ nextTx + 1 \in Nat
      /\ events \in SUBSET Event /\ issues \in [Issues -> Issue]
  BY <1>0 DEF TypeOK
<1>l. "idle" \in PC /\ "idle" \notin NeedsIssue
  BY DEF PC, NeedsIssue
<1>1. CASE OpenDraftEarly(a)
  <2>1. v.issue \in Issues
    BY <1>1, ProcFacts, <1>0 DEF OpenDraftEarly, NeedsIssue
  <2>2. DropQueuedNext(events) \in SUBSET Event
    BY <1>t DEF DropQueuedNext
  <2>3. Insert(DropQueuedNext(events), v.issue, v.specs) \subseteq Event
    BY <1>0, <1>t, <2>1, <2>2, InsertType
  <2>4. events' \subseteq Event /\ nextTx' \in Nat
    BY <1>1, <1>t, <2>3 DEF OpenDraftEarly
  <2>5. [status |-> "collecting", opensAt |-> v.opens, deadline |-> v.close] \in Issue
    BY <1>0 DEF Issue, Status
  <2>6. issues' \in [Issues -> Issue]
    BY <1>1, <1>t, <2>5 DEF OpenDraftEarly
  <2>7. Goto(a, "idle", v) /\ UNCHANGED <<env, active, auto, window, queue, spent>>
    BY <1>1 DEF OpenDraftEarly
  <2> QED BY <1>0, <1>l, <2>4, <2>6, <2>7, StepType DEF TypeOK, env
<1>2. CASE ApplySchedule(a)
  <2> DEFINE moved == IF v.close = Null THEN issues
                      ELSE [issues EXCEPT ![v.issue].deadline = v.close]
             opening == {[type |-> "create_next_issue", at |-> v.next, imm |-> FALSE]}
             pinned == [status |-> "draft", opensAt |-> v.next,
                        deadline |-> atLocalHour(v.next + Days(v.days), deadlineLocalHour)]
  <2>1. v.close # Null => v.issue \in Issues
    BY <1>0, <1>2 DEF TypeInv, IssueInHand, ApplySchedule
  <2>2. moved \in [Issues -> Issue]
    BY <1>0, <1>t DEF Issue
  <2>3. opening \in SUBSET EventSpec
    BY <1>0 DEF EventSpec, EventType
  <2>4. pinned \in Issue
    <3>1. v.next + Days(v.days) \in Int /\ deadlineLocalHour \in Int
      BY <1>0 DEF Days, deadlineLocalHour
    <3>2. atLocalHour(v.next + Days(v.days), deadlineLocalHour) \in Int
      BY <3>1, HourType
    <3> QED BY <1>0, <3>2 DEF Issue, Status
  <2>5. RescheduledEvents(v) \in SUBSET Event
    <3>1. DropPending(events, v.issue) \in SUBSET Event
      BY <1>t DEF DropPending
    <3> QED BY <1>0, <1>t, <2>1, <3>1, InsertType DEF RescheduledEvents
  <2>6. DropQueuedNext(RescheduledEvents(v)) \in SUBSET Event
    BY <2>5 DEF DropQueuedNext
  <2>7. \A d \in Issues : Insert(DropQueuedNext(RescheduledEvents(v)), d, opening) \subseteq Event
    <3> HIDE DEF opening
    <3> QED BY <1>t, <2>3, <2>6, InsertType
  <2>8. (IF Drafts = {} THEN FreshIssues ELSE EarliestDrafts) \subseteq Issues
    BY <1>0, RowsType
  <2>9. \A d \in Issues : [moved EXCEPT ![d] = pinned] \in [Issues -> Issue]
    <3> HIDE DEF moved, pinned
    <3> QED BY <2>2, <2>4
  <2>10. /\ issues' \in [Issues -> Issue] /\ events' \subseteq Event /\ nextTx' \in Nat
         /\ window' \in Nat /\ active' \in BOOLEAN /\ auto' \in BOOLEAN
    <3>1. CASE UNCHANGED db
      BY <1>0, <3>1 DEF TypeOK, db
    <3>2. CASE /\ issues' = moved /\ events' = RescheduledEvents(v) /\ nextTx' = nextTx + 1
               /\ UNCHANGED <<active, auto, window>>
      BY <1>0, <1>t, <2>2, <2>5, <3>2 DEF TypeOK
    <3>3. CASE /\ \E d \in (IF Drafts = {} THEN FreshIssues ELSE EarliestDrafts) :
                     /\ issues' = [moved EXCEPT ![d] = pinned]
                     /\ events' = Insert(DropQueuedNext(RescheduledEvents(v)), d, opening)
               /\ nextTx' = nextTx + 1 /\ window' = v.days
               /\ UNCHANGED <<active, auto>>
      <4> HIDE DEF moved, pinned, opening
      <4>1. issues' \in [Issues -> Issue] /\ events' \subseteq Event
        BY <2>7, <2>8, <2>9, <3>3
      <4>2. nextTx' \in Nat /\ window' \in Nat
        BY <1>0, <1>t, <3>3
      <4>3. active' \in BOOLEAN /\ auto' \in BOOLEAN
        BY <1>0, <3>3 DEF TypeOK
      <4> QED BY <4>1, <4>2, <4>3
    <3> QED BY <1>2, <3>1, <3>2, <3>3, Zenon DEF ApplySchedule
  <2>11. Goto(a, "idle", v) /\ UNCHANGED <<env, queue, spent>>
    BY <1>2 DEF ApplySchedule
  <2> QED BY <1>0, <1>l, <2>10, <2>11, StepType DEF TypeOK, env
<1>3. CASE UpdateDraftIssue(a)
  <2>1. issues' \in [Issues -> Issue]
    BY <1>0, <1>3, <1>t DEF UpdateDraftIssue, Issue
  <2>2. Goto(a, "idle", v) /\ UNCHANGED <<env, events, nextTx, active, auto, window, queue, spent>>
    BY <1>3 DEF UpdateDraftIssue
  <2> QED BY <1>0, <1>l, <2>1, <2>2, StepType DEF TypeOK, env
<1>4. CASE UpdateSettings(a)
  <2>1. /\ Goto(a, "idle", v) /\ auto' = v.on /\ window' = v.days
        /\ UNCHANGED <<env, issues, events, nextTx, active, queue, spent>>
    BY <1>4 DEF UpdateSettings
  <2>2. auto' \in BOOLEAN /\ window' \in Nat
    BY <1>0, <2>1
  <2> QED BY <1>0, <1>l, <2>1, <2>2, StepType DEF TypeOK, env
<1>5. CASE CancelEvents(a)
  <2>1. events' \subseteq Event
    BY <1>5, <1>t DEF CancelEvents
  <2>2. Goto(a, "idle", v) /\ UNCHANGED <<env, issues, nextTx, active, auto, window, queue, spent>>
    BY <1>5 DEF CancelEvents
  <2> QED BY <1>0, <1>l, <2>1, <2>2, StepType DEF TypeOK, env
<1>6. CASE SharedStep(a)
  BY <1>0, <1>6, SharedType
<1> QED BY <1>1, <1>2, <1>3, <1>4, <1>5, <1>6 DEF AdminStep

\* A failing store call.
LEMMA FaultType ==
    ASSUME TypeInv, NEW p \in Procs, Fault(p) \/ LifecycleFault(p)
    PROVE  TypeInv'
<1> DEFINE v == loc[p]
<1>0. /\ TypeOK /\ v \in Local /\ v.close \in Int /\ v.ret \in {"idle", "mark"}
      /\ pc[p] \in NeedsIssue => v.issue \in Issues
  BY ProcFacts DEF TypeInv, Local
<1>l. {"idle", "mark", "remind", "close", "open", "lifecycle"} \subseteq PC
  BY DEF PC, SchedPC, OpenPC
<1>s. spent' \in [requests : Nat, troubles : Nat]
  <2>1. spent \in [requests : Nat, troubles : Nat] /\ spent' = [spent EXCEPT !.troubles = @ + 1]
    BY <1>0 DEF Fault, LifecycleFault, TypeOK
  <2> QED BY <2>1
<1>1. CASE Fault(p)
  <2>1. PICK l \in OnFault(p) : Goto(p, l, v)
    BY <1>1 DEF Fault
  <2>2. HandlerOf(v.ev) \in {"remind", "close", "open"}
    BY DEF HandlerOf
  <2>3. /\ l \in {"idle", "mark", "remind", "close", "open", "lifecycle"}
        /\ l \in {"remind", "close", "lifecycle"} => pc[p] \in {"guard", "status"}
    BY <1>0, <2>1, <2>2 DEF OnFault
  <2>4. l \in NeedsIssue => v.issue \in Issues
    BY <1>0, <2>3 DEF NeedsIssue
  <2>5. UNCHANGED <<env, db, queue>>
    BY <1>1 DEF Fault
  <2> QED BY <1>0, <1>l, <1>s, <2>1, <2>3, <2>4, <2>5, StepType DEF TypeOK, env, db
<1>2. CASE LifecycleFault(p)
  <2>1. v.issue \in Issues /\ nextTx \in Nat /\ events \in SUBSET Event
    BY <1>0, <1>2 DEF LifecycleFault, NeedsIssue, TypeOK
  <2>2. \A lost : Queueable(v.issue, issueEventSpecs(v.close) \ lost) \subseteq EventSpec
    BY <1>0, SpecsType DEF Queueable, TypeOK
  <2>3. events' \subseteq Event
    BY <1>2, <2>1, <2>2, InsertType DEF LifecycleFault
  <2>4. (\E l \in {"idle", "mark"} : Goto(p, l, v)) /\ nextTx' \in Nat
    BY <1>2, <2>1 DEF LifecycleFault, AfterLifecycle
  <2>5. UNCHANGED <<env, issues, active, auto, window, queue>>
    BY <1>2 DEF LifecycleFault
  <2> QED BY <1>0, <1>l, <1>s, <2>3, <2>4, <2>5, StepType DEF TypeOK, env, NeedsIssue
<1> QED BY <1>1, <1>2

\* Every step keeps the types.
LEMMA NextType == TypeInv /\ [Next]_vars => TypeInv'
<1> SUFFICES ASSUME TypeInv, [Next]_vars PROVE TypeInv'
  OBVIOUS
<1>1. CASE Next
  BY <1>1, EnvironmentType, SchedulerType, SharedType, BeginType, AdminType, FaultType
     DEF Next, SchedStep, Procs
<1>2. CASE UNCHANGED vars
  BY <1>2 DEF vars, TypeInv, TypeOK, IssueInHand
<1> QED BY <1>1, <1>2

\* The variables keep their types, and a handler that is about to use a round
\* holds one that exists, whatever the bounds and however requests, events,
\* crashes and failures interleave.
THEOREM TypeCorrect == Spec => []TypeOK
<1>1. TypeInv => TypeOK
  BY DEF TypeInv
<1> QED BY <1>1, InitType, NextType, PTL DEF Spec

=============================================================================
