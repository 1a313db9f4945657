------------------------ MODULE RoundsOverlapProofs ------------------------
(***************************************************************************)
(* What holds however requests, events, crashes and failing store calls    *)
(* interleave, for every number of admin requests and rounds:              *)
(*                                                                         *)
(*   - no event is handled after it has fired, however stale the list of   *)
(*     overdue events is (FiringInv);                                      *)
(*   - the UNIQUE key never refuses a replacement lifecycle (TimesInv);    *)
(*   - a deadline moves together with its lifecycle, and never to or past  *)
(*     a queued opening.                                                   *)
(*                                                                         *)
(* TakeEvent's check (IsEventPending) speaks of one moment.  That it stays *)
(* true until the handler has ended needs two facts about the table: rows  *)
(* inserted later never take the identity of an earlier row, and rows of   *)
(* the same identity have fired together or not at all.                    *)
(***************************************************************************)
EXTENDS RoundsProofs

\* Transactions number the rows they insert.
TxBelow == \A e \in events : e.tx < nextTx

\* A row's identity settles whether it has fired.
FiredAlike == \A e, f \in events : SameRow(e, f) => e.firedAt = f.firedAt

FiringInv == TypeInv /\ TxBelow /\ FiredAlike /\ HandledEventIsPending

-----------------------------------------------------------------------------
(* What every step but MarkEventFired does to the table.                   *)

\* A row is new and pending, or as (un)fired as a row it takes over from.
NewRow(e) == e.tx = nextTx /\ nextTx < nextTx' /\ Pending(e)
KeptRow(e) == \E f \in events : SameRow(e, f) /\ e.firedAt = f.firedAt /\ e.at = f.at
NobodyFires == /\ nextTx' \in Nat /\ nextTx <= nextTx'
               /\ \A e \in events' : NewRow(e) \/ KeptRow(e)

\* The scheduler takes up no event.
SchedKeeps ==
    /\ loc'[Sched].ev \in {loc[Sched].ev, NoEvent}
    /\ (pc'[Sched] # "idle" /\ loc'[Sched].ret = "mark")
        => pc[Sched] # "idle" /\ loc[Sched].ret = "mark" /\ loc'[Sched].ev = loc[Sched].ev

\* A step that fires nothing and takes up nothing keeps the invariant's parts.
LEMMA KeepsFiring ==
    ASSUME TypeOK, TxBelow, FiredAlike, HandledEventIsPending,
           events' \subseteq Event, NobodyFires, SchedKeeps
    PROVE  TxBelow' /\ FiredAlike' /\ HandledEventIsPending'
<1>0. /\ nextTx \in Nat /\ nextTx' \in Nat /\ nextTx <= nextTx'
      /\ \A e \in events : e.tx \in Nat /\ e.tx < nextTx
      /\ \A e \in events' : e.tx \in Nat
  BY DEF TypeOK, Event, NobodyFires, TxBelow
<1>1. TxBelow'
  <2> SUFFICES ASSUME NEW e \in events' PROVE e.tx < nextTx'
    BY DEF TxBelow
  <2>1. CASE NewRow(e)
    BY <1>0, <2>1 DEF NewRow
  <2>2. CASE KeptRow(e)
    BY <1>0, <2>2 DEF KeptRow, SameRow
  <2> QED BY <2>1, <2>2 DEF NobodyFires
<1>2. FiredAlike'
  <2> SUFFICES ASSUME NEW e \in events', NEW f \in events', SameRow(e, f) PROVE e.firedAt = f.firedAt
    BY DEF FiredAlike, SameRow
  <2>1. CASE NewRow(e) /\ NewRow(f)
    BY <2>1 DEF NewRow, Pending
  <2>2. CASE KeptRow(e) /\ KeptRow(f)
    BY <2>2 DEF KeptRow, FiredAlike, SameRow
  <2>3. \A r \in events' : KeptRow(r) => r.tx < nextTx
    BY <1>0 DEF KeptRow, SameRow
  <2>4. \A r \in events' : NewRow(r) => r.tx = nextTx
    BY DEF NewRow
  <2>5. e.tx = f.tx
    BY DEF SameRow
  <2> QED BY <1>0, <2>1, <2>2, <2>3, <2>4, <2>5 DEF NobodyFires
<1>3. HandledEventIsPending'
  <2> SUFFICES ASSUME pc'[Sched] # "idle", loc'[Sched].ret = "mark",
                      NEW e \in events', SameRow(e, loc'[Sched].ev)
               PROVE  Pending(e)
    BY DEF HandledEventIsPending, SameRow, Pending
  <2>1. /\ loc'[Sched].ev = loc[Sched].ev
        /\ \A f \in events : SameRow(f, loc[Sched].ev) => Pending(f)
    BY DEF SchedKeeps, HandledEventIsPending
  <2>2. CASE KeptRow(e)
    <3>1. PICK f \in events : SameRow(e, f) /\ e.firedAt = f.firedAt
      BY <2>2 DEF KeptRow
    <3>2. SameRow(f, loc[Sched].ev)
      BY <2>1, <3>1 DEF SameRow
    <3> QED BY <2>1, <3>1, <3>2 DEF Pending
  <2> QED BY <2>2 DEF NobodyFires, NewRow
<1> QED BY <1>1, <1>2, <1>3

\* Deleting rows fires nothing.
LEMMA DeletingFiresNobody ==
    ASSUME nextTx \in Nat, nextTx' \in {nextTx, nextTx + 1}, events' \subseteq events
    PROVE  NobodyFires
BY DEF NobodyFires, KeptRow, SameRow

\* Inserting rows fires nothing, nor does inserting twice.
LEMMA InsertingFiresNobody ==
    ASSUME nextTx \in Nat, nextTx' = nextTx + 1, NEW es \in SUBSET events,
           NEW i, NEW specs, NEW j, NEW more,
           events' \subseteq Insert(Insert(es, i, specs), j, more)
    PROVE  NobodyFires
<1> SUFFICES ASSUME NEW e \in events' PROVE NewRow(e) \/ KeptRow(e)
  BY DEF NobodyFires
<1>1. e \in es \/ (\E s : e = Row(nextTx, i, s)) \/ (\E s : e = Row(nextTx, j, s))
  BY DEF Insert
<1> QED BY <1>1 DEF Row, NewRow, Pending, KeptRow, SameRow

\* A process other than the scheduler leaves what the scheduler has in hand.
LEMMA OthersKeep ==
    ASSUME TypeOK, NEW a \in Admins, NEW l, NEW v, Goto(a, l, v)
    PROVE  SchedKeeps
BY ParamAssumption DEF TypeOK, Procs, Goto, SchedKeeps

\* A scheduler that goes on with the event it has in hand takes up none.
LEMMA GoingOnKeeps ==
    ASSUME TypeOK, pc[Sched] # "idle", NEW l, NEW v, Goto(Sched, l, v),
           v.ev = loc[Sched].ev, v.ret = loc[Sched].ret
    PROVE  SchedKeeps
<1>1. Sched \in Procs
  BY DEF Procs
<1> QED BY <1>1 DEF TypeOK, Goto, SchedKeeps, NoLocal

\* Whichever process goes on with what it has in hand, the scheduler keeps its event.
LEMMA StepKeeps ==
    ASSUME TypeOK, NEW p \in Procs, pc[p] # "idle", NEW l, NEW v, Goto(p, l, v),
           v.ev = loc[p].ev, v.ret = loc[p].ret
    PROVE  SchedKeeps
<1>1. CASE p = Sched
  BY <1>1, GoingOnKeeps
<1>2. CASE p \in Admins
  BY <1>2, OthersKeep
<1> QED BY <1>1, <1>2 DEF Procs

-----------------------------------------------------------------------------
(* Every action but TakeEvent and MarkEventFired.                          *)

\* The steps the scheduler and the admin's handlers share.
LEMMA SharedFiring ==
    ASSUME TypeOK, NEW p \in Procs, SharedStep(p)
    PROVE  NobodyFires /\ SchedKeeps
<1> DEFINE v == loc[p]
<1>t. nextTx \in Nat /\ v \in Local
  BY DEF TypeOK
<1>g. ASSUME pc[p] # "idle", NEW l, NEW w, Goto(p, l, w), w.ev = v.ev, w.ret = v.ret
      PROVE  SchedKeeps
  BY <1>g, StepKeeps
<1>h. ASSUME UNCHANGED <<events, nextTx>>
      PROVE  NobodyFires
  BY <1>h, <1>t, DeletingFiresNobody
<1>i. ASSUME NEW specs, events' = Insert(events, v.issue, specs), nextTx' = nextTx + 1
      PROVE  NobodyFires
  <2>1. events' \subseteq Insert(Insert(events, v.issue, specs), v.issue, {})
    BY <1>i DEF Insert
  <2> QED BY <1>i, <1>t, <2>1, InsertingFiresNobody
<1>1. CASE PublishIssue(p)
  BY <1>1, <1>g, <1>h DEF PublishIssue
<1>2. CASE AfterPublish(p)
  <2> DEFINE w == [v EXCEPT !.opens = issues[v.issue].opensAt, !.days = window]
  <2>1. w.ev = v.ev /\ w.ret = v.ret
    BY <1>t DEF Local
  <2>2. pc[p] # "idle" /\ (\E l : Goto(p, l, w)) /\ UNCHANGED <<events, nextTx>>
    BY <1>2 DEF AfterPublish, db
  <2> QED BY <1>g, <1>h, <2>1, <2>2
<1>3. CASE QueuePending(p)
  BY <1>3, <1>g, <1>h DEF QueuePending, db
<1>4. CASE QueueClear(p)
  <2>1. events' \subseteq events /\ nextTx' = nextTx
    BY <1>4 DEF QueueClear, DropQueuedNext
  <2>2. NobodyFires
    BY <1>t, <2>1, DeletingFiresNobody
  <2> QED BY <1>4, <1>g, <2>2 DEF QueueClear
<1>5. CASE QueueDraft(p)
  <2> DEFINE slot == cadenceNextOpen(v.opens)
             new == [v EXCEPT !.opens = slot, !.close = defaultDeadline(slot, v.days)]
  <2>1. new.ev = v.ev /\ new.ret = v.ret
    BY <1>t DEF Local
  <2>2. \A d : /\ [v EXCEPT !.issue = d, !.opens = issues[d].opensAt].ev = v.ev
               /\ [v EXCEPT !.issue = d, !.opens = issues[d].opensAt].ret = v.ret
               /\ [new EXCEPT !.issue = d].ev = v.ev
               /\ [new EXCEPT !.issue = d].ret = v.ret
    BY <1>t DEF Local
  <2>3. \E l, w : Goto(p, l, w) /\ w.ev = v.ev /\ w.ret = v.ret
    <3> HIDE DEF new
    <3>1. CASE Goto(p, "qCreate", new)
      BY <2>1, <3>1
    <3>2. ASSUME NEW d, Goto(p, "qEvent", [v EXCEPT !.issue = d, !.opens = issues[d].opensAt])
          PROVE  \E l, w : Goto(p, l, w) /\ w.ev = v.ev /\ w.ret = v.ret
      <4> DEFINE u == [v EXCEPT !.issue = d, !.opens = issues[d].opensAt]
      <4>1. Goto(p, "qEvent", u) /\ u.ev = v.ev /\ u.ret = v.ret
        BY <2>2, <3>2
      <4> HIDE DEF u
      <4> QED BY <4>1
    <3>3. ASSUME NEW d, Goto(p, "qReanchor", [new EXCEPT !.issue = d])
          PROVE  \E l, w : Goto(p, l, w) /\ w.ev = v.ev /\ w.ret = v.ret
      BY <2>2, <3>3
    <3> QED BY <1>5, <3>1, <3>2, <3>3 DEF QueueDraft, new
  <2>4. pc[p] # "idle" /\ UNCHANGED <<events, nextTx>>
    BY <1>5 DEF QueueDraft, db
  <2> QED BY <1>g, <1>h, <2>3, <2>4
<1>6. CASE QueueReanchor(p)
  <2>1. pc[p] # "idle" /\ (\E l : Goto(p, l, v)) /\ UNCHANGED <<events, nextTx>>
    BY <1>6 DEF QueueReanchor, UpdateIssueSchedule
  <2> QED BY <1>g, <1>h, <2>1
<1>7. ASSUME NEW l, CreateIssue(p, l), pc[p] # "idle", UNCHANGED <<events, nextTx>>
      PROVE  NobodyFires /\ SchedKeeps
  <2>1. PICK i \in FreshIssues : Goto(p, l, [v EXCEPT !.issue = i])
    BY <1>7 DEF CreateIssue
  <2>2. [v EXCEPT !.issue = i].ev = v.ev /\ [v EXCEPT !.issue = i].ret = v.ret
    BY <1>t DEF Local
  <2> QED BY <1>7, <1>g, <1>h, <2>1, <2>2
<1>8. CASE QueueCreate(p) \/ CreateFresh(p)
  BY <1>7, <1>8 DEF QueueCreate, CreateFresh
<1>9. CASE QueueEvent(p)
  <2>1. NobodyFires
    <3>1. nextTx' = nextTx + 1
      BY <1>9 DEF QueueEvent
    <3>2. CASE events' = events
      BY <1>t, <3>1, <3>2, DeletingFiresNobody
    <3>3. CASE events' = Insert(events, v.issue, {[type |-> "create_next_issue", at |-> v.opens, imm |-> FALSE]})
      BY <1>i, <3>1, <3>3
    <3> QED BY <1>9, <3>2, <3>3 DEF QueueEvent
  <2> QED BY <1>9, <1>g, <2>1 DEF QueueEvent
<1>10. CASE SetCollecting(p)
  BY <1>10, <1>g, <1>h DEF SetCollecting
<1>11. CASE ScheduleIssueEvents(p)
  <2>1. NobodyFires
    BY <1>11, <1>i DEF ScheduleIssueEvents
  <2> QED BY <1>11, <1>g, <2>1 DEF ScheduleIssueEvents
<1> QED BY <1>1, <1>2, <1>3, <1>4, <1>5, <1>6, <1>8, <1>9, <1>10, <1>11 DEF SharedStep

\* The clock, the process, the read of overdue events and the reconciler.
LEMMA EnvironmentFiring ==
    ASSUME TypeOK, Tick \/ Crash \/ Restart \/ FetchOverdue \/ ReconcileAutoCreate
    PROVE  NobodyFires /\ SchedKeeps
<1>0. Sched \in Procs
  BY DEF Procs
<1>1. UNCHANGED <<events, nextTx>>
  BY DEF Tick, Crash, Restart, FetchOverdue, ReconcileAutoCreate, db
<1>2. NobodyFires
  BY <1>1, DeletingFiresNobody DEF TypeOK
<1>3. CASE Tick \/ Restart \/ FetchOverdue
  BY <1>2, <1>3 DEF Tick, Restart, FetchOverdue, SchedKeeps
<1>4. CASE Crash
  BY <1>0, <1>2, <1>4 DEF Crash, SchedKeeps, NoLocal
<1>5. CASE ReconcileAutoCreate
  <2>1. PICK i \in WithStatus("published") :
           Goto(Sched, "qPending", [NoLocal EXCEPT !.opens = issues[i].opensAt, !.days = window])
    BY <1>5 DEF ReconcileAutoCreate
  <2>2. loc'[Sched].ret = "idle" /\ loc'[Sched].ev = NoEvent
    BY <1>0, <2>1 DEF Goto, NoLocal, TypeOK
  <2> QED BY <1>2, <2>2 DEF SchedKeeps
<1> QED BY <1>3, <1>4, <1>5

\* The scheduler's handlers.
LEMMA HandlerFiring ==
    ASSUME TypeOK, GuardEvent \/ SendMail \/ CheckClose \/ CreateNextIssue \/ ReanchorDraft
    PROVE  NobodyFires /\ SchedKeeps
<1> DEFINE v == loc[Sched]
<1>t. nextTx \in Nat /\ v \in Local /\ events \subseteq Event
  BY DEF TypeOK, Procs
<1>g. ASSUME pc[Sched] # "idle", NEW l, NEW w, Goto(Sched, l, w), w.ev = v.ev, w.ret = v.ret
      PROVE  SchedKeeps
  BY <1>g, GoingOnKeeps
<1>h. ASSUME UNCHANGED <<events, nextTx>>
      PROVE  NobodyFires
  BY <1>h, <1>t, DeletingFiresNobody
<1>1. CASE GuardEvent
  BY <1>1, <1>g, <1>h DEF GuardEvent, db
<1>2. CASE SendMail
  <2>1. nextTx' = nextTx
    BY <1>2 DEF SendMail
  <2>2. \A e \in events' : KeptRow(e)
    <3>1. \A f \in Event, b \in BOOLEAN : /\ SameRow([f EXCEPT !.logged = @ \/ b], f)
                                         /\ [f EXCEPT !.logged = @ \/ b].firedAt = f.firedAt
                                         /\ [f EXCEPT !.logged = @ \/ b].at = f.at
      BY DEF Event, SameRow
    <3>2. \A f \in events : SameRow(f, f)
      BY DEF SameRow
    <3>3. CASE events' = events
      BY <3>2, <3>3 DEF KeptRow
    <3>4. ASSUME NEW due \in BOOLEAN,
                 events' = {IF SameRow(e, v.ev) THEN [e EXCEPT !.logged = @ \/ due] ELSE e : e \in events}
          PROVE  \A e \in events' : KeptRow(e)
      <4> DEFINE Log(e) == IF SameRow(e, v.ev) THEN [e EXCEPT !.logged = @ \/ due] ELSE e
      <4>1. \A e \in events : SameRow(Log(e), e) /\ Log(e).firedAt = e.firedAt /\ Log(e).at = e.at
        BY <1>t, <3>1, <3>2
      <4>2. events' = {Log(e) : e \in events}
        BY <3>4
      <4> HIDE DEF Log
      <4> QED BY <4>1, <4>2 DEF KeptRow
    <3> QED BY <1>2, <3>3, <3>4 DEF SendMail
  <2>3. NobodyFires
    BY <1>t, <2>1, <2>2 DEF NobodyFires
  <2>4. pc[Sched] # "idle" /\ \E l : Goto(Sched, l, v)
    BY <1>2 DEF SendMail
  <2> QED BY <1>g, <2>3, <2>4
<1>3. CASE CheckClose
  BY <1>3, <1>g, <1>h DEF CheckClose, db
<1>4. CASE CreateNextIssue
  <2> DEFINE fresh == [v EXCEPT !.opens = now, !.close = defaultDeadline(now, window)]
             GoesOn == \E l, w : Goto(Sched, l, w) /\ w.ev = v.ev /\ w.ret = v.ret
  <2>1. fresh.ev = v.ev /\ fresh.ret = v.ret
    BY <1>t DEF Local
  <2>2. \A d : /\ [fresh EXCEPT !.issue = d].ev = v.ev
               /\ [fresh EXCEPT !.issue = d].ret = v.ret
               /\ [v EXCEPT !.issue = d, !.close = issues[d].deadline].ev = v.ev
               /\ [v EXCEPT !.issue = d, !.close = issues[d].deadline].ret = v.ret
    BY <1>t DEF Local
  <2>3. GoesOn
    <3> HIDE DEF fresh
    <3>1. CASE Goto(Sched, "mark", v)
      BY <3>1
    <3>2. CASE Goto(Sched, "fresh", fresh)
      BY <2>1, <3>2
    <3>3. ASSUME NEW d, Goto(Sched, "reanchor", [fresh EXCEPT !.issue = d])
          PROVE  GoesOn
      BY <2>2, <3>3
    <3>4. ASSUME NEW d, Goto(Sched, "status", [v EXCEPT !.issue = d, !.close = issues[d].deadline])
          PROVE  GoesOn
      BY <2>2, <3>4
    <3> QED BY <1>4, <3>1, <3>2, <3>3, <3>4 DEF CreateNextIssue, fresh
  <2>4. pc[Sched] # "idle" /\ UNCHANGED <<events, nextTx>>
    BY <1>4 DEF CreateNextIssue, db
  <2> QED BY <1>g, <1>h, <2>3, <2>4
<1>5. CASE ReanchorDraft
  <2>1. pc[Sched] # "idle" /\ (\E l : Goto(Sched, l, v)) /\ UNCHANGED <<events, nextTx>>
    BY <1>5 DEF ReanchorDraft, UpdateIssueSchedule
  <2> QED BY <1>g, <1>h, <2>1
<1> QED BY <1>1, <1>2, <1>3, <1>4, <1>5

\* The admin's requests, from their first read to their write.
LEMMA AdminFiring ==
    ASSUME TypeOK, NEW a \in Admins, Begin(a) \/ AdminStep(a)
    PROVE  NobodyFires /\ SchedKeeps
<1> DEFINE v == loc[a]
<1>t. nextTx \in Nat /\ a \in Procs
  BY DEF TypeOK, Procs
<1>g. ASSUME NEW l, NEW w, Goto(a, l, w)
      PROVE  SchedKeeps
  BY <1>g, OthersKeep
<1>1. CASE Begin(a)
  <2>1. UNCHANGED <<events, nextTx>>
    BY <1>1 DEF Begin, BeginPublish, BeginCreate, BeginMoveDeadline, BeginPinNext, BeginMoveDraft,
       BeginSettings, BeginArchive, BeginRestore, BeginCreateBlind, db
  <2>2. NobodyFires
    BY <1>t, <2>1, DeletingFiresNobody
  <2>3. CASE BeginRestore(a)
    BY <2>2, <2>3 DEF BeginRestore, SchedKeeps
  <2>4. ASSUME \/ BeginPublish(a) \/ BeginCreate(a) \/ BeginMoveDeadline(a) \/ BeginPinNext(a)
               \/ BeginMoveDraft(a) \/ BeginSettings(a) \/ BeginArchive(a) \/ BeginCreateBlind(a)
        PROVE  SchedKeeps
    BY <1>g, <2>4 DEF BeginPublish, BeginCreate, NewRound, BeginMoveDeadline, BeginPinNext,
       BeginMoveDraft, BeginSettings, BeginArchive, BeginCreateBlind
  <2> QED BY <1>1, <2>2, <2>3, <2>4 DEF Begin
<1>2. CASE OpenDraftEarly(a)
  <2>1. Goto(a, "idle", v)
    BY <1>2 DEF OpenDraftEarly
  <2>2. CASE events' = events /\ nextTx' = nextTx
    BY <1>g, <1>t, <2>1, <2>2, DeletingFiresNobody
  <2>3. CASE events' = Insert(DropQueuedNext(events), v.issue, v.specs) /\ nextTx' = nextTx + 1
    <3>1. DropQueuedNext(events) \in SUBSET events
      BY DEF DropQueuedNext
    <3>2. events' \subseteq Insert(Insert(DropQueuedNext(events), v.issue, v.specs), v.issue, {})
      BY <2>3 DEF Insert
    <3>3. NobodyFires
      BY <1>t, <2>3, <3>1, <3>2, InsertingFiresNobody
    <3> QED BY <1>g, <2>1, <3>3
  <2> QED BY <1>2, <2>2, <2>3 DEF OpenDraftEarly
<1>3. CASE ApplySchedule(a)
  <2>1. Goto(a, "idle", v)
    BY <1>3 DEF ApplySchedule
  <2>2. CASE UNCHANGED db
    BY <1>g, <1>t, <2>1, <2>2, DeletingFiresNobody DEF db
  <2>3. CASE nextTx' = nextTx + 1 /\ \E d, opening : events' \subseteq Insert(RescheduledEvents(v), d, opening)
    <3>1. PICK d, opening : events' \subseteq Insert(RescheduledEvents(v), d, opening)
      BY <2>3
    <3>2. CASE v.close = Null
      <4>1. events' \subseteq Insert(Insert(events, d, {}), d, opening)
        BY <3>1, <3>2 DEF RescheduledEvents, Insert
      <4>2. NobodyFires
        BY <1>t, <2>3, <4>1, InsertingFiresNobody
      <4> QED BY <1>g, <2>1, <4>2
    <3>3. CASE v.close # Null
      <4>1. events' \subseteq Insert(Insert(DropPending(events, v.issue), v.issue, v.specs), d, opening)
        BY <3>1, <3>3 DEF RescheduledEvents
      <4>2. DropPending(events, v.issue) \in SUBSET events
        BY DEF DropPending
      <4>3. NobodyFires
        BY <1>t, <2>3, <4>1, <4>2, InsertingFiresNobody
      <4> QED BY <1>g, <2>1, <4>3
    <3> QED BY <3>2, <3>3
  <2>4. (UNCHANGED db) \/ (nextTx' = nextTx + 1 /\ events' = RescheduledEvents(v))
        \/ (nextTx' = nextTx + 1 /\ \E d, opening : events' = Insert(DropQueuedNext(RescheduledEvents(v)), d, opening))
    BY <1>3, Zenon DEF ApplySchedule
  <2>5. \A es, d, opening : es \subseteq Insert(es, d, opening)
    BY DEF Insert
  <2>6. \A es, d, opening : Insert(DropQueuedNext(es), d, opening) \subseteq Insert(es, d, opening)
    BY DEF Insert, DropQueuedNext
  <2> QED BY <2>2, <2>3, <2>4, <2>5, <2>6
<1>4. CASE UpdateDraftIssue(a)
  BY <1>4, <1>g, <1>t, DeletingFiresNobody DEF UpdateDraftIssue
<1>5. CASE UpdateSettings(a)
  BY <1>5, <1>g, <1>t, DeletingFiresNobody DEF UpdateSettings
<1>6. CASE CancelEvents(a)
  <2>1. events' \subseteq events /\ nextTx' = nextTx /\ Goto(a, "idle", v)
    BY <1>6 DEF CancelEvents
  <2> QED BY <1>g, <1>t, <2>1, DeletingFiresNobody
<1>7. CASE SharedStep(a)
  BY <1>7, <1>t, SharedFiring
<1> QED BY <1>1, <1>2, <1>3, <1>4, <1>5, <1>6, <1>7 DEF AdminStep

\* A failing store call.
LEMMA FaultFiring ==
    ASSUME TypeOK, NEW p \in Procs, Fault(p) \/ LifecycleFault(p)
    PROVE  NobodyFires /\ SchedKeeps
<1> DEFINE v == loc[p]
<1>t. nextTx \in Nat
  BY DEF TypeOK
<1>1. pc[p] # "idle" /\ \E l : Goto(p, l, v)
  BY DEF Fault, LifecycleFault
<1>2. SchedKeeps
  BY <1>1, StepKeeps
<1>3. CASE Fault(p)
  BY <1>2, <1>3, <1>t, DeletingFiresNobody DEF Fault, db
<1>4. CASE LifecycleFault(p)
  <2>1. PICK specs : events' = Insert(events, v.issue, specs)
    BY <1>4 DEF LifecycleFault
  <2>2. events' \subseteq Insert(Insert(events, v.issue, specs), v.issue, {}) /\ nextTx' = nextTx + 1
    BY <1>4, <2>1 DEF Insert, LifecycleFault
  <2>3. NobodyFires
    BY <1>t, <2>2, InsertingFiresNobody
  <2> QED BY <1>2, <2>3
<1> QED BY <1>3, <1>4

-----------------------------------------------------------------------------
(* The two actions the invariant is about.                                 *)

\* The event that is taken up is pending, and so is every row of its identity.
LEMMA TakeFiring ==
    ASSUME TypeOK, TxBelow, FiredAlike, TakeEvent
    PROVE  TxBelow' /\ FiredAlike' /\ HandledEventIsPending'
<1>0. Sched \in Procs /\ UNCHANGED <<events, nextTx>>
  BY DEF Procs, TakeEvent, db
<1>1. PICK ev \in queue :
         Goto(Sched, IF IsEventPending(ev) THEN "guard" ELSE "idle",
              [NoLocal EXCEPT !.ev = ev, !.issue = ev.issue, !.ret = "mark"])
  BY DEF TakeEvent
<1>2. pc'[Sched] # "idle" => IsEventPending(ev) /\ loc'[Sched].ev = ev
  BY <1>0, <1>1 DEF Goto, NoLocal, TypeOK
<1>3. IsEventPending(ev) => \A e \in events : SameRow(e, ev) => Pending(e)
  BY DEF IsEventPending, FiredAlike, SameRow, Pending
<1>4. HandledEventIsPending'
  BY <1>0, <1>2, <1>3 DEF HandledEventIsPending, SameRow, Pending
<1> QED BY <1>0, <1>4 DEF TxBelow, FiredAlike, SameRow

\* Rows of one identity are marked together, and the scheduler lets go of the event.
LEMMA MarkFiring ==
    ASSUME TypeOK, TxBelow, FiredAlike, MarkEventFired
    PROVE  TxBelow' /\ FiredAlike' /\ HandledEventIsPending'
<1> DEFINE ev == loc[Sched].ev
           Mark(e) == IF SameRow(e, ev) THEN [e EXCEPT !.firedAt = now, !.logged = FALSE] ELSE e
<1>0. Sched \in Procs /\ nextTx' = nextTx /\ events \subseteq Event
  BY DEF Procs, MarkEventFired, TypeOK
<1>1. events' = {Mark(e) : e \in events}
  BY DEF MarkEventFired
<1>2. \A e \in events : /\ SameRow(Mark(e), e)
                        /\ Mark(e).firedAt = IF SameRow(e, ev) THEN now ELSE e.firedAt
  BY <1>0 DEF Event, SameRow
<1>3. TxBelow'
  <2>1. \A e \in events : Mark(e).tx = e.tx
    BY <1>2 DEF SameRow
  <2> HIDE DEF Mark
  <2> QED BY <1>0, <1>1, <2>1 DEF TxBelow
<1>4. FiredAlike'
  <2> SUFFICES ASSUME NEW e \in events, NEW f \in events, SameRow(Mark(e), Mark(f))
               PROVE  Mark(e).firedAt = Mark(f).firedAt
    <3> HIDE DEF Mark
    <3> QED BY <1>1 DEF FiredAlike, SameRow
  <2>1. SameRow(e, f) /\ (SameRow(e, ev) <=> SameRow(f, ev))
    <3> HIDE DEF Mark
    <3> QED BY <1>2 DEF SameRow
  <2> HIDE DEF Mark
  <2> QED BY <1>2, <2>1 DEF FiredAlike
<1>5. HandledEventIsPending'
  BY <1>0 DEF MarkEventFired, Goto, HandledEventIsPending, TypeOK
<1> QED BY <1>3, <1>4, <1>5

\* A launched Loop has handled nothing.
LEMMA InitFiring == Init => FiringInv
<1> SUFFICES ASSUME Init PROVE FiringInv
  OBVIOUS
<1>1. \A e \in events : e.tx = 0 /\ e.firedAt = Null
  BY DEF Init, Row
<1>2. HandledEventIsPending
  BY DEF Init, HandledEventIsPending, Procs
<1> QED BY <1>1, <1>2, InitType DEF FiringInv, TxBelow, FiredAlike, Init

\* Only MarkEventFired fires, and only TakeEvent takes an event up.
LEMMA StepKinds ==
    ASSUME TypeOK, [Next]_vars
    PROVE  TakeEvent \/ MarkEventFired \/ (NobodyFires /\ SchedKeeps)
<1>1. CASE Tick \/ Crash \/ Restart \/ FetchOverdue \/ ReconcileAutoCreate
  BY <1>1, EnvironmentFiring
<1>2. CASE GuardEvent \/ SendMail \/ CheckClose \/ CreateNextIssue \/ ReanchorDraft
  BY <1>2, HandlerFiring
<1>3. CASE SharedStep(Sched)
  <2>1. Sched \in Procs
    BY DEF Procs
  <2> QED BY <1>3, <2>1, SharedFiring
<1>4. CASE \E a \in Admins : Begin(a) \/ AdminStep(a)
  BY <1>4, AdminFiring
<1>5. CASE \E p \in Procs : Fault(p) \/ LifecycleFault(p)
  BY <1>5, FaultFiring
<1>6. CASE UNCHANGED vars
  <2>1. NobodyFires
    BY <1>6, DeletingFiresNobody DEF vars, TypeOK
  <2> QED BY <1>6, <2>1 DEF vars, SchedKeeps
<1> QED BY <1>1, <1>2, <1>3, <1>4, <1>5, <1>6 DEF Next, SchedStep

\* Every step keeps the inductive invariant.
LEMMA NextFiring == FiringInv /\ [Next]_vars => FiringInv'
<1> SUFFICES ASSUME FiringInv, [Next]_vars PROVE FiringInv'
  OBVIOUS
<1>0. TypeOK /\ TxBelow /\ FiredAlike /\ HandledEventIsPending /\ TypeInv'
  BY NextType DEF FiringInv, TypeInv
<1>1. events' \subseteq Event
  BY <1>0 DEF TypeInv, TypeOK
<1>2. CASE NobodyFires /\ SchedKeeps
  BY <1>0, <1>1, <1>2, KeepsFiring DEF FiringInv
<1>3. CASE TakeEvent \/ MarkEventFired
  BY <1>0, <1>3, TakeFiring, MarkFiring DEF FiringInv
<1> QED BY <1>0, <1>2, <1>3, StepKinds

\* The event the scheduler is acting on has not fired: a fired event that a
\* stuck read connection keeps handing out as overdue is never handled again,
\* whatever requests, crashes and failures come in between.
THEOREM FiredOnce == Spec => []HandledEventIsPending
<1>1. FiringInv => HandledEventIsPending
  BY DEF FiringInv
<1> QED BY <1>1, InitFiring, NextFiring, PTL DEF Spec

-----------------------------------------------------------------------------
(* The times of events.  An event that has fired was due; that an admin's  *)
(* new lifecycle lies in the future when it is written needs that the time *)
(* of a row is settled by its identity, and that the clock stands still    *)
(* while a request runs.                                                   *)

\* The specifications of one kind share their time.
OneTime(specs) == \A s, t \in specs : s.type = t.type /\ s.imm = t.imm => s.at = t.at

\* A replacement lifecycle: it closes at the new deadline, and only its
\* immediate reminder is not in the future.
Lifecycle(specs, close) ==
    /\ OneTime(specs)
    /\ \A s \in specs : s.type # "create_next_issue" /\ (s.type = "auto_close" => s.at = close)
    /\ \E s \in specs : s.type = "auto_close"
    /\ \A s \in specs : ~s.imm => s.at > now

SpecsOf(a) == /\ pc[a] = "early" => OneTime(loc[a].specs)
              /\ pc[a] = "apply" /\ loc[a].close # Null => Lifecycle(loc[a].specs, loc[a].close)
SpecsInHand == \A a \in Admins : SpecsOf(a)

\* The rows of an event's identity were inserted before now, for its time.
Known(ev) == ev.tx \in 0..(nextTx - 1) /\ \A e \in events : SameRow(e, ev) => e.at = ev.at

\* What was in the list of overdue events had come due.
DueInHand ==
    /\ \A ev \in queue : Known(ev) /\ ev.at <= now
    /\ Known(loc[Sched].ev) /\ loc[Sched].ev.at <= now

FiredWasDue == \A e \in events : ~Pending(e) => e.at <= now

TimesInv == /\ FiringInv /\ SpecsInHand
            /\ 0 < nextTx
            /\ \A e \in events : Known(e)
            /\ DueInHand /\ FiredWasDue

\* Rows that are inserted together share the times of their kinds.
NewAlike == \A e, f \in events' : NewRow(e) /\ NewRow(f) /\ SameRow(e, f) => e.at = f.at

-----------------------------------------------------------------------------
\* The lifecycles that handlers compute name one time for each kind of event.
LEMMA LifecycleTimes ==
    ASSUME now \in Nat, NEW dl \in Int
    PROVE  /\ \A specs \in SUBSET issueEventSpecs(dl) : OneTime(specs)
           /\ \A i \in Issues : dl > now => Lifecycle(rescheduledIssueEventSpecs(i, dl), dl)
<1> DEFINE r1 == [type |-> "reminder_1", at |-> atLocalHour(dl - Days(3), reminderLocalHour), imm |-> FALSE]
           r2 == [type |-> "reminder_2", at |-> atLocalHour(dl - Days(1), reminderLocalHour), imm |-> FALSE]
           su == [type |-> "admin_summary", at |-> atLocalHour(dl - Days(1), reminderLocalHour), imm |-> FALSE]
           cl == [type |-> "auto_close", at |-> dl, imm |-> FALSE]
           im == [type |-> "reminder_2", at |-> now, imm |-> TRUE]
<1>1. /\ r1.type = "reminder_1" /\ r2.type = "reminder_2" /\ su.type = "admin_summary"
      /\ cl.type = "auto_close" /\ im.type = "reminder_2"
      /\ cl.at = dl /\ im.imm /\ ~r1.imm /\ ~r2.imm /\ ~su.imm /\ ~cl.imm
  OBVIOUS
<1>2. issueEventSpecs(dl) = {s \in {r1, r2, su, cl} : s.type = "auto_close" \/ s.at >= now + minReminderLead}
  BY DEF issueEventSpecs, SpecsWithoutLead
<1>3. \A i : rescheduledIssueEventSpecs(i, dl) \subseteq issueEventSpecs(dl) \cup {im}
             /\ issueEventSpecs(dl) \subseteq rescheduledIssueEventSpecs(i, dl)
  BY DEF rescheduledIssueEventSpecs
<1>4. /\ r1.at \in Int /\ r2.at \in Int /\ su.at \in Int
  BY HourType DEF Days, reminderLocalHour
<1> HIDE DEF r1, r2, su, cl, im
<1>5. \A specs \in SUBSET {r1, r2, su, cl, im} : OneTime(specs)
  BY <1>1 DEF OneTime
<1>6. \A s \in issueEventSpecs(dl) : dl > now => s.at > now
  BY <1>1, <1>2, <1>4 DEF minReminderLead
<1>7. cl \in issueEventSpecs(dl)
  BY <1>1, <1>2
<1>8. ASSUME NEW i \in Issues, dl > now PROVE Lifecycle(rescheduledIssueEventSpecs(i, dl), dl)
  <2>1. rescheduledIssueEventSpecs(i, dl) \subseteq {r1, r2, su, cl, im}
    BY <1>2, <1>3
  <2> QED BY <1>1, <1>3, <1>5, <1>6, <1>7, <1>8, <2>1 DEF Lifecycle
<1>9. issueEventSpecs(dl) \subseteq {r1, r2, su, cl, im}
  BY <1>2
<1> QED BY <1>5, <1>8, <1>9

\* One insertion, or two of different kinds, of rows that share their times.
LEMMA InsertedAlike ==
    ASSUME TxBelow, nextTx \in Nat, NEW es \in SUBSET events,
           NEW i, NEW specs, OneTime(specs), NEW j, NEW more, OneTime(more),
           \A s \in specs, t \in more : s.type # t.type,
           events' \subseteq Insert(Insert(es, i, specs), j, more)
    PROVE  NewAlike
<1> SUFFICES ASSUME NEW e \in events', NEW f \in events', e.tx = nextTx, f.tx = nextTx, SameRow(e, f)
             PROVE  e.at = f.at
  BY DEF NewAlike, NewRow
<1>1. \A r \in es : r.tx # nextTx
  <2>1. ASSUME NEW r \in es, r.tx = nextTx PROVE FALSE
    BY <2>1 DEF TxBelow
  <2> QED BY <2>1
<1>2. /\ (\E s \in specs : e = Row(nextTx, i, s)) \/ (\E s \in more : e = Row(nextTx, j, s))
      /\ (\E s \in specs : f = Row(nextTx, i, s)) \/ (\E s \in more : f = Row(nextTx, j, s))
  BY <1>1 DEF Insert
<1>3. \A k, s : /\ Row(nextTx, k, s).type = s.type /\ Row(nextTx, k, s).imm = s.imm
                /\ Row(nextTx, k, s).at = s.at
  BY DEF Row
<1> QED BY <1>2, <1>3 DEF SameRow, OneTime

\* Whatever a step inserts shares its times.
LEMMA StepAlike ==
    ASSUME FiringInv, SpecsInHand, [Next]_vars
    PROVE  NewAlike
<1>t. TypeOK /\ TypeInv /\ TxBelow /\ nextTx \in Nat /\ now \in Nat
  BY DEF FiringInv, TypeInv, TypeOK
<1>0. nextTx' = nextTx => NewAlike
  BY <1>t DEF NewAlike, NewRow
<1>i. ASSUME NEW es \in SUBSET events, NEW i, NEW specs, OneTime(specs), events' \subseteq Insert(es, i, specs)
      PROVE  NewAlike
  <2>1. OneTime({})
    BY DEF OneTime
  <2>2. events' \subseteq Insert(Insert(es, i, specs), i, {})
    BY <1>i DEF Insert
  <2> QED BY <1>i, <1>t, <2>1, <2>2, InsertedAlike
<1>s. \A ty, at : OneTime({[type |-> ty, at |-> at, imm |-> FALSE]})
  BY DEF OneTime
<1>1. ASSUME NEW p \in Procs, QueueEvent(p)
      PROVE  NewAlike
  <2> DEFINE one == {[type |-> "create_next_issue", at |-> loc[p].opens, imm |-> FALSE]}
  <2>1. events' \subseteq Insert(events, loc[p].issue, one)
    BY <1>1 DEF QueueEvent, Insert
  <2>2. OneTime(one)
    BY <1>s
  <2> HIDE DEF one
  <2> QED BY <1>i, <2>1, <2>2
<1>2. ASSUME NEW p \in Procs, ScheduleIssueEvents(p) \/ LifecycleFault(p)
      PROVE  NewAlike
  <2>1. PICK specs \in SUBSET issueEventSpecs(loc[p].close) : events' = Insert(events, loc[p].issue, specs)
    BY <1>2 DEF ScheduleIssueEvents, LifecycleFault, Queueable
  <2>2. OneTime(specs)
    BY <1>t, <2>1, ProcFacts, LifecycleTimes
  <2> QED BY <1>i, <2>1, <2>2
<1>3. ASSUME NEW a \in Admins, OpenDraftEarly(a)
      PROVE  NewAlike
  <2>1. CASE nextTx' = nextTx
    BY <1>0, <2>1
  <2>2. CASE events' = Insert(DropQueuedNext(events), loc[a].issue, loc[a].specs)
    <3>1. DropQueuedNext(events) \in SUBSET events
      BY DEF DropQueuedNext
    <3>2. OneTime(loc[a].specs)
      BY <1>3 DEF OpenDraftEarly, SpecsInHand, SpecsOf
    <3> QED BY <1>i, <2>2, <3>1, <3>2
  <2> QED BY <1>3, <2>1, <2>2 DEF OpenDraftEarly
<1>4. ASSUME NEW a \in Admins, ApplySchedule(a)
      PROVE  NewAlike
  <2> DEFINE v == loc[a]
             one == {[type |-> "create_next_issue", at |-> v.next, imm |-> FALSE]}
  <2>0. OneTime(one)
    BY <1>s
  <2>1. \/ nextTx' = nextTx
        \/ events' = RescheduledEvents(v)
        \/ \E d : events' = Insert(DropQueuedNext(RescheduledEvents(v)), d, one)
    BY <1>4, Zenon DEF ApplySchedule, db
  <2>2. (nextTx' = nextTx) \/ \E d : events' \subseteq Insert(RescheduledEvents(v), d, one)
    BY <2>1 DEF Insert, DropQueuedNext
  <2>3. ASSUME NEW d, events' \subseteq Insert(RescheduledEvents(v), d, one)
        PROVE  NewAlike
    <3> HIDE DEF one
    <3>1. CASE v.close = Null
      BY <1>i, <2>0, <2>3, <3>1 DEF RescheduledEvents
    <3>2. CASE v.close # Null
      <4>1. Lifecycle(v.specs, v.close)
        BY <1>4, <3>2 DEF ApplySchedule, SpecsInHand, SpecsOf
      <4>2. OneTime(v.specs) /\ \A s \in v.specs, t \in one : s.type # t.type
        BY <4>1 DEF Lifecycle, one
      <4>3. DropPending(events, v.issue) \in SUBSET events
        BY DEF DropPending
      <4>4. events' \subseteq Insert(Insert(DropPending(events, v.issue), v.issue, v.specs), d, one)
        BY <2>3, <3>2 DEF RescheduledEvents
      <4> QED BY <1>t, <2>0, <4>2, <4>3, <4>4, InsertedAlike
    <3> QED BY <3>1, <3>2
  <2> QED BY <1>0, <2>2, <2>3
<1>5. CASE Tick \/ Crash \/ Restart \/ FetchOverdue \/ ReconcileAutoCreate
  BY <1>0, <1>5 DEF Tick, Crash, Restart, FetchOverdue, ReconcileAutoCreate, db
<1>6. CASE \/ TakeEvent \/ GuardEvent \/ SendMail \/ MarkEventFired
           \/ CheckClose \/ CreateNextIssue \/ ReanchorDraft
  BY <1>0, <1>6 DEF TakeEvent, GuardEvent, SendMail, MarkEventFired, CheckClose, CreateNextIssue, ReanchorDraft, db
<1>7. ASSUME NEW p \in Procs, SharedStep(p)
      PROVE  NewAlike
  <2>1. CASE \/ PublishIssue(p) \/ AfterPublish(p) \/ QueuePending(p) \/ QueueClear(p) \/ QueueDraft(p)
             \/ QueueReanchor(p) \/ QueueCreate(p) \/ CreateFresh(p) \/ SetCollecting(p)
    BY <1>0, <2>1 DEF PublishIssue, AfterPublish, QueuePending, QueueClear, QueueDraft, QueueReanchor,
       QueueCreate, CreateFresh, SetCollecting, db
  <2> QED BY <1>1, <1>2, <1>7, <2>1 DEF SharedStep
<1>8. ASSUME NEW a \in Admins, Begin(a)
      PROVE  NewAlike
  BY <1>0, <1>8 DEF Begin, BeginPublish, BeginCreate, BeginMoveDeadline, BeginPinNext, BeginMoveDraft,
       BeginSettings, BeginArchive, BeginRestore, BeginCreateBlind, db
<1>9. ASSUME NEW a \in Admins, UpdateDraftIssue(a) \/ UpdateSettings(a) \/ CancelEvents(a)
      PROVE  NewAlike
  BY <1>0, <1>9 DEF UpdateDraftIssue, UpdateSettings, CancelEvents
<1>10. ASSUME NEW p \in Procs, Fault(p)
       PROVE  NewAlike
  BY <1>0, <1>10 DEF Fault, db
<1>11. CASE UNCHANGED vars
  BY <1>0, <1>11 DEF vars
<1> QED BY <1>2, <1>3, <1>4, <1>5, <1>6, <1>7, <1>8, <1>9, <1>10, <1>11 DEF Next, SchedStep, AdminStep, Procs

-----------------------------------------------------------------------------
(* The lifecycles in hand.                                                 *)

\* A process that does not go to write a schedule leaves those in hand alone.
LEMMA ElsewhereSpecs ==
    ASSUME TypeOK, SpecsInHand, now' = now, NEW p \in Procs, NEW l, NEW v, Goto(p, l, v),
           l \notin {"early", "apply"}
    PROVE  SpecsInHand'
<1> SUFFICES ASSUME NEW a \in Admins PROVE SpecsOf(a)'
  BY DEF SpecsInHand
<1>1. a \in Procs
  BY DEF Procs
<1>2. CASE p = a
  BY <1>1, <1>2 DEF Goto, TypeOK, SpecsOf
<1>3. CASE p # a
  <2>1. pc'[a] = pc[a] /\ loc'[a] = loc[a]
    BY <1>1, <1>3 DEF Goto, TypeOK
  <2> QED BY <2>1 DEF SpecsInHand, SpecsOf, Lifecycle, OneTime
<1> QED BY <1>2, <1>3

\* A handler that has computed a schedule has it in hand.
LEMMA HandedSpecs ==
    ASSUME TypeOK, SpecsInHand, now' = now, NEW a \in Admins, NEW l \in {"early", "apply"}, NEW v, Goto(a, l, v),
           l = "early" => OneTime(v.specs),
           l = "apply" /\ v.close # Null => Lifecycle(v.specs, v.close)
    PROVE  SpecsInHand'
<1> SUFFICES ASSUME NEW b \in Admins PROVE SpecsOf(b)'
  BY DEF SpecsInHand
<1>1. a \in Procs /\ b \in Procs
  BY DEF Procs
<1>2. CASE b = a
  <2>1. pc'[b] = l /\ loc'[b] = v
    BY <1>1, <1>2 DEF Goto, TypeOK
  <2> QED BY <2>1 DEF SpecsOf, Lifecycle, OneTime
<1>3. CASE b # a
  <2>1. pc'[b] = pc[b] /\ loc'[b] = loc[b]
    BY <1>1, <1>3 DEF Goto, TypeOK
  <2> QED BY <2>1 DEF SpecsInHand, SpecsOf, Lifecycle, OneTime
<1> QED BY <1>2, <1>3

\* The steps that the scheduler and the admin's handlers share.
LEMMA SharedSpecs ==
    ASSUME TypeInv, SpecsInHand, NEW p \in Procs, SharedStep(p)
    PROVE  SpecsInHand'
<1> DEFINE v == loc[p]
<1>t. TypeOK /\ v.ret \in {"idle", "mark"}
  BY ProcFacts DEF TypeInv, Local
<1>n. now' = now
  BY DEF SharedStep, PublishIssue, AfterPublish, QueuePending, QueueClear, QueueDraft, QueueReanchor,
     QueueCreate, QueueEvent, CreateFresh, SetCollecting, ScheduleIssueEvents, env
<1>g. ASSUME NEW l, NEW w, Goto(p, l, w), l \notin {"early", "apply"}
      PROVE  SpecsInHand'
  BY <1>g, <1>n, <1>t, ElsewhereSpecs
<1>1. CASE PublishIssue(p)
  BY <1>1, <1>g DEF PublishIssue
<1>2. CASE AfterPublish(p)
  BY <1>2, <1>g, <1>t DEF AfterPublish
<1>3. CASE QueuePending(p) \/ QueueClear(p) \/ QueueEvent(p)
  BY <1>3, <1>g, <1>t DEF QueuePending, QueueClear, QueueEvent
<1>4. CASE QueueDraft(p)
  <2>1. \E l \in {"qCreate", "qEvent", "qReanchor"} : \E w : Goto(p, l, w)
    BY <1>4, Zenon DEF QueueDraft
  <2> QED BY <1>g, <2>1
<1>5. CASE QueueReanchor(p)
  BY <1>5, <1>g, <1>t DEF QueueReanchor, UpdateIssueSchedule
<1>6. CASE QueueCreate(p) \/ CreateFresh(p)
  <2>1. \E l \in {"qEvent", "status"} : \E w : Goto(p, l, w)
    BY <1>6, Zenon DEF QueueCreate, CreateFresh, CreateIssue
  <2> QED BY <1>g, <2>1
<1>7. CASE SetCollecting(p) \/ ScheduleIssueEvents(p)
  BY <1>7, <1>g DEF SetCollecting, ScheduleIssueEvents, AfterLifecycle
<1> QED BY <1>1, <1>2, <1>3, <1>4, <1>5, <1>6, <1>7 DEF SharedStep

\* The scheduler's steps, the clock and the process.
LEMMA SchedulerSpecs ==
    ASSUME TypeInv, SpecsInHand,
           \/ Tick \/ Crash \/ Restart \/ FetchOverdue \/ ReconcileAutoCreate
           \/ TakeEvent \/ GuardEvent \/ SendMail \/ MarkEventFired
           \/ CheckClose \/ CreateNextIssue \/ ReanchorDraft
    PROVE  SpecsInHand'
<1>t. TypeOK /\ Sched \in Procs
  BY DEF TypeInv, Procs
<1>1. CASE Tick
  <2>1. \A a \in Admins : pc'[a] = "idle"
    BY <1>1 DEF Tick, AllIdle, Procs
  <2> QED BY <2>1 DEF SpecsInHand, SpecsOf
<1>2. CASE Crash
  <2>1. \A a \in Admins : pc'[a] = "idle"
    BY <1>2 DEF Crash, Procs
  <2> QED BY <2>1 DEF SpecsInHand, SpecsOf
<1>3. CASE Restart \/ FetchOverdue
  BY <1>3 DEF Restart, FetchOverdue, SpecsInHand, SpecsOf, OneTime, Lifecycle
<1>g. ASSUME NEW l, NEW w, Goto(Sched, l, w), l \notin {"early", "apply"}, now' = now
      PROVE  SpecsInHand'
  BY <1>g, <1>t, ElsewhereSpecs
<1>4. CASE ReconcileAutoCreate
  <2>1. (\E l \in {"qPending"} : \E w : Goto(Sched, l, w)) /\ now' = now
    BY <1>4, Zenon DEF ReconcileAutoCreate, env
  <2> QED BY <1>g, <2>1
<1>5. CASE TakeEvent
  <2>1. (\E l \in {"guard", "idle"} : \E w : Goto(Sched, l, w)) /\ now' = now
    BY <1>5, Zenon DEF TakeEvent, env
  <2> QED BY <1>g, <2>1
<1>6. CASE GuardEvent
  BY <1>6, <1>g DEF GuardEvent, HandlerOf, env
<1>7. CASE SendMail \/ MarkEventFired \/ CheckClose
  <2>1. (\E l \in {"mark", "idle", "closeW"} : \E w : Goto(Sched, l, w)) /\ now' = now
    BY <1>7, Zenon DEF SendMail, MarkEventFired, CheckClose, env
  <2> QED BY <1>g, <2>1
<1>8. CASE CreateNextIssue
  <2>1. \E l \in {"mark", "fresh", "reanchor", "status"} : \E w : Goto(Sched, l, w)
    BY <1>8, Zenon DEF CreateNextIssue
  <2> QED BY <1>8, <1>g, <2>1 DEF CreateNextIssue, env
<1>9. CASE ReanchorDraft
  <2>1. loc[Sched].ret \in {"idle", "mark"}
    BY <1>t DEF TypeOK, Local
  <2> QED BY <1>9, <1>g, <2>1 DEF ReanchorDraft, UpdateIssueSchedule, env
<1> QED BY <1>1, <1>2, <1>3, <1>4, <1>5, <1>6, <1>7, <1>8, <1>9

\* A request whose handler computes a schedule, and every other one.
LEMMA BeginSpecs ==
    ASSUME TypeInv, SpecsInHand, NEW a \in Admins, Begin(a)
    PROVE  SpecsInHand'
<1>t. TypeOK /\ a \in Procs /\ now \in Nat /\ window \in Nat /\ now' = now
  BY DEF TypeInv, TypeOK, Procs, Begin, env
<1>g. ASSUME NEW l, NEW w, Goto(a, l, w), l \notin {"early", "apply"}
      PROVE  SpecsInHand'
  BY <1>g, <1>t, ElsewhereSpecs
<1>1. CASE BeginPublish(a) \/ BeginMoveDraft(a) \/ BeginSettings(a) \/ BeginArchive(a) \/ BeginCreateBlind(a)
  <2>1. \E l \in {"publish", "draftW", "settingsW", "cancel", "fresh"} : \E w : Goto(a, l, w)
    BY <1>1, Zenon DEF BeginPublish, BeginMoveDraft, BeginSettings, BeginArchive, BeginCreateBlind, NewRound
  <2> QED BY <1>g, <2>1
<1>2. CASE BeginRestore(a)
  BY <1>2, <1>t DEF BeginRestore, SpecsInHand, SpecsOf, OneTime, Lifecycle
<1>3. CASE BeginCreate(a)
  <2>1. CASE NewRound(a)
    BY <1>g, <2>1 DEF NewRound
  <2> DEFINE dl == defaultDeadline(now, window)
             new(d) == [NoLocal EXCEPT !.issue = d, !.opens = now, !.close = dl, !.specs = issueEventSpecs(dl)]
  <2>2. ASSUME NEW d, Goto(a, "early", new(d))
        PROVE  SpecsInHand'
    <3>1. new(d).specs = issueEventSpecs(dl)
      BY DEF NoLocal
    <3>2. OneTime(issueEventSpecs(dl))
      BY <1>t, CalendarType, LifecycleTimes
    <3> HIDE DEF new
    <3> QED BY <1>t, <2>2, <3>1, <3>2, HandedSpecs
  <2> QED BY <1>3, <2>1, <2>2 DEF BeginCreate
<1>a. ASSUME NEW i \in Issues, NEW dl \in Int, dl > now, NEW v, Goto(a, "apply", v),
             v.specs = rescheduledIssueEventSpecs(i, dl), v.close = dl
      PROVE  SpecsInHand'
  <2>1. Lifecycle(v.specs, v.close)
    BY <1>a, <1>t, LifecycleTimes
  <2> QED BY <1>a, <1>t, <2>1, HandedSpecs
<1>4. CASE BeginMoveDeadline(a)
  <2>1. PICK i \in Collecting, m \in Moves :
           /\ now + m > now
           /\ Goto(a, "apply", [NoLocal EXCEPT !.issue = i, !.close = now + m,
                                  !.specs = rescheduledIssueEventSpecs(i, now + m)])
    BY <1>4, Zenon DEF BeginMoveDeadline
  <2> DEFINE v == [NoLocal EXCEPT !.issue = i, !.close = now + m, !.specs = rescheduledIssueEventSpecs(i, now + m)]
  <2>2. v.specs = rescheduledIssueEventSpecs(i, now + m) /\ v.close = now + m
    BY DEF NoLocal
  <2>3. i \in Issues /\ now + m \in Int /\ Goto(a, "apply", v)
    BY <1>t, <2>1, RowsType, ParamAssumption
  <2> HIDE DEF v
  <2> QED BY <1>a, <2>1, <2>2, <2>3
<1>5. CASE BeginPinNext(a)
  <2>1. PICK k \in PinDays, w \in Windows :
           LET open == atLocalHour(now + Days(k), nextOpenLocalHour)
               pin == [NoLocal EXCEPT !.next = open, !.days = w]
           IN  \/ Goto(a, "apply", pin)
               \/ \E c \in Collecting, m \in Moves :
                       LET dl == atLocalHour(now + m, deadlineLocalHour)
                       IN  /\ dl > now
                           /\ Goto(a, "apply", [pin EXCEPT !.issue = c, !.close = dl,
                                                  !.specs = rescheduledIssueEventSpecs(c, dl)])
    BY <1>5, Zenon DEF BeginPinNext
  <2> DEFINE open == atLocalHour(now + Days(k), nextOpenLocalHour)
             pin == [NoLocal EXCEPT !.next = open, !.days = w]
  <2>2. CASE Goto(a, "apply", pin)
    <3>1. pin.close = Null
      BY DEF NoLocal
    <3> HIDE DEF pin
    <3> QED BY <1>t, <2>2, <3>1, HandedSpecs
  <2>3. ASSUME NEW c \in Collecting, NEW m \in Moves, NEW dl, dl = atLocalHour(now + m, deadlineLocalHour), dl > now,
               Goto(a, "apply", [pin EXCEPT !.issue = c, !.close = dl, !.specs = rescheduledIssueEventSpecs(c, dl)])
        PROVE  SpecsInHand'
    <3> DEFINE v == [pin EXCEPT !.issue = c, !.close = dl, !.specs = rescheduledIssueEventSpecs(c, dl)]
    <3>1. v.specs = rescheduledIssueEventSpecs(c, dl) /\ v.close = dl
      BY DEF NoLocal
    <3>2. c \in Issues /\ now + m \in Int
      BY <1>t, RowsType, ParamAssumption
    <3>3. dl \in Int
      BY <2>3, <3>2, HourType DEF deadlineLocalHour
    <3>4. Goto(a, "apply", v)
      BY <2>3
    <3> HIDE DEF v
    <3> QED BY <1>a, <2>3, <3>1, <3>2, <3>3, <3>4
  <2> QED BY <2>1, <2>2, <2>3
<1> QED BY <1>1, <1>2, <1>3, <1>4, <1>5 DEF Begin

\* Every step leaves sound schedules in hand.
LEMMA SpecsKept ==
    ASSUME TypeInv, SpecsInHand, [Next]_vars
    PROVE  SpecsInHand'
<1>1. ASSUME NEW a \in Admins,
             OpenDraftEarly(a) \/ ApplySchedule(a) \/ UpdateDraftIssue(a) \/ UpdateSettings(a) \/ CancelEvents(a)
      PROVE  SpecsInHand'
  <2>1. (\E v : Goto(a, "idle", v)) /\ now' = now
    BY <1>1 DEF OpenDraftEarly, ApplySchedule, UpdateDraftIssue, UpdateSettings, CancelEvents, env
  <2> QED BY <2>1, ElsewhereSpecs DEF TypeInv, Procs
<1>2. ASSUME NEW p \in Procs, LifecycleFault(p) \/ Fault(p)
      PROVE  SpecsInHand'
  <2>1. loc[p].ret \in {"idle", "mark"} /\ TypeOK
    BY DEF TypeInv, TypeOK, Local
  <2>2. CASE LifecycleFault(p)
    BY <2>1, <2>2, ElsewhereSpecs DEF LifecycleFault, AfterLifecycle, env
  <2>3. CASE Fault(p)
    <3>1. PICK l \in OnFault(p) : Goto(p, l, loc[p])
      BY <2>3 DEF Fault
    <3>2. l \notin {"early", "apply"}
      BY <2>1, <3>1 DEF OnFault, HandlerOf
    <3> QED BY <2>1, <2>3, <3>1, <3>2, ElsewhereSpecs DEF Fault, env
  <2> QED BY <1>2, <2>2, <2>3
<1>3. CASE UNCHANGED vars
  BY <1>3 DEF vars, SpecsInHand, SpecsOf, OneTime, Lifecycle
<1> QED BY <1>1, <1>2, <1>3, SharedSpecs, SchedulerSpecs, BeginSpecs DEF Next, SchedStep, AdminStep, Procs

-----------------------------------------------------------------------------
(* That the times are inductive.                                           *)

\* A step that fires nothing keeps what is known of the rows' times.
LEMMA KnownKept ==
    ASSUME TimesInv, events' \subseteq Event, NobodyFires, NewAlike, now' \in Nat, now <= now'
    PROVE  /\ \A ev : Known(ev) => Known(ev)'
           /\ \A e \in events' : Known(e)'
           /\ FiredWasDue'
           /\ 0 < nextTx'
<1>0. /\ nextTx \in Nat /\ nextTx' \in Nat /\ nextTx <= nextTx' /\ now \in Nat
      /\ \A e \in events : e.at \in Int /\ e.tx \in Nat
      /\ \A e \in events' : e.tx \in Nat
  BY DEF TimesInv, FiringInv, TypeInv, TypeOK, Event, NobodyFires
<1>b. nextTx < nextTx' => nextTx \in 0..(nextTx' - 1)
  <2>1. \A m, n \in Nat : m < n => m \in 0..(n - 1)
    OBVIOUS
  <2> QED BY <1>0, <2>1
<1>1. ASSUME NEW ev, Known(ev), NEW e \in events', SameRow(e, ev)
      PROVE  e.at = ev.at
  <2>1. e.tx = ev.tx
    BY <1>1 DEF SameRow
  <2>2. PICK f \in events : SameRow(e, f) /\ e.at = f.at
    <3>1. ~NewRow(e)
      BY <1>0, <1>1, <2>1 DEF NewRow, Known
    <3> QED BY <3>1 DEF NobodyFires, KeptRow
  <2>3. SameRow(f, ev)
    BY <1>1, <2>2 DEF SameRow
  <2> QED BY <1>1, <2>2, <2>3 DEF Known
<1>2. ASSUME NEW ev, Known(ev)
      PROVE  Known(ev)'
  <2>1. ev.tx \in 0..(nextTx' - 1)
    BY <1>0, <1>2 DEF Known
  <2> QED BY <1>1, <1>2, <2>1 DEF Known, SameRow
<1>3. ASSUME NEW e \in events', NewRow(e)
      PROVE  Known(e)'
  <2>1. e.tx \in 0..(nextTx' - 1)
    <3>1. e.tx = nextTx /\ nextTx < nextTx'
      BY <1>3 DEF NewRow
    <3>2. nextTx \in 0..(nextTx' - 1)
      BY <1>b, <3>1
    <3> QED BY <3>1, <3>2
  <2>2. ASSUME NEW f \in events', SameRow(f, e)
        PROVE  f.at = e.at
    <3>1. NewRow(f)
      <4>1. CASE KeptRow(f)
        <5>1. PICK g \in events : SameRow(f, g)
          BY <4>1 DEF KeptRow
        <5>2. g.tx < nextTx
          BY DEF TimesInv, FiringInv, TxBelow
        <5>3. g.tx = nextTx
          BY <1>3, <2>2, <5>1 DEF NewRow, SameRow
        <5> QED BY <1>0, <5>2, <5>3
      <4> QED BY <4>1 DEF NobodyFires
    <3> QED BY <1>3, <2>2, <3>1 DEF NewAlike
  <2> QED BY <2>1, <2>2 DEF Known, SameRow
<1>4. ASSUME NEW e \in events', KeptRow(e)
      PROVE  Known(e)'
  <2>1. PICK f \in events : SameRow(e, f) /\ e.at = f.at
    BY <1>4 DEF KeptRow
  <2>2. Known(f)'
    BY <1>2 DEF TimesInv
  <2>3. e.tx = f.tx /\ \A g : SameRow(g, e) => SameRow(g, f)
    BY <2>1 DEF SameRow
  <2> QED BY <2>1, <2>2, <2>3 DEF Known, SameRow
<1>5. FiredWasDue'
  <2> SUFFICES ASSUME NEW e \in events', ~Pending(e) PROVE e.at <= now'
    BY DEF FiredWasDue, Pending
  <2>1. PICK f \in events : e.firedAt = f.firedAt /\ e.at = f.at
    BY DEF NobodyFires, NewRow, KeptRow
  <2>2. f.at <= now
    BY <2>1 DEF TimesInv, FiredWasDue, Pending
  <2> QED BY <1>0, <2>1, <2>2
<1>6. 0 < nextTx'
  BY <1>0 DEF TimesInv
<1> QED BY <1>2, <1>3, <1>4, <1>5, <1>6 DEF NobodyFires

\* No event is known, and no event is due.
LEMMA NoEventKnown ==
    ASSUME NEW rows \in SUBSET Event, NEW n \in Nat, 0 < n, NEW t \in Nat
    PROVE  /\ NoEvent.tx \in 0..(n - 1) /\ NoEvent.at <= t
           /\ \A e \in rows : ~SameRow(e, NoEvent)
<1>1. NoEvent.tx = 0 /\ NoEvent.issue = 0 /\ NoEvent.at = 0
  BY DEF NoEvent
<1>2. \A e \in rows : e.issue # 0
  BY DEF Event, Issues
<1> QED BY <1>1, <1>2 DEF SameRow

\* A step that fires nothing and takes up nothing keeps what is in hand due.
LEMMA DueKept ==
    ASSUME TimesInv, TypeOK', 0 < nextTx', \A ev : Known(ev) => Known(ev)',
           now' \in Nat, now <= now', queue' \subseteq queue, loc'[Sched].ev \in {loc[Sched].ev, NoEvent}
    PROVE  DueInHand'
<1>0. /\ now \in Nat /\ \A ev \in queue : ev.at \in Int
      /\ loc[Sched].ev.at \in Int
  <2>1. loc[Sched].ev \in Event \cup {NoEvent}
    BY DEF TimesInv, FiringInv, TypeInv, TypeOK, Local, Procs
  <2>2. \A ev \in Event \cup {NoEvent} : ev.at \in Int
    BY DEF Event, NoEvent
  <2> QED BY <2>1, <2>2 DEF TimesInv, FiringInv, TypeInv, TypeOK
<1>1. ASSUME NEW ev, Known(ev), ev.at \in Int, ev.at <= now
      PROVE  Known(ev)' /\ ev.at <= now'
  BY <1>0, <1>1
<1>2. \A ev \in queue' : Known(ev)' /\ ev.at <= now'
  BY <1>0, <1>1 DEF TimesInv, DueInHand
<1>3. PICK held : held = loc[Sched].ev
  OBVIOUS
<1>4. Known(held)' /\ held.at <= now'
  BY <1>0, <1>1, <1>3 DEF TimesInv, DueInHand
<1>5. Known(NoEvent)' /\ NoEvent.at <= now'
  BY NoEventKnown DEF TypeOK, Known, SameRow
<1>6. loc'[Sched].ev \in {held, NoEvent}
  BY <1>3
<1>7. Known(loc[Sched].ev)' /\ loc'[Sched].ev.at <= now'
  BY <1>4, <1>5, <1>6 DEF Known
<1> QED BY <1>2, <1>7 DEF DueInHand

\* The clock never goes back, and only FetchOverdue adds to the list.
LEMMA ClockAndQueue ==
    ASSUME TypeOK, [Next]_vars
    PROVE  /\ now' \in Nat /\ now <= now'
           /\ queue' \subseteq queue \/ FetchOverdue
<1>t. now \in Nat
  BY DEF TypeOK
<1>0. ASSUME now' = now, queue' \subseteq queue \/ FetchOverdue
      PROVE  now' \in Nat /\ now <= now' /\ (queue' \subseteq queue \/ FetchOverdue)
  BY <1>0, <1>t
<1>1. CASE Tick
  BY <1>1, <1>t DEF Tick
<1>2. CASE Crash \/ Restart \/ FetchOverdue \/ ReconcileAutoCreate
  BY <1>0, <1>2 DEF Crash, Restart, FetchOverdue, ReconcileAutoCreate, env
<1>3. CASE \/ TakeEvent \/ GuardEvent \/ SendMail \/ MarkEventFired \/ CheckClose \/ CreateNextIssue \/ ReanchorDraft
  BY <1>0, <1>3 DEF TakeEvent, GuardEvent, SendMail, MarkEventFired, CheckClose, CreateNextIssue, ReanchorDraft, env
<1>4. ASSUME NEW p \in Procs, SharedStep(p)
      PROVE  now' = now /\ queue' = queue
  BY <1>4 DEF SharedStep, PublishIssue, AfterPublish, QueuePending, QueueClear, QueueDraft, QueueReanchor,
     QueueCreate, QueueEvent, CreateFresh, SetCollecting, ScheduleIssueEvents, env
<1>5. ASSUME NEW a \in Admins,
             \/ Begin(a) \/ OpenDraftEarly(a) \/ ApplySchedule(a) \/ UpdateDraftIssue(a)
             \/ UpdateSettings(a) \/ CancelEvents(a)
      PROVE  now' = now /\ queue' = queue
  BY <1>5 DEF Begin, OpenDraftEarly, ApplySchedule, UpdateDraftIssue, UpdateSettings, CancelEvents, env
<1>6. ASSUME NEW p \in Procs, Fault(p) \/ LifecycleFault(p)
      PROVE  now' = now /\ queue' = queue
  BY <1>6 DEF Fault, LifecycleFault, env
<1>7. CASE UNCHANGED vars
  BY <1>0, <1>7 DEF vars
<1> QED BY <1>0, <1>1, <1>2, <1>3, <1>4, <1>5, <1>6, <1>7 DEF Next, SchedStep, AdminStep, Procs

\* The read of overdue events, stale rows included, lists what is due.
LEMMA FetchDue ==
    ASSUME TimesInv, FetchOverdue, \A ev : Known(ev) => Known(ev)'
    PROVE  DueInHand'
<1>1. PICK stale \in SUBSET {e \in events : ~Pending(e)} : queue' = Overdue \cup stale
  BY DEF FetchOverdue
<1>2. now' = now /\ loc' = loc
  BY DEF FetchOverdue
<1>3. ASSUME NEW ev \in queue' PROVE Known(ev)' /\ ev.at <= now'
  <2>1. ev \in events /\ ev.at <= now
    BY <1>1 DEF Overdue, TimesInv, FiredWasDue
  <2> QED BY <1>2, <2>1 DEF TimesInv
<1>4. PICK held : held = loc[Sched].ev
  OBVIOUS
<1>5. Known(held)' /\ held.at <= now'
  BY <1>2, <1>4 DEF TimesInv, DueInHand
<1>6. Known(loc[Sched].ev)' /\ loc'[Sched].ev.at <= now'
  BY <1>2, <1>4, <1>5 DEF Known
<1> QED BY <1>3, <1>6 DEF DueInHand

\* The event that is taken up comes from the list.
LEMMA TakeDue ==
    ASSUME TimesInv, TakeEvent, \A ev : Known(ev) => Known(ev)', 0 < nextTx', TypeOK'
    PROVE  DueInHand'
<1>1. PICK ev \in queue :
         \E l : Goto(Sched, l, [NoLocal EXCEPT !.ev = ev, !.issue = ev.issue, !.ret = "mark"])
  BY Zenon DEF TakeEvent
<1>2. now' = now /\ queue' \subseteq queue
  BY DEF TakeEvent, env
<1>3. loc'[Sched].ev \in {ev, NoEvent}
  BY <1>1 DEF Goto, NoLocal, TimesInv, FiringInv, TypeInv, TypeOK, Procs
<1>4. Known(ev)' /\ ev.at <= now'
  BY <1>2 DEF TimesInv, DueInHand
<1>5. Known(NoEvent)' /\ NoEvent.at <= now'
  BY NoEventKnown DEF TypeOK, Known, SameRow
<1>6. Known(loc[Sched].ev)' /\ loc'[Sched].ev.at <= now'
  BY <1>3, <1>4, <1>5 DEF Known
<1>7. \A e \in queue' : Known(e)' /\ e.at <= now'
  BY <1>2 DEF TimesInv, DueInHand
<1> QED BY <1>6, <1>7 DEF DueInHand

\* What MarkEventFired marks had come due, and keeps its time.
LEMMA MarkDue ==
    ASSUME TimesInv, MarkEventFired, TypeOK'
    PROVE  /\ 0 < nextTx' /\ (\A e \in events' : Known(e)')
           /\ DueInHand' /\ FiredWasDue'
<1> DEFINE ev == loc[Sched].ev
           Mark(e) == IF SameRow(e, ev) THEN [e EXCEPT !.firedAt = now, !.logged = FALSE] ELSE e
<1>0. /\ Sched \in Procs /\ nextTx' = nextTx /\ now' = now /\ queue' = queue /\ events \subseteq Event
      /\ 0 < nextTx
  BY DEF Procs, MarkEventFired, env, TimesInv, FiringInv, TypeInv, TypeOK
<1>1. events' = {Mark(e) : e \in events}
  BY DEF MarkEventFired
<1>2. \A e \in events : /\ SameRow(Mark(e), e) /\ Mark(e).at = e.at
                        /\ Mark(e).firedAt = IF SameRow(e, ev) THEN now ELSE e.firedAt
  BY <1>0 DEF Event, SameRow
<1>3. ASSUME NEW f, Known(f) PROVE Known(f)'
  <2> HIDE DEF Mark
  <2>1. \A e \in events : SameRow(Mark(e), f) => SameRow(e, f)
    BY <1>2 DEF SameRow
  <2> QED BY <1>0, <1>1, <1>2, <1>3, <2>1 DEF Known, SameRow
<1>5. \A e \in events' : Known(e)'
  <2> SUFFICES ASSUME NEW f \in events' PROVE Known(f)'
    OBVIOUS
  <2>1. PICK e \in events : f = Mark(e)
    BY <1>1
  <2>2. Known(f)
    <3> HIDE DEF Mark
    <3>1. SameRow(f, e) /\ f.at = e.at
      BY <1>2, <2>1
    <3>2. Known(e)
      BY DEF TimesInv
    <3> QED BY <3>1, <3>2 DEF Known, SameRow
  <2> QED BY <1>3, <2>2
<1>6. FiredWasDue'
  <2> SUFFICES ASSUME NEW e \in events, ~Pending(Mark(e)) PROVE Mark(e).at <= now
    BY <1>0, <1>1 DEF FiredWasDue, Pending
  <2>1. CASE SameRow(e, ev)
    <3>1. e.at = ev.at /\ ev.at <= now
      BY <2>1 DEF TimesInv, DueInHand, Known
    <3> QED BY <1>2, <3>1
  <2>2. CASE ~SameRow(e, ev)
    BY <2>2 DEF TimesInv, FiredWasDue
  <2> QED BY <2>1, <2>2
<1>7. loc'[Sched].ev = NoEvent
  BY <1>0 DEF MarkEventFired, Goto, NoLocal, TimesInv, FiringInv, TypeInv, TypeOK
<1>8. Known(NoEvent)' /\ NoEvent.at <= now'
  BY <1>0, NoEventKnown DEF TypeOK, Known, SameRow
<1>9. \A f \in queue' : Known(f)' /\ f.at <= now'
  BY <1>0, <1>3 DEF TimesInv, DueInHand
<1>10. DueInHand'
  BY <1>7, <1>8, <1>9 DEF DueInHand, Known
<1> QED BY <1>0, <1>5, <1>6, <1>10

\* Every step keeps the times.
LEMMA NextTimes == TimesInv /\ [Next]_vars => TimesInv'
<1> SUFFICES ASSUME TimesInv, [Next]_vars PROVE TimesInv'
  OBVIOUS
<1>0. FiringInv /\ FiringInv' /\ TypeOK /\ TypeOK' /\ SpecsInHand' /\ NewAlike
  BY NextFiring, SpecsKept, StepAlike DEF TimesInv, FiringInv, TypeInv
<1>1. now' \in Nat /\ now <= now' /\ (queue' \subseteq queue \/ FetchOverdue) /\ events' \subseteq Event
  BY <1>0, ClockAndQueue DEF TypeOK
<1>2. CASE NobodyFires /\ SchedKeeps
  <2>1. (\A ev : Known(ev) => Known(ev)') /\ (\A e \in events' : Known(e)') /\ FiredWasDue' /\ 0 < nextTx'
    BY <1>0, <1>1, <1>2, KnownKept
  <2>2. CASE FetchOverdue
    BY <1>0, <2>1, <2>2, FetchDue DEF TimesInv
  <2>3. CASE queue' \subseteq queue
    <3>1. DueInHand'
      BY <1>0, <1>1, <1>2, <2>1, <2>3, DueKept DEF SchedKeeps
    <3> QED BY <1>0, <2>1, <3>1 DEF TimesInv
  <2> QED BY <1>1, <2>2, <2>3
<1>3. CASE TakeEvent
  <2>1. NobodyFires
    BY <1>0, <1>3, DeletingFiresNobody DEF TakeEvent, db, TypeOK
  <2>2. (\A ev : Known(ev) => Known(ev)') /\ (\A e \in events' : Known(e)') /\ FiredWasDue' /\ 0 < nextTx'
    BY <1>0, <1>1, <2>1, KnownKept
  <2>3. DueInHand'
    BY <1>0, <1>3, <2>2, TakeDue
  <2> QED BY <1>0, <2>2, <2>3 DEF TimesInv
<1>4. CASE MarkEventFired
  BY <1>0, <1>4, MarkDue DEF TimesInv
<1> QED BY <1>0, <1>2, <1>3, <1>4, StepKinds

\* A launched Loop's times.
LEMMA InitTimes == Init => TimesInv
<1> SUFFICES ASSUME Init PROVE TimesInv
  OBVIOUS
<1>0. TypeOK /\ TypeInv /\ FiringInv /\ now \in Nat /\ window \in Nat
  BY InitFiring DEF FiringInv, TypeInv, TypeOK
<1> DEFINE dl == defaultDeadline(now, window)
<1>1. OneTime(issueEventSpecs(dl))
  BY <1>0, CalendarType, LifecycleTimes
<1>2. nextTx = 1 /\ events = {Row(0, 1, s) : s \in issueEventSpecs(dl)} /\ queue = {}
      /\ loc[Sched].ev = NoEvent
  BY DEF Init, Procs, NoLocal
<1>3. \A e, f \in events : e.tx = 0 /\ Pending(e) /\ (SameRow(e, f) => e.at = f.at)
  <2> HIDE DEF dl
  <2> QED BY <1>1, <1>2 DEF Row, Pending, SameRow, OneTime
<1>4. \A e \in events : Known(e)
  <2>1. 0 \in 0..(nextTx - 1)
    BY <1>2
  <2> QED BY <1>3, <2>1 DEF Known, SameRow
<1>5. Known(NoEvent) /\ NoEvent.at <= now
  <2>1. 0 < nextTx
    BY <1>2
  <2> QED BY <1>0, <2>1, NoEventKnown DEF TypeOK, Known, SameRow
<1>6. SpecsInHand
  BY DEF Init, SpecsInHand, SpecsOf, Procs
<1>7. FiredWasDue
  BY <1>3 DEF FiredWasDue
<1>8. DueInHand /\ 0 < nextTx
  BY <1>2, <1>5 DEF DueInHand
<1> QED BY <1>0, <1>4, <1>6, <1>7, <1>8 DEF TimesInv

\* The UNIQUE key never refuses a replacement lifecycle (ApplySchedule deletes the
\* pending rows of the round first): what has fired was due, and every row that is
\* inserted, but the immediate reminder, lies in the future of the request.
THEOREM ReplacementFits == Spec => []ReplacementNeverRefused
<1>1. TimesInv => ReplacementNeverRefused
  <2> SUFFICES ASSUME TimesInv, NEW a \in Admins, pc[a] = "apply", loc[a].close # Null,
                      NEW e \in DropPending(events, loc[a].issue), NEW s \in loc[a].specs,
                      e.issue = loc[a].issue, e.at = s.at, ~s.imm
               PROVE  FALSE
    BY DEF ReplacementNeverRefused, Collides
  <2>1. e \in events /\ ~Pending(e)
    BY DEF DropPending
  <2>2. e.at <= now /\ s.at > now
    BY <2>1 DEF TimesInv, FiredWasDue, SpecsInHand, SpecsOf, Lifecycle
  <2>3. now \in Nat /\ e.at \in Int
    BY <2>1 DEF TimesInv, FiringInv, TypeInv, TypeOK, Event
  <2> QED BY <2>2, <2>3
<1> QED BY <1>1, InitTimes, NextTimes, PTL DEF Spec

-----------------------------------------------------------------------------
(* Who moves the deadline of a round that collects answers.                *)

Stays(i) == issues[i].status = "collecting" /\ issues'[i].status = "collecting"
Moved(i) == Stays(i) /\ issues'[i].deadline # issues[i].deadline

\* Only ApplySchedule does: the others write drafts, new rows or the status alone.
LEMMA OnlyApplyMoves ==
    ASSUME TypeInv, [Next]_vars, NEW i \in Issues, Moved(i)
    PROVE  \E a \in Admins : ApplySchedule(a)
<1> SUFFICES ASSUME \A a \in Admins : ~ApplySchedule(a) PROVE FALSE
  OBVIOUS
<1>t. TypeOK /\ issues \in [Issues -> Issue] /\ issues[i] \in Issue
  BY DEF TypeInv, TypeOK
<1>0. issues' # issues /\ Stays(i) /\ issues'[i].deadline # issues[i].deadline
  BY DEF Moved, Stays
<1>s. ASSUME NEW j, NEW st, issues' = [issues EXCEPT ![j].status = st]
      PROVE  FALSE
  BY <1>0, <1>s, <1>t DEF Issue
<1>d. ASSUME NEW j, issues[j].status # "collecting", NEW r, issues' = [issues EXCEPT ![j] = r]
      PROVE  FALSE
  BY <1>0, <1>d, <1>t DEF Stays
<1>1. CASE \/ Tick \/ Crash \/ Restart \/ FetchOverdue \/ ReconcileAutoCreate
           \/ TakeEvent \/ GuardEvent \/ SendMail \/ MarkEventFired \/ CheckClose \/ CreateNextIssue
  BY <1>0, <1>1 DEF Tick, Crash, Restart, FetchOverdue, ReconcileAutoCreate, TakeEvent, GuardEvent, SendMail,
     MarkEventFired, CheckClose, CreateNextIssue, db
<1>u. ASSUME NEW p \in Procs, NEW l, UpdateIssueSchedule(p, l)
      PROVE  FALSE
  <2>1. CASE loc[p].issue \in Drafts
    <3>1. issues[loc[p].issue].status = "draft" /\ loc[p].issue # i
      BY <1>0, <2>1 DEF Drafts, WithStatus, Stays
    <3>2. issues' = [issues EXCEPT ![loc[p].issue].opensAt = loc[p].opens, ![loc[p].issue].deadline = loc[p].close]
      BY <1>u, <2>1 DEF UpdateIssueSchedule
    <3> QED BY <1>0, <1>t, <3>1, <3>2
  <2>2. CASE loc[p].issue \notin Drafts
    BY <1>0, <1>u, <2>2 DEF UpdateIssueSchedule
  <2> QED BY <2>1, <2>2
<1>2. CASE ReanchorDraft
  BY <1>2, <1>u DEF ReanchorDraft, Procs
<1>c. ASSUME NEW p \in Procs, NEW l, CreateIssue(p, l)
      PROVE  FALSE
  <2>1. PICK j \in FreshIssues :
           issues' = [issues EXCEPT ![j] = [status |-> "draft", opensAt |-> loc[p].opens, deadline |-> loc[p].close]]
    BY <1>c DEF CreateIssue
  <2>2. issues[j].status # "collecting"
    BY DEF FreshIssues
  <2> QED BY <1>d, <2>1, <2>2
<1>3. ASSUME NEW p \in Procs, SharedStep(p)
      PROVE  FALSE
  <2>1. CASE \/ AfterPublish(p) \/ QueuePending(p) \/ QueueClear(p) \/ QueueDraft(p) \/ QueueEvent(p)
             \/ ScheduleIssueEvents(p)
    BY <1>0, <2>1 DEF AfterPublish, QueuePending, QueueClear, QueueDraft, QueueEvent, ScheduleIssueEvents, db
  <2>2. CASE PublishIssue(p) \/ SetCollecting(p)
    BY <1>s, <2>2 DEF PublishIssue, SetCollecting
  <2>3. CASE QueueReanchor(p)
    BY <1>u, <2>3 DEF QueueReanchor
  <2>4. CASE QueueCreate(p) \/ CreateFresh(p)
    BY <1>c, <2>4 DEF QueueCreate, CreateFresh
  <2> QED BY <1>3, <2>1, <2>2, <2>3, <2>4 DEF SharedStep
<1>4. ASSUME NEW a \in Admins, Begin(a)
      PROVE  FALSE
  BY <1>0, <1>4 DEF Begin, BeginPublish, BeginCreate, BeginMoveDeadline, BeginPinNext, BeginMoveDraft,
       BeginSettings, BeginArchive, BeginRestore, BeginCreateBlind, db
<1>5. ASSUME NEW a \in Admins, OpenDraftEarly(a)
      PROVE  FALSE
  <2>1. CASE issues' = issues
    BY <1>0, <2>1
  <2>2. CASE /\ loc[a].issue \in Drafts
             /\ issues' = [issues EXCEPT ![loc[a].issue] = [status |-> "collecting",
                                        opensAt |-> loc[a].opens, deadline |-> loc[a].close]]
    BY <1>d, <2>2 DEF Drafts, WithStatus
  <2> QED BY <1>5, <2>1, <2>2 DEF OpenDraftEarly
<1>6. ASSUME NEW a \in Admins, UpdateDraftIssue(a)
      PROVE  FALSE
  <2>1. issues' = [issues EXCEPT ![loc[a].issue].deadline = loc[a].close] /\ loc[a].issue \in Drafts
    BY <1>0, <1>6 DEF UpdateDraftIssue, StillDraft
  <2>2. loc[a].issue # i
    BY <1>0, <2>1 DEF Drafts, WithStatus, Stays
  <2> QED BY <1>0, <1>t, <2>1, <2>2
<1>7. ASSUME NEW a \in Admins, UpdateSettings(a) \/ CancelEvents(a)
      PROVE  FALSE
  BY <1>0, <1>7 DEF UpdateSettings, CancelEvents
<1>8. ASSUME NEW p \in Procs, Fault(p) \/ LifecycleFault(p)
      PROVE  FALSE
  BY <1>0, <1>8 DEF Fault, LifecycleFault, db
<1>9. CASE UNCHANGED vars
  BY <1>0, <1>9 DEF vars
<1> QED BY <1>1, <1>2, <1>3, <1>4, <1>5, <1>6, <1>7, <1>8, <1>9 DEF Next, SchedStep, AdminStep, Procs

\* When ApplySchedule moves it, the round's lifecycle is replaced, and an opening
\* may be queued for a draft.
LEMMA ApplyMoves ==
    ASSUME TypeInv, SpecsInHand, NEW a \in Admins, ApplySchedule(a), NEW i \in Issues, Moved(i)
    PROVE  /\ loc[a].close # Null /\ loc[a].issue = i /\ issues'[i].deadline = loc[a].close
           /\ Lifecycle(loc[a].specs, loc[a].close)
           /\ ScheduleFits(loc[a])
           /\ LET new == Insert(DropPending(events, i), i, loc[a].specs)
              IN  \/ loc[a].next = Null /\ events' = new /\ Drafts' = Drafts
                  \/ /\ loc[a].next # Null
                     /\ \E d : events' = Insert(DropQueuedNext(new), d,
                               {[type |-> "create_next_issue", at |-> loc[a].next, imm |-> FALSE]})
<1> DEFINE v == loc[a]
           moved == IF v.close = Null THEN issues ELSE [issues EXCEPT ![v.issue].deadline = v.close]
           one == {[type |-> "create_next_issue", at |-> v.next, imm |-> FALSE]}
           pinned == [status |-> "draft", opensAt |-> v.next,
                      deadline |-> atLocalHour(v.next + Days(v.days), deadlineLocalHour)]
<1>t. issues \in [Issues -> Issue] /\ issues[i] \in Issue
  BY DEF TypeInv, TypeOK
<1>0. issues' # issues /\ Stays(i) /\ issues'[i].deadline # issues[i].deadline
  BY DEF Moved, Stays
<1>1. /\ ScheduleFits(v) /\ CanReschedule(v)
      /\ \/ v.next = Null /\ issues' = moved /\ events' = RescheduledEvents(v)
         \/ /\ v.next # Null
            /\ \E d \in (IF Drafts = {} THEN FreshIssues ELSE EarliestDrafts) :
                  /\ issues' = [moved EXCEPT ![d] = pinned]
                  /\ events' = Insert(DropQueuedNext(RescheduledEvents(v)), d, one)
  <2>1. ~(issues' = issues)
    BY <1>0
  <2> QED BY <2>1, Zenon DEF ApplySchedule, db
<1>2. moved[i].deadline # issues[i].deadline
  <2>1. CASE issues' = moved
    BY <1>0, <2>1
  <2>2. ASSUME NEW d \in (IF Drafts = {} THEN FreshIssues ELSE EarliestDrafts),
               issues' = [moved EXCEPT ![d] = pinned]
        PROVE  moved[i].deadline # issues[i].deadline
    <3>1. d # i
      BY <1>0 DEF FreshIssues, EarliestDrafts, Drafts, WithStatus, Stays
    <3>2. moved \in [Issues -> Issue] \/ DOMAIN moved = Issues
      BY <1>t
    <3> HIDE DEF moved, pinned
    <3> QED BY <1>0, <2>2, <3>1, <3>2
  <2> QED BY <1>1, <2>1, <2>2
<1>3. v.close # Null /\ v.issue = i /\ moved = [issues EXCEPT ![i].deadline = v.close]
  BY <1>2, <1>t
<1>4. issues'[i].deadline = v.close
  <2>1. moved[i].deadline = v.close /\ DOMAIN moved = Issues
    BY <1>3, <1>t DEF Issue
  <2>2. CASE issues' = moved
    BY <2>1, <2>2
  <2>3. ASSUME NEW d \in (IF Drafts = {} THEN FreshIssues ELSE EarliestDrafts),
               issues' = [moved EXCEPT ![d] = pinned]
        PROVE  issues'[i].deadline = v.close
    <3>1. d # i
      BY <1>0 DEF FreshIssues, EarliestDrafts, Drafts, WithStatus, Stays
    <3> HIDE DEF moved, pinned
    <3> QED BY <2>1, <2>3, <3>1
  <2> QED BY <1>1, <2>2, <2>3
<1>5. RescheduledEvents(v) = Insert(DropPending(events, i), i, v.specs)
  BY <1>3 DEF RescheduledEvents
<1>6. issues' = moved => Drafts' = Drafts
  <2> SUFFICES ASSUME issues' = moved PROVE \A j \in Issues : issues'[j].status = issues[j].status
    BY DEF Drafts, WithStatus
  <2> QED BY <1>3, <1>t DEF Issue
<1>7. Lifecycle(v.specs, v.close)
  BY <1>3 DEF ApplySchedule, SpecsInHand, SpecsOf
<1> HIDE DEF moved, pinned
<1> QED BY <1>1, <1>3, <1>4, <1>5, <1>6, <1>7

\* The deadline of a round that collects answers only moves together with its
\* lifecycle (ApplySchedule's transaction): whatever requests, events, crashes and
\* failures interleave, its one pending auto_close is then at the new deadline.
THEOREM DeadlineWithLifecycle == Spec => DeadlineMovesWithLifecycle
<1>1. ASSUME TimesInv, [Next]_vars, NEW i \in Issues, Moved(i)
      PROVE  {e.at : e \in {f \in events' : Pending(f) /\ f.issue = i /\ f.type = "auto_close"}}
                = {issues'[i].deadline}
  <2>0. TypeInv /\ SpecsInHand
    BY <1>1 DEF TimesInv, FiringInv
  <2>1. PICK a \in Admins : ApplySchedule(a)
    BY <1>1, <2>0, OnlyApplyMoves
  <2> DEFINE v == loc[a]
             new == Insert(DropPending(events, i), i, v.specs)
  <2>2. /\ issues'[i].deadline = v.close /\ Lifecycle(v.specs, v.close)
        /\ events' = new \/ \E d : events' = Insert(DropQueuedNext(new), d,
                               {[type |-> "create_next_issue", at |-> v.next, imm |-> FALSE]})
    BY <1>1, <2>0, <2>1, ApplyMoves
  <2>3. \A s : /\ Row(nextTx, i, s).type = s.type /\ Row(nextTx, i, s).at = s.at
               /\ Row(nextTx, i, s).issue = i /\ Pending(Row(nextTx, i, s))
    BY DEF Row, Pending
  <2>4. \A e \in new : Pending(e) /\ e.issue = i /\ e.type = "auto_close" => e.at = v.close
    BY <2>2, <2>3 DEF Insert, DropPending, Lifecycle
  <2>5. \A f \in events' : f \in new \/ f.type = "create_next_issue"
    <3> HIDE DEF new
    <3> QED BY <2>2 DEF Insert, DropQueuedNext, Row
  <2>6. PICK s \in v.specs : s.type = "auto_close"
    BY <2>2 DEF Lifecycle
  <2>7. Row(nextTx, i, s) \in new
    BY DEF Insert
  <2>8. Row(nextTx, i, s) \in events'
    <3> HIDE DEF new
    <3> QED BY <2>2, <2>3, <2>6, <2>7 DEF Insert, DropQueuedNext
  <2>9. s.at = v.close
    BY <2>2, <2>6 DEF Lifecycle
  <2> HIDE DEF new
  <2> QED BY <2>2, <2>3, <2>4, <2>5, <2>6, <2>8, <2>9
<1>2. TimesInv /\ [Next]_vars =>
        [\A i \in Issues :
          (/\ issues[i].status = "collecting" /\ issues'[i].status = "collecting"
           /\ issues'[i].deadline # issues[i].deadline)
          => {e.at : e \in {f \in events' : Pending(f) /\ f.issue = i /\ f.type = "auto_close"}}
                = {issues'[i].deadline}]_vars
  BY <1>1 DEF Moved, Stays
<1> QED BY <1>2, InitTimes, NextTimes, PTL DEF Spec, DeadlineMovesWithLifecycle

\* ApplySchedule never saves a deadline at or past an opening that is queued by
\* then, whatever was queued after the handler checked.
THEOREM DeadlineClearsQueued == Spec => MovedDeadlineClearsQueued
<1>1. ASSUME TimesInv, [Next]_vars, NEW i \in Issues, Moved(i), NEW e \in QueuedNext'
      PROVE  e.at > issues'[i].deadline
  <2>0. TypeInv /\ SpecsInHand
    BY <1>1 DEF TimesInv, FiringInv
  <2>1. PICK a \in Admins : ApplySchedule(a)
    BY <1>1, <2>0, OnlyApplyMoves
  <2> DEFINE v == loc[a]
             new == Insert(DropPending(events, i), i, v.specs)
             one == [type |-> "create_next_issue", at |-> v.next, imm |-> FALSE]
  <2>2. /\ v.close # Null /\ issues'[i].deadline = v.close /\ Lifecycle(v.specs, v.close) /\ ScheduleFits(v)
        /\ \/ v.next = Null /\ events' = new /\ Drafts' = Drafts
           \/ v.next # Null /\ \E d : events' = Insert(DropQueuedNext(new), d, {one})
    BY <1>1, <2>0, <2>1, ApplyMoves
  <2>3. e \in events' /\ Pending(e) /\ e.type = "create_next_issue" /\ e.issue \in Drafts'
    BY <1>1 DEF QueuedNext, Pending
  <2>4. CASE v.next = Null
    <3>1. e \in events
      <4>1. \A s \in v.specs : Row(nextTx, i, s).type # "create_next_issue"
        BY <2>2 DEF Row, Lifecycle
      <4> QED BY <2>2, <2>3, <2>4, <4>1 DEF Insert, DropPending
    <3>2. e \in QueuedNext
      BY <2>2, <2>3, <2>4, <3>1 DEF QueuedNext
    <3> QED BY <2>2, <2>4, <3>2 DEF ScheduleFits
  <2>5. CASE v.next # Null
    <3>1. PICK d : events' = Insert(DropQueuedNext(new), d, {one})
      BY <2>2, <2>5
    <3>2. e = Row(nextTx, d, one)
      <4> HIDE DEF new, one
      <4> QED BY <2>3, <3>1 DEF Insert, DropQueuedNext
    <3>3. e.at = v.next
      BY <3>2 DEF Row
    <3> QED BY <2>2, <2>5, <3>3 DEF ScheduleFits
  <2> QED BY <2>4, <2>5
<1>2. TimesInv /\ [Next]_vars =>
        [\A i \in Issues :
          (/\ issues[i].status = "collecting" /\ issues'[i].status = "collecting"
           /\ issues'[i].deadline # issues[i].deadline)
          => \A e \in QueuedNext' : e.at > issues'[i].deadline]_vars
  BY <1>1 DEF Moved, Stays
<1> QED BY <1>2, InitTimes, NextTimes, PTL DEF Spec, MovedDeadlineClearsQueued

=============================================================================
