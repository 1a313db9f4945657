------------------------------- MODULE Rounds -------------------------------
(***************************************************************************)
(* The life of one Loop's rounds (issues): the scheduler goroutine         *)
(* (internal/scheduler), the actions it calls (internal/server/actions.go),*)
(* the admin's HTTP handlers (issues.go, schedule.go, admin.go, groups.go) *)
(* and the SQLite rows they share (internal/store).                        *)
(*                                                                         *)
(* Every write transaction is one step.  A handler's reads are taken       *)
(* together with the write-free code around them, so that other processes  *)
(* can step between what a handler has read and what it writes.            *)
(*                                                                         *)
(* Time is counted in hours.  Things happen at 10 AM, when the rounds of   *)
(* 9 AM and the reminders of 10 AM are due, and at 10 PM, when the rounds  *)
(* of 9 PM are due to close.                                               *)
(***************************************************************************)
EXTENDS Integers, FiniteSets

CONSTANTS
    Admins,       \* admin requests that may be in flight at the same time
    MaxIssues,    \* bound: rows of the issues table
    MaxTime,      \* bound: hours
    CadenceDays,  \* days from one round's opening to the next (frequency)
    Windows,      \* answering windows an admin may set, in days
    Moves,        \* hours from now to a time an admin may type
    PinDays,      \* days from now to a next opening an admin may pin
    MaxRequests,  \* bound: admin requests
    MaxTroubles,  \* bound: store calls that fail, and crashes of the server
    Overlap,      \* may a request run while another request or an event runs?
    CarriesOn,    \* may handleCreateIssue meet the failures it carries on after?
    StaleReads    \* may a read connection be stuck in an old snapshot?

Sched == "scheduler"
Procs == Admins \cup {Sched}
Issues == 1..MaxIssues

ASSUME ParamAssumption ==
    /\ Sched \notin Admins
    /\ MaxIssues \in Nat \ {0}
    /\ MaxTime \in Nat /\ CadenceDays \in Nat
    /\ Windows \subseteq Nat /\ Windows # {}
    /\ Moves \subseteq Int /\ PinDays \subseteq Int
    /\ MaxRequests \in Nat /\ MaxTroubles \in Nat
    /\ Overlap \in BOOLEAN /\ CarriesOn \in BOOLEAN /\ StaleReads \in BOOLEAN

VARIABLES
    now,     \* the wall clock, in hours
    up,      \* is the server process running?
    passed,  \* has the scheduler looked for overdue events since the clock moved?
    issues,  \* the issues table
    events,  \* the scheduler_events table
    nextTx,  \* numbers the transactions that insert events
    active,  \* groups.is_active
    auto,    \* settings.auto_create_enabled
    window,  \* settings.submission_window_days
    pc,      \* where each process is
    loc,     \* what each process has read and not yet used
    queue,   \* overdue events of the pass in progress, in memory
    spent    \* requests and troubles so far

db == <<issues, events, nextTx, active, auto, window>>
env == <<now, up, passed>>
vars == <<now, up, passed, issues, events, nextTx, active, auto, window,
          pc, loc, queue, spent>>

-----------------------------------------------------------------------------
(* Rows.                                                                   *)

Status == {"none", "draft", "collecting", "published"}
Issue == [status : Status, opensAt : Int, deadline : Int]

Reminders == {"reminder_1", "reminder_2"}
Mails == Reminders \cup {"admin_summary"}
EventType == Mails \cup {"auto_close", "create_next_issue"}

\* A nullable time column that is NULL.
Null == -1

\* An event before it is inserted.  imm marks the immediate reminder, whose
\* scheduled_at is the nanosecond the request was served in.
EventSpec == [type : EventType, at : Int, imm : BOOLEAN]

\* A row of scheduler_events.  (tx, issue, type, imm) stands for its id: ids
\* are never reused.  logged: email_log rows refer to it (a foreign key);
\* it is kept only while the event is pending, fired rows are never deleted.
Event == [tx : Nat, issue : Issues, type : EventType, at : Int, imm : BOOLEAN,
          firedAt : Int, logged : BOOLEAN]

NoEvent == [tx |-> 0, issue |-> 0, type |-> "auto_close", at |-> 0, imm |-> FALSE,
            firedAt |-> Null, logged |-> FALSE]

Pending(e) == e.firedAt = Null
SameRow(e, f) == e.tx = f.tx /\ e.issue = f.issue /\ e.type = f.type /\ e.imm = f.imm

WithStatus(st) == {i \in Issues : issues[i].status = st}
Collecting == WithStatus("collecting")
Drafts == WithStatus("draft")

\* SELECT ... WHERE status = 'draft' ORDER BY opens_at ASC LIMIT 1: any of
\* the earliest drafts (GetNextDraftIssue).
EarliestDrafts == {d \in Drafts : \A c \in Drafts : issues[d].opensAt <= issues[c].opensAt}

\* BUG: only a draft past its opening counts.
ActiveDrafts == {d \in Drafts : issues[d].opensAt <= now}

\* A collecting round, or a draft past its opening (GetActiveIssue).
ActiveIssues == Collecting \cup {d \in Drafts : issues[d].opensAt <= now}

\* Queued openings whose round is still a draft (GetPendingNextRoundEvent).
QueuedNext == {e \in events : Pending(e) /\ e.type = "create_next_issue" /\ e.issue \in Drafts}

\* INSERT INTO issues: the next AUTOINCREMENT id.
FreshIssues == {i \in Issues : /\ issues[i].status = "none"
                               /\ \A j \in 1..(i - 1) : issues[j].status # "none"}

Row(tx, i, s) == [tx |-> tx, issue |-> i, type |-> s.type, at |-> s.at, imm |-> s.imm,
                  firedAt |-> Null, logged |-> FALSE]
Insert(es, i, specs) == es \cup {Row(nextTx, i, s) : s \in specs}

\* UNIQUE(issue_id, event_type, scheduled_at).
Collides(es, i, specs) ==
    \E e \in es, s \in specs : /\ e.issue = i /\ e.type = s.type /\ e.at = s.at
                               /\ ~e.imm /\ ~s.imm

DropPending(es, i) == {e \in es : ~(Pending(e) /\ e.issue = i)}

\* BUG: the openings already queued are left alone.
KeepQueuedNext(es) == es

DropQueuedNext(es) == {e \in es : ~(Pending(e) /\ e.type = "create_next_issue")}

-----------------------------------------------------------------------------
(* Calendar arithmetic.                                                    *)

Days(n) == 24 * n

\* That hour of the day t falls on.
atLocalHour(t, hour) == 24 * (t \div 24) + hour
nextOpenLocalHour == 9
reminderLocalHour == 10
deadlineLocalHour == 21

minReminderLead == 12
staleEventCeiling == 48
minSubmissionWindowDays == 3

effectiveWindowDays(w) == IF w < minSubmissionWindowDays THEN 7 ELSE w
defaultDeadline(open, days) ==
    atLocalHour(open + Days(effectiveWindowDays(days)), deadlineLocalHour)

\* The cadence slot, two days from now when it is less than a day away.
nextIssueOpenTime(last) ==
    LET slot == last + Days(CadenceDays)
    IN  IF slot < now + Days(1) THEN now + Days(2) ELSE slot

\* ... in the morning, pushed a day when that is under 12 hours away.
cadenceNextOpen(last) ==
    LET next == atLocalHour(nextIssueOpenTime(last), nextOpenLocalHour)
    IN  IF next < now + 12 THEN next + Days(1) ELSE next

\* BUG: reminders already past are queued too.
SpecsWithoutLead(dl) ==
    { [type |-> "reminder_1", at |-> atLocalHour(dl - Days(3), reminderLocalHour), imm |-> FALSE],
      [type |-> "reminder_2", at |-> atLocalHour(dl - Days(1), reminderLocalHour), imm |-> FALSE],
      [type |-> "admin_summary", at |-> atLocalHour(dl - Days(1), reminderLocalHour), imm |-> FALSE],
      [type |-> "auto_close", at |-> dl, imm |-> FALSE] }

issueEventSpecs(dl) ==
    {s \in SpecsWithoutLead(dl) : s.type = "auto_close" \/ s.at >= now + minReminderLead}

\* HasRecentFiredReminder: one fired in the last 24 hours.
RecentReminder(i) ==
    \E e \in events : /\ e.issue = i /\ e.type \in Reminders
                      /\ ~Pending(e) /\ e.firedAt >= now - Days(1)

\* The lifecycle around a moved deadline, with an immediate last-chance
\* reminder when the deadline moved earlier, or when no standard reminder
\* fits and none went out in the last day.
rescheduledIssueEventSpecs(i, dl) ==
    LET specs == issueEventSpecs(dl)
        nudge == \/ dl < issues[i].deadline
                 \/ (\A s \in specs : s.type \notin Reminders) /\ ~RecentReminder(i)
    IN  specs \cup {s \in {[type |-> "reminder_2", at |-> now, imm |-> TRUE]} : nudge}

-----------------------------------------------------------------------------
(* Processes.                                                              *)

Local == [issue : Issues \cup {0}, opens : Int, close : Int, specs : SUBSET EventSpec,
          next : Int, days : Nat, on : BOOLEAN, ret : {"idle", "mark"}, ev : Event \cup {NoEvent}]

NoLocal == [issue |-> 0, opens |-> Null, close |-> Null, specs |-> {},
            next |-> Null, days |-> 0, on |-> FALSE, ret |-> "idle", ev |-> NoEvent]

SchedPC == {"guard", "remind", "close", "closeW", "announce", "open", "reanchor", "mark"}
QueuePC == {"qPending", "qClear", "qDraft", "qReanchor", "qCreate", "qEvent"}
OpenPC == {"fresh", "status", "lifecycle"}
AdminPC == {"publish", "publishNext", "early", "apply", "draftW", "cancel", "settingsW"}
PC == {"idle"} \cup SchedPC \cup QueuePC \cup OpenPC \cup AdminPC

\* Process p goes on at l with locals v; a finished process forgets them.
Goto(p, l, v) ==
    /\ pc' = [pc EXCEPT ![p] = l]
    /\ loc' = [loc EXCEPT ![p] = IF l = "idle" THEN NoLocal ELSE v]

AllIdle == queue = {} /\ \A p \in Procs : pc[p] = "idle"
MayBegin == up /\ (Overlap \/ AllIdle)

TypeOK ==
    /\ now \in Nat
    /\ up \in BOOLEAN /\ passed \in BOOLEAN
    /\ issues \in [Issues -> Issue]
    /\ events \subseteq Event
    /\ nextTx \in Nat
    /\ active \in BOOLEAN /\ auto \in BOOLEAN
    /\ window \in Nat
    /\ pc \in [Procs -> PC]
    /\ loc \in [Procs -> Local]
    /\ queue \subseteq Event
    /\ spent \in [requests : Nat, troubles : Nat]

\* A Loop just launched: its first round collects answers and has its
\* lifecycle queued.
Init ==
    /\ now = 10
    /\ up = TRUE
    /\ passed = FALSE
    /\ active = TRUE
    /\ auto \in BOOLEAN
    /\ window \in Windows
    /\ issues = [i \in Issues |->
                    IF i = 1
                    THEN [status |-> "collecting", opensAt |-> now, deadline |-> defaultDeadline(now, window)]
                    ELSE [status |-> "none", opensAt |-> 0, deadline |-> 0]]
    /\ nextTx = 1
    /\ events = {Row(0, 1, s) : s \in issueEventSpecs(defaultDeadline(now, window))}
    /\ pc = [p \in Procs |-> "idle"]
    /\ loc = [p \in Procs |-> NoLocal]
    /\ queue = {}
    /\ spent = [requests |-> 0, troubles |-> 0]

-----------------------------------------------------------------------------
(* The clock, the process and the storage.                                 *)

\* Time passes.  Requests and events take seconds, and a running
\* scheduler looks for overdue events every minute.
Tick ==
    /\ now < MaxTime
    /\ AllIdle /\ (up => passed)
    /\ now' = now + 12
    /\ passed' = FALSE
    /\ UNCHANGED <<up, db, pc, loc, queue, spent>>

\* The process dies: everything in memory is gone, the rows stay.
Crash ==
    /\ up
    /\ spent.troubles < MaxTroubles
    /\ spent' = [spent EXCEPT !.troubles = @ + 1]
    /\ up' = FALSE
    /\ pc' = [p \in Procs |-> "idle"]
    /\ loc' = [p \in Procs |-> NoLocal]
    /\ queue' = {}
    /\ UNCHANGED <<now, passed, db>>

Restart ==
    /\ ~up
    /\ up' = TRUE
    /\ passed' = FALSE
    /\ UNCHANGED <<now, db, pc, loc, queue, spent>>

-----------------------------------------------------------------------------
(* The scheduler loop: fireOverdueEvents and fireEvent.                    *)

Overdue == {e \in events : Pending(e) /\ e.at <= now}

\* GetOverdueEvents goes through a read connection, which may be stuck in a
\* snapshot where an event that has fired is still pending.
FetchOverdue ==
    /\ MayBegin
    /\ pc[Sched] = "idle" /\ queue = {}
    /\ \E stale \in SUBSET {e \in events : ~Pending(e)} :
          /\ Cardinality(stale) <= (IF StaleReads THEN 1 ELSE 0)
          /\ queue' = Overdue \cup stale
    /\ passed' = TRUE
    /\ UNCHANGED <<now, up, db, pc, loc, spent>>

\* BUG: the event handed out by the reader is trusted.
TrustTheReader(ev) == \E e \in events : SameRow(e, ev)

\* IsEventPending, through the write connection.
IsEventPending(ev) == \E e \in events : SameRow(e, ev) /\ Pending(e)

\* The next event of the pass, in order of scheduled_at.
TakeEvent ==
    /\ pc[Sched] = "idle"
    /\ \E ev \in queue :
          /\ \A e \in queue : ev.at <= e.at
          /\ queue' = queue \ {ev}
          /\ Goto(Sched, IF IsEventPending(ev) THEN "guard" ELSE "idle",
                  [NoLocal EXCEPT !.ev = ev, !.issue = ev.issue, !.ret = "mark"])
    /\ UNCHANGED <<env, db, spent>>

shouldSkipEvent(ev) ==
    LET st == issues[ev.issue].status
    IN  \/ ev.type = "create_next_issue" /\ st # "draft"
        \/ ev.type # "create_next_issue" /\ st # "collecting"
        \/ ev.type \in Reminders /\ now > issues[ev.issue].deadline
        \/ ev.type \in {"auto_close", "admin_summary"} /\ now - ev.at > staleEventCeiling

\* The case of fireEvent's switch that handles an event.
HandlerOf(ev) ==
    CASE ev.type \in Mails -> "remind"
      [] ev.type = "auto_close" -> "close"
      [] OTHER -> "open"

\* An archived Loop's event, or one overtaken by reality, is marked fired
\* without running its handler.
GuardEvent ==
    LET v == loc[Sched]
    IN  /\ pc[Sched] = "guard"
        /\ Goto(Sched, IF ~active \/ shouldSkipEvent(v.ev) THEN "mark" ELSE HandlerOf(v.ev), v)
        /\ UNCHANGED <<env, db, queue, spent>>

\* SendReminderForIssue and SendAdminSummaryForIssue: reserve an email_log
\* row for the event (BeginSchedulerEmailAttempt), then send.  A reminder
\* for a round that no longer collects is an error, a summary is not.
SendMail ==
    LET v == loc[Sched]
        i == v.ev.issue
    IN  /\ pc[Sched] = "remind"
        /\ \/ /\ issues[i].status = "collecting"
              /\ \E due \in BOOLEAN :    \* does anyone remain to be mailed?
                    events' = {IF SameRow(e, v.ev) THEN [e EXCEPT !.logged = @ \/ due] ELSE e : e \in events}
              /\ Goto(Sched, "mark", v)
           \/ /\ issues[i].status # "collecting"
              /\ events' = events
              /\ Goto(Sched, IF v.ev.type = "admin_summary" THEN "mark" ELSE "idle", v)
        /\ UNCHANGED <<env, issues, nextTx, active, auto, window, queue, spent>>

MarkEventFired ==
    LET v == loc[Sched]
    IN  /\ pc[Sched] = "mark"
        /\ events' = {IF SameRow(e, v.ev) THEN [e EXCEPT !.firedAt = now, !.logged = FALSE] ELSE e
                       : e \in events}
        /\ Goto(Sched, "idle", v)
        /\ UNCHANGED <<env, issues, nextTx, active, auto, window, queue, spent>>

-----------------------------------------------------------------------------
(* AutoPublishIssue and handlePublishIssue.                                *)

CheckClose ==
    LET v == loc[Sched]
    IN  /\ pc[Sched] = "close"
        /\ Goto(Sched, IF issues[v.issue].status = "published" THEN "mark" ELSE "closeW", v)
        /\ UNCHANGED <<env, db, queue, spent>>

\* The admin may publish any round that is not published, a draft included.
BeginPublish(a) ==
    /\ \E i \in Collecting \cup Drafts : Goto(a, "publish", [NoLocal EXCEPT !.issue = i])
    /\ UNCHANGED db

\* PublishIssue: UPDATE issues SET status = 'published' WHERE id = ?
PublishIssue(p) ==
    LET v == loc[p]
    IN  /\ pc[p] = (IF p = Sched THEN "closeW" ELSE "publish")
        /\ issues' = [issues EXCEPT ![v.issue].status = "published"]
        /\ Goto(p, IF p = Sched THEN "announce" ELSE "publishNext", v)
        /\ UNCHANGED <<env, events, nextTx, active, auto, window, queue, spent>>

\* Members are notified; with auto-create on, the next round is queued.
AfterPublish(p) ==
    LET v == loc[p]
    IN  /\ pc[p] = (IF p = Sched THEN "announce" ELSE "publishNext")
        /\ Goto(p, IF auto THEN "qPending" ELSE v.ret,
                [v EXCEPT !.opens = issues[v.issue].opensAt, !.days = window])
        /\ UNCHANGED <<env, db, queue, spent>>

-----------------------------------------------------------------------------
(* queueNextIssueEvent, called after a publish and by the reconciler.  At  *)
(* its start loc[p].opens is the opening the cadence is anchored on, and   *)
(* loc[p].days the answering window its caller has read.                   *)

\* A queued round wins over the cadence.
QueuePending(p) ==
    LET v == loc[p]
    IN  /\ pc[p] = "qPending"
        /\ Goto(p, IF QueuedNext # {} THEN v.ret ELSE "qClear", v)
        /\ UNCHANGED <<env, db, queue, spent>>

\* Openings left in the queue now are stale.
QueueClear(p) ==
    /\ pc[p] = "qClear"
    /\ events' = DropQueuedNext(events)
    /\ Goto(p, "qDraft", loc[p])
    /\ UNCHANGED <<env, issues, nextTx, active, auto, window, queue, spent>>

\* Keep the schedule of a draft that opens comfortably later, re-anchor any
\* other draft to the cadence slot, and create a draft when there is none.
QueueDraft(p) ==
    LET v == loc[p]
        slot == cadenceNextOpen(v.opens)
        new == [v EXCEPT !.opens = slot, !.close = defaultDeadline(slot, v.days)]
    IN  /\ pc[p] = "qDraft"
        /\ \/ /\ Drafts = {}
              /\ Goto(p, "qCreate", new)
           \/ \E d \in EarliestDrafts :
                 IF issues[d].opensAt > now + 12
                 THEN Goto(p, "qEvent", [v EXCEPT !.issue = d, !.opens = issues[d].opensAt])
                 ELSE Goto(p, "qReanchor", [new EXCEPT !.issue = d])
        /\ UNCHANGED <<env, db, queue, spent>>

\* UPDATE issues SET opens_at, deadline WHERE id = ? AND status = 'draft'.
UpdateIssueSchedule(p, l) ==
    LET v == loc[p]
    IN  IF v.issue \in Drafts
        THEN /\ issues' = [issues EXCEPT ![v.issue].opensAt = v.opens, ![v.issue].deadline = v.close]
             /\ Goto(p, l, v)
        ELSE /\ issues' = issues
             /\ Goto(p, IF l = "qEvent" THEN v.ret ELSE "idle", v)

QueueReanchor(p) ==
    /\ pc[p] = "qReanchor"
    /\ UpdateIssueSchedule(p, "qEvent")
    /\ UNCHANGED <<env, events, nextTx, active, auto, window, queue, spent>>

\* CreateIssue: the schema's default status is draft.
CreateIssue(p, l) ==
    \E i \in FreshIssues :
        /\ issues' = [issues EXCEPT ![i] =
                        [status |-> "draft", opensAt |-> loc[p].opens, deadline |-> loc[p].close]]
        /\ Goto(p, l, [loc[p] EXCEPT !.issue = i])

QueueCreate(p) ==
    /\ pc[p] = "qCreate"
    /\ CreateIssue(p, "qEvent")
    /\ UNCHANGED <<env, events, nextTx, active, auto, window, queue, spent>>

\* BUG: the event does not refer to the round it opens.
QueueLoopless(p) ==
    /\ pc[p] = "qEvent"
    /\ events' = Insert(events, Null, {[type |-> "create_next_issue", at |-> loc[p].opens, imm |-> FALSE]})
    /\ nextTx' = nextTx + 1
    /\ Goto(p, loc[p].ret, loc[p])
    /\ UNCHANGED <<env, issues, active, auto, window, queue, spent>>

\* A collision with an existing row is logged and the event not queued.
QueueEvent(p) ==
    LET v == loc[p]
        s == {[type |-> "create_next_issue", at |-> v.opens, imm |-> FALSE]}
    IN  /\ pc[p] = "qEvent"
        /\ events' = IF Collides(events, v.issue, s) THEN events ELSE Insert(events, v.issue, s)
        /\ nextTx' = nextTx + 1
        /\ Goto(p, v.ret, v)
        /\ UNCHANGED <<env, issues, active, auto, window, queue, spent>>

\* BUG: a draft past its opening passes for a running cycle.
CycleAliveByActive == ActiveIssues # {}

\* Only a collecting round or a queued opening keeps the cycle going.
CycleAlive == Collecting # {}

\* ReconcileAutoCreate, at startup and daily.  The anchor is the latest
\* edition by (year, month) label; labels are not modelled, so it is any
\* published round.
ReconcileAutoCreate ==
    /\ MayBegin
    /\ pc[Sched] = "idle" /\ queue = {}
    /\ active /\ auto /\ ~CycleAlive /\ QueuedNext = {}
    /\ \E i \in WithStatus("published") :
          Goto(Sched, "qPending", [NoLocal EXCEPT !.opens = issues[i].opensAt, !.days = window])
    /\ UNCHANGED <<env, db, queue, spent>>

-----------------------------------------------------------------------------
(* CreateNextIssue and openIssueForCollecting.                             *)

\* BUG: a draft is opened with whatever deadline it carries.
NeverReanchors(d) == FALSE

\* A deadline already past or imminent calls for a fresh window.
NeedsReanchor(d) == issues[d].deadline <= now + minReminderLead

\* The reads of CreateNextIssue.  The event is consumed without effect when
\* auto-create is off, a round is collecting, or the draft was re-pinned to
\* open after the event.
CreateNextIssue ==
    LET v == loc[Sched]
        fresh == [v EXCEPT !.opens = now, !.close = defaultDeadline(now, window)]
    IN  /\ pc[Sched] = "open"
        /\ \/ /\ ~auto \/ Collecting # {}
              /\ Goto(Sched, "mark", v)
           \/ /\ auto /\ Collecting = {} /\ Drafts = {}
              /\ Goto(Sched, "fresh", fresh)
           \/ /\ auto /\ Collecting = {}
              /\ \E d \in EarliestDrafts :
                    IF issues[d].opensAt > v.ev.at THEN Goto(Sched, "mark", v)
                    ELSE IF NeedsReanchor(d) THEN Goto(Sched, "reanchor", [fresh EXCEPT !.issue = d])
                    ELSE Goto(Sched, "status", [v EXCEPT !.issue = d, !.close = issues[d].deadline])
        /\ UNCHANGED <<env, db, queue, spent>>

ReanchorDraft ==
    /\ pc[Sched] = "reanchor"
    /\ UpdateIssueSchedule(Sched, "status")
    /\ UNCHANGED <<env, events, nextTx, active, auto, window, queue, spent>>

CreateFresh(p) ==
    /\ pc[p] = "fresh"
    /\ CreateIssue(p, "status")
    /\ UNCHANGED <<env, events, nextTx, active, auto, window, queue, spent>>

\* SetIssueStatus: UPDATE issues SET status = 'collecting' WHERE id = ?
SetCollecting(p) ==
    LET v == loc[p]
    IN  /\ pc[p] = "status"
        /\ issues' = [issues EXCEPT ![v.issue].status = "collecting"]
        /\ Goto(p, "lifecycle", v)
        /\ UNCHANGED <<env, events, nextTx, active, auto, window, queue, spent>>

\* The events of specs that scheduleIssueEvents manages to insert, one by one.
Queueable(i, specs) == {s \in specs : ~Collides(events, i, {s})}

AfterLifecycle(p) == IF p = Sched THEN "mark" ELSE "idle"

\* scheduleIssueEvents around the deadline the process has in hand.  The
\* scheduler then mails every member that the round is open.
ScheduleIssueEvents(p) ==
    LET v == loc[p]
    IN  /\ pc[p] = "lifecycle"
        /\ events' = Insert(events, v.issue, Queueable(v.issue, issueEventSpecs(v.close)))
        /\ nextTx' = nextTx + 1
        /\ Goto(p, AfterLifecycle(p), v)
        /\ UNCHANGED <<env, issues, active, auto, window, queue, spent>>

-----------------------------------------------------------------------------
(* handleCreateIssue: "Start it now".                                      *)

\* A round of its own, opening now or when the request says, and closing at
\* the default deadline or when the request says.
NewRound(a) ==
    \E open \in {now} \cup {now + m : m \in Moves} :
    \E dl \in {defaultDeadline(open, window)} \cup {now + m : m \in Moves} :
        /\ dl > open
        /\ Goto(a, "fresh", [NoLocal EXCEPT !.opens = open, !.close = dl])

\* A round that is active already is refused.  An upcoming draft is opened
\* early; without one a round is created.
BeginCreate(a) ==
    /\ ActiveIssues = {}
    /\ \/ \E d \in EarliestDrafts :
             LET dl == defaultDeadline(now, window)
             IN  Goto(a, "early", [NoLocal EXCEPT !.issue = d, !.opens = now, !.close = dl,
                                                  !.specs = issueEventSpecs(dl)])
       \/ Drafts = {} /\ NewRound(a)
    /\ UNCHANGED db

\* GetUpcomingDraftIssue fails: logged, and a round is created beside the
\* draft.
BeginCreateBlind(a) ==
    /\ CarriesOn /\ spent.troubles < MaxTroubles
    /\ ActiveIssues = {} /\ Drafts # {}
    /\ NewRound(a)
    /\ UNCHANGED db

\* One transaction: consume every queued opening, turn the draft into the
\* collecting round at its new schedule, install its lifecycle.
OpenDraftEarly(a) ==
    LET v == loc[a]
        rest == DropQueuedNext(events)
        ok == v.issue \in Drafts /\ ~Collides(rest, v.issue, v.specs)
    IN  /\ pc[a] = "early"
        /\ issues' = IF ok THEN [issues EXCEPT ![v.issue] = [status |-> "collecting",
                                        opensAt |-> v.opens, deadline |-> v.close]]
                           ELSE issues
        /\ events' = IF ok THEN Insert(rest, v.issue, v.specs) ELSE events
        /\ nextTx' = IF ok THEN nextTx + 1 ELSE nextTx
        /\ Goto(a, "idle", v)
        /\ UNCHANGED <<env, active, auto, window, queue, spent>>

-----------------------------------------------------------------------------
(* Moving a deadline and pinning the next round.                           *)

\* handleUpdateIssue, handleExtendDeadline and the current-round half of
\* handleUpdateSchedule: validate the new deadline against what is read now.
BeginMoveDeadline(a) ==
    /\ \E i \in Collecting, m \in Moves :
          LET dl == now + m
          IN  /\ dl > now /\ dl > issues[i].opensAt
              /\ \A e \in QueuedNext : e.at > dl
              /\ Goto(a, "apply", [NoLocal EXCEPT !.issue = i, !.close = dl,
                                     !.specs = rescheduledIssueEventSpecs(i, dl)])
    /\ UNCHANGED db

\* handleUpdateSchedule with next-round dates, alone or together with a new
\* close for the round GetActiveIssue returns.
BeginPinNext(a) ==
    /\ auto
    /\ \E k \in PinDays, w \in Windows :
          LET open == atLocalHour(now + Days(k), nextOpenLocalHour)
              pin == [NoLocal EXCEPT !.next = open, !.days = w]
          IN  /\ k >= 1 /\ w >= minSubmissionWindowDays
              /\ \/ /\ \/ ActiveIssues = {}
                       \/ \E c \in ActiveIssues : c \in Collecting => open > issues[c].deadline
                    /\ Goto(a, "apply", pin)
                 \/ \E c \in Collecting, m \in Moves :
                       LET dl == atLocalHour(now + m, deadlineLocalHour)
                       IN  /\ dl > now /\ dl > issues[c].opensAt /\ open > dl
                           /\ Goto(a, "apply", [pin EXCEPT !.issue = c, !.close = dl,
                                                  !.specs = rescheduledIssueEventSpecs(c, dl)])
    /\ UNCHANGED db

\* BUG: the queued opening is not checked again inside the transaction.
ScheduleUnchecked(v) == TRUE

\* ApplySchedule's own check inside its transaction: the current round still
\* closes before the next one opens.
ScheduleFits(v) ==
    IF v.close # Null
    THEN IF v.next # Null THEN v.next > v.close ELSE \A e \in QueuedNext : e.at > v.close
    ELSE Collecting = {} \/ \E c \in Collecting : v.next > issues[c].deadline

\* The live round is still collecting, no pending event of it is referenced
\* by email_log (foreign key), and its new events do not collide.
CanReschedule(v) ==
    \/ v.close = Null
    \/ /\ v.issue \in Collecting
       /\ \A e \in events : (Pending(e) /\ e.issue = v.issue) => ~e.logged
       /\ ~Collides(DropPending(events, v.issue), v.issue, v.specs)

\* BUG: the old lifecycle survives the move.
KeepOldLifecycle(v) == IF v.close = Null THEN events ELSE Insert(events, v.issue, v.specs)

\* The lifecycle events of the live round are replaced as a whole.
RescheduledEvents(v) ==
    IF v.close = Null THEN events
    ELSE Insert(DropPending(events, v.issue), v.issue, v.specs)

\* ApplySchedule is one transaction: everything or nothing.
ApplySchedule(a) ==
    LET v == loc[a]
        moved == IF v.close = Null THEN issues
                 ELSE [issues EXCEPT ![v.issue].deadline = v.close]
        opening == {[type |-> "create_next_issue", at |-> v.next, imm |-> FALSE]}
        pinned == [status |-> "draft", opensAt |-> v.next,
                   deadline |-> atLocalHour(v.next + Days(v.days), deadlineLocalHour)]
    IN  /\ pc[a] = "apply"
        /\ \/ /\ ~(ScheduleFits(v) /\ CanReschedule(v))
              /\ UNCHANGED db
           \/ /\ ScheduleFits(v) /\ CanReschedule(v) /\ v.next = Null
              /\ issues' = moved
              /\ events' = RescheduledEvents(v)
              /\ nextTx' = nextTx + 1
              /\ UNCHANGED <<active, auto, window>>
           \/ /\ ScheduleFits(v) /\ CanReschedule(v) /\ v.next # Null
              /\ \E d \in (IF Drafts = {} THEN FreshIssues ELSE EarliestDrafts) :
                    /\ issues' = [moved EXCEPT ![d] = pinned]
                    /\ events' = Insert(DropQueuedNext(RescheduledEvents(v)), d, opening)
              /\ nextTx' = nextTx + 1
              /\ window' = v.days
              /\ UNCHANGED <<active, auto>>
        /\ Goto(a, "idle", v)
        /\ UNCHANGED <<env, queue, spent>>

\* handleUpdateIssue on an upcoming draft.
BeginMoveDraft(a) ==
    /\ \E d \in Drafts, m \in Moves :
          /\ m > 0 /\ now + m > issues[d].opensAt
          /\ Goto(a, "draftW", [NoLocal EXCEPT !.issue = d, !.close = now + m])
    /\ UNCHANGED db

\* BUG: UPDATE ... WHERE id = ? without the status predicate.
UpdateAnyStatus(i) == TRUE

\* UPDATE issues SET deadline = ? WHERE id = ? AND status = 'draft'.
StillDraft(i) == i \in Drafts

UpdateDraftIssue(a) ==
    LET v == loc[a]
    IN  /\ pc[a] = "draftW"
        /\ issues' = IF StillDraft(v.issue) THEN [issues EXCEPT ![v.issue].deadline = v.close]
                                            ELSE issues
        /\ Goto(a, "idle", v)
        /\ UNCHANGED <<env, events, nextTx, active, auto, window, queue, spent>>

-----------------------------------------------------------------------------
(* Settings and archiving.                                                 *)

\* handleUpdateSettings reads the whole row, changes what the request names
\* and writes the whole row back.
BeginSettings(a) ==
    /\ \E w \in {window} \cup {d \in Windows : d >= minSubmissionWindowDays}, on \in BOOLEAN :
          /\ <<w, on>> # <<window, auto>>
          /\ Goto(a, "settingsW", [NoLocal EXCEPT !.on = on, !.days = w])
    /\ UNCHANGED db

UpdateSettings(a) ==
    LET v == loc[a]
    IN  /\ pc[a] = "settingsW"
        /\ auto' = v.on
        /\ window' = v.days
        /\ Goto(a, "idle", v)
        /\ UNCHANGED <<env, issues, events, nextTx, active, queue, spent>>

\* handleUpdateGroup: SetGroupActive, and on archiving the pending events go.
BeginArchive(a) ==
    /\ active' = FALSE
    /\ Goto(a, "cancel", NoLocal)
    /\ UNCHANGED <<issues, events, nextTx, auto, window>>

BeginRestore(a) ==
    /\ active' = TRUE
    /\ UNCHANGED <<pc, loc, issues, events, nextTx, auto, window>>

\* DeletePendingEventsForGroup, refused as a whole by the foreign key when
\* email_log refers to one of the rows.
CancelEvents(a) ==
    /\ pc[a] = "cancel"
    /\ events' = IF \E e \in events : Pending(e) /\ e.logged THEN events
                 ELSE {e \in events : ~Pending(e)}
    /\ Goto(a, "idle", loc[a])
    /\ UNCHANGED <<env, issues, nextTx, active, auto, window, queue, spent>>

\* A request reaches its handler.  Nobody can enter an archived Loop, which
\* the instance operator can restore.
Begin(a) ==
    /\ MayBegin
    /\ pc[a] = "idle"
    /\ spent.requests < MaxRequests
    /\ \/ /\ active
          /\ \/ BeginPublish(a) \/ BeginCreate(a) \/ BeginMoveDeadline(a) \/ BeginPinNext(a)
             \/ BeginMoveDraft(a) \/ BeginSettings(a) \/ BeginArchive(a)
          /\ spent' = [spent EXCEPT !.requests = @ + 1]
       \/ /\ ~active
          /\ BeginRestore(a)
          /\ spent' = [spent EXCEPT !.requests = @ + 1]
       \/ /\ active
          /\ BeginCreateBlind(a)
          /\ spent' = [spent EXCEPT !.requests = @ + 1, !.troubles = @ + 1]
    /\ UNCHANGED <<env, queue>>

-----------------------------------------------------------------------------
(* A store call fails (or an event runs into its timeout).                 *)

\* Where process p may go on when its next store call fails.  Most handlers
\* give up (an event stays pending and is retried); a failed revalidation
\* lets the handler run; queueNextIssueEvent and the notifications log and
\* return; handleCreateIssue logs a failed SetIssueStatus and carries on.
OnFault(p) ==
    CASE pc[p] = "guard" -> {"idle", HandlerOf(loc[p].ev)}
      [] pc[p] \in QueuePC \cup {"announce"} -> {loc[p].ret}
      [] pc[p] = "status" /\ p # Sched -> {l \in {"lifecycle"} : CarriesOn}
      [] OTHER -> {"idle"}

Fault(p) ==
    /\ spent.troubles < MaxTroubles
    /\ spent' = [spent EXCEPT !.troubles = @ + 1]
    /\ pc[p] \notin {"idle", "lifecycle"}
    /\ \E l \in OnFault(p) : Goto(p, l, loc[p])
    /\ UNCHANGED <<env, db, queue>>

\* Some of the inserts of scheduleIssueEvents fail; each failure is logged.
LifecycleFault(p) ==
    LET v == loc[p]
    IN  /\ spent.troubles < MaxTroubles
        /\ spent' = [spent EXCEPT !.troubles = @ + 1]
        /\ pc[p] = "lifecycle"
        /\ \E lost \in SUBSET issueEventSpecs(v.close) :
              /\ lost # {}
              /\ events' = Insert(events, v.issue, Queueable(v.issue, issueEventSpecs(v.close) \ lost))
        /\ nextTx' = nextTx + 1
        /\ Goto(p, AfterLifecycle(p), v)
        /\ UNCHANGED <<env, issues, active, auto, window, queue>>

-----------------------------------------------------------------------------
\* The steps of code the scheduler and the admin's handlers share.
SharedStep(p) ==
    \/ PublishIssue(p) \/ AfterPublish(p)
    \/ QueuePending(p) \/ QueueClear(p) \/ QueueDraft(p)
    \/ QueueReanchor(p) \/ QueueCreate(p) \/ QueueEvent(p)
    \/ CreateFresh(p) \/ SetCollecting(p) \/ ScheduleIssueEvents(p)

SchedStep ==
    \/ TakeEvent \/ GuardEvent \/ SendMail \/ MarkEventFired
    \/ CheckClose \/ CreateNextIssue \/ ReanchorDraft
    \/ SharedStep(Sched)

AdminStep(a) ==
    \/ OpenDraftEarly(a) \/ ApplySchedule(a) \/ UpdateDraftIssue(a)
    \/ UpdateSettings(a) \/ CancelEvents(a)
    \/ SharedStep(a)

Next ==
    \/ Tick \/ Crash \/ Restart
    \/ FetchOverdue \/ ReconcileAutoCreate \/ SchedStep
    \/ \E a \in Admins : Begin(a) \/ AdminStep(a)
    \/ \E p \in Procs : Fault(p) \/ LifecycleFault(p)

Spec == Init /\ [][Next]_vars

-----------------------------------------------------------------------------
(* What holds when requests and events do not overlap (Overlap = FALSE),   *)
(* whatever crashes, outages and failing store calls come in between.      *)

\* At most one round collects answers (FollowsTheCycle implies it, in the
\* cases where that holds).  CreateNextIssue is a no-op if "a
\* round is already collecting answers", and handleCreateIssue refuses a
\* second active round.
AtMostOneCollecting == Cardinality(Collecting) <= 1

\* At most one round is upcoming, and at most one opening is queued for it:
\* pinning, publishing, reconciling and starting early all reuse the draft
\* and consume its queued opening.
OneUpcomingRound == Cardinality(Drafts) <= 1 /\ Cardinality(QueuedNext) <= 1

\* The scheduler publishes a round only once its deadline has come: an
\* auto_close event never outlives a deadline that moved away from it.
AutoCloseAtDeadline ==
    [][(pc[Sched] = "closeW" /\ pc'[Sched] = "announce")
          => issues[loc[Sched].issue].deadline <= now]_vars

\* The scheduler never opens a round whose deadline is past or imminent
\* (CreateNextIssue re-anchors it first): the next tick would publish it
\* empty minutes after members are told it opened.
NeverOpensExpired ==
    [][(pc[Sched] = "status" /\ pc'[Sched] = "lifecycle")
          => issues[loc[Sched].issue].deadline > now + minReminderLead]_vars

\* The rounds as their cycle sees them.
Cycle == INSTANCE RoundCycle WITH Editions <- Issues, stage <- [i \in Issues |-> issues[i].status]

\* Every round goes through the cycle: no handler opens one beside a round that
\* collects, drafts one beside the upcoming one or reopens what is published,
\* though PublishIssue and SetIssueStatus update a row whatever its status is.
FollowsTheCycle == Cycle!CycleSpec

-----------------------------------------------------------------------------
(* What holds however requests, events, crashes and failures interleave.   *)

\* The event the scheduler is acting on has not fired: a stuck read
\* connection that keeps handing out a fired event as overdue, for any number
\* of ticks, never gets it handled again (IsEventPending).  Requests may
\* delete the row meanwhile, but nothing marks it fired under the handler.
HandledEventIsPending ==
    (pc[Sched] # "idle" /\ loc[Sched].ret = "mark")
        => \A e \in events : SameRow(e, loc[Sched].ev) => Pending(e)

\* The deadline of a round that is collecting only moves together with its
\* lifecycle: afterwards the one pending auto_close is at the new deadline
\* (ApplySchedule's transaction; UpdateDraftIssue's status predicate).
DeadlineMovesWithLifecycle ==
    [][\A i \in Issues :
          (/\ issues[i].status = "collecting" /\ issues'[i].status = "collecting"
           /\ issues'[i].deadline # issues[i].deadline)
          => {e.at : e \in {f \in events' : Pending(f) /\ f.issue = i /\ f.type = "auto_close"}}
                = {issues'[i].deadline}]_vars

\* "A collecting round must close before its queued successor opens"
\* (deadlineClearsPinnedRound): whatever is queued while the handler that
\* moves the deadline has already checked, ApplySchedule never saves a
\* deadline at or past a queued opening.
MovedDeadlineClearsQueued ==
    [][\A i \in Issues :
          (/\ issues[i].status = "collecting" /\ issues'[i].status = "collecting"
           /\ issues'[i].deadline # issues[i].deadline)
          => \A e \in QueuedNext' : e.at > issues'[i].deadline]_vars

\* The UNIQUE key never refuses a replacement lifecycle: no event of the round
\* that has fired sits at a time the new deadline asks for.  A refusal would
\* roll back the admin's whole schedule change (ApplySchedule).
ReplacementNeverRefused ==
    \A a \in Admins : LET v == loc[a] IN
        (pc[a] = "apply" /\ v.close # Null)
            => ~Collides(DropPending(events, v.issue), v.issue, v.specs)

-----------------------------------------------------------------------------
(* Fairness: a running scheduler keeps ticking and reconciles daily, a     *)
(* request that was begun runs to its end, a crashed server is restarted.  *)

Fairness ==
    /\ WF_vars(Restart)
    /\ WF_vars(SchedStep)
    /\ \A a \in Admins : WF_vars(AdminStep(a))
    /\ SF_vars(ReconcileAutoCreate)

FairSpec == Spec /\ Fairness

\* Auto-create is on, something was published, and neither a collecting
\* round nor a queued opening will ever bring the next round.
Stalled ==
    /\ active /\ auto
    /\ Collecting = {} /\ QueuedNext = {}
    /\ WithStatus("published") # {}

\* A stalled cycle is picked up again (ReconcileAutoCreate), whatever crash
\* or failing store call interrupted queueNextIssueEvent.
StalledCycleRecovers == Stalled ~> ~Stalled

\* handleUpdateGroup says of a Loop restored from the archive, whose events
\* were deleted, that "the admin starts the next round by hand (or the daily
\* auto-create reconcile picks it back up)": sooner or later an event is
\* queued again, or no active round stands in the way of starting one.
RestoredLoopResumes ==
    (active /\ auto) ~> ((\E e \in events : Pending(e)) \/ ActiveIssues = {} \/ ~active)
=============================================================================
