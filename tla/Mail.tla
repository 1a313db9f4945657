-------------------------------- MODULE Mail --------------------------------
(***************************************************************************)
(* The mail a collecting round sends: the reminder and the admin summary   *)
(* of its scheduler events, which a retry must not send twice, and the     *)
(* notification that it is published, which the scheduler and the admin    *)
(* both send (internal/server/actions.go, issues.go, internal/store/       *)
(* email.go, internal/email/sender.go).                                    *)
(*                                                                         *)
(* A batch works through its recipients one by one: it reserves a row of   *)
(* email_log, hands the mail to the transport and saves the outcome.  The  *)
(* process may die, and a store call or a send may fail, at every point.   *)
(* Time is left out: any pending event may have come due.                  *)
(***************************************************************************)
EXTENDS Naturals

CONSTANTS
    Members,      \* active members of the Loop
    Leads,        \* the members who are its admins
    Muters,       \* the members who may have opted out of mails
    Webs,         \* requests to publish that may be in flight
    MaxLives,     \* bound: lifecycles, one more for every moved deadline
    MaxTroubles,  \* bound: crashes, failing store calls and failing sends
    Race          \* may one publish begin between another's check and write?

Sched == "scheduler"
Procs == Webs \cup {Sched}

ASSUME MailAssumption ==
    /\ Leads \subseteq Members /\ Muters \subseteq Members
    /\ Sched \notin Webs
    /\ MaxLives \in Nat \ {0} /\ MaxTroubles \in Nat
    /\ Race \in BOOLEAN

VARIABLES
    status,      \* of the round
    answered,    \* members with a submitted response
    muted,       \* members who want neither reminders nor publish mails
    events,      \* the state of each event row
    log,         \* email_log: the row of an event and a recipient
    inbox,       \* mails of an event a member has received
    unsaved,     \* ... of which email_log does not know that they were sent
    unreserved,  \* recipients whose row could not be reserved
    handled,     \* recipients a batch has worked through, of events that are fired
    published,   \* publish mails a member has received
    life,        \* the round's present lifecycle
    pc, loc,     \* where each process is, and what it has in hand
    troubles     \* so far

rows == <<status, answered, muted, events, log, life>>
history == <<inbox, unsaved, unreserved, handled, published>>
vars == <<status, answered, muted, events, log, inbox, unsaved, unreserved,
          handled, published, life, pc, loc, troubles>>

-----------------------------------------------------------------------------
(* An event is a lifecycle and a type.                                     *)

Lives == 1..MaxLives
Mailing == {"reminder", "admin_summary"}
Events == Lives \X (Mailing \cup {"auto_close"})
Type(e) == e[2]

Nobody == "nobody"
NoLocal == [ev |-> <<0, "auto_close">>, todo |-> {}, roster |-> {}, to |-> Nobody]
Local == [ev : Events \cup {NoLocal.ev}, todo : SUBSET Members, roster : SUBSET Members,
          to : Members \cup {Nobody}]

PC == {"idle", "roster", "next", "send", "logSent", "logFailed", "mark",
       "close", "publish", "announce", "batch"}

TypeOK ==
    /\ status \in {"collecting", "published"}
    /\ answered \subseteq Members /\ muted \subseteq Members
    /\ events \in [Events -> {"none", "pending", "fired", "deleted"}]
    /\ log \in [Events -> [Members -> {"none", "pending", "sent", "failed"}]]
    /\ inbox \in [Events -> [Members -> Nat]]
    /\ unsaved \in [Events -> [Members -> Nat]]
    /\ unreserved \subseteq Events \X Members
    /\ handled \subseteq Events \X Members
    /\ published \in [Members -> Nat]
    /\ life \in Lives
    /\ pc \in [Procs -> PC]
    /\ loc \in [Procs -> Local]
    /\ troubles \in Nat

Init ==
    /\ status = "collecting"
    /\ answered = {}
    /\ muted \in SUBSET Muters
    /\ events = [e \in Events |-> IF e[1] = 1 THEN "pending" ELSE "none"]
    /\ log = [e \in Events |-> [m \in Members |-> "none"]]
    /\ inbox = [e \in Events |-> [m \in Members |-> 0]]
    /\ unsaved = [e \in Events |-> [m \in Members |-> 0]]
    /\ unreserved = {} /\ handled = {}
    /\ published = [m \in Members |-> 0]
    /\ life = 1
    /\ pc = [p \in Procs |-> "idle"]
    /\ loc = [p \in Procs |-> NoLocal]
    /\ troubles = 0

Goto(p, l, v) ==
    /\ pc' = [pc EXCEPT ![p] = l]
    /\ loc' = [loc EXCEPT ![p] = IF l = "idle" THEN NoLocal ELSE v]

\* One of the bounded number of things that go wrong.
Trouble == troubles < MaxTroubles /\ troubles' = troubles + 1
Fine == troubles' = troubles

-----------------------------------------------------------------------------
(* What members and the admin do meanwhile.                                *)

\* A member submits a response while the round collects.
Submit(m) ==
    /\ status = "collecting" /\ m \notin answered
    /\ answered' = answered \cup {m}
    /\ UNCHANGED <<status, muted, events, log, life, history, pc, loc, troubles>>

\* ... and may delete it again.
Withdraw(m) ==
    /\ status = "collecting" /\ m \in answered
    /\ answered' = answered \ {m}
    /\ UNCHANGED <<status, muted, events, log, life, history, pc, loc, troubles>>

\* BUG: the pending events go although email_log refers to them.
IgnoreForeignKey(e) == TRUE

\* email_log.scheduler_event_id REFERENCES scheduler_events(id): an event
\* some mail was reserved for cannot be deleted.
Deletable(e) == \A m \in Members : log[e][m] = "none"

\* ApplySchedule with a moved deadline: the pending events of the round are
\* replaced by those of a new lifecycle, in one transaction that the foreign
\* key may refuse as a whole.
ApplySchedule ==
    /\ status = "collecting" /\ life < MaxLives
    /\ \A e \in Events : events[e] = "pending" => Deletable(e)
    /\ events' = [e \in Events |-> IF events[e] = "pending" THEN "deleted"
                                   ELSE IF e[1] = life + 1 THEN "pending" ELSE events[e]]
    /\ life' = life + 1
    /\ UNCHANGED <<status, answered, muted, log, history, pc, loc, troubles>>

-----------------------------------------------------------------------------
(* fireEvent and the mails of an event.                                    *)

\* BUG: a stale event is dropped without being marked.
DropStale(e) == "idle"

\* A stale event (shouldSkipEvent) is only marked; other events go to their
\* handlers.
SkipStale(e) == "mark"

Handler(e) == IF Type(e) \in Mailing THEN "roster" ELSE "close"

\* IsEventPending and shouldSkipEvent: an event of a round that is no longer
\* collecting is stale, and so is one that an outage has made too late.  When
\* the round cannot be read, the event goes to its handler all the same.
TakeEvent ==
    /\ pc[Sched] = "idle"
    /\ \E e \in Events :
          /\ events[e] = "pending"
          /\ \/ /\ status # "collecting"
                /\ Goto(Sched, SkipStale(e), [NoLocal EXCEPT !.ev = e])
                /\ Fine
             \/ /\ Goto(Sched, SkipStale(e), [NoLocal EXCEPT !.ev = e])
                /\ Trouble
             \/ /\ status = "collecting"
                /\ Goto(Sched, Handler(e), [NoLocal EXCEPT !.ev = e])
                /\ Fine
             \/ /\ status # "collecting"
                /\ Goto(Sched, Handler(e), [NoLocal EXCEPT !.ev = e])
                /\ Trouble
    /\ UNCHANGED <<rows, history>>

\* Reminders go to the members who have not answered, summaries to the
\* admins.
Recipients(e) == IF Type(e) = "reminder" THEN Members \ answered ELSE Leads

\* The reads at the top of SendReminderForIssue and SendAdminSummaryForIssue.
\* A round that no longer collects is an error for a reminder; after an error
\* the event stays pending for the next tick.
ReadRoster ==
    LET v == loc[Sched]
    IN  /\ pc[Sched] = "roster"
        /\ \/ /\ status = "collecting"
              /\ Goto(Sched, "next", [v EXCEPT !.todo = Recipients(v.ev), !.roster = Recipients(v.ev)])
              /\ Fine
           \/ /\ status # "collecting"
              /\ Goto(Sched, IF Type(v.ev) = "reminder" THEN "idle" ELSE "mark", v)
              /\ Fine
           \/ /\ Goto(Sched, "idle", v)    \* a read fails
              /\ Trouble
        /\ UNCHANGED <<rows, history>>

\* The member's preference is asked just before the reminder, which is sent
\* all the same when it cannot be read.
Unwanted(e, m) == Type(e) = "reminder" /\ m \in muted

\* BUG: a row that exists is sent again whatever its status.
SendAgain(e, m) == events[e] # "deleted"

\* BeginSchedulerEmailAttempt finds nothing sent for this event and
\* recipient, and can write a row that refers to the event.
ShouldSend(e, m) == log[e][m] # "sent" /\ events[e] # "deleted"

\* The next recipient: pass over or reserve, BeginSchedulerEmailAttempt.
Reserve ==
    LET v == loc[Sched] IN
    /\ pc[Sched] = "next"
    /\ \E m \in v.todo :
          LET w == [v EXCEPT !.todo = @ \ {m}]
          IN  \/ /\ Unwanted(v.ev, m) \/ ~ShouldSend(v.ev, m)
                 /\ Goto(Sched, "next", w)
                 /\ Fine
                 /\ UNCHANGED <<log, unreserved>>
              \/ /\ ShouldSend(v.ev, m)
                 /\ log' = [log EXCEPT ![v.ev][m] = "pending"]
                 /\ Goto(Sched, "send", [w EXCEPT !.to = m])
                 /\ IF Unwanted(v.ev, m) THEN Trouble ELSE Fine
                 /\ UNCHANGED unreserved
              \/ /\ ~Unwanted(v.ev, m)    \* the transaction fails: logged, and on to the next
                 /\ unreserved' = unreserved \cup {<<v.ev, m>>}
                 /\ Goto(Sched, "next", w)
                 /\ Trouble
                 /\ UNCHANGED log
    /\ UNCHANGED <<status, answered, muted, events, life, inbox, unsaved, handled, published>>

Received(v) == [inbox EXCEPT ![v.ev][v.to] = @ + 1]
NotSaved(v) == [unsaved EXCEPT ![v.ev][v.to] = @ + 1]

\* Mint the link and hand the mail to the transport.  A send that times out
\* may have been accepted.
Send ==
    LET v == loc[Sched]
    IN  /\ pc[Sched] = "send"
        /\ \/ inbox' = Received(v) /\ unsaved' = unsaved /\ Goto(Sched, "logSent", v) /\ Fine
           \/ inbox' = inbox /\ unsaved' = unsaved /\ Goto(Sched, "logFailed", v) /\ Trouble
           \/ inbox' = Received(v) /\ unsaved' = NotSaved(v) /\ Goto(Sched, "logFailed", v) /\ Trouble
        /\ UNCHANGED <<rows, unreserved, handled, published>>

\* BUG: a status that the table's CHECK does not know.
Bounced(at) == IF at = "logSent" THEN "sent" ELSE "bounced"

Outcome(at) == IF at = "logSent" THEN "sent" ELSE "failed"

\* UpdateEmailLog, whose error is ignored.
SaveOutcome ==
    LET v == loc[Sched]
        outcome == Outcome(pc[Sched])
    IN  /\ pc[Sched] \in {"logSent", "logFailed"}
        /\ \/ /\ log' = [log EXCEPT ![v.ev][v.to] = outcome]
              /\ unsaved' = unsaved
              /\ Fine
           \/ /\ log' = log
              /\ unsaved' = IF outcome = "sent" THEN NotSaved(v) ELSE unsaved
              /\ Trouble
        /\ Goto(Sched, "next", [v EXCEPT !.to = Nobody])
        /\ UNCHANGED <<status, answered, muted, events, life, inbox, unreserved, handled, published>>

FinishBatch ==
    LET v == loc[Sched]
    IN  /\ pc[Sched] = "next" /\ v.todo = {}
        /\ Goto(Sched, "mark", v)
        /\ Fine
        /\ UNCHANGED <<rows, history>>

\* BUG: an event that ran out of time is taken for finished.
TimeoutIsDone == "mark"

\* The event's time is up: the handler returns an error and the event stays
\* pending for the next tick.
OnTimeout == "idle"

EventTimeout ==
    /\ pc[Sched] = "next" /\ loc[Sched].todo # {}
    /\ Goto(Sched, OnTimeout, loc[Sched])
    /\ Trouble
    /\ UNCHANGED <<rows, history>>

\* A failed MarkEventFired leaves the event pending; so does a deleted row.
MarkEventFired ==
    LET v == loc[Sched]
    IN  /\ pc[Sched] = "mark"
        /\ \/ /\ events[v.ev] # "deleted"
              /\ events' = [events EXCEPT ![v.ev] = "fired"]
              /\ handled' = handled \cup ({v.ev} \X v.roster)
              /\ Fine
           \/ events[v.ev] = "deleted" /\ UNCHANGED <<events, handled>> /\ Fine
           \/ UNCHANGED <<events, handled>> /\ Trouble
        /\ Goto(Sched, "idle", v)
        /\ UNCHANGED <<status, answered, muted, log, life, inbox, unsaved, unreserved, published>>

-----------------------------------------------------------------------------
(* AutoPublishIssue, handlePublishIssue and sendPublishNotifications.      *)

\* BUG: the scheduler publishes what is published already.
PublishesAnyway == "publish"

\* AutoPublishIssue returns when the round is published.
CloseOrSkip == IF status = "published" THEN "mark" ELSE "publish"

\* Where publishes exclude one another.
Unraced(p) == Race \/ \A q \in Procs \ {p} : pc[q] \notin {"close", "publish"}

CheckClose ==
    /\ pc[Sched] = "close" /\ Unraced(Sched)
    /\ \/ Goto(Sched, CloseOrSkip, loc[Sched]) /\ Fine
       \/ Goto(Sched, "idle", loc[Sched]) /\ Trouble
    /\ UNCHANGED <<rows, history>>

BeginPublish(w) ==
    /\ pc[w] = "idle" /\ status # "published" /\ Unraced(w)
    /\ Goto(w, "publish", NoLocal)
    /\ Fine
    /\ UNCHANGED <<rows, history>>

\* PublishIssue: UPDATE issues SET status = 'published' WHERE id = ?
PublishIssue(p) ==
    /\ pc[p] = "publish"
    /\ \/ status' = "published" /\ Goto(p, "announce", loc[p]) /\ Fine
       \/ status' = status /\ Goto(p, "idle", loc[p]) /\ Trouble
    /\ UNCHANGED <<answered, muted, events, log, life, history>>

AfterBatch(p) == IF p = Sched THEN "mark" ELSE "idle"

\* BUG: the batch dies with the request that started it.
DiesWithRequest(p) == IF p = Sched THEN "batch" ELSE "idle"

\* The batch runs in the scheduler, or in a goroutine with a context
\* detached from the request.
BatchRuns(p) == "batch"

\* ListActiveGroupMembers and the preferences.  When they cannot be read,
\* nobody is told.
Announce(p) ==
    /\ pc[p] = "announce"
    /\ \/ Goto(p, BatchRuns(p), [loc[p] EXCEPT !.todo = Members \ muted]) /\ Fine
       \/ Goto(p, AfterBatch(p), loc[p]) /\ Trouble
    /\ UNCHANGED <<rows, history>>

\* SendBatch: one recipient after the other, each outcome logged in a row of
\* its own; a send that fails is not repeated, one that times out may have
\* been accepted.
SendPublished(p) ==
    /\ pc[p] = "batch"
    /\ \E m \in loc[p].todo :
          /\ Goto(p, "batch", [loc[p] EXCEPT !.todo = @ \ {m}])
          /\ \/ published' = [published EXCEPT ![m] = @ + 1] /\ Fine
             \/ published' = published /\ Trouble
    /\ UNCHANGED <<rows, inbox, unsaved, unreserved, handled>>

\* The batch is through, or the event's context is done before it is.
EndPublished(p) ==
    /\ pc[p] = "batch"
    /\ \/ loc[p].todo = {} /\ Fine
       \/ loc[p].todo # {} /\ p = Sched /\ Trouble
    /\ Goto(p, AfterBatch(p), loc[p])
    /\ UNCHANGED <<rows, history>>

-----------------------------------------------------------------------------
\* The process dies and is restarted.
Crash ==
    /\ Trouble
    /\ \E p \in Procs : pc[p] # "idle"
    /\ unsaved' = IF pc[Sched] = "logSent" THEN NotSaved(loc[Sched]) ELSE unsaved
    /\ pc' = [p \in Procs |-> "idle"]
    /\ loc' = [p \in Procs |-> NoLocal]
    /\ UNCHANGED <<rows, inbox, unreserved, handled, published>>

PublishStep(p) == PublishIssue(p) \/ Announce(p) \/ SendPublished(p) \/ EndPublished(p)

SchedStep ==
    \/ TakeEvent \/ ReadRoster \/ Reserve \/ Send \/ SaveOutcome
    \/ FinishBatch \/ EventTimeout \/ MarkEventFired \/ CheckClose
    \/ PublishStep(Sched)

Next ==
    \/ \E m \in Members : Submit(m) \/ Withdraw(m)
    \/ ApplySchedule
    \/ SchedStep
    \/ \E w \in Webs : BeginPublish(w) \/ PublishStep(w)
    \/ Crash

Spec == Init /\ [][Next]_vars

\* The scheduler keeps running, and so does a publish that was begun.
Fairness == WF_vars(SchedStep) /\ \A w \in Webs : WF_vars(PublishStep(w))

FairSpec == Spec /\ Fairness

-----------------------------------------------------------------------------
(* What the mails promise.                                                 *)

\* "making scheduler retries idempotent" (BeginSchedulerEmailAttempt): however
\* often an event is retried, a member gets its mail once, and once more for
\* every time it was not saved that the mail had gone out.
OneMailPerEvent ==
    \A e \in Events, m \in Members : inbox[e][m] <= 1 + unsaved[e][m]

\* Nobody has a mail of an event that a moved deadline has cancelled: the row
\* is reserved before the mail leaves, and a reserved row holds the event.
CancelledEventMailsNobody ==
    \A e \in Events : events[e] = "deleted" => \A m \in Members : inbox[e][m] = 0

\* When an event is marked fired after its batch, every member the batch was
\* for has a row in email_log, over however many crashed and timed out
\* attempts.  Missing are only those who want no reminders, and a row that
\* could not be reserved.
NobodyPassedOver ==
    \A e \in Events, m \in Members : <<e, m>> \in handled =>
        Unwanted(e, m) \/ log[e][m] # "none" \/ <<e, m>> \in unreserved

\* AutoPublishIssue returns "without re-sending notifications" when the round
\* is published, so nobody is told twice, whatever crashes and retries.
PublishedToldOnce == \A m \in Members : published[m] <= 1

\* Once deadlines stop moving, every event is fired or cancelled: no reserved
\* row keeps an event pending, and with it the foreign key's refusal to move
\* the deadline, for ever.
EventsSettle ==
    (\E e \in Events : events[e] = "pending") ~> (\A e \in Events : events[e] # "pending")

\* When nothing goes wrong, everybody who wants to know is told of a
\* published round, whoever published it and however the handlers overlap.
EveryoneIsTold ==
    (status = "published") ~> (troubles > 0 \/ \A m \in Members \ muted : published[m] > 0)
=============================================================================
