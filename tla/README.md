# A TLA+ model of PiecesOfLife

PiecesOfLife is a self-hosted newsletter for a small circle (a *Loop*). In each
*round* (an `issues` row) members answer questions in private; at the deadline
the round is published to everybody; then the next round opens by itself. One Go
process holds an HTTP server and a scheduler goroutine over one SQLite file.

This directory models the parts of the program where time, concurrency and
failure meet: the life of the rounds and the mail they send, signing in and
finding one's Loop, the launch wizard, questions, answers, comments, the journal
and its files, the JMAP transport, and the guard against a rewound database. TLC
checks the models on small instances; TLAPS proves every safety property of the
passing runs for every instance. Liveness is TLC's alone.

## 1. Inventory

| component | state | operations | talks to |
|---|---|---|---|
| scheduler (`internal/scheduler`, `store/scheduler.go`) | `scheduler_events`; the overdue list in memory | fetch overdue events, re-check each through the writer, skip stale ones, run the handler, mark fired; daily clean-up, digest and reconcile | calls the actions of `server/actions.go` |
| round lifecycle (`server/actions.go`, `server/issues.go`, `store/issue.go`) | `issues`: status, opens_at, deadline | create, open early, open on schedule, move the deadline, publish, queue the next round, reconcile a stalled cycle | inserts and deletes events; sends mail |
| schedule editor (`server/schedule.go`, `ApplySchedule`) | the live round's deadline, the next draft and its opening, the window | one validated transaction | shares rows with the two above |
| settings, archive (`admin.go`, `groups.go`, `setting.go`, `group.go`) | `settings`, `groups.is_active` | switch auto-create, set the window, archive, restore | archive deletes events |
| mail (`actions.go`, `issues.go`, `store/email.go`, `internal/email`) | `email_log`, notification preferences | reserve, send, record; batch notifications | called by the scheduler and by handlers |
| data directory guard (`store/dbstate.go`, `main.go`) | boot counter in the SQLite header, sidecar file | verify, migrate, count, record | runs before everything else |
| migrations, seeding (`store/store.go`) | schema version | one transaction per migration | runs inside a boot |
| comments and digest (`store/comment*.go`, `responses.go`) | comments, pending notifications | comment, react, digest mail then delete | scheduler's daily event |
| questions and curation (`store/question*.go`, `default_question*.go`) | questions, suggestions, defaults | suggest, promote, reorder, insert defaults at opening | the opening of a round |
| responses and autosave (`responses.go`, `store/response.go`) | responses, blocks | create, autosave, submit, delete, reorder | round status |
| sign-in, sessions, membership (`auth.go`, `middleware.go`, `store/auth.go`, `membership.go`) | tokens, sessions, memberships | request link, verify, invite, deactivate, clean up | every handler |
| ramble, diary, dump (`ramble.go`, `diary.go`, `dump.go`) | pages, attachments, files on disk | save, attach, weave into a round, remove | responses, media files |
| upload integrity (`store/integrity.go`) | rows against files | scan | media files |
| onboarding (`onboarding.go`) | `setup_complete`; the rest is in the tables it fills | launch a Loop, or submit the wizard again after a failure | creates the first round, its questions and events; invites |
| appearance (`appearance*.go`, `internal/theme`) | theme revisions, images | draft, publish, roll back | settings |
| mail transports (`jmap.go`, `smtp.go`) | JMAP session | send, retry on a stale session | mail |
| pages, export, embeds, configuration | none of their own | rendering, archiving, I/O | reads everything |

What is hard about this system:

* **Interleaving.** Handlers read through a pool of readers and write through
  one writer, several transactions per request; the scheduler does the same.
  Anything can happen between a check and the write that relies on it.
* **Memory against table.** `fireOverdueEvents` works through a list; a row that
  an admin deletes lives on in the list.
* **Failure and retry.** An event whose handler fails stays pending and is run
  again; the process may die between any two transactions.
* **Time.** After an outage events fire late; reminders have minimum leads,
  openings are re-anchored, very late closings are dropped.
* **Keys.** `UNIQUE(issue_id, event_type, scheduled_at)` and the foreign key
  from `email_log` can refuse a schedule change as a whole; others refuse a block
  of a removed page or a question that has been answered.
* **Shared files.** A diary copy refers to the journal's file; whoever deletes a
  row must find out whether another one still needs its file.
* **Redirects.** Several gates send a browser elsewhere; together they must not
  send it in circles.
* **Caches.** The JMAP session is shared by concurrent sends and read outside
  its mutex.

`PROJECT.json` lists the hazards with their lines, and which property is aimed
at each.

## 2. The modules

| module | models | status |
|---|---|---|
| `Rounds` | the rounds of one Loop: scheduler, admin handlers, shared tables, clock, crashes | checked, safety proved |
| `RoundCycle` | what a Loop's rounds promise: drafted, opened, published, one at a time (abstract) | |
| `MCRounds` | the symmetry of the admins | |
| `RoundsProofs` | the types of `Rounds` | proved |
| `RoundsOverlapProofs` | what holds under every interleaving: the four properties of `rounds_overlap` | proved |
| `RoundsSerialProofs` | what holds without overlap: the four of `rounds_serial`, `Rounds` implementing `RoundCycle` among them, and `AtMostOneCollecting` | proved |
| `Mail` | the mail of one collecting round: batches, retries, publish notifications | checked, safety proved |
| `MCMail` | a member and an admin | |
| `MailProofs` | types, the three per-event promises, and that nobody is told twice | proved |
| `OneTimeLinks` | what a mailed login link promises (abstract) | |
| `SignIn` | links, sessions, the hourly limit, the clean-up | checked, proved |
| `SignInProofs` | `SignIn` implements `OneTimeLinks`; mail links; the limit | proved |
| `Visits` | which Loop a request runs in and where it is sent; invitations, new Loops | checked, safety proved |
| `Wizard` | `handleCompleteOnboarding` and its retries | checked, safety proved |
| `Questions` | suggestions, curation and the opening of one round | checked, proved |
| `Answers` | one answer, autosaved from a browser, with its uploads | checked, proved |
| `Discussion` | comments on one piece and the daily digest | checked, safety proved |
| `Keepsakes` | one member's journal, diary section and photo dump, and their files | checked, proved |
| `KeepsakesProofs` | its three invariants | proved |
| `Jmap` | concurrent sends over one cached session | checked, proved |
| `DataDir` | the boot guard and the operator around it | checked, proved |
| `MCJourneys` | `Visits`, `Wizard`, `Discussion` and `Jmap` as one system for TLC | |
| `JourneysProofs` | the properties of these four, and that the system is the four | proved |
| `MCRecords` | `SignIn`, `Questions`, `Answers`, `Keepsakes` and `DataDir` likewise | |
| `RecordsProofs` | those of `Questions`, `Answers` and `DataDir`, and that the system is the five | proved |

The modules of `MCJourneys` (and those of `MCRecords`) share none of the state
they keep, so their interleavings say nothing new: a behaviour picks one part
and stays in it, and a run explores the union of the parts.

### Rounds

State: the `issues` and `scheduler_events` tables, `groups.is_active`, the two
settings that matter, a clock in hours, the scheduler's in-memory queue, and for
every process (the scheduler and each request in flight) a program counter `pc`
and the values it has read and not yet used (`loc`). **Every write transaction is
one step.** The reads before it are taken together in the preceding step, so
other processes can step between what a handler read and what it writes.

| code | actions |
|---|---|
| `Start`, ticker, process death | `Tick`, `Restart`, `Crash` |
| `fireOverdueEvents`, `fireEvent`, `shouldSkipEvent`, `MarkEventFired` | `FetchOverdue`, `TakeEvent`, `GuardEvent`, `MarkEventFired` |
| the mailing handlers, seen from the event table | `SendMail` |
| `AutoPublishIssue`, `handlePublishIssue` | `CheckClose` / `BeginPublish`, `PublishIssue`, `AfterPublish` |
| `queueNextIssueEvent` | `QueuePending`, `QueueClear`, `QueueDraft`, `QueueReanchor`, `QueueCreate`, `QueueEvent` |
| `CreateNextIssue`, `handleCreateIssue` | `CreateNextIssue`, `ReanchorDraft`, `BeginCreate`, `BeginCreateBlind`, `OpenDraftEarly`, `CreateFresh`, `SetCollecting`, `ScheduleIssueEvents` |
| `handleExtendDeadline`, `handleUpdateSchedule`, `ApplySchedule` | `BeginMoveDeadline`, `BeginPinNext`, `ApplySchedule` |
| `handleUpdateIssue`, `handleUpdateSettings`, `handleUpdateGroup` | `BeginMoveDraft`, `UpdateDraftIssue`, `BeginSettings`, `UpdateSettings`, `BeginArchive`, `BeginRestore`, `CancelEvents` |
| `ReconcileAutoCreate` | `ReconcileAutoCreate` |
| a failing store call, an event's time-out | `Fault`, `LifecycleFault` |

`RoundCycle` has one variable, how far each round has come, and three actions:
`Draft`, `Open`, `Publish`. `Cycle == INSTANCE RoundCycle WITH ... stage <- ...` maps the
issues table to the statuses in it.

Abstractions. The clock moves in half days, between the hours at which things
fall due (9 AM openings, 10 AM reminders, 9 PM closings): nothing the program
decides depends on the hours in between, and the twelve-hour lead and the 48-hour
ceiling are whole multiples. The clock moves only when the scheduler has had its
tick, or the process is down, so an outage of any length is possible and a tick
is never skipped while it is up. The (month, year) labels of rounds, questions,
answers and the mails themselves are not in the state; a row's `logged` bit
stands for the foreign key from `email_log`. The reconciler may anchor on any
published round, since the latest label is not in the state. The failed read of
`HasRecentFiredReminder` is not modelled. `Overlap`, `CarriesOn` and `StaleReads`
switch whole families of behaviour on, so that a property can be checked for
exactly the circumstances in which it holds.

### Mail

One collecting round. Events are pairs of a lifecycle and a type; moving the
deadline deletes the pending events and starts the next lifecycle. A batch reads
its roster, then for each recipient asks the preference, reserves a row
(`Reserve`, `BeginSchedulerEmailAttempt`), sends (`Send`) and saves the outcome
(`SaveOutcome`, `UpdateEmailLog`). The event's time-out (`EventTimeout`) and a
crash can interrupt it anywhere. Publishing is a check, a write, the read of the
members and a batch, for the scheduler and for each web request. History
variables count what arrived (`inbox`, `published`), what arrived and was never
recorded (`unsaved`), whose row could not be reserved (`unreserved`), and which
recipients belong to a batch that was worked through (`handled`).

Abstractions. Time is left out: any pending event may be due, and being too late
needs an outage, which counts as a trouble. `IsEventPending` and
`shouldSkipEvent` are one step. Preferences do not change during the round. A
member's answer is submitted or deleted as a whole. `reminder_1` and
`reminder_2` behave alike and are one type. Queueing the next round belongs to
`Rounds`. A client that hangs up between `PublishIssue` and the reads after it
is one of the troubles, as its reads fail like a failing store's. The admin's
manual nudge, the resend button and the opening mails are left out.

### DataDir

The boot in the order of `run()`: verify, migrate, raise the counter, write the
sidecar, serve; `Exit` at any point. The operator (external) copies, restores and
deletes the sidecar. A row remembers the boot it was written in; `expected` is
what the directory held at the last recorded boot or later.

### SignIn and OneTimeLinks

A request is a chain of store calls, and everything else can run between two of
them: `RequestMagicLink`, `RecordLoginAttempt`, `CreateLoginLink`
(`requestMagicLink`); `VerifyToken`, `RenewExpired`, `ConsumeAuthToken`,
`CreateSessionAndSetCookie` (`handleVerifyToken`); `HandleAuthParam`;
`MintEmailCTAToken`; `DevLogin`; `Logout`; `DropStaleCookie` (`authMiddleware`);
the two clean-ups of the daily event; `RequestDies` anywhere. Times are "expired
or not", tokens are ids. `OneTimeLinks` has one variable for what became of a
link and one for the sessions it opened; `Once == INSTANCE OneTimeLinks WITH
link <- ...` maps a `login` token to it: live while `MarkConsumed` would win,
spent while a request that won has not opened its session, over afterwards.

### Visits

One browser. `Navigate` asks for an address, of a menu or of a mail; then the
chain is the code's: `ExchangeLink` (`handleAuthParam`), `Unauthorized`, `Resolve`
(`resolveCurrentGroup`), the two writes of `persistGroup` (`PersistSessionGroup`,
`PersistLastGroup`, either may fail), and `Route`, which shows the page or sends
the browser on (`requireGroup`, `requireAdmin`, `requireInstanceAdmin`,
`landingPage`, `handleLoops`, the setup gate, and `requireIssue`, which moves the
session to the issue's Loop). Meanwhile Loops are archived, restored, launched
and woven, the person switches Loops or signs out in another tab, and
invitations run their separate writes (`LookUp`, `RestoreAccount`, `Join`,
`SendInviteEmail`). Redirects are single steps of the browser; a page is shown
without its contents. Two people's visits write nothing the other reads. No
handler takes a membership away or changes a role (`SetMembershipRole` and
`SetMembershipActive` are in the store and unused), so the model starts with
deactivated accounts and memberships of earlier versions instead. The wizard
mails its friends also when their membership could not be written, so
`InvitedAreMembers` speaks of `handleInviteUser` and `handleCreateGroup` only.

### Wizard

The transactions of `handleCompleteOnboarding` in their order, from the switches
of the defaults to `CompleteSetup`. Best-effort writes may be left out one by one
(`Through`), any transaction may fail (`WizardFails`, `CreatePicksFails`), and the
wizard is submitted again with any other payload. The scheduler closes the round
of an abandoned attempt in two steps (`FireAutoClose`, `MarkCloseFired`), and the
admin may answer it. Texts are model values, a question is how often its text is
in a round; validation is the domain of `Payload`; opening events other than
`auto_close` follow it and are left out.

### Questions

One upcoming round. `PrepareDraftQuestions`, `FriendSubmits` and
`CreateSuggestedQuestion`, the admin's editor, the switches of the defaults; and
the opening as the steps of `openIssueForCollecting`: `ReadFreshIssue`,
`ListQuestions`, `InsertDefaultQuestions`, `SelectBank`, `CreateBankQuestions`,
`Transition`, each of which may fail alone. A text the admin or a member writes is
"own words". `AddQuestion` takes any source the API accepts, "admin", "bank" or
"friend", whatever has become of the round, with a `sort_order` or without one.
`UsedBefore` are the bank questions that earlier rounds have used. `disturbed` records
that an opening worked from a list that was no longer true, or that it could not
read at all; nothing guards that, and nothing promises it.

### Answers

One member's answer to one question. `Type`, `SendText`, `Deliver` are the
browser (`respond.html`): it sends its text with the version it last heard of.
The reply to a creation sets the id of the answer and the version (435-436), the
reply to an autosave, a conflict included, the version alone (456, 460), even
when the tab holds another answer by now; `mixed` records the tabs to which that
has happened. `CheckPost` is the
check of the handler (`loadOwnedResponse`, `requireEditable`), the write is a
later step; requests and replies overtake each other and are lost; the round is
published at any moment. A text is its tab and a number. Uploads write the file
and then the row. Between two tabs the last retry wins by design, so
`AutosaveNeverGoesBack` compares a tab with itself.

### Discussion

Posting (`CreateComment`, `ListRecipients`, `EnqueueCommentNotification` one
after the other), `DeleteComment`, the preference, and the digest of
`SendCommentDigests`: list everything once, then per recipient look at the
preference, and either delete what had been listed (`DrainMuted`) or mail and then
delete it; the preference may change between any two of these steps. `hushed`
are the listed rows whose recipient was muted at some moment since. Any mail, read or deletion can fail and the process can
stop. The four kinds of pieces differ only in how the owner is found. Only the
owner mutes. Editing a comment changes its text; reactions notify nobody.

### Keepsakes

One member's `ramble_blocks`, the diary section copied from it, the dump items
and the files. Requests are split where the code lets go of the database: the
file before its row (`ReceiveRambleMedia`, `CreateRambleBlock`), the read before
the transaction (`RequestAttach` ... `DeleteDiaryRows`), the count before the unlink
(`CountUploadsReferencing`, `RemoveUpload`). `TodayChanges` moves the date both
ways, as the timezone can be changed. Contents, order, captions, title and mood
are left out. A block's id and its file's name are one number, as both are
unique. `left` and `spared` are history: the days a member trimmed or wrote too
late, and files whose clean-up was given up because a call failed, a stop came
or the paths were read too early.

### Jmap

`EnsureSession`, `FetchSession`, `Bootstrap` under the mutex, `ReadCache` field by
field outside it (`sendOnce` and `api`), `PostRequest`, `SendReturns` and
`Invalidate` (`send`). The provider is external: it may move, which makes old
URLs, accounts and mailboxes invalid, refuse, and lose a request or its answer.
Its generation number stands for all its identifiers.

## 3. The runs

| run | bounds | shows |
|---|---|---|
| `rounds_serial` | 1 admin, 2 requests, 1 trouble, 5 rounds, 190 h | `FollowsTheCycle` (refinement; it contains `AtMostOneCollecting`), `OneUpcomingRound`, `AutoCloseAtDeadline`, `NeverOpensExpired` when requests and events do not overlap |
| `rounds_overlap` | 2 admins, 2 requests, 6 rounds, 106 h, stale reads | `HandledEventIsPending`, `DeadlineMovesWithLifecycle`, `MovedDeadlineClearsQueued`, `ReplacementNeverRefused` under every interleaving |
| `rounds_live` | 1 admin, 1 request, 1 trouble, 5 rounds, 130 h, fairness | `StalledCycleRecovers` |
| `rounds_early_close` | 1 admin, 1 request, overlap | *violated*: `AutoCloseAtDeadline` |
| `rounds_restore` | 1 admin, 2 requests, fairness | *violated*: `RestoredLoopResumes` |
| `mail` | 2 members (one the admin, who may be muted), 1 web request, 2 lifecycles, 1 trouble | `OneMailPerEvent`, `CancelledEventMailsNobody`, `NobodyPassedOver`, `PublishedToldOnce` |
| `mail_live` | the same with 1 lifecycle, fairness | `EventsSettle`, `EveryoneIsTold` |
| `mail_race` | a publish may begin inside another one | *violated*: `PublishedToldOnce` |
| `datadir_older` | see below | *violated*: `AnythingOlderIsRefused` |
| `journeys`: visits | an operator and a friend, 2 Loops of which one collects, 1 invitation in flight, 1 operation or failed write | `ShownOnlyWhereWelcome`, `InvitedAreMembers`, `EveryVisitEnds` |
| `journeys`: wizard | 2 texts of which one is seeded, 1 month, 2 failures, the admin may answer | `LaunchAsksEachPickOnce`, `LaunchedRoundCloses`, `WizardFinishes` |
| `journeys`: discussion | 2 readers, 3 comments, 1 failure or stop | `CommentsToldOnce`, `NothingDrainedUntold`, `QueueSettles` |
| `journeys`: jmap | 2 sends, 1 move, any refusal or loss | `DeliveredOnce`, `OnlyMixedSendsFail` |
| `records`: sign-in | 1 person, 2 requests, 2 links, a limit of 1 | `LinksUsedOnce` (refinement), `AttemptsBounded` |
| `records`: questions | 1 default, 2 bank questions of which 1 was used before, 2 questions wanted, 1 opening at a time, 4 questions, 1 edit, 1 fault, no request with a `sort_order` | `RetriesDoNotRepeat`, `RoundAsksEnough` |
| `records`: answers | 1 tab, 3 requests in flight, 2 texts, version up to 2, 1 upload, 2 answers (the last only autosaved) | `AutosaveNeverGoesBack` |
| `records`: keepsakes | 2 requests (symmetric), 2 days, 2 files, 2 attachments or refreshes | `RowsHaveFiles`, `NothingLeftBehind`, `NothingInACrack` |
| `records`: data directory | 3 boots, 2 rows, 2 copies | `LossOnlyWithinLastBoot`, `OwnDatabaseNeverRefused` |
| `question_order` | 4 questions, 3 edits | *violated*: `AddedGoLast` |

`JourneysTypeOK` and `RecordsTypeOK` are the type invariants of the parts.

Why the bounds are enough to meet the interesting cases. *Rounds*: with a window
of three days and a cadence of four, 190 hours cover two whole rounds, the
pre-created draft of the third and an outage across a deadline; 106 hours cover
opening, both reminders, closing and the next opening. A deadline is moved by 48
hours, which puts it before or after the queued opening depending on when it is
asked for; an opening is pinned three days ahead. Two requests suffice for every
check/write race between two handlers, and the scheduler is always a third
party. *Mail*: two recipients are what a batch needs to be interrupted between
them, and the second lifecycle is what a cancelled event needs. *Visits*: two
Loops are what a switch needs, and one operation is enough to archive the Loop
that was remembered, to launch one in mid-chain, or to lose a write. *Wizard*:
two failures allow three attempts with different picks, a seeded text and one
that is only picked. *Discussion*: a comment, a reply and one that arrives while
the digest runs. *Jmap*: one send reads while the other refills the cache.
*Sign-in*: two requests race for one link and one renews it. *Questions*: an
opening that fails half-way is run again, a preparation can follow it, and the
bank runs out of unused questions. *Answers*: three requests are what it takes for
two creations and a deletion between them, or for a late reply, an autosave and
the one that overtakes it, and the second answer is the one created after a
deletion: with these bounds TLC finds the lent version of section 4 when
`AutosaveNeverGoesBack` does not except it. *Keepsakes*: a clean-up runs beside
a copy, two clean-ups beside each other, over two days so that a refresh has a
boundary. Running out of a bound only stops the action that counts it.

`CHECK_DEADLOCK FALSE` in the runs other than those of `Rounds`: a mail round that is fired and
published, a launched wizard, sent messages and spent bounds leave nothing to do.
The runs with `PublishedToldOnce` as an invariant keep `Race = FALSE`; the race
itself is the subject of `mail_race`.

Fairness. `Rounds`: a crashed process is restarted by its supervisor
(`WF(Restart)`); the scheduler's loop runs on (`WF(SchedStep)`); a request that
was begun ends (`WF(AdminStep)`); the reconciler runs at start-up and daily, and
so again and again even though handlers disable it in between
(`SF(ReconcileAutoCreate)`). `Mail`: `WF(SchedStep)`, because every tick fetches
what is still pending, and `WF` of a publish that was begun. `MCJourneys`: weak
fairness of what the server and the browser do by themselves: answering and
following redirects (`VisitStep`), the steps of a submitted wizard and submitting
it again (`WizardFinishes` is about an admin who keeps trying, and its premise
says so), and the digest, whose event stays pending until it is done
(`DigestStep`). It is one condition over the three because a behaviour has one
part. `Jmap` has none: a send may stop for good. Nothing is assumed of members,
of the admin's first step or of failures.

## 4. What the violations show

* **`rounds_early_close`**: README.md:25 says a round is published at the deadline
  or when the admin presses the button. When the admin extends the deadline after
  `fireEvent` has checked the `auto_close` event and before `AutoPublishIssue`
  writes, the round is published before its new deadline. `CreateNextIssue`
  guards against the same race, `AutoPublishIssue` does not.
* **`rounds_restore`**: groups.go:335-337 says the admin or the reconciler starts
  a restored Loop again. If a round was collecting at the archive, its events are
  gone, the reconciler sees a live cycle and a new round is refused.
* **`mail_race`**: actions.go:487-488 says `AutoPublishIssue` does not re-send
  notifications. If the admin publishes between its check and its write, both
  batches go out.
* **`datadir_older`**: dbstate.go:26-27 says anything older reports a lower
  number. A copy from earlier in the same boot reports the same number.
* **`question_order`**: issues.go:1045-1046 says a question the admin adds is
  appended after the existing ones. Its place is the number of questions
  (issues.go:1050); once two have been deleted that can be a place before the
  last one's. `CreateSuggestedQuestion` takes the largest place plus one.

Three things the models met that no run is about. `onboarding.go:318-320` calls the
reset of the questions safe because no responses exist before the launch; the
admin is let in before the launch, and an answer to the round of an abandoned
attempt makes the deletion fail (`ResetRefused`), which `WizardFinishes` excludes.
And a JMAP send that put its request together from two sessions is refused like
a bad recipient and not tried again (`OnlyMixedSendsFail` says it is the only way
to fail). And an answer that is deleted and created again while replies are under
way: response.go:152 calls an autosave an optimistic concurrency control, which
needs versions that belong to the answer they are sent with. A late reply for the
deleted answer lends its version to the tab's new one; a text sent with it and
delayed is accepted once the new answer has reached that version, and replaces
the later text the tab has saved meanwhile. `AutosaveNeverGoesBack` excepts tabs
to which that has happened, and only those.

Outside these cases the properties hold. In particular the same
`AutoCloseAtDeadline` and `PublishedToldOnce` hold when the overlap is excluded,
crashes, retries and outages included.

## 5. The proofs

Every invariant and every action property of the passing runs is a theorem. The
theorems hold for every value of the constants that satisfies the modules'
`ASSUME`s. These give the parameters their types, keep the scheduler's name apart
from the requests', and say that there is a Loop, a tab and somebody to sign in,
and that the requests of `SignIn`, the defaults and the bank are finite sets. Six
theorems have a hypothesis besides, the circumstance the property is claimed for:
`~Overlap` in `RoundsSerialProofs`, with `~CarriesOn` for three of the five, and `~Race`
for `PublishTellsOnce`. Section 4 shows what happens to `AutoCloseAtDeadline` and
`PublishedToldOnce` without them; with `CarriesOn = TRUE` in `RoundsSerial.cfg` TLC
refutes `OneUpcomingRound`, `AutoCloseAtDeadline` and `FollowsTheCycle`, and the other
two, `AtMostOneCollecting` and `NeverOpensExpired`, which are proved without that
hypothesis, hold.

Each theorem is an induction over the steps: an invariant that holds at the
start, is kept by every action, and gives the property. What the invariants say
beyond the properties:

**Rounds.**

* `RoundsProofs!TypeCorrect`: a handler indexes the issues table with the round in
  its locals, so `TypeInv` adds that every process at a point that needs a round
  holds one (`IssueInHand`).
* `RoundsOverlapProofs!FiredOnce`. `IsEventPending` is true at the moment it is
  asked. That it stays true until the handler has ended needs that rows inserted
  later never take an old row's identity (`TxBelow`) and that the rows of one
  identity fire together (`FiredAlike`). Every step but `MarkEventFired` has one
  shape, `NobodyFires /\ SchedKeeps`, which preserves the invariant.
* `ReplacementFits`. The UNIQUE key speaks of (round, type, time). `ApplySchedule`
  deletes the pending rows first, so only fired ones are in the way. `TimesInv`
  says that whatever has fired, is in the list or in hand had come due by now
  (`FiredWasDue`, `DueInHand`), that a row's time is settled by its identity
  (`Known`), and that the specifications in hand lie in the future, but for the
  immediate reminder, which may not be inserted (`SpecsInHand`).
* `DeadlineWithLifecycle`, `DeadlineClearsQueued` follow from `TimesInv`: every
  action but `ApplySchedule` is shown to leave the deadline of a round that
  stays open alone, and `ApplySchedule` to insert the specifications it carries,
  among them one `auto_close` at the new deadline.
* `RoundsSerialProofs!OneRoundCollects`. Handlers check first and write later, so the
  invariant has to say what each place may rely on. `Solo`: one process is at
  work, and no request is while the scheduler has events in its list.
  `NoneCollecting`: a process on its way to open a round has seen that none
  collects, and being alone is still right.
* `OpensWithTimeLeft`. `OpeningInv` adds that the scheduler on its way to open a round
  has a deadline in hand that leaves time, at the end the one in the table; that
  a default deadline does is `DeadlineLead`.
* `OneUpcoming`, `ClosesAtDeadline`. `SerialInv` adds to `CollectingInv` what each
  place knows of the tables (`Hand`: no draft where one will be created, no queued
  opening where one will be queued, the new round's deadline where its lifecycle
  is inserted), what the scheduler knows besides (`SchedHand`: the event it guards
  is pending, the round it closes is due, the one it opens has time left), and
  that a pending `auto_close` is never before its round's deadline
  (`ClosesInTime`). A step of a process is `Ready` when it arrives with what its
  place relies on; every action has a lemma that says so.
* `CycleImplemented`: `Spec => Cycle!CycleSpec`. `PublishIssue` and `SetIssueStatus`
  update a row whatever its status is. What `RoundCycle` asks before a round is
  drafted, opened or published (`TurnsCycle`, `WritesCycle`) is therefore what the
  process relies on: `Hand` and `SchedHand` say that the round to open is a draft and
  the one to publish exists, `NoneCollecting` that it opens beside no other. Under
  overlap the refinement fails: TLC finds a draft published between the two writes of
  `handleCreateIssue`, which then sets it collecting again.

**Mail.**

* `MailedOnce`, `CancelledQuietly`, `AllReminded`, `MailTypeCorrect`. `MailInv` says
  that a scheduler at work holds an event that exists and, while mailing, a
  recipient whose row is `pending` (`InHand`, `Reserved`); that a mail in an
  inbox has a row and a deleted event has none (`Reserved`); that mails received
  are covered by recorded or unrecorded sends (`Accounted`); that whoever is off
  a batch's list is settled (`Covered`); and that a handled event stays fired, as
  the events of a later lifecycle do not exist yet (`HandledStay`).
* `PublishTellsOnce`, where no publish begins between another's check and its
  write. `ToldInv`: one process at a time publishes or tells; it publishes only
  while the round collects and tells only once it is published; before that
  nobody has been told, and whoever is on the list of a batch has not been.

**Journeys.**

* `ShownWhereWelcome`. `VisitOK` carries the Loops a visit could enter along its
  redirects: the chosen Loop was among them when it was chosen, and whatever is
  archived afterwards does not take it out of what was possible. That the Loop
  chosen by default is one of the person's uses `MinChooses`, that a non-empty
  set of numbers has a least element (from the library's `WFMin`).
* `InvitedGetIn`. `DeskOK`: no membership is written, outside a launch, for an
  account that has not been restored, and no mail goes out before both.
* `LaunchAsksOnce`. `CountsOK` says how often the round asks each text at each place
  of an attempt: nothing after the reset, at most the defaults before the picks,
  and the numbers of the property from there on. `LaunchCloses` needs `CloseQueued`:
  from the queueing of the events on nobody is marking that month's close.
* `ToldOnce`, `NobodyForgotten`. A row that the digest has mailed and not drained is
  one it listed; a row that is still queued was mailed at most as often as the
  process slipped. A row that a digest deletes without a mail belongs to a
  recipient that the digest found muted, which is what `hushed` remembers: whether
  the recipient is still muted at the deletion is another matter.
* `SendDeliversOnce`. `JmapInv` says that an answer that makes `send` try again means
  nothing was delivered, which is what `SessionStale` guarantees, and what a
  delivery says about the place the call has reached.
* `UntroubledSendsSurvive`. `MoveInv`: the cache is never ahead of the provider
  (`CacheOK`), nor is a request (`NotAhead`); a send that goes on to its second
  attempt has met the move, and from then on all it reads is of the last
  generation (`LastGeneration`). The property is about a single move, so the
  proof has `MaxMoves = 1` as a case and the others are immediate.

**Records.**

* `SignInProofs!LinksAreUsedOnce`: `SignInSpec => Once!OnceSpec`. `LinkInv` adds
  to the types that a request between consuming and opening holds a consumed
  link and that no other request holds the same one; with it every action is
  shown to be a step of `OneTimeLinks` or a stutter. `MailLinksKeepWorking` needs
  that a mail's link is never consumed. `AttemptsStayBounded` counts: the
  attempts plus the requests that have counted and not recorded are fewer than
  the limit plus the number of requests, shown with the cardinality of the set
  of those requests.
* `KeepsakesProofs!NoFileIsMissed`. `FileOK` says of each file that what a
  request unlinks has no row, that an upload's file is nobody else's yet, and
  that names are not used again; a file without a row can get none, because only
  journal rows are copied. `NoFileIsForgotten` needs `OrphansInv`: each file is in
  use, spared, or in a request's hands, and the removal of a day knows all the
  rows it will find, as later ones have another key. `NothingIsSkipped` is
  inductive with the same invariants.
* `RecordsProofs!NoTextGoesBack`. Nobody has heard of an answer that was not
  created, or of a version it does not have yet (`NotAheadOf`). So after an
  accepted autosave, and after a creation, no other request holds the version
  of the answer, and a request that does carries no older text than the newest
  stored of its tab (`PostOK`). The tab itself always knows at least what was
  stored of it (`TabOK`). Both are said of tabs that hold no version of another
  answer; for a `mixed` tab nothing is claimed.
* `DefaultsAskedOnce`. While no list was stale, openings ran one after the other,
  and the one that is about to insert the defaults is right that no question is a
  default (`ListStillTrue`). Ids are unique and rows never outnumber them
  (`RowsOK`), which bounds the places; that the greatest place exists is
  `GreatestExists`, again from `WFMin`.
* `OpeningsAskEnough`. An opening counts what it listed plus what it inserted
  itself, and the round may hold more. `OpeningsHaveEnough` says what is left to
  hold at each place of an undisturbed opening: its list is no longer than the
  round, and from the choice on list and picks together reach the target, or the
  picks are the whole bank. Insertions have to count exactly for that
  (`NumberedRows`, `RowsGrow`), which is where unique ids are needed, and a choice
  has to be as large as asked for or exhaust the bank (`PicksFromBank`).
* `LossIsWithinLastBoot`, `CrashFailsHarmlessly`, `TypeCorrect` (of `DataDir`). `IInv`
  relates header and sidecar along a boot (`HeaderAgainstSidecar`), says that no
  file holds rows newer than its header (`RowsNotAhead`), and that a live copy is
  refused or holds every row of the boots before the last recorded one
  (`CopiesBehind`).

**The systems of the runs.** `JourneysParts` and `RecordsParts` prove that the unions
TLC explores behave, in each part, like the part alone; so the theorems about the
parts are theorems about what the runs check. `JourneysTyped` and `RecordsTyped`
state the runs' type invariants.

Only model-checked: the liveness properties (`StalledCycleRecovers`,
`EventsSettle`, `EveryoneIsTold`, `EveryVisitEnds`, `WizardFinishes`,
`QueueSettles`), which are about fairness and enabled steps and out of this
prover's reach; and that the violations of section 4 are reached.

## 6. Not modelled

* **Migrations and seeding.** Each migration is one transaction, in order, before
  anything serves; only their place in the boot and what they seed matter here.
* **Appearance and themes.** A revision is published by one `UPDATE` and rendered
  from the row; what could be wrong is colour mathematics in floating point and
  image decoding.
* **Pages, export, embeds, configuration, SMTP.** Reads and I/O without state of
  their own. The preferences form is in `Discussion`, the gates in `Visits`.
* **The (month, year) labels of rounds** and the calendar arithmetic that makes
  them: `Rounds` keeps time in hours and the order of rounds, and never the
  label.
* **Manual nudges, the resend button and the opening mails**: batches like those
  of `Mail` without an event to retry.
* **Maintenance of the question bank and creating or deleting defaults**, which a
  round reads once; **order, captions and alt texts of blocks**, **reactions** and
  **edited comments**, which are single updates nothing else depends on.
* **Two submissions of the wizard in flight together**: `Wizard` has them one after
  the other, whatever the earlier one got to.
* **The window between the count and the insertion of `handleAddQuestion`**: two
  additions at one moment may get the same place. No page sends a `sort_order`, so
  the runs have `SortOrders = {0}` (none); the proofs allow any.
* **The account page, settings other than the window and auto-create**: plain
  values.
* **The write-ahead log's checkpoint and the heartbeat.**

Left to do: the labels, as functions checked against a reference definition.

## 7. Checking it

    tlc -workers 2 -config RoundsSerial.cfg MCRounds
    tlc -workers 2 -config Mail.cfg MCMail
    tlc -workers 2 -config Journeys.cfg MCJourneys
    tlc -workers 2 -config Records.cfg MCRecords
    tlc -workers 2 -config QuestionOrder.cfg Questions
    tlapm RoundsProofs.tla
    tlapm RoundsOverlapProofs.tla
    tlapm RoundsSerialProofs.tla
    tlapm MailProofs.tla
    tlapm SignInProofs.tla
    tlapm KeepsakesProofs.tla
    tlapm JourneysProofs.tla
    tlapm RecordsProofs.tla

Each definition marked `BUG` is a plausible mistake; `PROJECT.json` says which
definition it replaces and which property then fails.
