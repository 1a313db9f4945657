------------------------------- MODULE Wizard -------------------------------
(***************************************************************************)
(* The launch wizard of a new Loop.  handleCompleteOnboarding is a long    *)
(* sequence of separate transactions that ends with setup_complete.  Any   *)
(* of them may fail or the process may stop, and the admin then submits    *)
(* the wizard again, perhaps with other picks, switches or another start   *)
(* month; meanwhile the scheduler may already close the round that an      *)
(* abandoned attempt has opened, and the admin, who is let in before the   *)
(* launch, may answer it.                                                  *)
(***************************************************************************)
EXTENDS Naturals

CONSTANTS Texts,        \* question texts
          Seeded,       \* the texts the seed makes default questions
          Months,       \* start months the admin may choose
          MaxFailures,  \* bound: transactions that fail, stops included
          AdminAnswers  \* the admin may answer an abandoned attempt's round

ASSUME WizardAssumption == Seeded \subseteq Texts /\ MaxFailures \in Nat

\* What the browser posts: the picks, the ones flagged make_default, the
\* defaults left switched on, and the start date as its month.
Payload == [picks : SUBSET Texts \ {{}}, keep : SUBSET Texts, on : SUBSET Texts, month : Months]

NoPayload == [picks |-> {}, keep |-> {}, on |-> {}, month |-> CHOOSE k \in Months : TRUE]

WizardSteps == {"closed", "switches", "issue", "collecting", "clear", "defaults",
                "picks", "promote", "requeue", "invite", "complete"}

VARIABLES defaults,   \* default_questions: absent, on or off
          round,      \* issues by month: absent, draft, collecting or published
          asked,      \* questions of each round: how often each text was inserted
          autoClose,  \* scheduler_events: the auto_close row of each round
          answered,   \* rounds with a response of the admin
          closing,    \* rounds whose auto_close row the scheduler is handling
          complete,   \* settings.setup_complete
          form,       \* the payload of the attempt in flight
          wizardAt,   \* its next step
          blind,      \* history: the attempt could not list the questions stitched in
          failures    \* transactions that failed so far

wizardVars == <<defaults, round, asked, autoClose, answered, closing, complete, form,
                wizardAt, blind, failures>>

WizardTypeOK ==
    /\ defaults \in [Texts -> {"absent", "on", "off"}]
    /\ round \in [Months -> {"absent", "draft", "collecting", "published"}]
    /\ asked \in [Months -> [Texts -> Nat]]
    /\ autoClose \in [Months -> {"none", "pending", "fired"}]
    /\ answered \subseteq Months
    /\ closing \subseteq Months
    /\ complete \in BOOLEAN
    /\ form \in Payload \cup {NoPayload}
    /\ wizardAt \in WizardSteps
    /\ blind \in BOOLEAN
    /\ failures \in 0..MaxFailures

WizardInit ==
    /\ defaults = [t \in Texts |-> IF t \in Seeded THEN "on" ELSE "absent"]
    /\ round = [k \in Months |-> "absent"]
    /\ asked = [k \in Months |-> [t \in Texts |-> 0]]
    /\ autoClose = [k \in Months |-> "none"]
    /\ answered = {}
    /\ closing = {}
    /\ complete = FALSE
    /\ form = NoPayload
    /\ wizardAt = "closed"
    /\ blind = FALSE
    /\ failures = 0

Then(from, to) == wizardAt = from /\ wizardAt' = to
OneMoreFailure == failures < MaxFailures /\ failures' = failures + 1
\* What a loop over S got done when it logs a failure and goes on.
Through(S, done) == done \subseteq S /\ IF done = S THEN UNCHANGED failures ELSE OneMoreFailure

-----------------------------------------------------------------------------
\* The idempotency check and the validation; a refused form changes nothing.
\* Setting the admin's name and the settings row is the same update each time.
SubmitWizard(f) ==
    /\ ~complete /\ f.keep \subseteq f.picks
    /\ Then("closed", "switches")
    /\ form' = f
    /\ UNCHANGED <<defaults, round, asked, autoClose, answered, closing, complete, blind, failures>>

\* BUG: a default that the form leaves out is written as an empty switch.
SwitchEverything ==
    /\ Then("switches", "issue")
    /\ defaults' = [t \in Texts |-> IF t \in form.on THEN "on" ELSE ""]
    /\ UNCHANGED <<round, asked, autoClose, answered, closing, complete, form, blind, failures>>

\* The page listed the defaults of when it was loaded, perhaps before a pick of
\* an earlier attempt was promoted; a switch that fails is logged.
SetDefaultQuestionEnabled ==
    /\ Then("switches", "issue")
    /\ \E listed \in {Seeded, {t \in Texts : defaults[t] # "absent"}}, done \in SUBSET Texts :
         /\ Through(listed, done)
         /\ defaults' = [t \in Texts |-> IF t \notin done THEN defaults[t]
                                         ELSE IF t \in form.on THEN "on" ELSE "off"]
    /\ UNCHANGED <<round, asked, autoClose, answered, closing, complete, form, blind>>

GetOrCreateSetupIssue ==
    /\ Then("issue", "collecting")
    /\ round' = [round EXCEPT ![form.month] = IF @ = "absent" THEN "draft" ELSE @]
    /\ UNCHANGED <<defaults, asked, autoClose, answered, closing, complete, form, blind, failures>>

SetCollecting ==
    /\ Then("collecting", "clear")
    /\ round' = [round EXCEPT ![form.month] = "collecting"]
    /\ UNCHANGED <<defaults, asked, autoClose, answered, closing, complete, form, blind, failures>>

\* responses.question_id has no cascade: an answered question stays, and with
\* it the whole statement fails.
DeleteQuestionsByIssue ==
    /\ form.month \notin answered
    /\ Then("clear", "defaults")
    /\ asked' = [asked EXCEPT ![form.month] = [t \in Texts |-> 0]]
    /\ blind' = FALSE
    /\ UNCHANGED <<defaults, round, autoClose, answered, closing, complete, form, failures>>

ResetRefused ==
    /\ form.month \in answered
    /\ Then("clear", "closed")
    /\ form' = NoPayload
    /\ UNCHANGED <<defaults, round, asked, autoClose, answered, closing, complete, blind, failures>>

Enabled == {t \in Texts : defaults[t] = "on"}
WithQuestions(month, S) == [asked EXCEPT ![month] = [t \in Texts |-> @[t] + IF t \in S THEN 1 ELSE 0]]

\* A default that cannot be inserted is logged and left out.
InsertDefaultQuestions ==
    /\ Then("defaults", "picks")
    /\ \E done \in SUBSET Enabled :
         Through(Enabled, done) /\ asked' = WithQuestions(form.month, done)
    /\ UNCHANGED <<defaults, round, autoClose, answered, closing, complete, form, blind>>

\* BUG: every pick is inserted, promoted before or not.
AllPicks == form.picks

\* Picks already stitched in as promoted defaults are not inserted again.
PicksToInsert == {t \in form.picks : ~(t \in form.keep /\ asked[form.month][t] > 0)}

\* When the questions cannot be listed, nothing counts as stitched in.
CreatePicks ==
    /\ Then("picks", "promote")
    /\ \/ asked' = WithQuestions(form.month, PicksToInsert) /\ UNCHANGED <<blind, failures>>
       \/ OneMoreFailure /\ blind' = TRUE /\ asked' = WithQuestions(form.month, form.picks)
    /\ UNCHANGED <<defaults, round, autoClose, answered, closing, complete, form>>

\* The insertion fails after some of the picks.
CreatePicksFails ==
    /\ OneMoreFailure
    /\ Then("picks", "closed")
    /\ \E S \in SUBSET PicksToInsert : asked' = WithQuestions(form.month, S)
    /\ form' = NoPayload
    /\ UNCHANGED <<defaults, round, autoClose, answered, closing, complete, blind>>

\* A text that is a default already is refused as a duplicate, on or off.
PromotePicks ==
    /\ Then("promote", "requeue")
    /\ \E done \in SUBSET form.keep :
         /\ Through(form.keep, done)
         /\ defaults' = [t \in Texts |-> IF t \in done /\ defaults[t] = "absent" THEN "on"
                                         ELSE defaults[t]]
    /\ UNCHANGED <<round, asked, autoClose, answered, closing, complete, form, blind>>

\* BUG: the insert ignores a row that is there, fired or not.
KeepFired(row) == IF row = "fired" THEN row ELSE "pending"

\* BUG: a plain insert, refused for ever beside the row that has fired.
InsertEvents ==
    /\ autoClose[form.month] # "fired"
    /\ Then("requeue", "invite")
    /\ autoClose' = [autoClose EXCEPT ![form.month] = "pending"]
    /\ closing' = closing \ {form.month}
    /\ UNCHANGED <<defaults, round, asked, answered, complete, form, blind, failures>>

\* One transaction; a row that has fired is armed again, not refused.
Rearmed(row) == "pending"

RequeueIssueEvents ==
    /\ Then("requeue", "invite")
    /\ autoClose' = [autoClose EXCEPT ![form.month] = Rearmed(@)]
    /\ closing' = closing \ {form.month}
    /\ UNCHANGED <<defaults, round, asked, answered, complete, form, blind, failures>>

\* What becomes of the friends' accounts and memberships is in Visits (the way
\* "launch"); whatever fails there is logged and the launch goes on.
InviteFriends ==
    /\ Then("invite", "complete")
    /\ UNCHANGED <<defaults, round, asked, autoClose, answered, closing, complete, form, blind, failures>>

CompleteSetup ==
    /\ Then("complete", "closed")
    /\ complete' = TRUE
    /\ UNCHANGED <<defaults, round, asked, autoClose, answered, closing, form, blind, failures>>

\* A failed transaction answers with an error; a stop leaves the same state.
WizardFails ==
    /\ wizardAt # "closed" /\ OneMoreFailure
    /\ wizardAt' = "closed"
    /\ form' = NoPayload
    /\ UNCHANGED <<defaults, round, asked, autoClose, answered, closing, complete, blind>>

-----------------------------------------------------------------------------
\* The deadline of a queued round comes: the scheduler closes the round if it
\* is collecting, skips it otherwise, and then marks the row it handled, which
\* the wizard may have replaced meanwhile.
FireAutoClose(month) ==
    /\ autoClose[month] = "pending" /\ month \notin closing
    /\ closing' = closing \cup {month}
    /\ round' = [round EXCEPT ![month] = IF @ = "collecting" THEN "published" ELSE @]
    /\ UNCHANGED <<defaults, asked, autoClose, answered, complete, form, wizardAt, blind, failures>>

MarkCloseFired(month) ==
    /\ month \in closing
    /\ closing' = closing \ {month}
    /\ autoClose' = [autoClose EXCEPT ![month] = "fired"]
    /\ UNCHANGED <<defaults, round, asked, answered, complete, form, wizardAt, blind, failures>>

\* requireGroup lets an admin in before the launch.
AdminAnswersRound(month) ==
    /\ AdminAnswers /\ ~complete
    /\ round[month] = "collecting" /\ \E t \in Texts : asked[month][t] > 0
    /\ answered' = answered \cup {month}
    /\ UNCHANGED <<defaults, round, asked, autoClose, closing, complete, form, wizardAt, blind, failures>>

WizardStep ==
    \/ SetDefaultQuestionEnabled \/ GetOrCreateSetupIssue \/ SetCollecting
    \/ DeleteQuestionsByIssue \/ ResetRefused \/ InsertDefaultQuestions \/ CreatePicks
    \/ PromotePicks \/ RequeueIssueEvents \/ InviteFriends \/ CompleteSetup

WizardNext ==
    \/ \E f \in Payload : SubmitWizard(f)
    \/ WizardStep \/ CreatePicksFails \/ WizardFails
    \/ \E k \in Months : FireAutoClose(k) \/ MarkCloseFired(k) \/ AdminAnswersRound(k)

WizardSpec == WizardInit /\ [][WizardNext]_wizardVars

\* The admin submits an open wizard until it is done, and a request goes on.
WizardFairSpec == WizardSpec /\ WF_wizardVars(WizardStep \/ \E f \in Payload : SubmitWizard(f))

-----------------------------------------------------------------------------
Launched == wizardAt = "complete" \/ complete

\* "Submitting the wizard again converges to the same state instead of creating
\* duplicates": whatever earlier attempts left behind, the round that is
\* launched asks every pick, a text at most once more when it is a default as
\* well, and nothing that is neither; a pick made a default is asked once, unless
\* the wizard could not read what it had stitched in.
LaunchAsksEachPickOnce ==
    Launched =>
        \A t \in Texts :
            LET n == asked[form.month][t] IN
            /\ t \in form.picks => n >= 1
            /\ t \in form.keep => n = 1 \/ blind
            /\ n <= (IF t \in form.picks THEN 1 ELSE 0) + (IF defaults[t] = "on" THEN 1 ELSE 0)

\* "A round without its auto_close event never closes": whatever an abandoned
\* attempt's close did meanwhile, a launched round that collects has one queued.
LaunchedRoundCloses ==
    Launched /\ round[form.month] = "collecting" => autoClose[form.month] = "pending"

\* However often a step fails, whoever submits the wizard again and again launches
\* the Loop for good, unless the round was answered before the launch.
WizardFinishes == []<>(wizardAt # "closed") => <>[](complete \/ answered # {})
=============================================================================
