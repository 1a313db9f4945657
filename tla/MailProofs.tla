----------------------------- MODULE MailProofs -----------------------------
(***************************************************************************)
(* What the mails of an event promise, for every number of members,        *)
(* requests, moved deadlines and troubles, with or without the race; and,  *)
(* without it, that nobody is told twice that a round is published.        *)
(***************************************************************************)
EXTENDS Mail, TLAPS

-----------------------------------------------------------------------------
(* The inductive invariant.                                                *)

\* Where the scheduler holds a mail whose row it has reserved.
Mailing1 == {"send", "logSent", "logFailed"}

\* A scheduler at work holds an event that was created, and a recipient while
\* it mails one.
InHand ==
    /\ pc[Sched] # "idle" => loc[Sched].ev \in Events /\ events[loc[Sched].ev] # "none"
    /\ pc[Sched] = "idle" => loc[Sched].roster = {}
    /\ pc[Sched] \in Mailing1 => loc[Sched].to \in Members

\* No mail leaves without a row, and no row refers to a cancelled event.
Reserved ==
    /\ pc[Sched] \in Mailing1 => log[loc[Sched].ev][loc[Sched].to] = "pending"
    /\ \A e \in Events, m \in Members : log[e][m] = "none" => inbox[e][m] = 0
    /\ \A e \in Events : events[e] = "deleted" => \A m \in Members : log[e][m] = "none"

\* The mail is known to have gone out, or is about to be.
Known(e, m) ==
    \/ log[e][m] = "sent"
    \/ pc[Sched] = "logSent" /\ loc[Sched].ev = e /\ loc[Sched].to = m

Accounted ==
    \A e \in Events, m \in Members :
        /\ inbox[e][m] <= unsaved[e][m] + 1
        /\ ~Known(e, m) => inbox[e][m] <= unsaved[e][m]

\* What the batch has behind it is logged.
Settled(e, m) ==
    \/ Unwanted(e, m)
    \/ log[e][m] # "none"
    \/ <<e, m>> \in unreserved
    \/ events[e] = "deleted"

Covered ==
    LET v == loc[Sched] IN
    \A m \in v.roster :
        \/ pc[Sched] \in Mailing1 \cup {"next"} /\ m \in v.todo
        \/ Settled(v.ev, m)

\* A fired event is never deleted or created again.
HandledStay ==
    /\ \A e \in Events, m \in Members : <<e, m>> \in handled => events[e] = "fired"
    /\ \A e \in Events : e[1] > life => events[e] = "none"

MailInv == TypeOK /\ InHand /\ Reserved /\ Accounted /\ Covered /\ HandledStay /\ NobodyPassedOver

-----------------------------------------------------------------------------
\* The scheduler is a process of its own, and an idle process holds nothing.
LEMMA MailFacts ==
    ASSUME TypeOK
    PROVE  /\ Sched \in Procs /\ Webs \subseteq Procs /\ Sched \notin Webs
           /\ NoLocal \in Local /\ NoLocal.roster = {} /\ NoLocal.todo = {}
           /\ loc[Sched] \in Local /\ pc[Sched] \in PC
BY MailAssumption DEF TypeOK, Procs, NoLocal, Local, Nobody

\* What a step of one process does to the two tables of processes.
LEMMA GotoFacts ==
    ASSUME TypeOK, NEW p \in Procs, NEW l \in PC, NEW v \in Local, Goto(p, l, v)
    PROVE  /\ pc' \in [Procs -> PC] /\ loc' \in [Procs -> Local]
           /\ pc'[p] = l /\ loc'[p] = IF l = "idle" THEN NoLocal ELSE v
           /\ \A q \in Procs \ {p} : pc'[q] = pc[q] /\ loc'[q] = loc[q]
BY MailFacts DEF Goto, TypeOK

\* A launched round satisfies the invariant.
LEMMA InitMail == Init => MailInv
<1> SUFFICES ASSUME Init PROVE MailInv
  OBVIOUS
<1>1. NoLocal \in Local /\ NoLocal.roster = {} /\ Sched \in Procs
  BY DEF NoLocal, Local, Nobody, Procs
<1>2. 1 \in Lives
  BY MailAssumption DEF Lives
<1>3. TypeOK
  BY <1>1, <1>2, MailAssumption DEF Init, TypeOK, PC
<1>4. pc[Sched] = "idle" /\ loc[Sched] = NoLocal
  BY <1>1 DEF Init
<1>5. InHand
  BY <1>1, <1>4 DEF InHand, Mailing1
<1>6. Reserved /\ Accounted
  BY <1>4 DEF Init, Reserved, Accounted, Known, Mailing1
<1>7. Covered
  BY <1>1, <1>4 DEF Covered, Mailing1
<1>8. HandledStay
  BY DEF Init, HandledStay, Events, Lives
<1> QED BY <1>3, <1>5, <1>6, <1>7, <1>8 DEF MailInv, NobodyPassedOver, Init

-----------------------------------------------------------------------------
(* Steps that leave the mails alone.                                       *)

\* The state of the mails, of which a quiet step changes nothing.
mailState == <<muted, events, log, inbox, unsaved, unreserved, handled, life>>

\* A step of a member or of a publishing request.
LEMMA OthersKeep ==
    ASSUME MailInv, TypeOK', UNCHANGED mailState,
           pc'[Sched] = pc[Sched], loc'[Sched] = loc[Sched]
    PROVE  MailInv'
<1>1. \A e, m : Settled(e, m) => Settled(e, m)'
  BY DEF Settled, Unwanted, mailState
<1>2. InHand' /\ Reserved' /\ HandledStay'
  BY DEF MailInv, InHand, Reserved, HandledStay, mailState
<1>3. Accounted'
  BY DEF MailInv, Accounted, Known, mailState
<1>4. Covered'
  BY <1>1 DEF MailInv, Covered
<1>5. NobodyPassedOver'
  BY DEF MailInv, NobodyPassedOver, Unwanted, mailState
<1> QED BY <1>2, <1>3, <1>4, <1>5 DEF MailInv

\* A step that takes the scheduler out of, or past, a batch.
LEMMA SchedulerKeeps ==
    ASSUME MailInv, TypeOK', UNCHANGED mailState,
           pc[Sched] # "logSent",
           pc'[Sched] \notin Mailing1 \cup {"next"},
           pc'[Sched] # "idle" => /\ loc'[Sched].ev \in Events
                                  /\ events[loc'[Sched].ev] # "none",
           pc'[Sched] = "idle" => loc'[Sched].roster = {},
           \A m \in loc'[Sched].roster : Settled(loc'[Sched].ev, m)
    PROVE  MailInv'
<1>1. \A e, m : Settled(e, m) => Settled(e, m)'
  BY DEF Settled, Unwanted, mailState
<1>2. InHand' /\ Reserved' /\ HandledStay'
  BY DEF MailInv, InHand, Reserved, HandledStay, mailState, Mailing1
<1>3. Accounted'
  BY DEF MailInv, Accounted, Known, mailState, Mailing1
<1>4. Covered'
  BY <1>1 DEF MailInv, Covered, Mailing1
<1>5. NobodyPassedOver'
  BY DEF MailInv, NobodyPassedOver, Unwanted, mailState
<1> QED BY <1>2, <1>3, <1>4, <1>5 DEF MailInv

-----------------------------------------------------------------------------
(* One lemma for every kind of step.                                       *)

\* A member submits or withdraws.
LEMMA SubmitMail == ASSUME MailInv, NEW m \in Members, Submit(m) \/ Withdraw(m) PROVE MailInv'
<1>1. TypeOK'
  BY DEF MailInv, TypeOK, Submit, Withdraw, history
<1> QED BY <1>1, OthersKeep DEF Submit, Withdraw, history, mailState

\* What publishing a round does to everything but the two tables.
LEMMA PublishFacts ==
    ASSUME TypeOK, NEW p \in Procs, PublishStep(p)
    PROVE  /\ UNCHANGED mailState /\ answered' = answered
           /\ troubles' \in Nat /\ status' \in {"collecting", "published"}
           /\ published' \in [Members -> Nat]
<1>1. CASE PublishIssue(p)
  BY <1>1 DEF PublishIssue, Fine, Trouble, TypeOK, history, mailState
<1>2. CASE Announce(p)
  BY <1>2 DEF Announce, Fine, Trouble, TypeOK, rows, history, mailState
<1>3. CASE SendPublished(p)
  <2>1. UNCHANGED mailState /\ answered' = answered /\ status' = status
    BY <1>3 DEF SendPublished, rows, history, mailState
  <2>2. PICK m \in loc[p].todo :
           /\ Goto(p, "batch", [loc[p] EXCEPT !.todo = @ \ {m}])
           /\ \/ published' = [published EXCEPT ![m] = @ + 1] /\ Fine
              \/ published' = published /\ Trouble
    BY <1>3, Zenon DEF SendPublished
  <2>3. \A n \in Members : published[n] + 1 \in Nat
    BY DEF TypeOK
  <2> QED BY <2>1, <2>2, <2>3 DEF TypeOK, Fine, Trouble
<1>4. CASE EndPublished(p)
  BY <1>4 DEF EndPublished, Fine, Trouble, TypeOK, rows, history, mailState
<1> QED BY <1>1, <1>2, <1>3, <1>4 DEF PublishStep

\* A web request publishes.
LEMMA WebMail ==
    ASSUME MailInv, NEW w \in Webs, BeginPublish(w) \/ PublishStep(w)
    PROVE  MailInv'
<1> USE MailFacts DEF MailInv
<1>1. w \in Procs /\ w # Sched /\ loc[w] \in Local
  BY DEF TypeOK
<1>2. PICK l \in PC, v \in Local : Goto(w, l, v)
  <2>1. CASE BeginPublish(w)
    BY <2>1 DEF BeginPublish, PC
  <2>2. CASE PublishIssue(w)
    BY <2>2, <1>1 DEF PublishIssue, PC
  <2>3. CASE Announce(w)
    <3>1. [loc[w] EXCEPT !.todo = Members \ muted] \in Local
      BY <1>1 DEF Local
    <3> QED BY <2>3, <3>1, <1>1 DEF Announce, BatchRuns, AfterBatch, PC
  <2>4. CASE SendPublished(w)
    <3>1. \A m : [loc[w] EXCEPT !.todo = @ \ {m}] \in Local
      BY <1>1 DEF Local
    <3> QED BY <2>4, <3>1 DEF SendPublished, PC
  <2>5. CASE EndPublished(w)
    BY <2>5, <1>1 DEF EndPublished, AfterBatch, PC
  <2> QED BY <2>1, <2>2, <2>3, <2>4, <2>5 DEF PublishStep
<1>3. /\ pc' \in [Procs -> PC] /\ loc' \in [Procs -> Local]
      /\ pc'[Sched] = pc[Sched] /\ loc'[Sched] = loc[Sched]
  BY <1>1, <1>2, GotoFacts
<1>4. UNCHANGED mailState /\ answered' = answered
  BY <1>1, PublishFacts DEF BeginPublish, rows, history, mailState
<1>5. troubles' \in Nat /\ status' \in {"collecting", "published"} /\ published' \in [Members -> Nat]
  BY <1>1, PublishFacts DEF BeginPublish, rows, history, Fine, TypeOK
<1>6. TypeOK'
  BY <1>3, <1>4, <1>5 DEF TypeOK, mailState
<1> QED BY <1>3, <1>4, <1>6, OthersKeep

\* The steps of the scheduler that mail nothing of an event: taking one up,
\* ending its batch, and publishing.
LEMMA QuietMail ==
    ASSUME MailInv,
           TakeEvent \/ FinishBatch \/ EventTimeout \/ CheckClose \/ PublishStep(Sched)
    PROVE  MailInv'
<1> USE MailFacts DEF MailInv
<1> DEFINE v0 == loc[Sched]
<1>1. PICK l \in PC \ (Mailing1 \cup {"next"}), v \in Local :
         /\ Goto(Sched, l, v)
         /\ v.ev \in Events /\ events[v.ev] # "none"
         /\ l # "idle" => \A m \in v.roster : Settled(v.ev, m)
  <2>1. CASE TakeEvent
    <3>1. \A e \in Events : LET v == [NoLocal EXCEPT !.ev = e]
                            IN  v \in Local /\ v.ev = e /\ v.roster = {}
      BY DEF NoLocal, Local
    <3>2. PICK e \in Events, l \in {"mark", "roster", "close"} :
             events[e] = "pending" /\ Goto(Sched, l, [NoLocal EXCEPT !.ev = e])
      BY <2>1 DEF TakeEvent, SkipStale, Handler
    <3>3. l \in PC \ (Mailing1 \cup {"next"})
      BY DEF PC, Mailing1
    <3>4. events[e] # "none"
      BY <3>2
    <3> DEFINE v == [NoLocal EXCEPT !.ev = e]
    <3>5. v \in Local /\ v.ev = e /\ v.roster = {} /\ Goto(Sched, l, v)
      BY <3>1, <3>2
    <3> HIDE DEF v
    <3> QED BY <3>3, <3>4, <3>5
  <2>2. CASE FinishBatch
    <3>1. v0.ev \in Events /\ events[v0.ev] # "none" /\ \A m \in v0.roster : Settled(v0.ev, m)
      BY <2>2 DEF FinishBatch, InHand, Covered
    <3> QED BY <2>2, <3>1 DEF FinishBatch, PC, Mailing1
  <2>3. CASE EventTimeout
    <3>1. v0.ev \in Events /\ events[v0.ev] # "none"
      BY <2>3 DEF EventTimeout, InHand
    <3> QED BY <2>3, <3>1 DEF EventTimeout, OnTimeout, PC, Mailing1
  <2>4. CASE CheckClose
    <3>1. /\ v0.ev \in Events /\ events[v0.ev] # "none"
          /\ \A m \in v0.roster : Settled(v0.ev, m)
      BY <2>4 DEF CheckClose, Covered, InHand, Mailing1
    <3> QED BY <2>4, <3>1 DEF CheckClose, CloseOrSkip, PC, Mailing1
  <2>5. CASE PublishStep(Sched)
    <3>1. pc[Sched] \in {"publish", "announce", "batch"}
      BY <2>5 DEF PublishStep, PublishIssue, Announce, SendPublished, EndPublished
    <3>2. /\ v0 \in Local /\ v0.ev \in Events /\ events[v0.ev] # "none"
          /\ \A m \in v0.roster : Settled(v0.ev, m)
      BY <3>1 DEF Covered, InHand, Mailing1
    <3>3. \A t \in SUBSET Members : LET v == [v0 EXCEPT !.todo = t]
                                    IN  v \in Local /\ v.ev = v0.ev /\ v.roster = v0.roster
      BY <3>2 DEF Local
    <3>4. \A m : v0.todo \ {m} \in SUBSET Members
      BY <3>2 DEF Local
    <3>5. PICK l \in {"idle", "mark", "announce", "batch"}, v \in Local :
             Goto(Sched, l, v) /\ v.ev = v0.ev /\ v.roster = v0.roster
      <4>1. CASE PublishIssue(Sched)
        BY <4>1, <3>2 DEF PublishIssue
      <4>2. CASE Announce(Sched)
        BY <4>2, <3>2, <3>3 DEF Announce, BatchRuns, AfterBatch
      <4>3. CASE SendPublished(Sched)
        BY <4>3, <3>3, <3>4 DEF SendPublished
      <4>4. CASE EndPublished(Sched)
        BY <4>4, <3>2 DEF EndPublished, AfterBatch
      <4> QED BY <2>5, <4>1, <4>2, <4>3, <4>4 DEF PublishStep
    <3> HIDE DEF v0
    <3> QED BY <3>2, <3>5 DEF PC, Mailing1
  <2> QED BY <2>1, <2>2, <2>3, <2>4, <2>5
<1>2. /\ pc' \in [Procs -> PC] /\ loc' \in [Procs -> Local]
      /\ pc'[Sched] = l /\ loc'[Sched] = IF l = "idle" THEN NoLocal ELSE v
  BY <1>1, GotoFacts
<1>3. UNCHANGED mailState /\ answered' = answered
  BY PublishFacts DEF TakeEvent, FinishBatch, EventTimeout, CheckClose, rows, history, mailState
<1>4. troubles' \in Nat /\ status' \in {"collecting", "published"} /\ published' \in [Members -> Nat]
  <2>1. CASE PublishStep(Sched)
    BY <2>1, PublishFacts
  <2>2. CASE TakeEvent
    BY <2>2 DEF TakeEvent, rows, history, Fine, Trouble, TypeOK
  <2>3. CASE FinishBatch \/ EventTimeout \/ CheckClose
    BY <2>3 DEF FinishBatch, EventTimeout, CheckClose, rows, history, Fine, Trouble, TypeOK
  <2> QED BY <2>1, <2>2, <2>3
<1>5. TypeOK'
  BY <1>2, <1>3, <1>4 DEF TypeOK, mailState
<1>6. pc[Sched] # "logSent"
  BY DEF TakeEvent, FinishBatch, EventTimeout, CheckClose, PublishStep, PublishIssue, Announce,
         SendPublished, EndPublished
<1> QED BY <1>1, <1>2, <1>3, <1>5, <1>6, SchedulerKeeps

\* The roster of a batch: everybody on it is still to be mailed.
LEMMA RosterMail == ASSUME MailInv, ReadRoster PROVE MailInv'
<1> USE MailFacts DEF MailInv
<1> DEFINE v == loc[Sched]
<1>1. /\ pc[Sched] = "roster" /\ v \in Local /\ v.ev \in Events /\ events[v.ev] # "none"
      /\ \A m \in v.roster : Settled(v.ev, m)
  BY DEF ReadRoster, InHand, Covered, Mailing1
<1>2. UNCHANGED mailState /\ answered' = answered /\ status' = status
      /\ published' = published /\ troubles' \in Nat
  BY DEF ReadRoster, rows, history, mailState, Fine, Trouble, TypeOK
<1>3. CASE \E l \in {"idle", "mark"} : Goto(Sched, l, v)
  <2>1. PICK l \in {"idle", "mark"} : Goto(Sched, l, v)
    BY <1>3
  <2>2. l \in PC
    BY DEF PC
  <2>3. /\ pc' \in [Procs -> PC] /\ loc' \in [Procs -> Local]
        /\ pc'[Sched] = l /\ loc'[Sched] = IF l = "idle" THEN NoLocal ELSE v
    BY <1>1, <2>1, <2>2, GotoFacts
  <2>4. TypeOK'
    BY <1>2, <2>3 DEF TypeOK, mailState
  <2> QED BY <1>1, <1>2, <2>3, <2>4, SchedulerKeeps DEF Mailing1
<1>4. CASE Goto(Sched, "next", [v EXCEPT !.todo = Recipients(v.ev), !.roster = Recipients(v.ev)])
  <2> DEFINE w == [v EXCEPT !.todo = Recipients(v.ev), !.roster = Recipients(v.ev)]
  <2>1. w \in Local /\ w.ev = v.ev /\ w.todo = w.roster
    BY <1>1, MailAssumption DEF Local, Recipients
  <2>2. Goto(Sched, "next", w)
    BY <1>4
  <2>3. "next" \in PC
    BY DEF PC
  <2> HIDE DEF w
  <2>4. /\ pc' \in [Procs -> PC] /\ loc' \in [Procs -> Local]
        /\ pc'[Sched] = "next" /\ loc'[Sched] = w
    BY <2>1, <2>2, <2>3, GotoFacts
  <2>5. TypeOK'
    BY <1>2, <2>4 DEF TypeOK, mailState
  <2>6. InHand' /\ Reserved' /\ HandledStay'
    BY <1>1, <1>2, <2>1, <2>4 DEF InHand, Reserved, HandledStay, mailState, Mailing1
  <2>7. Accounted'
    BY <1>1, <1>2, <2>4 DEF Accounted, Known, mailState
  <2>9. Covered'
    BY <2>1, <2>4 DEF Covered
  <2>10. NobodyPassedOver'
    BY <1>2 DEF NobodyPassedOver, Unwanted, mailState
  <2> QED BY <2>5, <2>6, <2>7, <2>9, <2>10
<1> QED BY <1>3, <1>4 DEF ReadRoster

\* The process dies: what the scheduler was about to save is lost.
LEMMA CrashMail == ASSUME MailInv, Crash PROVE MailInv'
<1> USE MailFacts DEF MailInv
<1> DEFINE v == loc[Sched]
<1>1. pc'[Sched] = "idle" /\ loc'[Sched] = NoLocal
  BY DEF Crash
<1>2. /\ UNCHANGED <<status, answered, muted, events, log, life, inbox, unreserved, handled, published>>
      /\ troubles' = troubles + 1
  BY DEF Crash, rows, Trouble
<1>5. pc' \in [Procs -> PC] /\ loc' \in [Procs -> Local]
  BY DEF Crash, PC
<1>3. CASE pc[Sched] = "logSent"
  <2>1. v.ev \in Events /\ v.to \in Members
    BY <1>3 DEF InHand, Mailing1
  <2>2. unsaved' = NotSaved(v)
    BY <1>3 DEF Crash
  <2>3. unsaved' \in [Events -> [Members -> Nat]]
    BY <2>1, <2>2 DEF NotSaved, TypeOK
  <2>4. \A e \in Events, m \in Members :
           unsaved'[e][m] = IF e = v.ev /\ m = v.to THEN unsaved[e][m] + 1 ELSE unsaved[e][m]
    BY <2>1, <2>2 DEF NotSaved, TypeOK
  <2>5. TypeOK'
    BY <1>2, <1>5, <2>3 DEF TypeOK
  <2>6. InHand' /\ Reserved' /\ HandledStay'
    BY <1>1, <1>2 DEF InHand, Reserved, HandledStay, Mailing1
  <2>7. Accounted'
    BY <1>1, <1>2, <2>1, <2>4 DEF Accounted, Known, TypeOK
  <2>8. Covered' /\ NobodyPassedOver'
    BY <1>1, <1>2 DEF Covered, NobodyPassedOver, Unwanted, Mailing1
  <2> QED BY <2>5, <2>6, <2>7, <2>8
<1>4. CASE pc[Sched] # "logSent"
  <2>1. unsaved' = unsaved
    BY <1>4 DEF Crash
  <2>2. TypeOK'
    BY <1>2, <1>5, <2>1 DEF TypeOK
  <2> QED BY <1>1, <1>2, <1>4, <2>1, <2>2, SchedulerKeeps DEF mailState, Mailing1
<1> QED BY <1>3, <1>4

\* A moved deadline: what it deletes has no row, what it creates is new.
LEMMA ApplyMail == ASSUME MailInv, ApplySchedule PROVE MailInv'
<1> USE MailFacts DEF MailInv
<1>1. \A e \in Events : events'[e] = IF events[e] = "pending" THEN "deleted"
                                    ELSE IF e[1] = life + 1 THEN "pending" ELSE events[e]
  BY DEF ApplySchedule
<1>2. /\ UNCHANGED <<status, answered, muted, log, inbox, unsaved, unreserved, handled, published,
                      pc, loc, troubles>>
      /\ life' = life + 1 /\ life < MaxLives
  BY DEF ApplySchedule, history
<1>3. \A e \in Events : events[e] # "none" => events'[e] # "none"
  BY <1>1
<1>4. ASSUME NEW e \in Events, events[e] \in {"fired", "deleted"} PROVE events'[e] = events[e]
  <2>1. ~(e[1] > life)
    BY <1>4 DEF HandledStay
  <2>2. e[1] # life + 1
    BY <2>1 DEF TypeOK, Lives
  <2> QED BY <1>1, <1>4, <2>2
<1>5. \A e \in Events : events'[e] = "deleted" => \A m \in Members : log[e][m] = "none"
  BY <1>1 DEF ApplySchedule, Deletable, Reserved
<1>6. TypeOK'
  <2>1. life' \in Lives
    BY <1>2, MailAssumption DEF TypeOK, Lives
  <2>2. events' \in [Events -> {"none", "pending", "fired", "deleted"}]
    BY DEF ApplySchedule, TypeOK
  <2> QED BY <1>2, <2>1, <2>2 DEF TypeOK
<1>7. InHand' /\ Reserved' /\ Accounted'
  BY <1>2, <1>3, <1>5 DEF InHand, Reserved, Accounted, Known
<1>8. \A e \in Events, m \in Members : Settled(e, m) => Settled(e, m)'
  BY <1>2, <1>4 DEF Settled, Unwanted
<1>9. Covered'
  <2>1. loc[Sched].roster # {} => loc[Sched].ev \in Events
    BY DEF InHand
  <2> QED BY <1>2, <1>8, <2>1 DEF Covered, Local
<1>10. HandledStay'
  <2>1. \A e \in Events, m \in Members : <<e, m>> \in handled' => events'[e] = "fired"
    BY <1>2, <1>4 DEF HandledStay, TypeOK
  <2>2. ASSUME NEW e \in Events, e[1] > life' PROVE events'[e] = "none"
    <3>1. e[1] > life /\ e[1] # life + 1
      BY <1>2, <2>2 DEF Events, Lives, TypeOK
    <3> QED BY <1>1, <3>1 DEF HandledStay
  <2> QED BY <2>1, <2>2 DEF HandledStay
<1>11. NobodyPassedOver'
  BY <1>2 DEF NobodyPassedOver, Unwanted
<1> QED BY <1>6, <1>7, <1>9, <1>10, <1>11

\* A step inside a batch: rows stay, and whoever leaves the list is settled.
LEMMA BatchKeeps ==
    ASSUME MailInv, TypeOK', Reserved', Accounted',
           UNCHANGED <<muted, events, life, handled>>,
           pc[Sched] \in Mailing1 \cup {"next"}, pc'[Sched] \in Mailing1 \cup {"next"},
           loc'[Sched].ev = loc[Sched].ev, loc'[Sched].roster = loc[Sched].roster,
           pc'[Sched] \in Mailing1 => loc'[Sched].to \in Members,
           unreserved \subseteq unreserved',
           \A e \in Events, m \in Members : log[e][m] # "none" => log'[e][m] # "none",
           \A m \in loc[Sched].todo \ loc'[Sched].todo : Settled(loc[Sched].ev, m)'
    PROVE  MailInv'
<1> USE MailFacts DEF MailInv
<1>1. loc[Sched].ev \in Events /\ events[loc[Sched].ev] # "none"
  BY DEF InHand, Mailing1
<1>2. InHand' /\ HandledStay'
  BY <1>1 DEF InHand, HandledStay, Mailing1
<1>3. \A e \in Events, m \in Members : Settled(e, m) => Settled(e, m)'
  BY DEF Settled, Unwanted
<1>4. Covered'
  BY <1>1, <1>3 DEF Covered, Local
<1>5. NobodyPassedOver'
  BY DEF NobodyPassedOver, Unwanted
<1> QED BY <1>2, <1>4, <1>5

\* The next recipient is passed over, or gets a row.
LEMMA ReserveMail == ASSUME MailInv, Reserve PROVE MailInv'
<1> USE MailFacts DEF MailInv
<1> DEFINE v == loc[Sched]
<1>1. pc[Sched] = "next" /\ v \in Local /\ v.ev \in Events
  BY DEF Reserve, InHand
<1>2. UNCHANGED <<status, answered, muted, events, life, inbox, unsaved, handled, published>>
  BY DEF Reserve
<1>3. PICK m \in v.todo :
         LET w == [v EXCEPT !.todo = @ \ {m}]
         IN  \/ /\ Unwanted(v.ev, m) \/ ~ShouldSend(v.ev, m)
                /\ Goto(Sched, "next", w)
                /\ Fine
                /\ UNCHANGED <<log, unreserved>>
             \/ /\ ShouldSend(v.ev, m)
                /\ log' = [log EXCEPT ![v.ev][m] = "pending"]
                /\ Goto(Sched, "send", [w EXCEPT !.to = m])
                /\ IF Unwanted(v.ev, m) THEN Trouble ELSE Fine
                /\ UNCHANGED unreserved
             \/ /\ ~Unwanted(v.ev, m)
                /\ unreserved' = unreserved \cup {<<v.ev, m>>}
                /\ Goto(Sched, "next", w)
                /\ Trouble
                /\ UNCHANGED log
  BY Zenon DEF Reserve
<1> DEFINE w == [v EXCEPT !.todo = @ \ {m}]
           x == [w EXCEPT !.to = m]
<1>4. /\ m \in Members
      /\ w \in Local /\ w.ev = v.ev /\ w.todo = v.todo \ {m} /\ w.roster = v.roster
      /\ x \in Local /\ x.ev = v.ev /\ x.todo = v.todo \ {m} /\ x.roster = v.roster /\ x.to = m
  BY <1>1 DEF Local
<1>5. "next" \in PC /\ "send" \in PC
  BY DEF PC
<1>6. CASE /\ Unwanted(v.ev, m) \/ ~ShouldSend(v.ev, m)
           /\ Goto(Sched, "next", w) /\ Fine /\ UNCHANGED <<log, unreserved>>
  <2> HIDE DEF w, x
  <2>1. /\ pc' \in [Procs -> PC] /\ loc' \in [Procs -> Local]
        /\ pc'[Sched] = "next" /\ loc'[Sched] = w
    BY <1>4, <1>5, <1>6, GotoFacts
  <2>2. TypeOK'
    BY <1>2, <1>6, <2>1 DEF TypeOK, Fine
  <2>3. Reserved' /\ Accounted'
    BY <1>1, <1>2, <1>6, <2>1 DEF Reserved, Accounted, Known, Mailing1
  <2>4. Settled(v.ev, m)'
    BY <1>2, <1>4, <1>6, <2>1 DEF Settled, Unwanted, ShouldSend
  <2> QED BY <1>1, <1>2, <1>4, <1>6, <2>1, <2>2, <2>3, <2>4, BatchKeeps DEF Mailing1
<1>7. CASE /\ ShouldSend(v.ev, m) /\ log' = [log EXCEPT ![v.ev][m] = "pending"]
           /\ Goto(Sched, "send", x) /\ (Fine \/ Trouble) /\ UNCHANGED unreserved
  <2> HIDE DEF w, x
  <2>1. /\ pc' \in [Procs -> PC] /\ loc' \in [Procs -> Local]
        /\ pc'[Sched] = "send" /\ loc'[Sched] = x
    BY <1>4, <1>5, <1>7, GotoFacts
  <2>2. \A e \in Events, n \in Members :
           log'[e][n] = IF e = v.ev /\ n = m THEN "pending" ELSE log[e][n]
    BY <1>1, <1>4, <1>7 DEF TypeOK
  <2>3. log' \in [Events -> [Members -> {"none", "pending", "sent", "failed"}]]
    BY <1>1, <1>4, <1>7 DEF TypeOK
  <2>4. TypeOK'
    BY <1>2, <1>7, <2>1, <2>3 DEF TypeOK, Fine, Trouble
  <2>5. Reserved'
    BY <1>1, <1>2, <1>4, <1>7, <2>1, <2>2 DEF Reserved, Mailing1, ShouldSend
  <2>6. Accounted'
    BY <1>1, <1>2, <1>4, <1>7, <2>1, <2>2 DEF Accounted, Known, ShouldSend
  <2>7. Settled(v.ev, m)'
    BY <1>1, <1>4, <2>1, <2>2 DEF Settled
  <2> QED BY <1>1, <1>2, <1>4, <1>7, <2>1, <2>2, <2>4, <2>5, <2>6, <2>7, BatchKeeps DEF Mailing1
<1>8. CASE /\ unreserved' = unreserved \cup {<<v.ev, m>>}
           /\ Goto(Sched, "next", w) /\ Trouble /\ UNCHANGED log
  <2> HIDE DEF w, x
  <2>1. /\ pc' \in [Procs -> PC] /\ loc' \in [Procs -> Local]
        /\ pc'[Sched] = "next" /\ loc'[Sched] = w
    BY <1>4, <1>5, <1>8, GotoFacts
  <2>2. TypeOK'
    BY <1>1, <1>2, <1>4, <1>8, <2>1 DEF TypeOK, Trouble
  <2>3. Reserved' /\ Accounted'
    BY <1>1, <1>2, <1>8, <2>1 DEF Reserved, Accounted, Known, Mailing1
  <2>4. Settled(v.ev, m)'
    BY <1>4, <1>8, <2>1 DEF Settled
  <2> QED BY <1>1, <1>2, <1>4, <1>8, <2>1, <2>2, <2>3, <2>4, BatchKeeps DEF Mailing1
<1> QED BY <1>3, <1>6, <1>7, <1>8

\* A mail goes out, fails, or goes out and seems to have failed.
LEMMA SendMail == ASSUME MailInv, Send PROVE MailInv'
<1> USE MailFacts DEF MailInv
<1> DEFINE v == loc[Sched]
<1>1. pc[Sched] = "send" /\ v \in Local /\ v.ev \in Events /\ v.to \in Members
  BY DEF Send, InHand, Mailing1
<1>2. UNCHANGED <<status, answered, muted, events, life, log, unreserved, handled, published>>
  BY DEF Send, rows
<1>3. PICK l \in {"logSent", "logFailed"} :
         /\ Goto(Sched, l, v)
         /\ inbox' = inbox \/ inbox' = Received(v)
         /\ unsaved' = unsaved \/ unsaved' = NotSaved(v)
         /\ inbox' = Received(v) /\ l = "logFailed" => inbox = inbox' \/ unsaved' = NotSaved(v)
  BY DEF Send
<1>4. log[v.ev][v.to] = "pending"
  BY <1>1 DEF Reserved, Mailing1
<1>5. /\ inbox' \in [Events -> [Members -> Nat]] /\ unsaved' \in [Events -> [Members -> Nat]]
      /\ \A e \in Events, m \in Members : (e # v.ev \/ m # v.to) =>
             inbox'[e][m] = inbox[e][m] /\ unsaved'[e][m] = unsaved[e][m]
  <2>1. /\ Received(v) \in [Events -> [Members -> Nat]]
        /\ \A e \in Events, m \in Members : (e # v.ev \/ m # v.to) => Received(v)[e][m] = inbox[e][m]
    BY <1>1 DEF Received, TypeOK
  <2>2. /\ NotSaved(v) \in [Events -> [Members -> Nat]]
        /\ \A e \in Events, m \in Members : (e # v.ev \/ m # v.to) => NotSaved(v)[e][m] = unsaved[e][m]
    BY <1>1 DEF NotSaved, TypeOK
  <2> QED BY <1>3, <2>1, <2>2 DEF TypeOK
<1>6. /\ inbox'[v.ev][v.to] <= unsaved'[v.ev][v.to] + 1
      /\ l = "logFailed" => inbox'[v.ev][v.to] <= unsaved'[v.ev][v.to]
  <2>1. inbox[v.ev][v.to] <= unsaved[v.ev][v.to]
    BY <1>1, <1>4 DEF Accounted, Known
  <2>2. inbox[v.ev][v.to] \in Nat /\ unsaved[v.ev][v.to] \in Nat
    BY <1>1 DEF TypeOK
  <2>3. Received(v)[v.ev][v.to] = inbox[v.ev][v.to] + 1 /\ NotSaved(v)[v.ev][v.to] = unsaved[v.ev][v.to] + 1
    BY <1>1 DEF Received, NotSaved, TypeOK
  <2> QED BY <1>3, <2>1, <2>2, <2>3
<1>7. l \in PC /\ l \in Mailing1
  BY DEF PC, Mailing1
<1>8. /\ pc' \in [Procs -> PC] /\ loc' \in [Procs -> Local]
      /\ pc'[Sched] = l /\ loc'[Sched] = v
  BY <1>1, <1>3, <1>7, GotoFacts
<1>9. TypeOK'
  <2>1. troubles' \in Nat
    BY DEF Send, Fine, Trouble, TypeOK
  <2> QED BY <1>2, <1>5, <1>8, <2>1 DEF TypeOK
<1>10. Reserved'
  BY <1>1, <1>2, <1>4, <1>5, <1>8 DEF Reserved
<1>11. Accounted'
  BY <1>1, <1>2, <1>4, <1>5, <1>6, <1>8 DEF Accounted, Known
<1> QED BY <1>1, <1>2, <1>7, <1>8, <1>9, <1>10, <1>11, BatchKeeps DEF Mailing1

\* The outcome is saved, or lost: then the mail counts as not saved.
LEMMA SaveMail == ASSUME MailInv, SaveOutcome PROVE MailInv'
<1> USE MailFacts DEF MailInv, Outcome
<1> DEFINE v == loc[Sched]
           w == [v EXCEPT !.to = Nobody]
           outcome == Outcome(pc[Sched])
<1>1. pc[Sched] \in {"logSent", "logFailed"} /\ v \in Local /\ v.ev \in Events /\ v.to \in Members
  BY DEF SaveOutcome, InHand, Mailing1
<1>2. /\ UNCHANGED <<status, answered, muted, events, life, inbox, unreserved, handled, published>>
      /\ Goto(Sched, "next", w)
  BY DEF SaveOutcome
<1>3. w \in Local /\ w.ev = v.ev /\ w.todo = v.todo /\ w.roster = v.roster /\ "next" \in PC
  BY <1>1 DEF Local, PC
<1>4. /\ pc' \in [Procs -> PC] /\ loc' \in [Procs -> Local]
      /\ pc'[Sched] = "next" /\ loc'[Sched] = w
  <2> HIDE DEF w
  <2> QED BY <1>2, <1>3, GotoFacts
<1>5. log[v.ev][v.to] = "pending"
  BY <1>1 DEF Reserved, Mailing1
<1>6. CASE log' = [log EXCEPT ![v.ev][v.to] = outcome] /\ unsaved' = unsaved /\ Fine
  <2>1. /\ log' \in [Events -> [Members -> {"none", "pending", "sent", "failed"}]]
        /\ \A e \in Events, m \in Members :
              log'[e][m] = IF e = v.ev /\ m = v.to THEN outcome ELSE log[e][m]
    BY <1>1, <1>6 DEF TypeOK
  <2> HIDE DEF w
  <2>2. TypeOK'
    BY <1>2, <1>4, <1>6, <2>1 DEF TypeOK, Fine
  <2>3. Reserved'
    BY <1>1, <1>2, <1>4, <1>5, <2>1 DEF Reserved, Mailing1
  <2>4. \A e \in Events, m \in Members : Known(e, m) => Known(e, m)'
    BY <1>1, <1>4, <1>5, <2>1 DEF Known
  <2>5. Accounted'
    BY <1>2, <1>6, <2>4 DEF Accounted
  <2> QED BY <1>1, <1>2, <1>3, <1>4, <1>5, <2>1, <2>2, <2>3, <2>5, BatchKeeps DEF Mailing1
<1>7. CASE log' = log /\ unsaved' = (IF outcome = "sent" THEN NotSaved(v) ELSE unsaved) /\ Trouble
  <2>1. /\ unsaved' \in [Events -> [Members -> Nat]]
        /\ \A e \in Events, m \in Members :
              unsaved'[e][m] = IF pc[Sched] = "logSent" /\ e = v.ev /\ m = v.to
                               THEN unsaved[e][m] + 1 ELSE unsaved[e][m]
    BY <1>1, <1>7 DEF NotSaved, TypeOK
  <2> HIDE DEF w
  <2>2. TypeOK'
    BY <1>2, <1>4, <1>7, <2>1 DEF TypeOK, Trouble
  <2>3. Reserved'
    BY <1>1, <1>2, <1>4, <1>5, <1>7 DEF Reserved, Mailing1
  <2>4. Accounted'
    <3> SUFFICES ASSUME NEW e \in Events, NEW m \in Members
                 PROVE  /\ inbox[e][m] <= unsaved'[e][m] + 1
                        /\ ~Known(e, m)' => inbox[e][m] <= unsaved'[e][m]
      BY <1>2 DEF Accounted
    <3>1. inbox[e][m] \in Nat /\ unsaved[e][m] \in Nat
      BY DEF TypeOK
    <3>2. inbox[e][m] <= unsaved[e][m] + 1 /\ (~Known(e, m) => inbox[e][m] <= unsaved[e][m])
      BY DEF Accounted
    <3>3. CASE pc[Sched] = "logSent" /\ e = v.ev /\ m = v.to
      BY <2>1, <3>1, <3>2, <3>3
    <3>4. CASE ~(pc[Sched] = "logSent" /\ e = v.ev /\ m = v.to)
      <4>1. Known(e, m) => Known(e, m)'
        BY <1>7, <3>4 DEF Known
      <4> QED BY <2>1, <3>1, <3>2, <3>4, <4>1
    <3> QED BY <3>3, <3>4
  <2> QED BY <1>1, <1>2, <1>3, <1>4, <1>7, <2>1, <2>2, <2>3, <2>4, BatchKeeps DEF Mailing1
<1> QED BY <1>6, <1>7 DEF SaveOutcome

\* An event that its batch is through with is fired, and nobody was passed over.
LEMMA MarkMail == ASSUME MailInv, MarkEventFired PROVE MailInv'
<1> USE MailFacts DEF MailInv
<1> DEFINE v == loc[Sched]
<1>1. pc[Sched] = "mark" /\ v \in Local /\ v.ev \in Events /\ events[v.ev] # "none"
  BY DEF MarkEventFired, InHand
<1>2. UNCHANGED <<status, answered, muted, log, life, inbox, unsaved, unreserved, published>>
  BY DEF MarkEventFired
<1>3. "idle" \in PC /\ Goto(Sched, "idle", v)
  BY DEF MarkEventFired, PC
<1>4. /\ pc' \in [Procs -> PC] /\ loc' \in [Procs -> Local]
      /\ pc'[Sched] = "idle" /\ loc'[Sched] = NoLocal
  BY <1>1, <1>3, GotoFacts
<1>5. troubles' \in Nat
  BY DEF MarkEventFired, Fine, Trouble, TypeOK
<1>6. CASE UNCHANGED <<events, handled>>
  <2>1. TypeOK'
    BY <1>2, <1>4, <1>5, <1>6 DEF TypeOK
  <2> QED BY <1>1, <1>2, <1>4, <1>6, <2>1, SchedulerKeeps DEF mailState, Mailing1
<1>7. CASE /\ events[v.ev] # "deleted"
           /\ events' = [events EXCEPT ![v.ev] = "fired"]
           /\ handled' = handled \cup ({v.ev} \X v.roster)
  <2>1. \A e \in Events : events'[e] = IF e = v.ev THEN "fired" ELSE events[e]
    BY <1>1, <1>7 DEF TypeOK
  <2>2. TypeOK'
    <3>1. handled' \subseteq Events \X Members
      BY <1>1, <1>7 DEF TypeOK, Local
    <3>2. events' \in [Events -> {"none", "pending", "fired", "deleted"}]
      BY <1>1, <1>7 DEF TypeOK
    <3> QED BY <1>2, <1>4, <1>5, <3>1, <3>2 DEF TypeOK
  <2>3. InHand' /\ Reserved' /\ Accounted'
    BY <1>1, <1>2, <1>4, <2>1 DEF InHand, Reserved, Accounted, Known, Mailing1
  <2>4. Covered'
    BY <1>4 DEF Covered, Mailing1
  <2>5. HandledStay'
    BY <1>1, <1>2, <1>7, <2>1 DEF HandledStay, TypeOK
  <2>6. \A m \in v.roster : Unwanted(v.ev, m) \/ log[v.ev][m] # "none" \/ <<v.ev, m>> \in unreserved
    BY <1>1, <1>7 DEF Covered, Settled, Mailing1
  <2>7. NobodyPassedOver'
    BY <1>2, <1>7, <2>6 DEF NobodyPassedOver, Unwanted
  <2> QED BY <2>2, <2>3, <2>4, <2>5, <2>7
<1> QED BY <1>6, <1>7 DEF MarkEventFired

-----------------------------------------------------------------------------
(* The theorems.                                                           *)

\* Every step keeps the invariant.
LEMMA NextMail == MailInv /\ [Next]_vars => MailInv'
<1> SUFFICES ASSUME MailInv, [Next]_vars PROVE MailInv'
  OBVIOUS
<1>1. CASE \E m \in Members : Submit(m) \/ Withdraw(m)
  BY <1>1, SubmitMail
<1>2. CASE ApplySchedule
  BY <1>2, ApplyMail
<1>3. CASE SchedStep
  BY <1>3, QuietMail, RosterMail, ReserveMail, SendMail, SaveMail, MarkMail DEF SchedStep
<1>4. CASE \E w \in Webs : BeginPublish(w) \/ PublishStep(w)
  BY <1>4, WebMail
<1>5. CASE Crash
  BY <1>5, CrashMail
<1>6. CASE UNCHANGED vars
  <2>1. TypeOK'
    BY <1>6 DEF vars, MailInv, TypeOK
  <2> QED BY <1>6, <2>1, OthersKeep DEF vars, mailState
<1> QED BY <1>1, <1>2, <1>3, <1>4, <1>5, <1>6 DEF Next

\* The invariant holds in every reachable state, whatever crashes, fails or
\* overlaps.
THEOREM MailInvariant == Spec => []MailInv
BY InitMail, NextMail, PTL DEF Spec

\* Every variable keeps its type.
THEOREM MailTypeCorrect == Spec => []TypeOK
<1>1. MailInv => TypeOK
  BY DEF MailInv
<1> QED BY <1>1, MailInvariant, PTL

\* However often an event is retried, a member gets its mail once, and once
\* more for every time it was not saved that the mail had gone out.
THEOREM MailedOnce == Spec => []OneMailPerEvent
<1>1. MailInv => OneMailPerEvent
  BY DEF MailInv, Accounted, OneMailPerEvent, TypeOK
<1> QED BY <1>1, MailInvariant, PTL

\* A mail of a cancelled event never leaves: the reserved row is there before
\* the mail, and the foreign key keeps the event while the row is there.
THEOREM CancelledQuietly == Spec => []CancelledEventMailsNobody
<1>1. MailInv => CancelledEventMailsNobody
  BY DEF MailInv, Reserved, CancelledEventMailsNobody
<1> QED BY <1>1, MailInvariant, PTL

\* An event is fired only when every member its reminder was for has a row,
\* or the store refused one.
THEOREM AllReminded == Spec => []NobodyPassedOver
<1>1. MailInv => NobodyPassedOver
  BY DEF MailInv
<1> QED BY <1>1, MailInvariant, PTL

-----------------------------------------------------------------------------
(* Who is told that a round is published.                                  *)

\* Where a process publishes the round, or tells the members.
Telling == {"publish", "announce", "batch"}

\* Without the race one process at a time publishes and tells; until the round is
\* published nobody has been told, and whoever is on a list has not.
ToldInv ==
    /\ \A p, q \in Procs : pc[p] \in Telling /\ pc[q] \in Telling => p = q
    /\ \A p \in Procs : pc[p] = "publish" => status = "collecting"
    /\ \A p \in Procs : pc[p] \in {"announce", "batch"} => status = "published"
    /\ status = "collecting" => \A m \in Members : published[m] = 0
    /\ \A p \in Procs : pc[p] = "announce" => \A m \in Members : published[m] = 0
    /\ \A p \in Procs : pc[p] = "batch" => \A m \in loc[p].todo : published[m] = 0
    /\ PublishedToldOnce

\* Where a step of one process leaves every process.
LEMMA GotoAll ==
    ASSUME TypeOK, NEW p \in Procs, NEW l, NEW v, Goto(p, l, v)
    PROVE  /\ \A q \in Procs : pc'[q] = IF q = p THEN l ELSE pc[q]
           /\ \A q \in Procs : q # p => loc'[q] = loc[q]
           /\ loc'[p] = IF l = "idle" THEN NoLocal ELSE v
BY DEF Goto, TypeOK

\* A step after which nobody publishes or tells who did not do so before.
LEMMA ToldKeeps ==
    ASSUME ToldInv, status' = status, published' = published,
           \A q \in Procs : pc'[q] \in Telling => pc'[q] = pc[q] /\ loc'[q] = loc[q]
    PROVE  ToldInv'
BY DEF ToldInv, Telling, PublishedToldOnce

\* ... as when one process goes elsewhere.
LEMMA ToldElsewhere ==
    ASSUME TypeOK, ToldInv, status' = status, published' = published,
           NEW p \in Procs, NEW l, NEW v, Goto(p, l, v), l \notin Telling
    PROVE  ToldInv'
<1>1. \A q \in Procs : pc'[q] \in Telling => q # p /\ pc'[q] = pc[q]
  BY GotoAll
<1>2. \A q \in Procs : q # p => loc'[q] = loc[q]
  BY GotoAll
<1> QED BY <1>1, <1>2, ToldKeeps

\* Members, the deadline, a crash, and what the scheduler mails of an event.
LEMMA QuietTold ==
    ASSUME TypeOK, ToldInv,
           \/ \E m \in Members : Submit(m) \/ Withdraw(m)
           \/ ApplySchedule \/ Crash \/ UNCHANGED vars
           \/ TakeEvent \/ ReadRoster \/ Reserve \/ Send \/ SaveOutcome
           \/ FinishBatch \/ EventTimeout \/ MarkEventFired
    PROVE  ToldInv'
<1>1. status' = status /\ published' = published
  BY DEF Submit, Withdraw, ApplySchedule, Crash, TakeEvent, ReadRoster, Reserve, Send, SaveOutcome,
         FinishBatch, EventTimeout, MarkEventFired, vars, rows, history
<1>2. CASE (\E m \in Members : Submit(m) \/ Withdraw(m)) \/ ApplySchedule \/ UNCHANGED vars
  <2>1. pc' = pc /\ loc' = loc
    BY <1>2 DEF Submit, Withdraw, ApplySchedule, vars
  <2> QED BY <1>1, <2>1, ToldKeeps
<1>3. CASE Crash
  <2>1. \A q \in Procs : pc'[q] \notin Telling
    BY <1>3 DEF Crash, Telling
  <2> QED BY <1>1, <2>1, ToldKeeps
<1>4. CASE \/ TakeEvent \/ ReadRoster \/ Reserve \/ Send \/ SaveOutcome
           \/ FinishBatch \/ EventTimeout \/ MarkEventFired
  <2>1. \E l, v : Goto(Sched, l, v) /\ l \notin Telling
    <3>1. CASE TakeEvent
      BY <3>1 DEF TakeEvent, SkipStale, Handler, Telling
    <3>2. CASE ReadRoster
      BY <3>2 DEF ReadRoster, Telling
    <3>3. CASE Reserve
      <4>1. \E v : Goto(Sched, "next", v) \/ Goto(Sched, "send", v)
        BY <3>3, Zenon DEF Reserve
      <4> QED BY <4>1 DEF Telling
    <3>4. CASE Send \/ SaveOutcome
      BY <3>4 DEF Send, SaveOutcome, Telling
    <3>5. CASE FinishBatch \/ EventTimeout \/ MarkEventFired
      BY <3>5 DEF FinishBatch, EventTimeout, OnTimeout, MarkEventFired, Telling
    <3> QED BY <1>4, <3>1, <3>2, <3>3, <3>4, <3>5
  <2> QED BY <1>1, <2>1, MailFacts, ToldElsewhere
<1> QED BY <1>2, <1>3, <1>4

\* A process begins to publish when no other does, and the round is not published.
LEMMA BeginTold ==
    ASSUME TypeOK, ToldInv, ~Race, NEW p \in Procs, status # "published", Unraced(p),
           NEW v, Goto(p, "publish", v), status' = status, published' = published
    PROVE  ToldInv'
<1>1. status = "collecting"
  BY DEF TypeOK
<1>2. \A q \in Procs : q # p => pc[q] \notin Telling
  BY <1>1 DEF ToldInv, Unraced, Telling
<1>3. \A q \in Procs : pc'[q] = IF q = p THEN "publish" ELSE pc[q]
  BY GotoAll
<1>4. \A q \in Procs : pc'[q] \in Telling => q = p /\ pc'[q] = "publish"
  BY <1>2, <1>3
<1> QED BY <1>1, <1>4 DEF ToldInv, PublishedToldOnce, Telling

\* The check of the scheduler, and the beginning of a request.
LEMMA CheckTold ==
    ASSUME TypeOK, ToldInv, ~Race, CheckClose \/ \E w \in Webs : BeginPublish(w)
    PROVE  ToldInv'
<1>1. CASE CheckClose
  <2>1. Unraced(Sched) /\ status' = status /\ published' = published
    BY <1>1 DEF CheckClose, rows, history
  <2>2. \/ \E l \in {"mark", "idle"} : Goto(Sched, l, loc[Sched])
        \/ status # "published" /\ Goto(Sched, "publish", loc[Sched])
    BY <1>1 DEF CheckClose, CloseOrSkip
  <2>3. "mark" \notin Telling /\ "idle" \notin Telling
    BY DEF Telling
  <2> QED BY <2>1, <2>2, <2>3, MailFacts, ToldElsewhere, BeginTold
<1>2. CASE \E w \in Webs : BeginPublish(w)
  BY <1>2, MailFacts, BeginTold DEF BeginPublish, rows, history
<1> QED BY <1>1, <1>2

\* The steps of one publish: nobody else is at one.
LEMMA PublishTold ==
    ASSUME TypeOK, ToldInv, NEW p \in Procs, PublishStep(p)
    PROVE  ToldInv'
<1>0. AfterBatch(p) \in {"mark", "idle"} /\ "mark" \notin Telling /\ "idle" \notin Telling
  BY DEF AfterBatch, Telling
<1>1. CASE PublishIssue(p)
  <2>1. pc[p] = "publish" /\ status = "collecting" /\ published' = published
    BY <1>1 DEF PublishIssue, history, ToldInv
  <2>2. CASE status' = status /\ Goto(p, "idle", loc[p])
    BY <1>0, <2>1, <2>2, ToldElsewhere
  <2>3. CASE status' = "published" /\ Goto(p, "announce", loc[p])
    <3>1. \A q \in Procs : pc'[q] \in Telling => q = p /\ pc'[q] = "announce"
      BY <2>1, <2>3, GotoAll DEF ToldInv, Telling
    <3> QED BY <2>1, <2>3, <3>1 DEF ToldInv, PublishedToldOnce, Telling
  <2> QED BY <1>1, <2>2, <2>3 DEF PublishIssue
<1>2. CASE Announce(p)
  <2>1. pc[p] = "announce" /\ status = "published" /\ status' = status /\ published' = published
    BY <1>2 DEF Announce, rows, history, ToldInv
  <2>2. CASE Goto(p, AfterBatch(p), loc[p])
    BY <1>0, <2>1, <2>2, ToldElsewhere
  <2>3. CASE Goto(p, "batch", [loc[p] EXCEPT !.todo = Members \ muted])
    <3>1. \A q \in Procs : pc'[q] \in Telling => q = p /\ pc'[q] = "batch"
      BY <2>1, <2>3, GotoAll DEF ToldInv, Telling
    <3>2. loc[p] \in Local
      BY DEF TypeOK
    <3>3. loc'[p].todo = Members \ muted
      BY <2>3, <3>2, GotoAll DEF Local
    <3> QED BY <2>1, <3>1, <3>3 DEF ToldInv, PublishedToldOnce, Telling
  <2> QED BY <1>2, <2>2, <2>3 DEF Announce, BatchRuns
<1>3. CASE SendPublished(p)
  <2>1. pc[p] = "batch" /\ status = "published" /\ status' = status
    BY <1>3 DEF SendPublished, rows, ToldInv
  <2>2. PICK m \in loc[p].todo :
           /\ Goto(p, "batch", [loc[p] EXCEPT !.todo = @ \ {m}])
           /\ published' = published \/ published' = [published EXCEPT ![m] = @ + 1]
    BY <1>3, Zenon DEF SendPublished
  <2>3. loc[p] \in Local
    BY DEF TypeOK
  <2>4. m \in Members /\ published[m] = 0
    BY <2>1, <2>2, <2>3 DEF Local, ToldInv
  <2>5. \A q \in Procs : pc'[q] \in Telling => q = p /\ pc'[q] = "batch"
    BY <2>1, <2>2, GotoAll DEF ToldInv, Telling
  <2>6. loc'[p].todo = loc[p].todo \ {m}
    BY <2>2, <2>3, GotoAll DEF Local
  <2>7. \A n \in Members : n # m => published'[n] = published[n]
    BY <2>2 DEF TypeOK
  <2>8. published'[m] <= 1
    BY <2>2, <2>4 DEF TypeOK
  <2>9. loc[p].todo \subseteq Members
    BY <2>3 DEF Local
  <2>10. PublishedToldOnce'
    BY <2>4, <2>7, <2>8 DEF ToldInv, PublishedToldOnce
  <2> QED BY <2>1, <2>5, <2>6, <2>7, <2>9, <2>10 DEF ToldInv, Telling
<1>4. CASE EndPublished(p)
  <2>1. status' = status /\ published' = published /\ Goto(p, AfterBatch(p), loc[p])
    BY <1>4 DEF EndPublished, rows, history
  <2> QED BY <1>0, <2>1, ToldElsewhere
<1> QED BY <1>1, <1>2, <1>3, <1>4 DEF PublishStep

\* Where no publish begins between another's check and its write, nobody is told
\* twice that a round is published, whatever crashes and is tried again.
THEOREM PublishTellsOnce == ~Race => (Spec => []PublishedToldOnce)
<1> SUFFICES ASSUME ~Race PROVE Spec => []PublishedToldOnce
  OBVIOUS
<1>1. Init => ToldInv
  BY MailFacts, InitMail DEF Init, ToldInv, Telling, PublishedToldOnce
<1>2. MailInv /\ ToldInv /\ [Next]_vars => ToldInv'
  <2> SUFFICES ASSUME MailInv, ToldInv, [Next]_vars PROVE ToldInv'
    OBVIOUS
  <2>1. TypeOK /\ Sched \in Procs /\ Webs \subseteq Procs
    BY MailFacts DEF MailInv
  <2>2. CASE SchedStep
    BY <2>1, <2>2, QuietTold, CheckTold, PublishTold DEF SchedStep
  <2>3. CASE \E w \in Webs : BeginPublish(w) \/ PublishStep(w)
    BY <2>1, <2>3, CheckTold, PublishTold
  <2>4. CASE (\E m \in Members : Submit(m) \/ Withdraw(m)) \/ ApplySchedule \/ Crash \/ UNCHANGED vars
    BY <2>1, <2>4, QuietTold
  <2> QED BY <2>2, <2>3, <2>4 DEF Next
<1>3. ToldInv => PublishedToldOnce
  BY DEF ToldInv
<1> QED BY <1>1, <1>2, <1>3, MailInvariant, PTL DEF Spec
=============================================================================
