----------------------------- MODULE MCJourneys -----------------------------
(***************************************************************************)
(* Visits, the launch of a Loop, comments with their digest, and the JMAP  *)
(* transport: what has to come to an end, and what carries the mails.      *)
(* They share no state these modules keep, so TLC explores the union of    *)
(* the four, one part per behaviour, and not their product.                *)
(***************************************************************************)
EXTENDS Visits, Wizard, Discussion, Jmap

VARIABLE part

journeyVars == <<visitVars, wizardVars, discussionVars, jmapVars, part>>

JourneysInit ==
    /\ part \in {"visits", "wizard", "discussion", "jmap"}
    /\ VisitsInit
    /\ part # "visits" => visit.who \in Operators /\ setup[1]
    /\ visit.who \in Operators => \A p \in Folk : account[p] # "off"
    /\ WizardInit
    /\ DiscussionInit
    /\ JmapInit
    /\ part # "discussion" => silenced = {}

VisitsPart(A) == part = "visits" /\ A /\ UNCHANGED <<wizardVars, discussionVars, jmapVars, part>>
WizardPart(A) == part = "wizard" /\ A /\ UNCHANGED <<visitVars, discussionVars, jmapVars, part>>
DiscussionPart(A) == part = "discussion" /\ A /\ UNCHANGED <<visitVars, wizardVars, jmapVars, part>>
JmapPart(A) == part = "jmap" /\ A /\ UNCHANGED <<visitVars, wizardVars, discussionVars, part>>

JourneysNext ==
    \/ VisitsPart(VisitsNext) \/ WizardPart(WizardNext) \/ DiscussionPart(DiscussionNext)
    \/ JmapPart(JmapNext)

\* The fairness of VisitsFairSpec, WizardFairSpec and DiscussionFairSpec: a
\* behaviour has one part only, so only one of the three can be enabled in it.
\* A send may stop anywhere, so the transport has none.
JourneysSpec ==
    /\ JourneysInit /\ [][JourneysNext]_journeyVars
    /\ WF_journeyVars(\/ VisitsPart(VisitStep)
                      \/ WizardPart(WizardStep \/ \E f \in Payload : SubmitWizard(f))
                      \/ DiscussionPart(DigestStep))

\* Accounts, memberships, cached Loops, wizard rows, comments, notifications and
\* the requests on their way keep the values their tables and handlers allow.
JourneysTypeOK ==
    CASE part = "visits" -> VisitsTypeOK
      [] part = "wizard" -> WizardTypeOK
      [] part = "discussion" -> DiscussionTypeOK
      [] part = "jmap" -> JmapTypeOK
=============================================================================
