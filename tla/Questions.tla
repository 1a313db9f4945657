----------------------------- MODULE Questions ------------------------------
(***************************************************************************)
(* The questions of one upcoming round.  Members suggest, an admin turns   *)
(* the draft into a curated set in one transaction and edits it, and the   *)
(* round is opened by the scheduler or by "start now", which stitches the  *)
(* Loop's default questions in and pads with the bank when nobody has      *)
(* curated.  The opening is not one transaction: what it listed may have   *)
(* changed when it inserts, each insertion may fail alone, and the whole   *)
(* opening may fail and be tried again.                                    *)
(***************************************************************************)
EXTENDS Naturals, FiniteSets, SequencesExt

CONSTANTS Defaults,     \* texts of the Loop's default questions
          Bank,         \* texts of the question bank
          UsedBefore,   \* questions of the bank that earlier rounds have used
          Target,       \* questions per issue
          SortOrders,   \* the sort_order of a request to add a question; 0: it has none
          Openers,      \* openings in flight: the scheduler's and the admin's
          MaxQuestions, \* bound: questions ever created
          MaxEdits,     \* bound: additions, edits, deletions, reorders, switches
          MaxFaults     \* bound: failed insertions, reads and openings

ASSUME QuestionsAssumption ==
    /\ IsFiniteSet(Defaults) /\ IsFiniteSet(Bank) /\ UsedBefore \subseteq Bank
    /\ Target \in Nat \ {0} /\ SortOrders \subseteq Nat
    /\ MaxQuestions \in Nat /\ MaxEdits \in Nat /\ MaxFaults \in Nat

VARIABLES asked,      \* questions: id, source, text, sort_order
          nextId,     \* AUTOINCREMENT
          curated,    \* issues.questions_curated_at is set
          status,     \* issues.status
          due,        \* opens_at has come
          enabled,    \* default_questions with enabled = 1
          used,       \* question_bank with used = 1
          suggestion, \* a member's request that has passed its first check
          opener,     \* the openings in flight
          disturbed,  \* history: an opening acted on a list that had changed or was not read
          edits, faults

questionVars == <<asked, nextId, curated, status, due, enabled, used, suggestion, opener,
                  disturbed, edits, faults>>

Sources == {"default", "bank", "friend", "admin"}
Question == [id : 1..MaxQuestions, src : Sources,
             text : Defaults \cup Bank \cup {"own words"}, order : 0..MaxQuestions]
Opening == [at : {"idle", "read", "defaults", "select", "bank", "transition"},
            listed : 0..MaxQuestions, stitched : BOOLEAN, picks : SUBSET Bank]

QuestionsTypeOK ==
    /\ asked \subseteq Question
    /\ nextId \in 1..(MaxQuestions + 1)
    /\ curated \in BOOLEAN /\ due \in BOOLEAN /\ disturbed \in BOOLEAN
    /\ status \in {"draft", "collecting"}
    /\ enabled \subseteq Defaults
    /\ used \subseteq Bank
    /\ suggestion \in BOOLEAN
    /\ opener \in [Openers -> Opening]
    /\ edits \in 0..MaxEdits /\ faults \in 0..MaxFaults

NotOpening == [at |-> "idle", listed |-> 0, stitched |-> FALSE, picks |-> {}]

QuestionsInit ==
    /\ asked = {}
    /\ nextId = 1
    /\ curated = FALSE
    /\ status = "draft"
    /\ due = FALSE
    /\ enabled = Defaults
    /\ used = UsedBefore
    /\ suggestion = FALSE
    /\ opener = [o \in Openers |-> NotOpening]
    /\ disturbed = FALSE
    /\ edits = 0
    /\ faults = 0

-----------------------------------------------------------------------------
\* Questions with these texts, one after the other from this sort_order on.
Numbered(texts, src, start) ==
    LET s == SetToSeq(texts) IN
    {[id |-> nextId + i - 1, src |-> src, text |-> s[i], order |-> start + i - 1] :
        i \in 1..Len(s)}

CreateQuestions(texts, src, start) ==
    /\ nextId + Cardinality(texts) <= MaxQuestions + 1 /\ start + Cardinality(texts) <= MaxQuestions + 1
    /\ asked' = asked \cup Numbered(texts, src, start)
    /\ nextId' = nextId + Cardinality(texts)

HasDefaults == \E q \in asked : q.src = "default"
AfterLast == IF asked = {} THEN 0 ELSE 1 + CHOOSE n \in {q.order : q \in asked} :
                                            \A q \in asked : q.order <= n

\* BUG: the bank offers unused questions only.
UnusedOnly(need) ==
    LET unused == Bank \ used IN
    IF need <= Cardinality(unused) THEN kSubset(need, unused) ELSE {unused}

\* Unused bank questions first, used ones when those run out.
SelectRandomUnusedQuestions(need) ==
    LET unused == Bank \ used IN
    IF need <= Cardinality(unused) THEN kSubset(need, unused)
    ELSE {unused \cup S : S \in kSubset(IF need <= Cardinality(Bank)
                                         THEN need - Cardinality(unused)
                                         ELSE Cardinality(used), used)}

Missing(count) == IF count < Target THEN Target - count ELSE 0

\* Whatever changes the questions or the curation while an opening has its list.
InWindow == \E o \in Openers : opener[o].at # "idle"
Touch == disturbed' = (disturbed \/ InWindow)
Fault == faults < MaxFaults /\ faults' = faults + 1
Edit == edits < MaxEdits /\ edits' = edits + 1

-----------------------------------------------------------------------------
\* prepareDraftQuestions: one transaction; repeating it changes nothing.
PrepareDraftQuestions ==
    LET stitched == IF HasDefaults THEN {} ELSE enabled
        count == Cardinality(asked) + Cardinality(stitched)
    IN  /\ ~curated /\ status = "draft" /\ ~due
        /\ \E picks \in SelectRandomUnusedQuestions(Missing(count)) :
             /\ nextId + Cardinality(stitched) + Cardinality(picks) <= MaxQuestions + 1
             /\ count + Cardinality(picks) <= MaxQuestions + 1
             /\ asked' = asked \cup Numbered(stitched, "default", Cardinality(asked))
                             \cup {[q EXCEPT !.id = @ + Cardinality(stitched)] :
                                     q \in Numbered(picks, "bank", count)}
             /\ nextId' = nextId + Cardinality(stitched) + Cardinality(picks)
             /\ used' = used \cup picks
        /\ curated' = TRUE
        /\ Touch
        /\ UNCHANGED <<status, due, enabled, suggestion, opener, edits, faults>>

\* handleFriendSubmitQuestion checks, and the insertion checks again.
AcceptsSuggestions == status = "draft" /\ ~due /\ ~curated

FriendSubmits ==
    /\ ~suggestion /\ status = "draft" /\ ~due /\ ~curated
    /\ suggestion' = TRUE
    /\ UNCHANGED <<asked, nextId, curated, status, due, enabled, used, opener, disturbed,
                   edits, faults>>

CreateSuggestedQuestion ==
    /\ suggestion
    /\ suggestion' = FALSE
    /\ IF AcceptsSuggestions
         THEN CreateQuestions({"own words"}, "friend", AfterLast) /\ Touch
         ELSE UNCHANGED <<asked, nextId, disturbed>>
    /\ UNCHANGED <<curated, status, due, enabled, used, opener, edits, faults>>

-----------------------------------------------------------------------------
\* The admin's editor: a question is added under any source but the defaults',
\* whatever became of the round; without a sort_order of its own (0) it is
\* numbered by how many there are, or 0 when they cannot be counted.  A deletion
\* leaves its gap, a reorder must list the questions exactly.
AddQuestion(src, sortOrder) ==
    /\ Edit /\ src # "default"
    /\ \/ /\ CreateQuestions({"own words"}, src, IF sortOrder > 0 THEN sortOrder
                                                 ELSE Cardinality(asked))
          /\ UNCHANGED faults
       \/ sortOrder = 0 /\ Fault /\ CreateQuestions({"own words"}, src, 0)
    /\ Touch
    /\ UNCHANGED <<curated, status, due, enabled, used, suggestion, opener>>

EditQuestion(q) ==
    /\ Edit /\ q.text # "own words"
    /\ asked' = (asked \ {q}) \cup {[q EXCEPT !.text = "own words"]}
    /\ UNCHANGED <<nextId, curated, status, due, enabled, used, suggestion, opener, disturbed,
                   faults>>

\* Refused by the foreign key once the question has been answered.
DeleteQuestion(q) ==
    /\ Edit
    /\ asked' = asked \ {q}
    /\ Touch
    /\ UNCHANGED <<nextId, curated, status, due, enabled, used, suggestion, opener, faults>>

ReorderQuestions(ids) ==
    /\ Edit
    /\ Len(ids) = Cardinality(asked) /\ ToSet(ids) = {q.id : q \in asked} /\ ids # <<>>
    /\ asked' = {[q EXCEPT !.order = (CHOOSE i \in DOMAIN ids : ids[i] = q.id) - 1] : q \in asked}
    /\ UNCHANGED <<nextId, curated, status, due, enabled, used, suggestion, opener, disturbed,
                   faults>>

\* The Loop's defaults are switched one by one or all at once, added or
\* deleted; copies that rounds already carry stay.
UpdateDefaultQuestion(d) ==
    /\ Edit
    /\ enabled' = IF d \in enabled THEN enabled \ {d} ELSE enabled \cup {d}
    /\ UNCHANGED <<asked, nextId, curated, status, due, used, suggestion, opener, disturbed,
                   faults>>

SetAllDefaultQuestionsEnabled(on) ==
    /\ Edit
    /\ enabled' = IF on THEN Defaults ELSE {}
    /\ UNCHANGED <<asked, nextId, curated, status, due, used, suggestion, opener, disturbed,
                   faults>>

-----------------------------------------------------------------------------
OpenerAt(o, step) == opener[o].at = step
OpenerGoes(o, step) == opener' = [opener EXCEPT ![o].at = step]

\* openIssueForCollecting: a curated draft goes straight to the transition.
ReadFreshIssue(o) ==
    /\ OpenerAt(o, "idle") /\ status = "draft"
    /\ OpenerGoes(o, IF curated THEN "transition" ELSE "read")
    /\ disturbed' = (disturbed \/ InWindow)
    /\ UNCHANGED <<asked, nextId, curated, status, due, enabled, used, suggestion, edits, faults>>

\* BUG: every opening stitches the defaults in, an earlier attempt's or not.
StitchAlways == FALSE

\* A list that cannot be read is taken for an empty one.
Stitched == HasDefaults

ListQuestions(o) ==
    /\ OpenerAt(o, "read")
    /\ \/ /\ opener' = [opener EXCEPT ![o] = [at |-> "defaults", listed |-> Cardinality(asked),
                                              stitched |-> Stitched, picks |-> {}]]
          /\ UNCHANGED <<disturbed, faults>>
       \/ /\ Fault
          /\ opener' = [opener EXCEPT ![o].at = "defaults"]
          /\ disturbed' = TRUE
    /\ UNCHANGED <<asked, nextId, curated, status, due, enabled, used, suggestion, edits>>

\* insertDefaultQuestions logs a default that fails and goes on.
InsertDefaultQuestions(o) ==
    LET todo == IF opener[o].stitched THEN {} ELSE enabled IN
    /\ OpenerAt(o, "defaults")
    /\ \E done \in SUBSET todo :
         /\ IF done = todo THEN UNCHANGED faults ELSE Fault
         /\ CreateQuestions(done, "default", opener[o].listed)
         /\ opener' = [opener EXCEPT ![o].at = "select", ![o].listed = @ + Cardinality(done)]
    /\ UNCHANGED <<curated, status, due, enabled, used, suggestion, disturbed, edits>>

\* A bank that cannot be read has nothing to offer.
SelectBank(o) ==
    /\ OpenerAt(o, "select")
    /\ \/ /\ \E picks \in SelectRandomUnusedQuestions(Missing(opener[o].listed)) :
               opener' = [opener EXCEPT ![o].at = "bank", ![o].picks = picks]
          /\ UNCHANGED <<disturbed, faults>>
       \/ /\ Fault
          /\ opener' = [opener EXCEPT ![o].at = "bank", ![o].picks = {}]
          /\ disturbed' = TRUE
    /\ UNCHANGED <<asked, nextId, curated, status, due, enabled, used, suggestion, edits>>

\* A pick that cannot be inserted is left out; marking one as used may fail too.
CreateBankQuestions(o) ==
    /\ OpenerAt(o, "bank")
    /\ \E done \in SUBSET opener[o].picks, marked \in SUBSET opener[o].picks :
         /\ marked \subseteq done
         /\ IF marked = opener[o].picks THEN UNCHANGED faults ELSE Fault
         /\ CreateQuestions(done, "bank", opener[o].listed)
         /\ used' = used \cup marked
         /\ opener' = [opener EXCEPT ![o].at = "transition", ![o].picks = @ \ done]
    /\ UNCHANGED <<curated, status, due, enabled, suggestion, disturbed, edits>>

Transition(o) ==
    /\ OpenerAt(o, "transition")
    /\ status' = "collecting"
    /\ opener' = [opener EXCEPT ![o] = NotOpening]
    /\ UNCHANGED <<asked, nextId, curated, due, enabled, used, suggestion, disturbed, edits, faults>>

\* The opening fails or the process stops; the draft is opened again later.
OpeningFails(o) ==
    /\ ~OpenerAt(o, "idle") /\ Fault
    /\ opener' = [opener EXCEPT ![o] = NotOpening]
    /\ UNCHANGED <<asked, nextId, curated, status, due, enabled, used, suggestion, disturbed, edits>>

OpensAt ==
    /\ ~due /\ due' = TRUE
    /\ UNCHANGED <<asked, nextId, curated, status, enabled, used, suggestion, opener, disturbed,
                   edits, faults>>

QuestionsNext ==
    \/ PrepareDraftQuestions \/ FriendSubmits \/ CreateSuggestedQuestion
    \/ \E src \in Sources, sortOrder \in SortOrders : AddQuestion(src, sortOrder)
    \/ OpensAt
    \/ \E q \in asked : EditQuestion(q) \/ DeleteQuestion(q)
    \/ \E ids \in SetToSeqs({q.id : q \in asked}) : ReorderQuestions(ids)
    \/ \E d \in Defaults : UpdateDefaultQuestion(d)
    \/ \E on \in BOOLEAN : SetAllDefaultQuestionsEnabled(on)
    \/ \E o \in Openers :
         \/ ReadFreshIssue(o) \/ ListQuestions(o) \/ InsertDefaultQuestions(o)
         \/ SelectBank(o) \/ CreateBankQuestions(o) \/ Transition(o) \/ OpeningFails(o)

QuestionsSpec == QuestionsInit /\ [][QuestionsNext]_questionVars

-----------------------------------------------------------------------------
\* An opening that is tried again, after failing anywhere, and a preparation
\* after a failed opening ask every default once: a default is repeated only
\* when an opening acted on a list of the questions that was no longer true.
RetriesDoNotRepeat ==
    ~disturbed => \A a, b \in asked : a.src = "default" /\ b.src = "default" /\ a # b
                                      => a.text # b.text \/ a.text = "own words"

\* A round that nobody curated goes live with the questions the Loop asks for, or
\* with as many as its bank holds, whatever earlier openings that failed half-way
\* left behind or had no time to mark as used: unless one of this opening's own
\* insertions failed, or it acted on a list that changed or could not be read.
RoundAsksEnough ==
    ~disturbed /\ ~curated =>
        \A o \in Openers : OpenerAt(o, "transition") /\ opener[o].picks = {} =>
            \/ Cardinality(asked) >= Target
            \/ Cardinality(asked) >= Cardinality(Bank)

\* "No explicit sort_order appends after the existing questions": a question
\* added without one is asked after the ones that are there.
AddedGoLast ==
    [][\A src \in Sources : AddQuestion(src, 0) =>
         \A q \in asked' \ asked, k \in asked : k.order <= q.order]_questionVars
=============================================================================
