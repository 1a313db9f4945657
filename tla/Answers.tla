------------------------------- MODULE Answers ------------------------------
(***************************************************************************)
(* One member's answer to one question of an open round, written from      *)
(* several browser tabs.  A tab autosaves its text with the version it     *)
(* last heard of; a refused autosave adopts the server's version and tries *)
(* again.  Requests and answers overtake each other and get lost, every    *)
(* handler checks the round before it writes, and the round is published   *)
(* at any moment.  Uploads write their file before their row.              *)
(***************************************************************************)
EXTENDS Naturals, FiniteSets

CONSTANTS Tabs, Posts,      \* browser tabs; requests in flight together
          MaxFiles,         \* bound: uploads
          MaxMedia,         \* media blocks of one kind per answer; the code allows 100
          MaxTyped,         \* bound: versions of its text that a tab types
          MaxVersion,       \* bound: no text is sent once the answer has this version
          MaxAnswers        \* bound: responses rows ever created, the last only autosaved

ASSUME AnswersAssumption ==
    /\ Tabs # {} /\ MaxFiles \in Nat \ {0}
    /\ MaxTyped \in Nat /\ MaxAnswers \in Nat

VARIABLES answer,     \* responses: id, version, draft, and its text blocks
          nextAnswer, \* AUTOINCREMENT
          media,      \* response_blocks with a file
          disk,       \* files under the upload path
          open,       \* issues.status = collecting
          tab,        \* what a tab has typed and what it knows of the answer
          post,       \* requests in flight
          newest,     \* history: the newest text of each tab that was ever stored
          mixed       \* history: tabs that took another answer's version for their own's

answerVars == <<answer, nextAnswer, media, disk, open, tab, post, newest, mixed>>

NoAnswer == 0
Files == 1..MaxFiles
Text == [by : Tabs, n : 0..MaxTyped]
Ops == {"create", "autosave", "submit", "delete", "upload", "remove"}

FreePost == [at |-> "free", op |-> "create", by |-> CHOOSE t \in Tabs : TRUE, n |-> 0,
             id |-> NoAnswer, version |-> 0, file |-> 1]

AnswersTypeOK ==
    /\ answer \in [id : 0..MaxAnswers, version : Nat, draft : BOOLEAN, text : Text]
    /\ nextAnswer \in 1..(MaxAnswers + 1)
    /\ media \subseteq Files /\ disk \subseteq Files
    /\ open \in BOOLEAN
    /\ tab \in [Tabs -> [typed : 0..MaxTyped, id : 0..MaxAnswers, version : Nat]]
    /\ post \in [Posts -> [at : {"free", "sent", "apply", "file", "row", "unlink", "reply"},
                           op : Ops, by : Tabs, n : 0..MaxTyped, id : 0..MaxAnswers,
                           version : Nat, file : Files]]
    /\ newest \in [Tabs -> 0..MaxTyped]
    /\ mixed \subseteq Tabs

Blank(id) == [id |-> id, version |-> IF id = NoAnswer THEN 0 ELSE 1, draft |-> TRUE,
              text |-> [by |-> FreePost.by, n |-> 0]]

AnswersInit ==
    /\ answer = Blank(NoAnswer)
    /\ nextAnswer = 1
    /\ media = {} /\ disk = {}
    /\ open = TRUE
    /\ tab = [t \in Tabs |-> [typed |-> 0, id |-> NoAnswer, version |-> 0]]
    /\ post = [p \in Posts |-> FreePost]
    /\ newest = [t \in Tabs |-> 0]
    /\ mixed = {}

PostAt(p, step) == post[p].at = step
PostGoes(p, step) == post' = [post EXCEPT ![p].at = step]
PostEnds(p) == post' = [post EXCEPT ![p] = FreePost]

-----------------------------------------------------------------------------
Type(t) ==
    /\ tab[t].typed < MaxTyped
    /\ tab' = [tab EXCEPT ![t].typed = @ + 1]
    /\ UNCHANGED <<answer, nextAnswer, media, disk, open, post, newest, mixed>>

\* The debounced save, its retry after a conflict, and the save before a submit
\* all send the text of this moment with the version last heard of.
SendText(p, t) ==
    /\ PostAt(p, "free") /\ tab[t].typed > 0 /\ answer.version < MaxVersion
    /\ post' = [post EXCEPT ![p] =
                 [FreePost EXCEPT !.at = "sent", !.by = t, !.n = tab[t].typed, !.id = tab[t].id,
                    !.version = tab[t].version,
                    !.op = IF tab[t].id = NoAnswer THEN "create" ELSE "autosave"]]
    /\ UNCHANGED <<answer, nextAnswer, media, disk, open, tab, newest, mixed>>

\* Uploads get names of their own.
Named(f) == f \in disk \cup media \/ \E q \in Posts : ~PostAt(q, "free") /\ post[q].file = f
                                                      /\ post[q].op = "upload"
NextFile(f) == ~Named(f) /\ \A k \in 1..f-1 : Named(k)

SendOther(p, t, op, f) ==
    /\ PostAt(p, "free") /\ tab[t].id # NoAnswer
    /\ nextAnswer <= MaxAnswers
    /\ op = "upload" => NextFile(f)
    /\ op = "remove" => f \in media
    /\ op \in {"submit", "delete"} => f = FreePost.file
    /\ post' = [post EXCEPT ![p] = [FreePost EXCEPT !.at = "sent", !.op = op, !.by = t,
                                                    !.id = tab[t].id, !.file = f]]
    /\ UNCHANGED <<answer, nextAnswer, media, disk, open, tab, newest, mixed>>

\* loadOwnedResponse and loadOwnedBlock with requireEditable, and the checks of
\* handleCreateResponse.
OwnedAndEditable(p) == open /\ (post[p].op # "create" => post[p].id = answer.id)

\* Counted before the file is received.
RoomForMedia == Cardinality(media) < MaxMedia

CheckPost(p) ==
    LET q == post[p] IN
    /\ PostAt(p, "sent")
    /\ IF ~OwnedAndEditable(p) \/ (q.op = "upload" /\ ~RoomForMedia) THEN PostEnds(p)
       ELSE IF q.op = "create" /\ answer.id # NoAnswer
         THEN post' = [post EXCEPT ![p].at = "reply", ![p].id = answer.id,
                                   ![p].version = answer.version]
         ELSE PostGoes(p, IF q.op = "upload" THEN "file" ELSE "apply")
    /\ UNCHANGED <<answer, nextAnswer, media, disk, open, tab, newest, mixed>>

-----------------------------------------------------------------------------
\* responses is unique per member and question: the slower creation fails.
CreateResponse(p) ==
    /\ PostAt(p, "apply") /\ post[p].op = "create"
    /\ IF answer.id = NoAnswer /\ nextAnswer <= MaxAnswers
         THEN /\ answer' = Blank(nextAnswer)
              /\ nextAnswer' = nextAnswer + 1
              /\ post' = [post EXCEPT ![p].at = "reply", ![p].id = nextAnswer, ![p].version = 1]
         ELSE PostEnds(p) /\ UNCHANGED <<answer, nextAnswer>>
    /\ UNCHANGED <<media, disk, open, tab, newest, mixed>>

\* BUG: the version is not compared.
AnyVersion(p) == answer.id = post[p].id

VersionMatches(p) == answer.id = post[p].id /\ answer.version = post[p].version

\* One transaction: compare, replace the text blocks, count the version up.
\* Blocks with files or links stay; a conflict reports the current version.
AutosaveResponse(p) ==
    LET q == post[p] IN
    /\ PostAt(p, "apply") /\ q.op = "autosave"
    /\ IF answer.id # q.id THEN PostEnds(p) /\ UNCHANGED <<answer, newest>>
       ELSE IF VersionMatches(p)
         THEN /\ answer' = [answer EXCEPT !.text = [by |-> q.by, n |-> q.n], !.version = @ + 1]
              /\ newest' = [newest EXCEPT ![q.by] = IF q.n > @ THEN q.n ELSE @]
              /\ post' = [post EXCEPT ![p].at = "reply", ![p].version = answer.version + 1]
         ELSE /\ post' = [post EXCEPT ![p].at = "reply", ![p].version = answer.version]
              /\ UNCHANGED <<answer, newest>>
    /\ UNCHANGED <<nextAnswer, media, disk, open, tab, mixed>>

SubmitResponse(p) ==
    /\ PostAt(p, "apply") /\ post[p].op = "submit"
    /\ answer' = [answer EXCEPT !.draft = @ /\ answer.id # post[p].id]
    /\ PostEnds(p)
    /\ UNCHANGED <<nextAnswer, media, disk, open, tab, newest, mixed>>

\* The rows of its blocks go with the answer, their files stay behind.
DeleteResponse(p) ==
    /\ PostAt(p, "apply") /\ post[p].op = "delete"
    /\ IF answer.id = post[p].id THEN answer' = Blank(NoAnswer) /\ media' = {}
                                 ELSE UNCHANGED <<answer, media>>
    /\ PostEnds(p)
    /\ UNCHANGED <<nextAnswer, disk, open, tab, newest, mixed>>

DeleteBlock(p) ==
    /\ PostAt(p, "apply") /\ post[p].op = "remove"
    /\ media' = media \ {post[p].file}
    /\ PostGoes(p, "unlink")
    /\ UNCHANGED <<answer, nextAnswer, disk, open, tab, newest, mixed>>

UnlinkUpload(p) ==
    /\ PostAt(p, "unlink")
    /\ disk' = disk \ {post[p].file}
    /\ PostEnds(p)
    /\ UNCHANGED <<answer, nextAnswer, media, open, tab, newest, mixed>>

ReceiveMediaUpload(p) ==
    /\ PostAt(p, "file")
    /\ disk' = disk \cup {post[p].file}
    /\ PostGoes(p, "row")
    /\ UNCHANGED <<answer, nextAnswer, media, open, tab, newest, mixed>>

\* The foreign key refuses a block of an answer deleted meanwhile.
CreateBlock(p) ==
    /\ PostAt(p, "row")
    /\ media' = IF answer.id = post[p].id THEN media \cup {post[p].file} ELSE media
    /\ PostEnds(p)
    /\ UNCHANGED <<answer, nextAnswer, disk, open, tab, newest, mixed>>

-----------------------------------------------------------------------------
\* The answer to a creation tells the tab an id and a version.  The answer to an
\* autosave, conflicts included, sets the version alone, whatever answer the tab
\* holds by now.
Deliver(p) ==
    LET q == post[p]
        created == q.op = "create"
    IN  /\ PostAt(p, "reply")
        /\ tab' = [tab EXCEPT ![q.by].id = IF created THEN q.id ELSE @, ![q.by].version = q.version]
        /\ mixed' = IF created \/ q.id = tab[q.by].id THEN mixed ELSE mixed \cup {q.by}
        /\ PostEnds(p)
        /\ UNCHANGED <<answer, nextAnswer, media, disk, open, newest>>

\* The request is lost, the handler fails or the answer is lost.
LosePost(p) ==
    /\ ~PostAt(p, "free") /\ PostEnds(p)
    /\ UNCHANGED <<answer, nextAnswer, media, disk, open, tab, newest, mixed>>

PublishRound ==
    /\ open /\ open' = FALSE
    /\ UNCHANGED <<answer, nextAnswer, media, disk, tab, post, newest, mixed>>

AnswersNext ==
    \/ \E t \in Tabs : Type(t)
    \/ PublishRound
    \/ \E p \in Posts :
         \/ \E t \in Tabs : \/ SendText(p, t)
                            \/ \E op \in Ops \ {"create", "autosave"}, f \in Files : SendOther(p, t, op, f)
         \/ CheckPost(p) \/ CreateResponse(p) \/ AutosaveResponse(p) \/ SubmitResponse(p)
         \/ DeleteResponse(p) \/ DeleteBlock(p) \/ UnlinkUpload(p) \/ ReceiveMediaUpload(p)
         \/ CreateBlock(p) \/ Deliver(p) \/ LosePost(p)

AnswersSpec == AnswersInit /\ [][AnswersNext]_answerVars

-----------------------------------------------------------------------------
\* An autosave that was overtaken, by a later one of its own tab or by an answer
\* that told the tab an old version, never replaces what that tab saved later,
\* neither in this answer nor in one that was deleted before it.  Not promised to
\* a tab that took over a version of an answer other than the one it holds: such
\* a version may come true later, for a text that was delayed until then.
AutosaveNeverGoesBack ==
    [][answer'.text # answer.text /\ answer'.id = answer.id /\ answer'.text.by \notin mixed
         => answer'.text.n >= newest[answer'.text.by]]_answerVars
=============================================================================
