----------------------------- MODULE Discussion -----------------------------
(***************************************************************************)
(* Comments on one piece (an answer, a diary day or block, a dump photo)   *)
(* and the daily digest.  Posting writes the comment and then queues one   *)
(* notification after the other; the digest lists the whole queue, mails   *)
(* one recipient after the other and deletes what it had listed for each.  *)
(* Comments are posted, deleted and muted while it runs, mails fail, and   *)
(* the process may stop anywhere, after which the event fires again.       *)
(***************************************************************************)
EXTENDS Naturals, FiniteSets

CONSTANTS Readers,      \* of the Loop
          Owner,        \* whose piece it is
          MaxComments,  \* bound: comments ever written
          MaxSlips      \* bound: failed mails, reads and deletions, stops

ASSUME DiscussionAssumption == Owner \in Readers /\ MaxSlips \in Nat

Comments == 1..MaxComments
NoComment == 0

VARIABLES remark,    \* comments: author and parent, once written; deleted or not
          queue,     \* comment_notifications
          silenced,  \* notification_preferences: no comment mails
          posting,   \* the comment whose notifications are being queued, for whom
          digest,    \* the digest in flight: listed rows, next recipient
          mailed,    \* history: mails that told a member of a comment
          hushed,    \* history: listed rows whose recipient was muted since they were listed
          slips

discussionVars == <<remark, queue, silenced, posting, digest, mailed, hushed, slips>>

Notification == [to : Readers, about : Comments]
NoDigest == [at |-> "idle", rows |-> {}, to |-> Owner]
NotPosting == [about |-> NoComment, listed |-> FALSE, to |-> {}]

DiscussionTypeOK ==
    /\ remark \in [Comments -> [state : {"unwritten", "posted", "deleted"}, by : Readers,
                                 parent : Comments \cup {NoComment}]]
    /\ queue \subseteq Notification
    /\ silenced \subseteq Readers
    /\ posting \in [about : Comments \cup {NoComment}, listed : BOOLEAN, to : SUBSET Readers]
    /\ digest \in [at : {"idle", "next", "muted", "send", "drain"}, rows : SUBSET Notification, to : Readers]
    /\ mailed \in [Notification -> Nat]
    /\ hushed \subseteq Notification
    /\ slips \in 0..MaxSlips

DiscussionInit ==
    /\ remark = [c \in Comments |-> [state |-> "unwritten", by |-> Owner, parent |-> NoComment]]
    /\ queue = {}
    /\ silenced \in SUBSET {Owner}
    /\ posting = NotPosting
    /\ digest = NoDigest
    /\ mailed = [n \in Notification |-> 0]
    /\ hushed = {}
    /\ slips = 0

Posted(c) == c # NoComment /\ remark[c].state = "posted"
Slip == slips < MaxSlips /\ slips' = slips + 1

-----------------------------------------------------------------------------
\* handleAddComment and its twins for diary days, diary blocks and dump photos.
CreateComment(c, u, parent) ==
    /\ posting = NotPosting
    /\ remark[c].state = "unwritten" /\ \A k \in 1..c-1 : remark[k].state # "unwritten"
    /\ parent = NoComment \/ Posted(parent)
    /\ remark' = [remark EXCEPT ![c] = [state |-> "posted", by |-> u, parent |-> parent]]
    /\ posting' = [NotPosting EXCEPT !.about = c]
    /\ UNCHANGED <<queue, silenced, digest, mailed, slips>>

\* One hop up from a reply to a reply; everyone who wrote in that thread.
Top(c) == IF remark[remark[c].parent].parent = NoComment THEN remark[c].parent
          ELSE remark[remark[c].parent].parent
ThreadParticipants(top) ==
    {remark[k].by : k \in {k \in Comments : Posted(k) /\ (k = top \/ remark[k].parent = top)}}

\* BUG: the commenter is told as well.
EveryoneInThread(c) ==
    {Owner} \cup IF remark[c].parent = NoComment THEN {} ELSE ThreadParticipants(Top(c))

ToldAbout(c) ==
    ({Owner} \cup IF remark[c].parent = NoComment THEN {} ELSE ThreadParticipants(Top(c)))
      \ {remark[c].by}

ListRecipients ==
    /\ posting # NotPosting /\ ~posting.listed
    /\ posting' = IF ToldAbout(posting.about) = {} THEN NotPosting
                  ELSE [posting EXCEPT !.listed = TRUE, !.to = ToldAbout(posting.about)]
    /\ UNCHANGED <<remark, queue, silenced, digest, mailed, slips>>

\* The foreign key refuses a row about a comment deleted meanwhile.
EnqueueCommentNotification(m) ==
    /\ m \in posting.to
    /\ queue' = IF Posted(posting.about) THEN queue \cup {[to |-> m, about |-> posting.about]}
                ELSE queue
    /\ posting' = IF posting.to = {m} THEN NotPosting ELSE [posting EXCEPT !.to = @ \ {m}]
    /\ UNCHANGED <<remark, silenced, digest, mailed, slips>>

\* A comment with replies is kept by the foreign key; notifications go with it.
DeleteComment(c) ==
    /\ Posted(c) /\ ~\E k \in Comments : Posted(k) /\ remark[k].parent = c
    /\ remark' = [remark EXCEPT ![c].state = "deleted"]
    /\ queue' = {n \in queue : n.about # c}
    /\ UNCHANGED <<silenced, posting, digest, mailed, slips>>

UpdateNotificationPreferences ==
    /\ silenced' \in SUBSET {Owner} /\ silenced' # silenced
    /\ UNCHANGED <<remark, queue, posting, digest, mailed, slips>>

-----------------------------------------------------------------------------
\* SendCommentDigests lists every row once, for all recipients.
ListPendingCommentNotifications ==
    /\ digest = NoDigest /\ queue # {}
    /\ digest' = [digest EXCEPT !.at = "next", !.rows = queue]
    /\ UNCHANGED <<remark, queue, silenced, posting, mailed, slips>>

Listed(m) == {n \in digest.rows : n.to = m}
Done(m) == LET rest == digest.rows \ Listed(m) IN
           IF rest = {} THEN NoDigest ELSE [at |-> "next", rows |-> rest, to |-> Owner]

\* BUG: the whole queue of the recipient is deleted, not what was listed.
DrainsAll(m) == {n \in queue : n.to = m}

Drained(m) == Listed(m)

\* BUG: a muted recipient's rows are left for the next digest.
MutedRowsStay(m) == {}

DrainedWhenMuted(m) == Listed(m)

\* The preference is read.  One that cannot be read counts as a wish for the mail.
NextRecipient(m) ==
    /\ digest.at = "next" /\ Listed(m) # {}
    /\ \/ /\ m \in silenced
          /\ digest' = [digest EXCEPT !.at = "muted", !.to = m]
          /\ UNCHANGED slips
       \/ /\ digest' = [digest EXCEPT !.at = "send", !.to = m]
          /\ IF m \in silenced THEN Slip ELSE UNCHANGED slips
    /\ UNCHANGED <<remark, queue, silenced, posting, mailed>>

\* What the preference said, whatever it says by now; the deletion may fail.
DrainMuted ==
    /\ digest.at = "muted"
    /\ \/ queue' = queue \ DrainedWhenMuted(digest.to) /\ UNCHANGED slips
       \/ Slip /\ UNCHANGED queue
    /\ digest' = Done(digest.to)
    /\ UNCHANGED <<remark, silenced, posting, mailed>>

\* The token cannot be minted or the mail not sent: the rows stay queued.
SendDigest ==
    /\ digest.at = "send"
    /\ \/ /\ mailed' = [n \in Notification |-> mailed[n] + IF n \in Listed(digest.to) THEN 1 ELSE 0]
          /\ digest' = [digest EXCEPT !.at = "drain"]
          /\ UNCHANGED slips
       \/ Slip /\ digest' = Done(digest.to) /\ UNCHANGED mailed
    /\ UNCHANGED <<remark, queue, silenced, posting>>

DeleteCommentNotifications ==
    /\ digest.at = "drain"
    /\ \/ queue' = queue \ Drained(digest.to) /\ UNCHANGED slips
       \/ Slip /\ UNCHANGED queue
    /\ digest' = Done(digest.to)
    /\ UNCHANGED <<remark, silenced, posting, mailed>>

\* The process stops: a comment may stay without some of its notifications, and
\* the digest event is still pending.
DiscussionStops ==
    /\ Slip
    /\ posting' = NotPosting
    /\ digest' = NoDigest
    /\ UNCHANGED <<remark, queue, silenced, mailed>>

RememberMuted ==
    hushed' = {n \in digest'.rows : n \in hushed \/ n.to \in silenced'}

DigestStep ==
    /\ \/ ListPendingCommentNotifications \/ DrainMuted \/ SendDigest \/ DeleteCommentNotifications
       \/ \E m \in Readers : NextRecipient(m)
    /\ RememberMuted

DiscussionNext ==
    \/ DigestStep
    \/ /\ \/ \E c \in Comments, u \in Readers, parent \in Comments \cup {NoComment} :
               CreateComment(c, u, parent)
          \/ ListRecipients \/ (\E m \in Readers : EnqueueCommentNotification(m))
          \/ \E c \in Comments : DeleteComment(c)
          \/ UpdateNotificationPreferences \/ DiscussionStops
       /\ RememberMuted

DiscussionSpec == DiscussionInit /\ [][DiscussionNext]_discussionVars

\* The digest event is queued every day and fired again until it is done.
DiscussionFairSpec == DiscussionSpec /\ WF_discussionVars(DigestStep)

-----------------------------------------------------------------------------
\* Nobody is mailed about a comment of their own, and about one of somebody
\* else once, or once more for each mail whose rows could not be deleted after
\* it (the deletion failed or the process stopped in between).
CommentsToldOnce ==
    \A n \in Notification : /\ mailed[n] <= 1 + slips
                            /\ mailed[n] > 0 => remark[n.about].by # n.to

\* A notification leaves the queue only when its recipient was mailed about it,
\* or was muted at some moment since the digest listed it, or the comment is
\* gone, also one queued while a digest ran and one whose recipient unmuted
\* between the digest's look at the preference and its deletion.
NothingDrainedUntold ==
    [][\A n \in queue \ queue' :
         mailed[n] > 0 \/ n \in hushed \/ ~Posted(n.about)']_discussionVars

\* Once nothing more is written, whatever is queued is eventually mailed, muted
\* or deleted: no row stays behind for ever.
QueueSettles == []<>(queue = {})
=============================================================================
