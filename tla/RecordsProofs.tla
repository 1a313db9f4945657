--------------------------- MODULE RecordsProofs ----------------------------
(***************************************************************************)
(* What is kept, for every number of tabs, requests, questions, openings,  *)
(* boots and copies: an overtaken autosave never replaces a newer text, an *)
(* opening that is tried again asks no default twice and enough questions, *)
(* and the boot guard's promises.  Last, the system the run explores is    *)
(* these and the two of SignInProofs and KeepsakesProofs, each in its      *)
(* part, so its states satisfy their invariants.                           *)
(***************************************************************************)
EXTENDS MCRecords, SignInProofs, KeepsakesProofs, WellFoundedInduction

(* Answers.                                                                *)

Post == [at : {"free", "sent", "apply", "file", "row", "unlink", "reply"}, op : Ops, by : Tabs,
         n : 0..MaxTyped, id : 0..MaxAnswers, version : Nat, file : Files]
Tab == [typed : 0..MaxTyped, id : 0..MaxAnswers, version : Nat]

\* The version is not one that the answer does not have yet.
NotAheadOf(id, version) == id = answer.id /\ id # NoAnswer => version <= answer.version

\* Nobody has heard of an answer that was not created.  What is typed in a tab is
\* never older than what was stored of it, and what it knows of its answer's
\* version was true once, unless the version was another answer's.
TabOK(t) ==
    /\ tab[t].id < nextAnswer
    /\ t \notin mixed => NotAheadOf(tab[t].id, tab[t].version)
    /\ newest[t] <= tab[t].typed

\* Replies tell the truth, late or not.  An autosave that carries the version of
\* the answer carries no older text than the newest of its tab that was stored.
PostOK(p) ==
    LET q == post[p] IN
    /\ q.at # "free" => q.id < nextAnswer /\ q.n <= tab[q.by].typed
    /\ q.at # "free" /\ (q.at = "reply" \/ q.by \notin mixed) => NotAheadOf(q.id, q.version)
    /\ q.at # "free" /\ q.op # "create" => q.id # NoAnswer
    /\ q.at \in {"sent", "apply"} /\ q.op = "autosave" /\ VersionMatches(p) /\ q.by \notin mixed
         => q.n >= newest[q.by]

AnswersInv ==
    /\ AnswersTypeOK /\ answer.id < nextAnswer
    /\ \A t \in Tabs : TabOK(t)
    /\ \A p \in Posts : PostOK(p)

-----------------------------------------------------------------------------
\* The types of the parts.
LEMMA AnswerTypes ==
    ASSUME AnswersTypeOK
    PROVE  /\ FreePost \in Post /\ FreePost.at = "free" /\ FreePost.by \in Tabs
           /\ post \in [Posts -> Post] /\ tab \in [Tabs -> Tab]
           /\ nextAnswer \in Nat /\ answer.id \in Nat /\ answer.version \in Nat
           /\ \A t \in Tabs : /\ tab[t] \in Tab /\ tab[t].id \in 0..MaxAnswers
                              /\ tab[t].version \in Nat /\ tab[t].typed \in 0..MaxTyped
                              /\ newest[t] \in 0..MaxTyped
           /\ \A p \in Posts : /\ post[p] \in Post /\ post[p].by \in Tabs /\ post[p].n \in 0..MaxTyped
                               /\ post[p].id \in 0..MaxAnswers /\ post[p].version \in Nat
                               /\ post[p].file \in Files
<1>1. FreePost.by \in Tabs /\ 1 \in Files
  BY AnswersAssumption DEF FreePost, Files
<1>2. FreePost \in Post /\ FreePost.at = "free"
  BY <1>1, AnswersAssumption DEF FreePost, Post, Ops, NoAnswer
<1>3. post \in [Posts -> Post] /\ tab \in [Tabs -> Tab]
  BY DEF AnswersTypeOK, Post, Tab
<1>4. nextAnswer \in Nat /\ answer.id \in Nat /\ answer.version \in Nat
  BY AnswersAssumption DEF AnswersTypeOK
<1> QED BY <1>1, <1>2, <1>3, <1>4 DEF AnswersTypeOK, Post, Tab

\* A request that goes on, or ends, and the others.
LEMMA PostMoves ==
    ASSUME AnswersTypeOK, NEW p \in Posts
    PROVE  /\ \A at \in {"apply", "file", "row", "unlink"} : PostGoes(p, at) =>
                /\ post' \in [Posts -> Post] /\ post'[p] = [post[p] EXCEPT !.at = at]
                /\ \A q \in Posts \ {p} : post'[q] = post[q]
           /\ PostEnds(p) => /\ post' \in [Posts -> Post] /\ post'[p].at = "free"
                             /\ \A q \in Posts \ {p} : post'[q] = post[q]
<1>0. /\ post \in [Posts -> Post] /\ post[p] \in Post /\ FreePost \in Post /\ FreePost.at = "free"
  BY AnswerTypes
<1>1. ASSUME NEW at \in {"apply", "file", "row", "unlink"}, PostGoes(p, at)
      PROVE  /\ post' \in [Posts -> Post] /\ post'[p] = [post[p] EXCEPT !.at = at]
             /\ \A q \in Posts \ {p} : post'[q] = post[q]
  <2>1. [post[p] EXCEPT !.at = at] \in Post
    BY <1>0 DEF Post
  <2> QED BY <1>0, <1>1, <2>1 DEF PostGoes
<1>2. ASSUME PostEnds(p)
      PROVE  /\ post' \in [Posts -> Post] /\ post'[p].at = "free"
             /\ \A q \in Posts \ {p} : post'[q] = post[q]
  BY <1>0, <1>2 DEF PostEnds
<1> QED BY <1>1, <1>2

\* A reply that tells its tab of an answer, or of its version.
LEMMA PostReplies ==
    ASSUME AnswersTypeOK, NEW p \in Posts, NEW id \in 0..MaxAnswers, NEW version \in Nat,
           post' = [post EXCEPT ![p].at = "reply", ![p].id = id, ![p].version = version]
    PROVE  /\ post' \in [Posts -> Post]
           /\ post'[p].at = "reply" /\ post'[p].id = id /\ post'[p].version = version
           /\ post'[p].op = post[p].op /\ post'[p].n = post[p].n /\ post'[p].by = post[p].by
           /\ \A q \in Posts \ {p} : post'[q] = post[q]
<1>0. post \in [Posts -> Post] /\ post[p] \in Post
  BY AnswerTypes
<1>1. post' = [post EXCEPT ![p] = [post[p] EXCEPT !.at = "reply", !.id = id, !.version = version]]
  BY <1>0
<1>2. [post[p] EXCEPT !.at = "reply", !.id = id, !.version = version] \in Post
  BY <1>0 DEF Post
<1>3. post'[p] = [post[p] EXCEPT !.at = "reply", !.id = id, !.version = version]
  BY <1>0, <1>1
<1> QED BY <1>0, <1>1, <1>2, <1>3 DEF Post

\* A request of which nothing is known any more, or that goes on with what it has.
LEMMA PostKept ==
    ASSUME AnswersTypeOK, NEW p \in Posts, PostOK(p), UNCHANGED <<answer, nextAnswer, newest>>,
           mixed \subseteq mixed',
           \A t \in Tabs : tab'[t].typed \in Nat /\ tab'[t].typed >= tab[t].typed,
           \/ post'[p] = post[p]
           \/ post'[p].at = "free"
           \/ post[p].at # "free" /\ \E at \in {"file", "row", "unlink"} : post'[p] = [post[p] EXCEPT !.at = at]
           \/ post[p].at = "sent" /\ post'[p] = [post[p] EXCEPT !.at = "apply"]
    PROVE  PostOK(p)'
<1>0. /\ post[p] \in Post /\ post[p].by \in Tabs /\ post[p].n \in Nat
      /\ tab[post[p].by].typed \in Nat
  BY AnswerTypes
<1>1. PICK t \in Tabs : t = post[p].by
  BY <1>0
<1>2. tab'[t].typed \in Nat /\ tab'[t].typed >= tab[t].typed /\ newest'[t] = newest[t]
  BY <1>1
<1>3. post'[p].at # "free" =>
         /\ post'[p].by = t /\ post'[p].n = post[p].n /\ post'[p].id = post[p].id
         /\ post'[p].version = post[p].version /\ post'[p].op = post[p].op
         /\ post[p].at # "free"
         /\ post'[p].at \in {"sent", "apply"} => post[p].at \in {"sent", "apply"}
         /\ post'[p].at = "reply" => post[p].at = "reply"
  BY <1>0, <1>1 DEF Post
<1>4. VersionMatches(p)' /\ post'[p].at # "free" => VersionMatches(p)
  BY <1>3 DEF VersionMatches
<1>6. tab[t].typed >= post[p].n => tab'[t].typed >= post[p].n
  <2>1. tab[t].typed \in Nat
    BY <1>0, <1>1
  <2> QED BY <1>0, <1>2, <2>1
<1> QED BY <1>1, <1>2, <1>3, <1>4, <1>6 DEF PostOK, NotAheadOf

\* Nothing is known of the answer yet.
LEMMA AnswersInitInv == AnswersInit => AnswersInv
<1> SUFFICES ASSUME AnswersInit PROVE AnswersInv
  OBVIOUS
<1>1. FreePost.by \in Tabs /\ 1 \in Files /\ FreePost \in Post /\ FreePost.at = "free"
  BY AnswersAssumption DEF FreePost, Files, Post, Ops, NoAnswer
<1>2. AnswersTypeOK
  <2>1. Blank(NoAnswer) \in [id : 0..MaxAnswers, version : Nat, draft : BOOLEAN, text : Text]
    BY <1>1, AnswersAssumption DEF Blank, NoAnswer, Text
  <2>2. nextAnswer \in 1..(MaxAnswers + 1)
    BY AnswersAssumption DEF AnswersInit
  <2>3. post \in [Posts -> Post]
    BY <1>1 DEF AnswersInit
  <2>4. tab \in [Tabs -> [typed : 0..MaxTyped, id : 0..MaxAnswers, version : Nat]] /\ newest \in [Tabs -> 0..MaxTyped]
    BY AnswersAssumption DEF AnswersInit, NoAnswer
  <2> QED BY <2>1, <2>2, <2>3, <2>4 DEF AnswersTypeOK, AnswersInit, Post
<1>3. answer.id = 0 /\ answer.version = 0 /\ nextAnswer = 1
  BY DEF AnswersInit, Blank, NoAnswer
<1>4. \A t \in Tabs : TabOK(t)
  BY <1>3 DEF AnswersInit, TabOK, NotAheadOf, NoAnswer
<1>5. \A p \in Posts : PostOK(p)
  BY <1>1 DEF AnswersInit, PostOK
<1> QED BY <1>2, <1>3, <1>4, <1>5 DEF AnswersInv

\* A step of one request that learns and stores nothing.
LEMMA QuietPost ==
    ASSUME AnswersInv, NEW p \in Posts, UNCHANGED <<answer, nextAnswer, newest, tab, mixed>>,
           media' \subseteq Files, disk' \subseteq Files, UNCHANGED open,
           \/ PostEnds(p)
           \/ post[p].at # "free" /\ \E at \in {"file", "row", "unlink"} : PostGoes(p, at)
           \/ post[p].at = "sent" /\ PostGoes(p, "apply")
    PROVE  AnswersInv'
<1>0. AnswersTypeOK
  BY DEF AnswersInv
<1>1. post' \in [Posts -> Post] /\ \A q \in Posts \ {p} : post'[q] = post[q]
  BY <1>0, PostMoves
<1>2. \/ post'[p].at = "free"
      \/ post[p].at # "free" /\ \E at \in {"file", "row", "unlink"} : post'[p] = [post[p] EXCEPT !.at = at]
      \/ post[p].at = "sent" /\ post'[p] = [post[p] EXCEPT !.at = "apply"]
  BY <1>0, PostMoves
<1>3. AnswersTypeOK'
  BY <1>0, <1>1 DEF AnswersTypeOK, Post
<1>4. \A t \in Tabs : tab'[t].typed \in Nat /\ tab'[t].typed >= tab[t].typed
  BY <1>0, AnswerTypes
<1>5. \A t \in Tabs : TabOK(t)'
  BY DEF AnswersInv, TabOK, NotAheadOf
<1>6. ASSUME NEW q \in Posts PROVE PostOK(q)'
  <2>1. PostOK(q)
    BY DEF AnswersInv
  <2>2. CASE q = p
    BY <1>0, <1>2, <1>4, <2>1, <2>2, PostKept
  <2>3. CASE q # p
    <3>1. post'[q] = post[q]
      BY <1>1, <2>3
    <3> QED BY <1>0, <1>4, <2>1, <3>1, PostKept
  <2> QED BY <2>2, <2>3
<1>7. (answer.id < nextAnswer)'
  BY DEF AnswersInv
<1> QED BY <1>3, <1>5, <1>6, <1>7 DEF AnswersInv

\* Typing.
LEMMA TypeInv == ASSUME AnswersInv, NEW t \in Tabs, Type(t) PROVE AnswersInv'
<1>0. AnswersTypeOK
  BY DEF AnswersInv, AnswersTypeOK
<1>1. /\ tab \in [Tabs -> Tab] /\ tab[t] \in Tab /\ tab[t].typed \in 0..MaxTyped
      /\ tab[t].typed < MaxTyped
  BY <1>0, AnswerTypes DEF Type
<1>2. tab' = [tab EXCEPT ![t] = [tab[t] EXCEPT !.typed = tab[t].typed + 1]]
  BY <1>1 DEF Type
<1>3. [tab[t] EXCEPT !.typed = tab[t].typed + 1] \in Tab
  BY <1>1, AnswersAssumption DEF Tab
<1>4. tab' \in [Tabs -> Tab] /\ tab'[t] = [tab[t] EXCEPT !.typed = tab[t].typed + 1]
      /\ \A u \in Tabs \ {t} : tab'[u] = tab[u]
  BY <1>1, <1>2, <1>3
<1>5. AnswersTypeOK'
  BY <1>0, <1>4 DEF AnswersTypeOK, Type, Tab
<1>6. ASSUME NEW u \in Tabs
      PROVE  /\ tab'[u].typed \in Nat /\ tab'[u].typed >= tab[u].typed
             /\ tab'[u].id = tab[u].id /\ tab'[u].version = tab[u].version
  <2>1. tab[u].typed \in Nat
    BY <1>0, AnswerTypes
  <2>2. CASE u = t
    BY <1>1, <1>4, <2>2 DEF Tab
  <2>3. CASE u # t
    BY <1>4, <2>1, <2>3
  <2> QED BY <2>2, <2>3
<1>7. ASSUME NEW u \in Tabs PROVE TabOK(u)'
  <2>1. tab[u].typed \in Nat /\ newest[u] \in Nat /\ TabOK(u)
    BY <1>0, AnswerTypes DEF AnswersInv
  <2> QED BY <1>6, <2>1 DEF TabOK, NotAheadOf, Type
<1>8. ASSUME NEW q \in Posts PROVE PostOK(q)'
  <2>1. PostOK(q) /\ post'[q] = post[q] /\ UNCHANGED <<answer, nextAnswer, newest, mixed>>
    BY DEF AnswersInv, Type
  <2> QED BY <1>0, <1>6, <2>1, PostKept
<1>9. (answer.id < nextAnswer)'
  BY DEF AnswersInv, Type
<1> QED BY <1>5, <1>7, <1>8, <1>9 DEF AnswersInv

\* A request is sent with what its tab knows and, when it carries a text, all the
\* tab has typed.
LEMMA SendInv ==
    ASSUME AnswersInv, NEW p \in Posts, NEW t \in Tabs,
           \/ SendText(p, t)
           \/ \E op \in Ops \ {"create", "autosave"}, f \in Files : SendOther(p, t, op, f)
    PROVE  AnswersInv'
<1>0. AnswersTypeOK /\ UNCHANGED <<answer, nextAnswer, media, disk, open, tab, newest, mixed>>
  BY DEF AnswersInv, SendText, SendOther
<1>1. /\ FreePost \in Post /\ post \in [Posts -> Post] /\ tab[t].typed \in 0..MaxTyped
      /\ tab[t].id \in 0..MaxAnswers /\ tab[t].version \in Nat /\ newest[t] \in 0..MaxTyped
      /\ \A u \in Tabs : tab[u].typed \in Nat
  BY <1>0, AnswerTypes
<1>2. \E r \in Post :
         /\ post' = [post EXCEPT ![p] = r]
         /\ r.at = "sent" /\ r.by = t /\ r.id = tab[t].id /\ r.n <= tab[t].typed
         /\ r.version = 0 \/ r.version = tab[t].version
         /\ r.op # "create" => tab[t].id # NoAnswer
         /\ r.op = "autosave" => r.n = tab[t].typed
  <2>1. CASE SendText(p, t)
    <3> DEFINE op == IF tab[t].id = NoAnswer THEN "create" ELSE "autosave"
               r == [FreePost EXCEPT !.at = "sent", !.by = t, !.n = tab[t].typed,
                                     !.id = tab[t].id, !.version = tab[t].version, !.op = op]
    <3>1. op \in Ops /\ (op # "create" => tab[t].id # NoAnswer)
      BY DEF Ops
    <3>2. post' = [post EXCEPT ![p] = r]
      BY <2>1 DEF SendText
    <3> HIDE DEF op
    <3>3. r \in Post /\ r.at = "sent" /\ r.by = t /\ r.id = tab[t].id /\ r.n = tab[t].typed
          /\ r.version = tab[t].version /\ r.op = op
      BY <1>1, <3>1 DEF Post
    <3> HIDE DEF r
    <3>4. r.n <= tab[t].typed /\ (r.op # "create" => tab[t].id # NoAnswer)
      BY <1>1, <3>1, <3>3
    <3> QED BY <3>2, <3>3, <3>4, Zenon
  <2>2. ASSUME NEW op \in Ops \ {"create", "autosave"}, NEW f \in Files, SendOther(p, t, op, f)
        PROVE <1>2
    <3> DEFINE r == [FreePost EXCEPT !.at = "sent", !.op = op, !.by = t, !.id = tab[t].id, !.file = f]
    <3>1. FreePost.n = 0 /\ FreePost.version = 0
      BY DEF FreePost
    <3>2. post' = [post EXCEPT ![p] = r] /\ tab[t].id # NoAnswer
      BY <2>2 DEF SendOther
    <3>3. r \in Post /\ r.at = "sent" /\ r.by = t /\ r.id = tab[t].id /\ r.n = 0
          /\ r.version = 0 /\ r.op = op
      BY <1>1, <3>1 DEF Post
    <3> HIDE DEF r
    <3>4. r.n <= tab[t].typed /\ r.op # "autosave"
      BY <1>1, <3>3
    <3> QED BY <3>2, <3>3, <3>4, Zenon
  <2> QED BY <2>1, <2>2
<1>3. PICK r \in Post : <1>2!(r)
  BY <1>2
<1>7. post' \in [Posts -> Post] /\ post'[p] = r /\ \A q \in Posts \ {p} : post'[q] = post[q]
  BY <1>1, <1>3
<1>8. AnswersTypeOK'
  BY <1>0, <1>7 DEF AnswersTypeOK, Post
<1>9. \A u \in Tabs : TabOK(u)'
  BY <1>0 DEF AnswersInv, TabOK, NotAheadOf
<1>10. ASSUME NEW q \in Posts PROVE PostOK(q)'
  <2>1. CASE q = p
    <3>1. TabOK(t) /\ answer.version \in Nat
      BY <1>0, AnswerTypes DEF AnswersInv
    <3>2. r.id < nextAnswer /\ (t \notin mixed => NotAheadOf(r.id, r.version)')
      BY <1>0, <1>1, <1>3, <3>1 DEF TabOK, NotAheadOf
    <3>3. r.op = "autosave" => r.n >= newest[t]
      BY <1>1, <1>3, <3>1 DEF TabOK
    <3>4. UNCHANGED <<tab, newest, nextAnswer, mixed>> /\ post'[q] = r
      BY <1>0, <1>7, <2>1
    <3> QED BY <1>3, <3>2, <3>3, <3>4 DEF PostOK
  <2>2. CASE q # p
    <3>1. post'[q] = post[q] /\ PostOK(q)
      BY <1>7, <2>2 DEF AnswersInv
    <3>2. \A u \in Tabs : tab'[u].typed \in Nat /\ tab'[u].typed >= tab[u].typed
      BY <1>0, <1>1
    <3> QED BY <1>0, <3>1, <3>2, PostKept
  <2> QED BY <2>1, <2>2
<1>11. (answer.id < nextAnswer)'
  BY <1>0 DEF AnswersInv
<1> QED BY <1>8, <1>9, <1>10, <1>11 DEF AnswersInv

\* A reply that tells how the answer is, after a creation that came too late or a
\* conflict.
LEMMA CurrentReply ==
    ASSUME AnswersInv, NEW p \in Posts, post[p].at # "free", answer.id # NoAnswer,
           UNCHANGED <<answer, nextAnswer, media, disk, open, tab, newest, mixed>>,
           post' = [post EXCEPT ![p].at = "reply", ![p].id = answer.id,
                                ![p].version = answer.version]
    PROVE  AnswersInv'
<1>0. AnswersTypeOK /\ answer.id \in 0..MaxAnswers /\ answer.version \in Nat
      /\ answer.id < nextAnswer
  BY DEF AnswersInv, AnswersTypeOK
<1>1. /\ post' \in [Posts -> Post]
      /\ post'[p].at = "reply" /\ post'[p].id = answer.id /\ post'[p].version = answer.version
      /\ post'[p].op = post[p].op /\ post'[p].n = post[p].n /\ post'[p].by = post[p].by
      /\ \A q \in Posts \ {p} : post'[q] = post[q]
  BY <1>0, PostReplies
<1>2. AnswersTypeOK'
  BY <1>0, <1>1 DEF AnswersTypeOK, Post
<1>3. \A t \in Tabs : TabOK(t)'
  BY DEF AnswersInv, TabOK, NotAheadOf
<1>4. ASSUME NEW q \in Posts PROVE PostOK(q)'
  <2>0. PostOK(q)
    BY DEF AnswersInv
  <2>1. CASE q = p
    BY <1>0, <1>1, <2>0, <2>1 DEF PostOK, NotAheadOf
  <2>2. CASE q # p
    <3>1. post'[q] = post[q] /\ \A u \in Tabs : tab'[u].typed \in Nat /\ tab'[u].typed >= tab[u].typed
      BY <1>0, <1>1, <2>2, AnswerTypes
    <3> QED BY <1>0, <2>0, <3>1, PostKept
  <2> QED BY <2>1, <2>2
<1> QED BY <1>0, <1>2, <1>3, <1>4 DEF AnswersInv

\* The round, the answer and the room are looked at.
LEMMA CheckInv == ASSUME AnswersInv, NEW p \in Posts, CheckPost(p) PROVE AnswersInv'
<1>0. AnswersTypeOK /\ UNCHANGED <<answer, nextAnswer, media, disk, open, tab, newest, mixed>>
      /\ post[p].at = "sent"
  BY DEF AnswersInv, CheckPost, PostAt
<1>1. media' \subseteq Files /\ disk' \subseteq Files
  BY <1>0 DEF AnswersTypeOK
<1>2. \/ PostEnds(p) \/ PostGoes(p, "file") \/ PostGoes(p, "apply")
      \/ /\ answer.id # NoAnswer
         /\ post' = [post EXCEPT ![p].at = "reply", ![p].id = answer.id, ![p].version = answer.version]
  BY Zenon DEF CheckPost
<1>3. CASE PostEnds(p) \/ PostGoes(p, "file") \/ PostGoes(p, "apply")
  BY <1>0, <1>1, <1>3, QuietPost
<1>4. CASE /\ answer.id # NoAnswer
           /\ post' = [post EXCEPT ![p].at = "reply", ![p].id = answer.id, ![p].version = answer.version]
  BY <1>0, <1>4, CurrentReply
<1> QED BY <1>2, <1>3, <1>4

\* A created answer has an id that no tab and no request has ever heard of.
LEMMA CreateInv == ASSUME AnswersInv, NEW p \in Posts, CreateResponse(p) PROVE AnswersInv'
<1>0. AnswersTypeOK /\ UNCHANGED <<media, disk, open, tab, newest, mixed>> /\ post[p].at = "apply"
      /\ answer.id < nextAnswer /\ nextAnswer \in Nat
  BY AnswersAssumption DEF AnswersInv, CreateResponse, PostAt, AnswersTypeOK
<1>1. media' \subseteq Files /\ disk' \subseteq Files
  BY <1>0 DEF AnswersTypeOK
<1>2. CASE PostEnds(p) /\ UNCHANGED <<answer, nextAnswer>>
  BY <1>0, <1>1, <1>2, QuietPost
<1>3. CASE /\ answer.id = NoAnswer /\ nextAnswer <= MaxAnswers
           /\ answer' = Blank(nextAnswer) /\ nextAnswer' = nextAnswer + 1
           /\ post' = [post EXCEPT ![p].at = "reply", ![p].id = nextAnswer, ![p].version = 1]
  <2>1. nextAnswer \in 1..MaxAnswers /\ nextAnswer' \in 1..(MaxAnswers + 1)
    BY <1>0, <1>3, AnswersAssumption DEF AnswersTypeOK
  <2>2. /\ post' \in [Posts -> Post]
        /\ post'[p].at = "reply" /\ post'[p].id = nextAnswer /\ post'[p].version = 1
        /\ post'[p].op = post[p].op /\ post'[p].n = post[p].n /\ post'[p].by = post[p].by
        /\ \A q \in Posts \ {p} : post'[q] = post[q]
    <3>1. nextAnswer \in 0..MaxAnswers /\ 1 \in Nat
      BY <1>0, <2>1
    <3>2. post' = [post EXCEPT ![p].at = "reply", ![p].id = nextAnswer, ![p].version = 1]
      BY <1>3
    <3> QED BY <1>0, <3>1, <3>2, PostReplies
  <2>3. /\ answer' \in [id : 0..MaxAnswers, version : Nat, draft : BOOLEAN, text : Text]
        /\ answer'.id = nextAnswer /\ answer'.version = 1
    BY <1>3, <2>1, AnswerTypes, <1>0, AnswersAssumption DEF Blank, NoAnswer, Text
  <2>4. AnswersTypeOK'
    BY <1>0, <2>1, <2>2, <2>3 DEF AnswersTypeOK, Post
  <2>5. ASSUME NEW t \in Tabs PROVE TabOK(t)'
    <3>1. TabOK(t) /\ tab[t].id \in Nat
      BY <1>0, AnswerTypes DEF AnswersInv
    <3> QED BY <1>0, <1>3, <2>3, <3>1 DEF TabOK, NotAheadOf
  <2>6. ASSUME NEW q \in Posts PROVE PostOK(q)'
    <3>1. PostOK(q) /\ post[q].id \in Nat
      BY <1>0, AnswerTypes DEF AnswersInv
    <3>2. CASE q = p
      BY <1>0, <1>3, <2>1, <2>2, <2>3, <3>1, <3>2 DEF PostOK, NotAheadOf, NoAnswer
    <3>3. CASE q # p
      <4>1. post'[q] = post[q]
        BY <2>2, <3>3
      <4>2. post[q].at # "free" => ~VersionMatches(q)'
        BY <1>0, <2>3, <3>1, <4>1 DEF PostOK, NotAheadOf, VersionMatches
      <4>3. post[q].at # "free" => post[q].id < nextAnswer' /\ NotAheadOf(post[q].id, post[q].version)'
        BY <1>0, <1>3, <2>3, <3>1, <4>1 DEF PostOK, NotAheadOf
      <4> QED BY <1>0, <3>1, <4>1, <4>2, <4>3 DEF PostOK
    <3> QED BY <3>2, <3>3
  <2>7. (answer.id < nextAnswer)'
    BY <1>0, <1>3, <2>3
  <2> QED BY <2>4, <2>5, <2>6, <2>7 DEF AnswersInv
<1> QED BY <1>2, <1>3, Zenon DEF CreateResponse

\* An accepted autosave leaves no other request with the version of the answer.
LEMMA AcceptedAutosave ==
    ASSUME AnswersInv, NEW p \in Posts, AutosaveResponse(p), VersionMatches(p)
    PROVE  AnswersInv'
<1>a. AnswersTypeOK
  BY DEF AnswersInv
<1>b. PICK t \in Tabs, n \in 0..MaxTyped : t = post[p].by /\ n = post[p].n
  BY <1>a, AnswerTypes
<1>0. /\ AnswersTypeOK /\ UNCHANGED <<nextAnswer, media, disk, open, tab, mixed>>
      /\ post[p].at = "apply" /\ post[p].op = "autosave"
      /\ answer.id < nextAnswer /\ answer.id = post[p].id /\ answer.version = post[p].version
      /\ answer \in [id : 0..MaxAnswers, version : Nat, draft : BOOLEAN, text : Text]
  BY DEF AnswersInv, AutosaveResponse, PostAt, AnswersTypeOK, VersionMatches
<1>1. /\ t \in Tabs /\ n \in 0..MaxTyped /\ newest \in [Tabs -> 0..MaxTyped]
      /\ tab[t].typed \in Nat /\ newest[t] \in Nat /\ answer.version \in Nat
      /\ PostOK(p) /\ post[p].id \in 0..MaxAnswers
  BY <1>0, <1>b, AnswerTypes DEF AnswersInv, AnswersTypeOK
<1>2. /\ answer' = [answer EXCEPT !.text = [by |-> t, n |-> n], !.version = answer.version + 1]
      /\ newest' = [newest EXCEPT ![t] = IF n > newest[t] THEN n ELSE newest[t]]
      /\ post' = [post EXCEPT ![p].at = "reply", ![p].version = answer.version + 1]
  <2>1. /\ answer' = [answer EXCEPT !.text = [by |-> post[p].by, n |-> post[p].n], !.version = answer.version + 1]
        /\ newest' = [newest EXCEPT ![post[p].by] = IF post[p].n > newest[post[p].by] THEN post[p].n ELSE newest[post[p].by]]
        /\ post' = [post EXCEPT ![p].at = "reply", ![p].version = answer.version + 1]
    BY <1>0, <1>1, <1>b DEF AutosaveResponse
  <2> QED BY <1>b, <2>1
<1>3. /\ answer' \in [id : 0..MaxAnswers, version : Nat, draft : BOOLEAN, text : Text]
      /\ answer'.id = answer.id /\ answer'.version = answer.version + 1
  <2>1. PICK tx \in Text : tx = [by |-> t, n |-> n]
    BY <1>1 DEF Text
  <2>2. answer' = [answer EXCEPT !.text = tx, !.version = answer.version + 1]
    BY <1>2, <2>1
  <2>3. PICK v \in Nat : v = answer.version + 1
    BY <1>1
  <2>4. answer' = [answer EXCEPT !.text = tx, !.version = v]
    BY <2>2, <2>3
  <2> QED BY <1>0, <2>1, <2>3, <2>4
<1>4. /\ newest' \in [Tabs -> 0..MaxTyped]
      /\ newest'[t] <= tab[t].typed
      /\ \A u \in Tabs : newest'[u] # newest[u] => u = t
  <2>1. n <= tab[t].typed
    BY <1>0, <1>1, <1>b DEF PostOK
  <2>2. newest[t] <= tab[t].typed
    BY <1>1 DEF AnswersInv, TabOK
  <2> QED BY <1>1, <1>2, <2>1, <2>2
<1>5. /\ post' \in [Posts -> Post]
      /\ post'[p].at = "reply" /\ post'[p].id = answer.id /\ post'[p].version = answer.version + 1
      /\ post'[p].op = post[p].op /\ post'[p].n = post[p].n /\ post'[p].by = post[p].by
      /\ \A q \in Posts \ {p} : post'[q] = post[q]
  <2>1. post \in [Posts -> Post] /\ post[p] \in Post
    BY <1>0, AnswerTypes
  <2>2. post' = [post EXCEPT ![p] = [post[p] EXCEPT !.at = "reply", !.version = answer.version + 1]]
    BY <1>2, <2>1
  <2>3. [post[p] EXCEPT !.at = "reply", !.version = answer.version + 1]
          = [post[p] EXCEPT !.at = "reply", !.id = answer.id, !.version = answer.version + 1]
    BY <1>0, <2>1 DEF Post
  <2>4. post' = [post EXCEPT ![p].at = "reply", ![p].id = answer.id, ![p].version = answer.version + 1]
    BY <2>1, <2>2, <2>3
  <2>5. answer.id \in 0..MaxAnswers /\ answer.version + 1 \in Nat
    BY <1>0, <1>1
  <2> QED BY <1>0, <2>4, <2>5, PostReplies
<1>6. AnswersTypeOK'
  BY <1>0, <1>3, <1>4, <1>5 DEF AnswersTypeOK, Post
<1>7. ASSUME NEW u \in Tabs PROVE TabOK(u)'
  <2>1. TabOK(u) /\ tab[u].id \in Nat /\ tab[u].version \in Nat
    BY <1>0, AnswerTypes DEF AnswersInv
  <2>2. newest'[u] <= tab[u].typed
    BY <1>4, <2>1 DEF TabOK
  <2> QED BY <1>0, <1>1, <1>3, <2>1, <2>2 DEF TabOK, NotAheadOf
<1>8. ASSUME NEW q \in Posts PROVE PostOK(q)'
  <2>1. PostOK(q) /\ post[q].id \in Nat /\ post[q].version \in Nat
    BY <1>0, AnswerTypes DEF AnswersInv
  <2>2. CASE q = p
    <3>1. PICK k \in Nat, v \in Nat : k = answer.id /\ v = answer.version + 1
      BY <1>0, <1>1, <2>1, <2>2
    <3>2. NotAheadOf(k, v)'
      BY <1>0, <1>1, <1>3, <2>1, <2>2, <3>1 DEF PostOK, NotAheadOf
    <3>3. /\ post'[p].n <= tab'[post'[p].by].typed /\ post'[p].id # NoAnswer
          /\ post'[p].id < nextAnswer'
      BY <1>0, <1>5, <2>1, <2>2 DEF PostOK
    <3>4. post'[p].at = "reply" /\ post'[p].id = k /\ post'[p].version = v
      BY <1>5, <3>1
    <3> QED BY <2>2, <3>2, <3>3, <3>4 DEF PostOK
  <2>3. CASE q # p
    <3>1. post'[q] = post[q]
      BY <1>5, <2>3
    <3>2. post[q].at # "free" /\ post[q].op = "autosave" /\ post[q].by \notin mixed
            => ~VersionMatches(q)'
      BY <1>1, <1>3, <2>1, <3>1 DEF PostOK, NotAheadOf, VersionMatches
    <3>3. NotAheadOf(post[q].id, post[q].version) => NotAheadOf(post[q].id, post[q].version)'
      BY <1>0, <1>1, <1>3, <2>1, <3>1 DEF NotAheadOf
    <3> QED BY <1>0, <2>1, <3>1, <3>2, <3>3 DEF PostOK
  <2> QED BY <2>2, <2>3
<1>9. (answer.id < nextAnswer)'
  BY <1>0, <1>3
<1> QED BY <1>6, <1>7, <1>8, <1>9 DEF AnswersInv

\* An autosave keeps the invariant, whichever way its update is answered.
LEMMA AutosaveInv == ASSUME AnswersInv, NEW p \in Posts, AutosaveResponse(p) PROVE AnswersInv'
<1>0. AnswersTypeOK /\ UNCHANGED <<nextAnswer, media, disk, open, tab, mixed>> /\ post[p].at = "apply"
      /\ post[p].op = "autosave" /\ PostOK(p)
  BY DEF AnswersInv, AutosaveResponse, PostAt
<1>1. media' \subseteq Files /\ disk' \subseteq Files
  BY <1>0 DEF AnswersTypeOK
<1>2. CASE VersionMatches(p)
  BY <1>2, AcceptedAutosave
<1>3. CASE PostEnds(p) /\ UNCHANGED <<answer, newest>>
  BY <1>0, <1>1, <1>3, QuietPost
<1>4. CASE /\ answer.id = post[p].id /\ UNCHANGED <<answer, newest>>
           /\ post' = [post EXCEPT ![p].at = "reply", ![p].version = answer.version]
  <2>1. post \in [Posts -> Post] /\ post[p] \in Post
    BY <1>0, AnswerTypes
  <2>2. post' = [post EXCEPT ![p] = [post[p] EXCEPT !.at = "reply", !.version = answer.version]]
    BY <1>4, <2>1
  <2>3. [post[p] EXCEPT !.at = "reply", !.version = answer.version]
          = [post[p] EXCEPT !.at = "reply", !.id = answer.id, !.version = answer.version]
    BY <1>4, <2>1 DEF Post
  <2>4. post' = [post EXCEPT ![p].at = "reply", ![p].id = answer.id, ![p].version = answer.version]
    BY <2>1, <2>2, <2>3
  <2>5. answer.id # NoAnswer
    BY <1>0, <1>4 DEF PostOK
  <2> QED BY <1>0, <1>4, <2>4, <2>5, CurrentReply
<1> QED BY <1>2, <1>3, <1>4, Zenon DEF AutosaveResponse

\* A submission changes neither text nor version.
LEMMA SubmitInv == ASSUME AnswersInv, NEW p \in Posts, SubmitResponse(p) PROVE AnswersInv'
<1>0. AnswersTypeOK /\ UNCHANGED <<nextAnswer, media, disk, open, tab, newest, mixed>> /\ PostEnds(p)
      /\ answer \in [id : 0..MaxAnswers, version : Nat, draft : BOOLEAN, text : Text]
      /\ answer.id < nextAnswer
  BY DEF AnswersInv, AnswersTypeOK, SubmitResponse
<1>1. /\ answer' \in [id : 0..MaxAnswers, version : Nat, draft : BOOLEAN, text : Text]
      /\ answer'.id = answer.id /\ answer'.version = answer.version
  <2>1. PICK d \in BOOLEAN : d = (answer.draft /\ answer.id # post[p].id)
    OBVIOUS
  <2>2. answer' = [answer EXCEPT !.draft = d]
    BY <2>1, Zenon DEF SubmitResponse
  <2> QED BY <1>0, <2>1, <2>2
<1>2. post' \in [Posts -> Post] /\ post'[p].at = "free" /\ \A q \in Posts \ {p} : post'[q] = post[q]
  BY <1>0, PostMoves
<1>3. AnswersTypeOK'
  BY <1>0, <1>1, <1>2 DEF AnswersTypeOK, Post
<1>4. \A t \in Tabs : TabOK(t)'
  BY <1>0, <1>1 DEF AnswersInv, TabOK, NotAheadOf
<1>5. ASSUME NEW q \in Posts PROVE PostOK(q)'
  <2>1. PostOK(q)
    BY DEF AnswersInv
  <2>2. CASE q = p
    BY <1>2, <2>2 DEF PostOK
  <2>3. CASE q # p
    BY <1>0, <1>1, <1>2, <2>1, <2>3 DEF PostOK, NotAheadOf, VersionMatches
  <2> QED BY <2>2, <2>3
<1>6. (answer.id < nextAnswer)'
  BY <1>0, <1>1
<1> QED BY <1>3, <1>4, <1>5, <1>6 DEF AnswersInv

\* A deleted answer leaves nothing that a version could match.
LEMMA DeleteInv == ASSUME AnswersInv, NEW p \in Posts, DeleteResponse(p) PROVE AnswersInv'
<1>0. AnswersTypeOK /\ UNCHANGED <<nextAnswer, disk, open, tab, newest, mixed>> /\ PostEnds(p)
      /\ answer.id < nextAnswer /\ answer.id \in Nat /\ nextAnswer \in Nat
  BY AnswersAssumption DEF AnswersInv, AnswersTypeOK, DeleteResponse
<1>1. CASE UNCHANGED <<answer, media>>
  <2>1. media' \subseteq Files /\ disk' \subseteq Files
    BY <1>0, <1>1 DEF AnswersTypeOK
  <2> QED BY <1>0, <1>1, <2>1, QuietPost
<1>2. CASE answer' = Blank(NoAnswer) /\ media' = {}
  <2>1. /\ answer' \in [id : 0..MaxAnswers, version : Nat, draft : BOOLEAN, text : Text]
        /\ answer'.id = 0 /\ answer'.version = 0
    BY <1>0, <1>2, AnswerTypes, AnswersAssumption DEF Blank, NoAnswer, Text
  <2>2. post' \in [Posts -> Post] /\ post'[p].at = "free" /\ \A q \in Posts \ {p} : post'[q] = post[q]
    BY <1>0, PostMoves
  <2>3. AnswersTypeOK'
    BY <1>0, <1>2, <2>1, <2>2 DEF AnswersTypeOK, Post
  <2>4. \A t \in Tabs : TabOK(t)'
    BY <1>0, <2>1 DEF AnswersInv, TabOK, NotAheadOf, NoAnswer
  <2>5. ASSUME NEW q \in Posts PROVE PostOK(q)'
    <3>1. PostOK(q)
      BY DEF AnswersInv
    <3>2. CASE q = p
      BY <2>2, <3>2 DEF PostOK
    <3>3. CASE q # p
      BY <1>0, <2>1, <2>2, <3>1, <3>3 DEF PostOK, NotAheadOf, VersionMatches, NoAnswer
    <3> QED BY <3>2, <3>3
  <2>6. (answer.id < nextAnswer)'
    BY <1>0, <2>1 DEF AnswersTypeOK
  <2> QED BY <2>3, <2>4, <2>5, <2>6 DEF AnswersInv
<1> QED BY <1>1, <1>2, Zenon DEF DeleteResponse

\* Files and their rows; requests that end or get lost.
LEMMA FilesInv ==
    ASSUME AnswersInv, NEW p \in Posts,
           DeleteBlock(p) \/ UnlinkUpload(p) \/ ReceiveMediaUpload(p) \/ CreateBlock(p) \/ LosePost(p)
    PROVE  AnswersInv'
<1>0. AnswersTypeOK /\ media \subseteq Files /\ disk \subseteq Files /\ post[p].file \in Files
  <2>1. AnswersTypeOK
    BY DEF AnswersInv
  <2> QED BY <2>1, AnswerTypes DEF AnswersTypeOK
<1>1. CASE DeleteBlock(p)
  BY <1>0, <1>1, QuietPost DEF DeleteBlock, PostAt
<1>2. CASE UnlinkUpload(p)
  BY <1>0, <1>2, QuietPost DEF UnlinkUpload, PostAt
<1>3. CASE ReceiveMediaUpload(p)
  BY <1>0, <1>3, QuietPost DEF ReceiveMediaUpload, PostAt
<1>4. CASE CreateBlock(p)
  BY <1>0, <1>4, QuietPost DEF CreateBlock, PostAt
<1>5. CASE LosePost(p)
  BY <1>0, <1>5, QuietPost DEF LosePost, PostAt
<1> QED BY <1>1, <1>2, <1>3, <1>4, <1>5

\* The tab knows what the reply to a creation knew, or the version alone.
LEMMA DeliverInv == ASSUME AnswersInv, NEW p \in Posts, Deliver(p) PROVE AnswersInv'
<1>a. AnswersTypeOK
  BY DEF AnswersInv
<1>b. PICK t \in Tabs, k \in 0..MaxAnswers, v \in Nat :
        /\ t = post[p].by /\ v = post[p].version
        /\ k = IF post[p].op = "create" THEN post[p].id ELSE tab[t].id
  <2>1. /\ post[p].by \in Tabs /\ post[p].version \in Nat /\ post[p].id \in 0..MaxAnswers
        /\ tab[post[p].by].id \in 0..MaxAnswers
    BY <1>a, AnswerTypes
  <2> QED BY <2>1
<1>0. /\ UNCHANGED <<answer, nextAnswer, media, disk, open, newest>> /\ PostEnds(p)
      /\ tab' = [tab EXCEPT ![t].id = k, ![t].version = v]
      /\ post[p].at = "reply" /\ tab \in [Tabs -> Tab] /\ tab[t] \in Tab
      /\ mixed \subseteq mixed' /\ mixed' \subseteq Tabs /\ \A u \in Tabs \ {t} : u \in mixed' => u \in mixed
      /\ t \notin mixed' => k = post[p].id
  <2>1. tab \in [Tabs -> Tab] /\ tab[t] \in Tab /\ mixed \subseteq Tabs
    BY <1>a, <1>b, AnswerTypes DEF AnswersTypeOK
  <2>2. tab' = [tab EXCEPT ![t].id = IF post[p].op = "create" THEN post[p].id ELSE @,
                           ![t].version = v]
    BY <1>b DEF Deliver
  <2>3. tab' = [tab EXCEPT ![t].id = k, ![t].version = v]
    BY <1>b, <2>1, <2>2
  <2>4. mixed' = IF post[p].op = "create" \/ post[p].id = tab[t].id THEN mixed ELSE mixed \cup {t}
    BY <1>b DEF Deliver
  <2> QED BY <1>b, <2>1, <2>3, <2>4 DEF Deliver, PostAt
<1>1. tab' = [tab EXCEPT ![t] = [tab[t] EXCEPT !.id = k, !.version = v]]
  BY <1>0
<1>2. [tab[t] EXCEPT !.id = k, !.version = v] \in Tab
  BY <1>0, <1>b DEF Tab
<1>3. /\ tab' \in [Tabs -> Tab] /\ tab'[t] = [tab[t] EXCEPT !.id = k, !.version = v]
      /\ \A u \in Tabs \ {t} : tab'[u] = tab[u]
  BY <1>0, <1>1, <1>2
<1>4. post' \in [Posts -> Post] /\ post'[p].at = "free" /\ \A q \in Posts \ {p} : post'[q] = post[q]
  BY <1>a, <1>0, PostMoves
<1>5. AnswersTypeOK'
  BY <1>a, <1>0, <1>3, <1>4 DEF AnswersTypeOK, Post, Tab
<1>6. \A u \in Tabs : tab'[u].typed = tab[u].typed /\ tab'[u].typed \in Nat
  BY <1>a, <1>0, <1>3, AnswerTypes DEF Tab
<1>7. ASSUME NEW u \in Tabs PROVE TabOK(u)'
  <2>1. TabOK(u)
    BY DEF AnswersInv
  <2>2. CASE u = t
    <3>1. PostOK(p)
      BY DEF AnswersInv
    <3>2. k < nextAnswer' /\ (t \notin mixed' => NotAheadOf(k, v)')
      BY <1>0, <1>b, <2>1, <2>2, <3>1 DEF PostOK, TabOK, NotAheadOf
    <3>3. tab'[u].id = k /\ tab'[u].version = v
      BY <1>0, <1>3, <2>2 DEF Tab
    <3> QED BY <1>0, <1>6, <2>1, <2>2, <3>2, <3>3 DEF TabOK
  <2>3. CASE u # t
    <3>1. tab'[u] = tab[u]
      BY <1>3, <2>3
    <3> QED BY <1>0, <2>1, <3>1 DEF TabOK, NotAheadOf
  <2> QED BY <2>2, <2>3
<1>8. ASSUME NEW q \in Posts PROVE PostOK(q)'
  <2>1. PostOK(q)
    BY DEF AnswersInv
  <2>2. CASE q = p
    BY <1>4, <2>2 DEF PostOK
  <2>3. CASE q # p
    <3>1. post'[q] = post[q]
      BY <1>4, <2>3
    <3>2. \A u \in Tabs : tab'[u].typed \in Nat /\ tab'[u].typed >= tab[u].typed
      BY <1>6
    <3> QED BY <1>a, <1>0, <2>1, <3>1, <3>2, PostKept
  <2> QED BY <2>2, <2>3
<1>9. (answer.id < nextAnswer)'
  BY <1>0 DEF AnswersInv
<1> QED BY <1>5, <1>7, <1>8, <1>9 DEF AnswersInv

\* Nothing but the round changes, or nothing at all.
LEMMA AnswersStill ==
    ASSUME AnswersInv, UNCHANGED <<answer, nextAnswer, media, disk, tab, post, newest, mixed>>,
           open' \in BOOLEAN
    PROVE  AnswersInv'
<1>1. AnswersTypeOK'
  BY DEF AnswersInv, AnswersTypeOK
<1>2. \A t \in Tabs : TabOK(t)'
  BY DEF AnswersInv, TabOK, NotAheadOf
<1>3. \A q \in Posts : PostOK(q)'
  BY DEF AnswersInv, PostOK, NotAheadOf, VersionMatches
<1> QED BY <1>1, <1>2, <1>3 DEF AnswersInv

\* Every step keeps what tabs and requests may know of the answer.
LEMMA AnswersNextInv == AnswersInv /\ [AnswersNext]_answerVars => AnswersInv'
<1> SUFFICES ASSUME AnswersInv, [AnswersNext]_answerVars PROVE AnswersInv'
  OBVIOUS
<1>1. CASE \E t \in Tabs : Type(t)
  BY <1>1, TypeInv
<1>2. CASE PublishRound
  BY <1>2, AnswersStill DEF PublishRound
<1>3. CASE UNCHANGED answerVars
  BY <1>3, AnswersStill DEF answerVars, AnswersInv, AnswersTypeOK
<1>4. ASSUME NEW p \in Posts, NEW t \in Tabs,
             SendText(p, t) \/ \E op \in Ops \ {"create", "autosave"}, f \in Files : SendOther(p, t, op, f)
      PROVE  AnswersInv'
  BY <1>4, SendInv
<1>5. ASSUME NEW p \in Posts, CheckPost(p) \/ CreateResponse(p) \/ AutosaveResponse(p)
      PROVE  AnswersInv'
  BY <1>5, CheckInv, CreateInv, AutosaveInv
<1>6. ASSUME NEW p \in Posts, SubmitResponse(p) \/ DeleteResponse(p) \/ Deliver(p)
      PROVE  AnswersInv'
  BY <1>6, SubmitInv, DeleteInv, DeliverInv
<1>7. ASSUME NEW p \in Posts,
             DeleteBlock(p) \/ UnlinkUpload(p) \/ ReceiveMediaUpload(p) \/ CreateBlock(p) \/ LosePost(p)
      PROVE  AnswersInv'
  BY <1>7, FilesInv
<1> QED BY <1>1, <1>2, <1>3, <1>4, <1>5, <1>6, <1>7, Zenon DEF AnswersNext

\* In every state, what tabs and requests hold is no newer than the answer.
THEOREM AnswersInvariant == AnswersSpec => []AnswersInv
<1> QED BY AnswersInitInv, AnswersNextInv, PTL DEF AnswersSpec

\* Only an autosave replaces the text of an answer that stays.
LEMMA TextByAutosave ==
    ASSUME AnswersInv, [AnswersNext]_answerVars, answer'.text # answer.text, answer'.id = answer.id
    PROVE  \E p \in Posts : AutosaveResponse(p) /\ VersionMatches(p)
<1>1. \E p \in Posts : CreateResponse(p) \/ AutosaveResponse(p) \/ SubmitResponse(p) \/ DeleteResponse(p)
  <2>1. answer' # answer
    OBVIOUS
  <2> QED BY <2>1, Zenon DEF AnswersNext, answerVars, Type, PublishRound, SendText, SendOther, CheckPost,
          DeleteBlock, UnlinkUpload, ReceiveMediaUpload, CreateBlock, Deliver, LosePost
<1>2. PICK p \in Posts : CreateResponse(p) \/ AutosaveResponse(p) \/ SubmitResponse(p) \/ DeleteResponse(p)
  BY <1>1
<1>3. AnswersTypeOK /\ answer.id < nextAnswer /\ nextAnswer \in Nat /\ answer.id \in Nat
  BY AnswersAssumption DEF AnswersInv, AnswersTypeOK
<1>4. ~CreateResponse(p)
  BY <1>3 DEF CreateResponse, Blank
<1>5. ~SubmitResponse(p)
  <2>1. answer \in [id : 0..MaxAnswers, version : Nat, draft : BOOLEAN, text : Text]
    BY <1>3 DEF AnswersTypeOK
  <2>2. ASSUME NEW d, answer' = [answer EXCEPT !.draft = d] PROVE FALSE
    BY <2>1, <2>2
  <2> QED BY <2>2, Zenon DEF SubmitResponse
<1>6. ~DeleteResponse(p)
  <2>1. post[p].id # NoAnswer \/ post[p].at # "apply" \/ post[p].op # "delete"
    BY <1>2 DEF AnswersInv, PostOK
  <2> QED BY <1>3, <2>1 DEF DeleteResponse, PostAt, Blank, NoAnswer
<1>7. AutosaveResponse(p) => VersionMatches(p)
  BY DEF AutosaveResponse
<1> QED BY <1>2, <1>4, <1>5, <1>6, <1>7

\* An autosave that was overtaken never replaces what its tab saved later, with
\* any number of tabs, of requests in flight and of answers deleted and created
\* again, as long as the tab has never taken another answer's version for its own's.
THEOREM NoTextGoesBack == AnswersSpec => AutosaveNeverGoesBack
<1>1. AnswersInv /\ [AnswersNext]_answerVars =>
         [answer'.text # answer.text /\ answer'.id = answer.id /\ answer'.text.by \notin mixed
            => answer'.text.n >= newest[answer'.text.by]]_answerVars
  <2> SUFFICES ASSUME AnswersInv, [AnswersNext]_answerVars, answer'.text # answer.text, answer'.id = answer.id,
                      answer'.text.by \notin mixed
               PROVE  answer'.text.n >= newest[answer'.text.by]
    OBVIOUS
  <2>1. PICK p \in Posts : AutosaveResponse(p) /\ VersionMatches(p)
    BY TextByAutosave
  <2>2. answer \in [id : 0..MaxAnswers, version : Nat, draft : BOOLEAN, text : Text]
    BY DEF AnswersInv, AnswersTypeOK
  <2>3. answer' = [answer EXCEPT !.text = [by |-> post[p].by, n |-> post[p].n], !.version = answer.version + 1]
    BY <2>1 DEF AutosaveResponse, VersionMatches
  <2>4. answer'.text.by = post[p].by /\ answer'.text.n = post[p].n
    BY <2>2, <2>3
  <2>5. post[p].n >= newest[post[p].by]
    BY <2>1, <2>4 DEF AnswersInv, PostOK, AutosaveResponse, PostAt
  <2> QED BY <2>4, <2>5
<1> QED BY AnswersInvariant, <1>1, PTL DEF AnswersSpec, AutosaveNeverGoesBack

-----------------------------------------------------------------------------
(* Questions.                                                              *)

Texts == Defaults \cup Bank \cup {"own words"}

\* A non-empty finite set of numbers has a greatest element: of the sets of its
\* elements from one of them on, one is the smallest.
LEMMA GreatestExists ==
    ASSUME NEW S \in SUBSET Nat, S # {}, IsFiniteSet(S)
    PROVE  \E x \in S : \A y \in S : y <= x
<1> DEFINE UpFrom(k) == {y \in S : k <= y}
           T == {UpFrom(k) : k \in S}
<1>1. T \subseteq FiniteSubsetsOf(S)
  <2> SUFFICES ASSUME NEW k \in S PROVE UpFrom(k) \in FiniteSubsetsOf(S)
    OBVIOUS
  <2>1. UpFrom(k) \in SUBSET S
    OBVIOUS
  <2>2. IsFiniteSet(UpFrom(k))
    BY <2>1, FS_Subset
  <2> QED BY <2>2 DEF FiniteSubsetsOf
<1>2. T # {}
  OBVIOUS
<1>3. PICK U \in T : \A V \in T : ~(<<V, U>> \in StrictSubsetOrdering(S))
  BY <1>1, <1>2, FS_StrictSubsetOrderingWellFounded, WFMin
<1>4. PICK x \in S : U = UpFrom(x)
  BY <1>3
<1>5. ASSUME NEW y \in S PROVE y <= x
  <2>1. SUFFICES ASSUME x < y PROVE FALSE
    OBVIOUS
  <2>2. UpFrom(y) \in T
    OBVIOUS
  <2>3. x \in Nat /\ y \in Nat /\ S \subseteq Nat
    OBVIOUS
  <2>4. (\A z \in S : y <= z => x <= z) /\ x <= x /\ ~(y <= x)
    BY <2>1, <2>3
  <2>5. UpFrom(y) \subseteq UpFrom(x) /\ x \in UpFrom(x) /\ x \notin UpFrom(y)
    BY <2>4
  <2> QED BY <1>3, <1>4, <2>2, <2>5 DEF StrictSubsetOrdering
<1> QED BY <1>5

\* A finite set is put into a sequence without repeating an element.
LEMMA SetToSeqLists ==
    ASSUME NEW S, IsFiniteSet(S)
    PROVE  /\ Cardinality(S) \in Nat
           /\ SetToSeq(S) \in [1..Cardinality(S) -> S] /\ IsInjective(SetToSeq(S))
           /\ Len(SetToSeq(S)) = Cardinality(S)
<1>1. Cardinality(S) \in Nat /\ ExistsBijection(1..Cardinality(S), S)
  BY FS_CardinalityType
<1>2. \E f \in [1..Cardinality(S) -> S] : IsInjective(f)
  BY <1>1 DEF ExistsBijection, Bijection, Injection
<1>3. SetToSeq(S) \in [1..Cardinality(S) -> S] /\ IsInjective(SetToSeq(S))
  BY <1>2 DEF SetToSeq
<1>4. Len(SetToSeq(S)) = Cardinality(S)
  BY <1>1, <1>3
<1> QED BY <1>1, <1>3, <1>4

\* What applying a function to every element of a finite set gives is not larger.
LEMMA ImageFinite ==
    ASSUME NEW S, IsFiniteSet(S), NEW f, DOMAIN f = S, NEW T, T = {f[x] : x \in S}
    PROVE  IsFiniteSet(T) /\ Cardinality(T) <= Cardinality(S) /\ Cardinality(T) \in Nat
<1>1. [x \in S |-> f[x]] \in Surjection(S, T)
  BY DEF Surjection
<1> QED BY <1>1, FS_Surjection, FS_CardinalityType

\* The rows of an insertion: one for each text, from the next id on.
LEMMA NumberedRows ==
    ASSUME NEW S \in SUBSET Texts, IsFiniteSet(S), NEW src \in Sources, NEW start \in Nat,
           MaxQuestions \in Nat, nextId \in Nat \ {0}, nextId + Cardinality(S) <= MaxQuestions + 1,
           start + Cardinality(S) <= MaxQuestions + 1
    PROVE  /\ Cardinality(S) \in Nat
           /\ Numbered(S, src, start) \subseteq Question
           /\ IsFiniteSet(Numbered(S, src, start))
           /\ Cardinality(Numbered(S, src, start)) = Cardinality(S)
           /\ \A q \in Numbered(S, src, start) : q.src = src /\ q.text \in S
           /\ \A a, b \in Numbered(S, src, start) : a # b => a.text # b.text
           /\ \A q \in Numbered(S, src, start) : nextId <= q.id /\ q.id < nextId + Cardinality(S)
           /\ \A a, b \in Numbered(S, src, start) : a.id = b.id => a = b
<1> DEFINE n == Cardinality(S)
           s == SetToSeq(S)
           f == [i \in 1..n |-> [id |-> nextId + i - 1, src |-> src, text |-> s[i], order |-> start + i - 1]]
           R == Numbered(S, src, start)
<1>1. n \in Nat /\ s \in [1..n -> S] /\ (\A i, j \in 1..n : s[i] = s[j] => i = j) /\ Len(s) = n
  BY SetToSeqLists DEF IsInjective
<1>2. R = {f[i] : i \in 1..n}
  BY <1>1 DEF Numbered
<1>3. ASSUME NEW i \in 1..n
      PROVE  /\ f[i] \in Question /\ f[i].src = src /\ f[i].text = s[i] /\ s[i] \in S
             /\ nextId <= f[i].id /\ f[i].id < nextId + n /\ f[i].id = nextId + i - 1
  <2> HIDE DEF n, s
  <2>1. s[i] \in S /\ s[i] \in Texts
    BY <1>1
  <2>2. nextId + i - 1 \in 1..MaxQuestions /\ start + i - 1 \in 0..MaxQuestions
    BY <1>1 DEF n
  <2>3. f[i] = [id |-> nextId + i - 1, src |-> src, text |-> s[i], order |-> start + i - 1]
    OBVIOUS
  <2>4. nextId <= nextId + i - 1 /\ nextId + i - 1 < nextId + n
    BY <1>1
  <2> HIDE DEF f
  <2>5. PICK k \in 1..MaxQuestions, o \in 0..MaxQuestions, tx \in Texts :
          k = nextId + i - 1 /\ o = start + i - 1 /\ tx = s[i]
    BY <2>1, <2>2
  <2>6. f[i] = [id |-> k, src |-> src, text |-> tx, order |-> o]
    BY <2>3, <2>5
  <2>7. Question = [id : 1..MaxQuestions, src : Sources, text : Texts, order : 0..MaxQuestions]
    BY DEF Question, Sources, Texts
  <2>8. f[i] \in Question /\ f[i].src = src /\ f[i].text = tx /\ f[i].id = k
    BY <2>5, <2>6, <2>7
  <2> QED BY <2>1, <2>4, <2>5, <2>8
<1>4. ASSUME NEW i \in 1..n, NEW j \in 1..n, f[i].id = f[j].id PROVE i = j
  <2>1. PICK x \in Nat, y \in Nat, m \in Nat : x = i /\ y = j /\ m = nextId
    BY <1>1
  <2>2. m + x - 1 = m + y - 1
    BY <1>4, <1>3, <2>1
  <2> QED BY <2>1, <2>2
<1>5. IsFiniteSet(R) /\ Cardinality(R) = n
  <2>1. IsFiniteSet(1..n) /\ Cardinality(1..n) = n
    BY <1>1, FS_Interval
  <2>2. DOMAIN f = 1..n /\ f = [i \in 1..n |-> f[i]]
    OBVIOUS
  <2> HIDE DEF f, n, R
  <2>3. f \in [1..n -> R] /\ IsInjective(f) /\ \A r \in R : \E i \in 1..n : f[i] = r
    BY <1>4, <1>2, <2>2 DEF IsInjective
  <2>4. f \in Bijection(1..n, R)
    BY <2>3 DEF Bijection, Injection, Surjection
  <2>5. ExistsBijection(1..n, R)
    BY <2>4 DEF ExistsBijection
  <2> QED BY <2>1, <2>5, FS_Bijection
<1>6. \A a, b \in R : a # b => a.text # b.text
  <2> SUFFICES ASSUME NEW i \in 1..n, NEW j \in 1..n, f[i].text = f[j].text PROVE f[i] = f[j]
    BY <1>2
  <2>1. i = j
    BY <1>1, <1>3
  <2> QED BY <2>1
<1>7. \A a, b \in R : a.id = b.id => a = b
  <2> SUFFICES ASSUME NEW i \in 1..n, NEW j \in 1..n, f[i].id = f[j].id PROVE f[i] = f[j]
    BY <1>2
  <2>1. i = j
    BY <1>4
  <2> QED BY <2>1
<1> HIDE DEF f, n, s, R
<1>8. R \subseteq Question /\ (\A q \in R : q.src = src /\ q.text \in S)
      /\ (\A q \in R : nextId <= q.id /\ q.id < nextId + n)
  BY <1>2, <1>3
<1> QED BY <1>1, <1>5, <1>6, <1>8, <1>7 DEF n, R

RestOK ==
    /\ curated \in BOOLEAN /\ due \in BOOLEAN /\ suggestion \in BOOLEAN
    /\ status \in {"draft", "collecting"}
    /\ enabled \subseteq Defaults /\ used \subseteq Bank
    /\ edits \in 0..MaxEdits /\ faults \in 0..MaxFaults

\* Every question has an id of its own that was given out.
RowsOK == /\ asked \subseteq Question /\ nextId \in 1..(MaxQuestions + 1)
          /\ IsFiniteSet(asked) /\ Cardinality(asked) < nextId
          /\ \A q \in asked : q.id < nextId
          /\ \A a, b \in asked : a.id = b.id => a = b

OpenersOK == /\ opener \in [Openers -> Opening] /\ disturbed \in BOOLEAN
             /\ \A o \in Openers : opener[o].listed < nextId

\* While no list was stale, openings ran one after the other, and the one that is
\* about to stitch the defaults in is right that no question is a default.
ListStillTrue ==
    ~disturbed =>
        /\ \A o, p \in Openers : ~OpenerAt(o, "idle") /\ ~OpenerAt(p, "idle") => o = p
        /\ \A o \in Openers : OpenerAt(o, "defaults") /\ ~opener[o].stitched => ~HasDefaults

\* What an opening that trusts its list knows when the round has n questions: the
\* list is no longer than that, and with what it drew from the bank long enough.
Enough(w, n) ==
    /\ w.at \in {"defaults", "select", "bank"} => w.listed <= n
    /\ w.at = "bank" => w.listed + Cardinality(w.picks) >= Target
                        \/ Cardinality(w.picks) >= Cardinality(Bank)
    /\ w.at = "transition" /\ w.picks = {} => n >= Target \/ n >= Cardinality(Bank)

OpeningsHaveEnough ==
    ~disturbed /\ ~curated => \A o \in Openers : Enough(opener[o], Cardinality(asked))

QuestionsInv == RestOK /\ RowsOK /\ OpenersOK /\ ListStillTrue /\ RetriesDoNotRepeat /\ OpeningsHaveEnough

\* The invariant holds the types.
LEMMA QuestionsInvTypes == QuestionsInv => QuestionsTypeOK
<1> QED BY DEF QuestionsInv, RestOK, RowsOK, OpenersOK, QuestionsTypeOK

\* An opening that holds no list knows nothing; what it knows stays true when
\* questions are added.
LEMMA EnoughKept ==
    /\ \A w, n : w.at \in {"idle", "read"} => Enough(w, n)
    /\ \A w \in Opening, n \in Nat, m \in Nat : Enough(w, n) /\ n <= m => Enough(w, m)
<1>1. \A w, n : w.at \in {"idle", "read"} => Enough(w, n)
  BY DEF Enough
<1>2. ASSUME NEW w \in Opening, NEW n \in Nat, NEW m \in Nat, Enough(w, n), n <= m
      PROVE  Enough(w, m)
  <2>1. w.listed \in Nat /\ Target \in Nat /\ Cardinality(Bank) \in Nat
    BY QuestionsAssumption, FS_CardinalityType DEF Opening
  <2>2. w.listed <= n => w.listed <= m
    BY <1>2, <2>1
  <2>3. (n >= Target => m >= Target) /\ (n >= Cardinality(Bank) => m >= Cardinality(Bank))
    BY <1>2, <2>1
  <2> QED BY <1>2, <2>2, <2>3 DEF Enough
<1> QED BY <1>1, <1>2

\* Numbers and records of the parts.
LEMMA NextIdNumber == ASSUME nextId \in 1..(MaxQuestions + 1) PROVE nextId \in Nat \ {0}
<1>1. MaxQuestions + 1 \in Nat
  BY QuestionsAssumption
<1> QED BY <1>1

\* The order of the numbers that positions are made of.
LEMMA LessTransitive ==
    /\ \A a, b, c \in Nat : a < b /\ b <= c => a < c
    /\ \A n, k \in Nat : n <= n + k /\ n + k \in Nat
OBVIOUS

\* What an opening holds: the length of the list it read, and bank questions.
LEMMA OpenerTypes ==
    ASSUME opener \in [Openers -> Opening], NEW o \in Openers
    PROVE  opener[o] \in Opening /\ opener[o].listed \in Nat /\ opener[o].listed \in 0..MaxQuestions
           /\ opener[o].picks \subseteq Bank
<1>1. opener[o] \in Opening
  OBVIOUS
<1>2. opener[o].listed \in 0..MaxQuestions /\ opener[o].picks \in SUBSET Bank
  BY <1>1 DEF Opening
<1> QED BY <1>1, <1>2, QuestionsAssumption

\* A round without questions.
LEMMA QuestionsInitInv == QuestionsInit => QuestionsInv
<1> SUFFICES ASSUME QuestionsInit PROVE QuestionsInv
  OBVIOUS
<1>1. RestOK
  <2>1. 0 \in 0..MaxEdits /\ 0 \in 0..MaxFaults
    BY QuestionsAssumption
  <2> QED BY <2>1, QuestionsAssumption DEF QuestionsInit, RestOK
<1>2. RowsOK
  <2>1. 1 \in 1..(MaxQuestions + 1)
    BY QuestionsAssumption
  <2>2. IsFiniteSet({}) /\ Cardinality({}) < 1
    BY FS_EmptySet
  <2> QED BY <2>1, <2>2 DEF QuestionsInit, RowsOK
<1>3. NotOpening \in Opening /\ NotOpening.listed = 0 /\ NotOpening.at = "idle"
  <2>1. 0 \in 0..MaxQuestions
    BY QuestionsAssumption
  <2> QED BY <2>1 DEF NotOpening, Opening
<1>4. OpenersOK
  BY <1>3, 0 < 1 DEF QuestionsInit, OpenersOK
<1>5. ListStillTrue
  BY <1>3 DEF QuestionsInit, ListStillTrue, OpenerAt
<1>6. RetriesDoNotRepeat
  BY DEF QuestionsInit, RetriesDoNotRepeat
<1>7. OpeningsHaveEnough
  BY <1>3, EnoughKept DEF QuestionsInit, OpeningsHaveEnough
<1> QED BY <1>1, <1>2, <1>4, <1>5, <1>6, <1>7 DEF QuestionsInv

\* Rows are added with the next ids.
LEMMA RowsGrow ==
    ASSUME RowsOK, NEW k \in Nat, NEW R \in SUBSET Question, IsFiniteSet(R), Cardinality(R) = k,
           \A q \in R : nextId <= q.id /\ q.id < nextId + k,
           \A a, b \in R : a.id = b.id => a = b,
           asked' = asked \cup R, nextId' = nextId + k, nextId + k <= MaxQuestions + 1
    PROVE  RowsOK' /\ nextId <= nextId' /\ Cardinality(asked') = Cardinality(asked) + k
<1>1. nextId \in Nat \ {0} /\ Cardinality(asked) < nextId /\ MaxQuestions \in Nat
  BY NextIdNumber, QuestionsAssumption DEF RowsOK
<1>2. \A q \in asked \cup R : q.id \in Nat
  <2>1. \A q \in asked \cup R : q.id \in 1..MaxQuestions
    BY DEF RowsOK, Question
  <2> QED BY <1>1, <2>1
<1>3. ASSUME NEW a \in asked, NEW b \in R PROVE a.id # b.id
  <2>1. a.id < nextId /\ nextId <= b.id /\ a.id \in Nat /\ b.id \in Nat
    BY <1>2 DEF RowsOK
  <2> QED BY <1>1, <2>1
<1>4. asked \cap R = {}
  BY <1>3
<1>5. /\ IsFiniteSet(asked) /\ Cardinality(asked) \in Nat /\ IsFiniteSet(asked \cup R)
      /\ Cardinality(asked \cup R) = Cardinality(asked) + k
  <2>1. /\ IsFiniteSet(asked) /\ Cardinality(asked) \in Nat /\ IsFiniteSet(asked \cup R)
        /\ Cardinality(asked \cup R) = Cardinality(asked) + Cardinality(R) - Cardinality(asked \cap R)
    BY FS_Union, FS_CardinalityType DEF RowsOK
  <2>2. Cardinality(asked \cap R) = 0
    BY <1>4, FS_EmptySet
  <2> QED BY <2>1, <2>2
<1>6. IsFiniteSet(asked') /\ Cardinality(asked') < nextId' /\ asked' \subseteq Question
      /\ nextId' \in 1..(MaxQuestions + 1) /\ nextId <= nextId'
  <2>1. Cardinality(asked) + k < nextId + k /\ nextId + k \in 1..(MaxQuestions + 1) /\ nextId <= nextId + k
    BY <1>1, <1>5
  <2> QED BY <1>5, <2>1 DEF RowsOK
<1>7. ASSUME NEW q \in asked' PROVE q.id < nextId'
  <2>1. CASE q \in asked
    <3>1. q.id < nextId /\ q.id \in Nat
      BY <1>2, <2>1 DEF RowsOK
    <3> QED BY <1>1, <3>1
  <2>2. CASE q \in R
    BY <2>2
  <2> QED BY <2>1, <2>2
<1>8. \A a, b \in asked' : a.id = b.id => a = b
  BY <1>3 DEF RowsOK
<1> QED BY <1>5, <1>6, <1>7, <1>8 DEF RowsOK

\* One insertion of questions.
LEMMA CreateGrows ==
    ASSUME RowsOK, NEW S \in SUBSET Texts, IsFiniteSet(S), NEW src \in Sources, NEW start \in Nat,
           CreateQuestions(S, src, start)
    PROVE  /\ RowsOK' /\ Cardinality(S) \in Nat /\ nextId' = nextId + Cardinality(S)
           /\ asked \subseteq asked' /\ Cardinality(asked') = Cardinality(asked) + Cardinality(S)
           /\ \A q \in asked' : q \in asked \/ (q.src = src /\ q.text \in S)
           /\ \A a, b \in asked' \ asked : a # b => a.text # b.text
<1> DEFINE R == Numbered(S, src, start)
<1>1. /\ nextId + Cardinality(S) <= MaxQuestions + 1 /\ start + Cardinality(S) <= MaxQuestions + 1
      /\ asked' = asked \cup R /\ nextId' = nextId + Cardinality(S)
  BY DEF CreateQuestions
<1>2. nextId \in Nat \ {0}
  BY NextIdNumber DEF RowsOK
<1>3. /\ Cardinality(S) \in Nat /\ R \in SUBSET Question /\ IsFiniteSet(R)
      /\ Cardinality(R) = Cardinality(S)
      /\ \A q \in R : q.src = src /\ q.text \in S
      /\ \A a, b \in R : a # b => a.text # b.text
      /\ \A q \in R : nextId <= q.id /\ q.id < nextId + Cardinality(S)
      /\ \A a, b \in R : a.id = b.id => a = b
  BY <1>1, <1>2, NumberedRows, QuestionsAssumption
<1> HIDE DEF R
<1>4. RowsOK' /\ Cardinality(asked') = Cardinality(asked) + Cardinality(S)
  BY <1>1, <1>3, RowsGrow
<1> QED BY <1>1, <1>3, <1>4

\* A question of the admin's own is one text.
LEMMA OwnWords == {"own words"} \in SUBSET Texts /\ IsFiniteSet({"own words"}) /\ Cardinality({"own words"}) = 1
<1> QED BY FS_Singleton DEF Texts

\* The position after the last question is a number.
LEMMA AfterLastNumber == ASSUME RowsOK PROVE AfterLast \in Nat /\ Cardinality(asked) \in Nat
<1>0. Cardinality(asked) \in Nat
  BY FS_CardinalityType DEF RowsOK
<1>1. CASE asked = {}
  BY <1>0, <1>1 DEF AfterLast
<1>2. CASE asked # {}
  <2> DEFINE S == {q.order : q \in asked}
             f == [q \in asked |-> q.order]
  <2>1. S \in SUBSET Nat /\ S # {}
    <3>1. ASSUME NEW q \in asked PROVE q.order \in Nat
      <4>1. q.order \in 0..MaxQuestions
        BY DEF RowsOK, Question
      <4> QED BY <4>1, QuestionsAssumption
    <3> QED BY <1>2, <3>1
  <2>2. DOMAIN f = asked /\ S = {f[q] : q \in asked} /\ IsFiniteSet(asked)
    BY DEF RowsOK
  <2>3. IsFiniteSet(S)
    <3> HIDE DEF S, f
    <3> QED BY <2>2, ImageFinite
  <2>4. \E x \in S : \A y \in S : y <= x
    <3> HIDE DEF S
    <3> QED BY <2>1, <2>3, GreatestExists
  <2>5. \E x \in S : \A q \in asked : q.order <= x
    BY <2>4
  <2>6. (CHOOSE n \in S : \A q \in asked : q.order <= n) \in S
    BY <2>5
  <2>7. AfterLast = 1 + CHOOSE n \in S : \A q \in asked : q.order <= n
    BY <1>2 DEF AfterLast
  <2>8. PICK m \in Nat : m = CHOOSE n \in S : \A q \in asked : q.order <= n
    BY <2>1, <2>6, Zenon
  <2>9. AfterLast = 1 + m
    BY <2>7, <2>8
  <2> QED BY <1>0, <2>9
<1> QED BY <1>1, <1>2

\* What is drawn from the bank is part of it: as much as is missing, or all of it.
LEMMA PicksFromBank ==
    ASSUME used \subseteq Bank, NEW need, NEW picks \in SelectRandomUnusedQuestions(need)
    PROVE  /\ picks \subseteq Bank /\ IsFiniteSet(picks)
           /\ need \in Nat => Cardinality(picks) = need \/ Cardinality(picks) = Cardinality(Bank)
<1> DEFINE unused == Bank \ used
<1>1. picks \subseteq Bank
  BY DEF SelectRandomUnusedQuestions, kSubset
<1>2. IsFiniteSet(picks) /\ IsFiniteSet(unused) /\ IsFiniteSet(used)
      /\ Cardinality(unused) \in Nat /\ Cardinality(used) \in Nat
  BY <1>1, FS_Subset, FS_CardinalityType, QuestionsAssumption
<1>3. ASSUME need \in Nat PROVE Cardinality(picks) = need \/ Cardinality(picks) = Cardinality(Bank)
  <2>1. CASE need <= Cardinality(unused)
    BY <2>1 DEF SelectRandomUnusedQuestions, kSubset
  <2>2. CASE ~(need <= Cardinality(unused))
    <3> DEFINE k == IF need <= Cardinality(Bank) THEN need - Cardinality(unused) ELSE Cardinality(used)
    <3>1. PICK S \in SUBSET used : Cardinality(S) = k /\ picks = unused \cup S
      BY <2>2 DEF SelectRandomUnusedQuestions, kSubset
    <3>2. CASE need <= Cardinality(Bank)
      <4>1. Cardinality(picks) = Cardinality(unused) + Cardinality(S) - Cardinality(unused \cap S)
        BY <1>2, <3>1, FS_Union, FS_Subset
      <4>2. unused \cap S = {}
        BY <3>1
      <4>3. Cardinality(unused \cap S) = 0
        BY <4>2, FS_EmptySet
      <4>4. Cardinality(S) = need - Cardinality(unused)
        BY <3>1, <3>2
      <4> HIDE DEF unused, k
      <4> QED BY <1>2, <1>3, <4>1, <4>3, <4>4
    <3>3. CASE ~(need <= Cardinality(Bank))
      <4>1. S = used
        BY <1>2, <3>1, <3>3, FS_Subset
      <4>2. picks = Bank
        BY <3>1, <4>1
      <4> QED BY <4>2
    <3> QED BY <3>2, <3>3
  <2> QED BY <2>1, <2>2
<1> QED BY <1>1, <1>2, <1>3

\* Some of the defaults, or of the bank, are finitely many texts.
LEMMA TextsFinite ==
    ASSUME NEW S, S \subseteq Defaults \/ S \subseteq Bank
    PROVE  S \in SUBSET Texts /\ IsFiniteSet(S) /\ Cardinality(S) \in Nat
<1>1. IsFiniteSet(S)
  BY QuestionsAssumption, FS_Subset
<1> QED BY <1>1, FS_CardinalityType DEF Texts

-----------------------------------------------------------------------------
\* A step that changes the questions and leaves the openings alone.
LEMMA AskedChanges ==
    ASSUME QuestionsInv, opener' = opener, RestOK', RowsOK', nextId <= nextId', nextId' \in Nat,
           Touch \/ (/\ disturbed' = disturbed /\ (HasDefaults' => HasDefaults)
                     /\ Cardinality(asked) <= Cardinality(asked')),
           ~curated' => ~curated,
           ~disturbed' => \A a, b \in asked' : a.src = "default" /\ b.src = "default" /\ a # b
                                                => a.text # b.text \/ a.text = "own words"
    PROVE  QuestionsInv'
<1>1. disturbed' \in BOOLEAN /\ (~disturbed' => ~disturbed)
  BY DEF Touch, QuestionsInv, OpenersOK
<1>2. OpenersOK'
  <2>1. nextId \in Nat /\ \A o \in Openers : opener[o].listed \in Nat
    BY OpenerTypes, NextIdNumber DEF QuestionsInv, RowsOK, OpenersOK
  <2>2. ASSUME NEW o \in Openers PROVE opener[o].listed < nextId'
    <3>1. opener[o].listed < nextId /\ opener[o].listed \in Nat /\ nextId \in Nat
      BY <2>1 DEF QuestionsInv, OpenersOK
    <3> QED BY <3>1, LessTransitive, Zenon
  <2> QED BY <1>1, <2>2 DEF QuestionsInv, OpenersOK
<1>3. ListStillTrue'
  <2>1. CASE Touch
    <3>1. ~disturbed' => \A o \in Openers : OpenerAt(o, "idle")'
      BY <2>1 DEF Touch, InWindow, OpenerAt
    <3> QED BY <3>1 DEF ListStillTrue, OpenerAt
  <2>2. CASE disturbed' = disturbed /\ (HasDefaults' => HasDefaults)
    BY <2>2 DEF QuestionsInv, ListStillTrue, OpenerAt
  <2> QED BY <2>1, <2>2
<1>4. RetriesDoNotRepeat'
  BY DEF RetriesDoNotRepeat
<1>5. ASSUME ~disturbed', ~curated', NEW o \in Openers PROVE Enough(opener[o], Cardinality(asked'))
  <2>1. CASE Touch
    <3>1. opener[o].at = "idle"
      BY <1>5, <2>1 DEF Touch, InWindow
    <3> QED BY <3>1 DEF Enough
  <2>2. CASE Cardinality(asked) <= Cardinality(asked')
    <3>1. Enough(opener[o], Cardinality(asked)) /\ opener[o] \in Opening
      BY <1>1, <1>5, OpenerTypes DEF QuestionsInv, OpenersOK, OpeningsHaveEnough
    <3>2. Cardinality(asked) \in Nat /\ Cardinality(asked') \in Nat
      BY FS_CardinalityType DEF QuestionsInv, RowsOK
    <3> QED BY <2>2, <3>1, <3>2, EnoughKept
  <2> QED BY <2>1, <2>2
<1>6. OpeningsHaveEnough'
  BY <1>5 DEF OpeningsHaveEnough
<1> QED BY <1>2, <1>3, <1>4, <1>6 DEF QuestionsInv

\* A step that changes neither questions nor openings.
LEMMA QuestionsStill ==
    ASSUME QuestionsInv, UNCHANGED <<asked, nextId, opener, curated, disturbed>>, RestOK'
    PROVE  QuestionsInv'
<1>1. RowsOK' /\ nextId \in Nat /\ nextId <= nextId' /\ nextId' \in Nat
  <2>1. nextId \in Nat
    BY NextIdNumber DEF QuestionsInv, RowsOK
  <2> QED BY <2>1 DEF QuestionsInv, RowsOK
<1>2. HasDefaults' => HasDefaults
  BY DEF HasDefaults
<1>3. ~disturbed' => \A a, b \in asked' : a.src = "default" /\ b.src = "default" /\ a # b
                                          => a.text # b.text \/ a.text = "own words"
  BY DEF QuestionsInv, RetriesDoNotRepeat
<1>4. opener' = opener /\ (~curated' => ~curated)
  OBVIOUS
<1>5. disturbed' = disturbed /\ (HasDefaults' => HasDefaults) /\ Cardinality(asked) <= Cardinality(asked')
  BY <1>2, FS_CardinalityType DEF QuestionsInv, RowsOK
<1> QED BY <1>1, <1>3, <1>4, <1>5, AskedChanges, Zenon

\* Preparing the draft: the defaults are stitched in unless there are some.
LEMMA PrepareGrows ==
    ASSUME QuestionsInv, PrepareDraftQuestions
    PROVE  /\ RowsOK' /\ nextId <= nextId' /\ nextId' \in Nat /\ used' \subseteq Bank
           /\ \A q \in asked' : q \in asked \/ (q.src = "bank") \/ (q.src = "default" /\ ~HasDefaults)
           /\ \A a, b \in asked' \ asked : a.src = "default" /\ b.src = "default" /\ a # b => a.text # b.text
<1> DEFINE stitched == IF HasDefaults THEN {} ELSE enabled
           c == Cardinality(stitched)
           count == Cardinality(asked) + c
<1>1. /\ RowsOK /\ enabled \subseteq Defaults /\ used \subseteq Bank /\ nextId \in Nat \ {0}
      /\ Cardinality(asked) \in Nat /\ MaxQuestions \in Nat
  BY NextIdNumber, FS_CardinalityType, QuestionsAssumption DEF QuestionsInv, RestOK, RowsOK
<1>2. stitched \in SUBSET Texts /\ IsFiniteSet(stitched) /\ c \in Nat /\ (HasDefaults => stitched = {})
  BY <1>1, TextsFinite
<1>3. PICK picks \in SelectRandomUnusedQuestions(Missing(count)) :
        /\ nextId + c + Cardinality(picks) <= MaxQuestions + 1
        /\ count + Cardinality(picks) <= MaxQuestions + 1
        /\ asked' = asked \cup Numbered(stitched, "default", Cardinality(asked))
                      \cup {[q EXCEPT !.id = @ + c] : q \in Numbered(picks, "bank", count)}
        /\ nextId' = nextId + c + Cardinality(picks)
        /\ used' = used \cup picks
  BY Zenon DEF PrepareDraftQuestions
<1> HIDE DEF stitched
<1>4. picks \subseteq Bank
  BY <1>1, <1>3, PicksFromBank
<1>5. picks \in SUBSET Texts /\ IsFiniteSet(picks) /\ Cardinality(picks) \in Nat
  BY <1>4, TextsFinite
<1> DEFINE R == Numbered(stitched, "default", Cardinality(asked))
           B == Numbered(picks, "bank", count)
           f == [q \in B |-> [q EXCEPT !.id = q.id + c]]
           M == {f[q] : q \in B}
<1>6. PICK d \in Nat, k \in Nat, n \in Nat : d = c /\ k = Cardinality(picks) /\ n = Cardinality(asked)
  BY <1>1, <1>2, <1>5
<1> HIDE DEF c
<1>7. /\ nextId + d + k <= MaxQuestions + 1 /\ n + d + k <= MaxQuestions + 1
      /\ count \in Nat /\ "default" \in Sources /\ "bank" \in Sources
      /\ nextId + d <= MaxQuestions + 1 /\ n + d <= MaxQuestions + 1
      /\ nextId + k <= MaxQuestions + 1 /\ count + k <= MaxQuestions + 1
  <2>1. count = n + d
    BY <1>6
  <2> QED BY <1>1, <1>3, <1>6, <2>1 DEF Sources
<1>8. /\ R \subseteq Question /\ IsFiniteSet(R) /\ Cardinality(R) = d
      /\ \A q \in R : q.src = "default" /\ q.text \in stitched
      /\ \A a, b \in R : a # b => a.text # b.text
      /\ \A q \in R : nextId <= q.id /\ q.id < nextId + d
      /\ \A a, b \in R : a.id = b.id => a = b
  <2>1. nextId + c <= MaxQuestions + 1 /\ Cardinality(asked) + c <= MaxQuestions + 1
    BY <1>6, <1>7
  <2> QED BY <1>1, <1>2, <1>6, <1>7, <2>1, NumberedRows DEF c
<1>9. /\ B \subseteq Question /\ IsFiniteSet(B) /\ Cardinality(B) = k
      /\ \A q \in B : q.src = "bank" /\ nextId <= q.id /\ q.id < nextId + k
      /\ \A a, b \in B : a.id = b.id => a = b
  <2>1. nextId + Cardinality(picks) <= MaxQuestions + 1 /\ count + Cardinality(picks) <= MaxQuestions + 1
    BY <1>6, <1>7
  <2> HIDE DEF count
  <2> QED BY <1>1, <1>5, <1>6, <1>7, <2>1, NumberedRows
<1> HIDE DEF R, B, count
<1>10. ASSUME NEW q \in B
      PROVE  /\ f[q] \in Question /\ f[q].src = "bank" /\ f[q].id = q.id + d
             /\ nextId + d <= f[q].id /\ f[q].id < nextId + (d + k)
  <2>1. q \in Question /\ q.src = "bank" /\ nextId <= q.id /\ q.id < nextId + k
    BY <1>9
  <2>2. q.id \in 1..MaxQuestions
    BY <2>1 DEF Question
  <2>3. q.id + d \in 1..MaxQuestions /\ nextId + d <= q.id + d /\ q.id + d < nextId + (d + k)
    BY <1>1, <1>6, <1>7, <2>1, <2>2
  <2>4. f[q] = [q EXCEPT !.id = q.id + d]
    BY <1>6
  <2>5. PICK i \in 1..MaxQuestions : i = q.id + d
    BY <2>3
  <2>6. f[q] = [q EXCEPT !.id = i]
    BY <2>4, <2>5
  <2> HIDE DEF f
  <2>7. f[q] \in Question /\ f[q].src = "bank" /\ f[q].id = i
    BY <2>1, <2>5, <2>6 DEF Question
  <2> QED BY <2>3, <2>5, <2>7
<1>11. \A a, b \in B : f[a].id = f[b].id => a = b
  <2> SUFFICES ASSUME NEW a \in B, NEW b \in B, f[a].id = f[b].id PROVE a = b
    OBVIOUS
  <2>1. a.id \in 1..MaxQuestions /\ b.id \in 1..MaxQuestions
    BY <1>9 DEF Question
  <2> HIDE DEF f
  <2>2. a.id + d = b.id + d
    BY <1>10
  <2>3. a.id = b.id
    BY <1>1, <1>6, <2>1, <2>2
  <2> QED BY <1>9, <2>3
<1>12. asked' = asked \cup (R \cup M)
  <2>1. M = {[q EXCEPT !.id = @ + c] : q \in B}
    OBVIOUS
  <2> QED BY <1>3, <2>1 DEF R, B
<1>13. M \subseteq Question /\ IsFiniteSet(M) /\ Cardinality(M) = k
  <2>1. M \subseteq Question
    BY <1>10
  <2>2. f = [q \in B |-> f[q]] /\ M = {f[q] : q \in B}
    OBVIOUS
  <2> HIDE DEF f, M
  <2>3. f \in [B -> M] /\ IsInjective(f) /\ \A r \in M : \E q \in B : f[q] = r
    BY <1>11, <2>2 DEF IsInjective
  <2>4. f \in Bijection(B, M)
    BY <2>3 DEF Bijection, Injection, Surjection
  <2>5. ExistsBijection(B, M)
    BY <2>4 DEF ExistsBijection
  <2> QED BY <1>9, <2>1, <2>5, FS_Bijection
<1>14. /\ \A q \in M : nextId + d <= q.id /\ q.id < nextId + (d + k)
       /\ \A a, b \in M : a.id = b.id => a = b
  <2> HIDE DEF f
  <2> QED BY <1>10, <1>11
<1>15. \A q \in M : q.src = "bank"
  BY <1>10
<1> HIDE DEF M
<1> HIDE DEF f
<1>16. \A q \in R \cup M : q.id \in Nat
  <2>1. \A q \in R \cup M : q.id \in 1..MaxQuestions
    BY <1>8, <1>13 DEF Question
  <2> QED BY <1>1, <2>1
<1>17. /\ \A q \in R \cup M : nextId <= q.id /\ q.id < nextId + (d + k)
       /\ \A a \in R, b \in M : a.id # b.id
  <2>1. ASSUME NEW q \in R PROVE nextId <= q.id /\ q.id < nextId + (d + k) /\ q.id < nextId + d
    <3>1. nextId <= q.id /\ q.id < nextId + d /\ q.id \in Nat
      BY <1>8, <1>16
    <3> QED BY <1>1, <1>6, <3>1
  <2>2. ASSUME NEW q \in M PROVE nextId <= q.id /\ q.id < nextId + (d + k) /\ nextId + d <= q.id
    <3>1. nextId + d <= q.id /\ q.id < nextId + (d + k) /\ q.id \in Nat
      BY <1>14, <1>16
    <3> QED BY <1>1, <1>6, <3>1
  <2>3. ASSUME NEW a \in R, NEW b \in M PROVE a.id # b.id
    <3>1. a.id < nextId + d /\ nextId + d <= b.id /\ a.id \in Nat /\ b.id \in Nat
      BY <1>16, <2>1, <2>2
    <3> QED BY <1>1, <1>6, <3>1
  <2> QED BY <2>1, <2>2, <2>3
<1>18. \A a, b \in R \cup M : a.id = b.id => a = b
  BY <1>8, <1>14, <1>17
<1>19. R \cup M \in SUBSET Question /\ IsFiniteSet(R \cup M) /\ Cardinality(R \cup M) = d + k
  <2>1. /\ IsFiniteSet(R \cup M) /\ Cardinality(R) \in Nat /\ Cardinality(M) \in Nat
        /\ Cardinality(R \cup M) = Cardinality(R) + Cardinality(M) - Cardinality(R \cap M)
    BY <1>8, <1>13, FS_Union, FS_CardinalityType
  <2>2. R \cap M = {}
    BY <1>17
  <2>3. Cardinality(R \cap M) = 0
    BY <2>2, FS_EmptySet
  <2> QED BY <1>6, <1>8, <1>13, <2>1, <2>3
<1>20. RowsOK' /\ nextId <= nextId'
  <2>1. d + k \in Nat /\ nextId' = nextId + (d + k) /\ nextId + (d + k) <= MaxQuestions + 1
    BY <1>1, <1>3, <1>6, <1>7
  <2>2. PICK m \in Nat : m = d + k
    BY <2>1
  <2>3. Cardinality(R \cup M) = m /\ nextId' = nextId + m /\ nextId + m <= MaxQuestions + 1
        /\ \A q \in R \cup M : nextId <= q.id /\ q.id < nextId + m
    BY <1>19, <1>17, <2>1, <2>2
  <2> QED BY <1>1, <1>12, <1>19, <1>18, <2>3, RowsGrow
<1>21. nextId' \in Nat /\ used' \subseteq Bank
  BY <1>1, <1>3, <1>4, <1>6
<1>22. \A q \in asked' : q \in asked \/ (q.src = "bank") \/ (q.src = "default" /\ ~HasDefaults)
  BY <1>2, <1>8, <1>12, <1>15
<1>23. \A a, b \in asked' \ asked : a.src = "default" /\ b.src = "default" /\ a # b => a.text # b.text
  BY <1>8, <1>12, <1>15
<1> QED BY <1>20, <1>21, <1>22, <1>23

\* Preparing the draft asks each default once.
LEMMA PrepareInv == ASSUME QuestionsInv, PrepareDraftQuestions PROVE QuestionsInv'
<1>1. /\ RowsOK' /\ nextId <= nextId' /\ nextId' \in Nat /\ used' \subseteq Bank
      /\ \A q \in asked' : q \in asked \/ (q.src = "bank") \/ (q.src = "default" /\ ~HasDefaults)
      /\ \A a, b \in asked' \ asked : a.src = "default" /\ b.src = "default" /\ a # b => a.text # b.text
  BY PrepareGrows
<1>2. opener' = opener /\ Touch /\ curated' = TRUE /\ UNCHANGED <<status, due, enabled, suggestion, edits, faults>>
  BY DEF PrepareDraftQuestions
<1>3. RestOK'
  BY <1>1, <1>2 DEF RestOK, QuestionsInv
<1>4. ASSUME ~disturbed', NEW a \in asked', NEW b \in asked',
             a.src = "default", b.src = "default", a # b
      PROVE  a.text # b.text \/ a.text = "own words"
  <2>1. ~disturbed
    BY <1>2, <1>4 DEF Touch, QuestionsInv, OpenersOK
  <2>2. CASE HasDefaults
    BY <1>1, <1>4, <2>1, <2>2 DEF QuestionsInv, RetriesDoNotRepeat
  <2>3. CASE ~HasDefaults
    BY <1>1, <1>4, <2>3 DEF HasDefaults
  <2> QED BY <2>2, <2>3
<1> QED BY <1>1, <1>2, <1>3, <1>4, AskedChanges

\* What members and admins add is no default.
LEMMA OwnQuestionInv ==
    ASSUME QuestionsInv, NEW src \in Sources, src # "default", NEW start \in Nat,
           CreateQuestions({"own words"}, src, start), Touch, opener' = opener, curated' = curated, RestOK'
    PROVE  QuestionsInv'
<1>1. RowsOK /\ nextId \in Nat
  BY NextIdNumber DEF QuestionsInv, RowsOK
<1>2. /\ RowsOK' /\ nextId' = nextId + 1
      /\ \A q \in asked' : q \in asked \/ q.src = src
  BY <1>1, OwnWords, CreateGrows
<1>3. nextId <= nextId' /\ nextId' \in Nat
  BY <1>1, <1>2, LessTransitive, 1 \in Nat, Zenon
<1>4. ASSUME ~disturbed', NEW a \in asked', NEW b \in asked',
             a.src = "default", b.src = "default", a # b
      PROVE  a.text # b.text \/ a.text = "own words"
  <2>1. ~disturbed
    BY <1>4 DEF Touch, QuestionsInv, OpenersOK
  <2>2. a \in asked /\ b \in asked
    BY <1>2, <1>4
  <2> QED BY <1>4, <2>1, <2>2 DEF QuestionsInv, RetriesDoNotRepeat
<1> QED BY <1>2, <1>3, <1>4, AskedChanges

\* A suggestion is one row more, at the end of the draft.
LEMMA SuggestedInv == ASSUME QuestionsInv, CreateSuggestedQuestion PROVE QuestionsInv'
<1>1. suggestion' = FALSE /\ UNCHANGED <<curated, status, due, enabled, used, opener, edits, faults>>
  BY DEF CreateSuggestedQuestion
<1>2. RestOK' /\ RowsOK
  BY <1>1 DEF RestOK, QuestionsInv
<1>3. CASE CreateQuestions({"own words"}, "friend", AfterLast) /\ Touch
  <2>1. "friend" \in Sources /\ "friend" # "default"
    BY DEF Sources
  <2> QED BY <1>1, <1>2, <1>3, <2>1, AfterLastNumber, OwnQuestionInv
<1>4. CASE UNCHANGED <<asked, nextId, disturbed>>
  BY <1>1, <1>2, <1>4, QuestionsStill
<1> QED BY <1>3, <1>4, Zenon DEF CreateSuggestedQuestion

\* The edits stay within their bound.
LEMMA EditTypes == ASSUME QuestionsInv, Edit PROVE edits' \in 0..MaxEdits
<1>1. edits \in 0..MaxEdits
  BY DEF QuestionsInv, RestOK
<1> QED BY <1>1, QuestionsAssumption DEF Edit

\* The faults stay within their bound.
LEMMA FaultTypes == ASSUME QuestionsInv, Fault PROVE faults' \in 0..MaxFaults
<1>1. faults \in 0..MaxFaults
  BY DEF QuestionsInv, RestOK
<1> QED BY <1>1, QuestionsAssumption DEF Fault

\* A question of the admin's is one row more, and no default.
LEMMA AddInv ==
    ASSUME QuestionsInv, NEW src \in Sources, NEW sortOrder \in SortOrders, AddQuestion(src, sortOrder)
    PROVE  QuestionsInv'
<1>1. /\ Edit /\ src # "default" /\ Touch
      /\ UNCHANGED <<curated, status, due, enabled, used, suggestion, opener>>
  BY DEF AddQuestion
<1>2. PICK start \in Nat : CreateQuestions({"own words"}, src, start) /\ (UNCHANGED faults \/ Fault)
  <2>1. RowsOK /\ Cardinality(asked) \in Nat /\ sortOrder \in Nat
    BY AfterLastNumber, QuestionsAssumption DEF QuestionsInv
  <2>2. CASE /\ CreateQuestions({"own words"}, src, IF sortOrder > 0 THEN sortOrder ELSE Cardinality(asked))
             /\ UNCHANGED faults
    BY <2>1, <2>2
  <2>3. CASE sortOrder = 0 /\ Fault /\ CreateQuestions({"own words"}, src, 0)
    BY <2>3
  <2> QED BY <2>2, <2>3, Zenon DEF AddQuestion
<1>3. RestOK'
  <2>1. RestOK /\ edits' \in 0..MaxEdits /\ faults' \in 0..MaxFaults
    BY <1>1, <1>2, EditTypes, FaultTypes DEF QuestionsInv, RestOK
  <2> QED BY <1>1, <2>1 DEF RestOK
<1>4. opener' = opener /\ curated' = curated
  BY <1>1
<1> QED BY <1>1, <1>2, <1>3, <1>4, OwnQuestionInv

\* An edit replaces a row by one with the same id and source and a text of its own.
LEMMA EditInv == ASSUME QuestionsInv, NEW q \in asked, EditQuestion(q) PROVE QuestionsInv'
<1> DEFINE e == [q EXCEPT !.text = "own words"]
<1>1. /\ RowsOK /\ Edit /\ asked' = (asked \ {q}) \cup {e}
      /\ nextId' = nextId /\ curated' = curated /\ status' = status /\ due' = due
      /\ enabled' = enabled /\ used' = used /\ suggestion' = suggestion /\ opener' = opener
      /\ disturbed' = disturbed /\ faults' = faults
  BY DEF EditQuestion, QuestionsInv
<1>2. e \in Question /\ e.src = q.src /\ e.text = "own words" /\ e.id = q.id
  BY <1>1 DEF RowsOK, Question
<1>3. RestOK'
  BY <1>1, EditTypes DEF RestOK, QuestionsInv
<1> HIDE DEF e
<1>4. IsFiniteSet(asked \ {q}) /\ Cardinality(asked \ {q}) = Cardinality(asked) - 1
      /\ Cardinality(asked) \in Nat
  BY <1>1, FS_RemoveElement, FS_CardinalityType DEF RowsOK
<1>5. \A r \in asked \ {q} : r.id # e.id
  BY <1>1, <1>2 DEF RowsOK
<1>6. IsFiniteSet(asked') /\ Cardinality(asked') = Cardinality(asked)
  <2>1. e \notin asked \ {q}
    BY <1>5
  <2>2. IsFiniteSet(asked') /\ Cardinality(asked') = Cardinality(asked \ {q}) + 1
    BY <1>1, <1>4, <2>1, FS_AddElement
  <2> QED BY <1>4, <2>2
<1>7. nextId \in Nat
  BY <1>1, NextIdNumber DEF RowsOK
<1>8. RowsOK' /\ nextId <= nextId' /\ nextId' \in Nat /\ Cardinality(asked) <= Cardinality(asked')
  <2>1. Cardinality(asked') < nextId'
    BY <1>1, <1>6 DEF RowsOK
  <2>2. asked' \subseteq Question
    BY <1>1, <1>2 DEF RowsOK
  <2>3. \A r \in asked' : r.id < nextId'
    BY <1>1, <1>2 DEF RowsOK
  <2>4. \A a, b \in asked' : a.id = b.id => a = b
    BY <1>1, <1>5 DEF RowsOK
  <2>5. Cardinality(asked) <= Cardinality(asked')
    BY <1>4, <1>6
  <2> QED BY <1>1, <1>6, <1>7, <2>1, <2>2, <2>3, <2>4, <2>5 DEF RowsOK
<1>9. HasDefaults' => HasDefaults
  BY <1>1, <1>2 DEF HasDefaults
<1>10. ASSUME ~disturbed', NEW a \in asked', NEW b \in asked',
             a.src = "default", b.src = "default", a # b
      PROVE  a.text # b.text \/ a.text = "own words"
  <2>1. CASE a = e \/ b = e
    BY <1>2, <2>1
  <2>2. CASE a # e /\ b # e
    BY <1>1, <1>10, <2>2 DEF QuestionsInv, RetriesDoNotRepeat
  <2> QED BY <2>1, <2>2
<1> QED BY <1>1, <1>3, <1>8, <1>9, <1>10, AskedChanges

\* A deleted question takes no other with it.
LEMMA DeleteQuestionInv == ASSUME QuestionsInv, NEW q \in asked, DeleteQuestion(q) PROVE QuestionsInv'
<1>0. /\ RowsOK /\ Edit /\ Touch /\ asked' = asked \ {q}
      /\ nextId' = nextId /\ curated' = curated /\ status' = status /\ due' = due
      /\ enabled' = enabled /\ used' = used /\ suggestion' = suggestion /\ opener' = opener
      /\ faults' = faults
  BY DEF DeleteQuestion, QuestionsInv
<1>1. RestOK'
  BY <1>0, EditTypes DEF RestOK, QuestionsInv
<1>2. IsFiniteSet(asked') /\ Cardinality(asked') = Cardinality(asked) - 1 /\ Cardinality(asked) \in Nat
  BY <1>0, FS_RemoveElement, FS_CardinalityType DEF RowsOK
<1>3. nextId \in Nat
  BY <1>0, NextIdNumber DEF RowsOK
<1>4. RowsOK' /\ nextId <= nextId' /\ nextId' \in Nat
  <2>1. Cardinality(asked') < nextId'
    BY <1>0, <1>2, <1>3 DEF RowsOK
  <2>2. asked' \subseteq Question /\ (\A r \in asked' : r.id < nextId')
        /\ \A a, b \in asked' : a.id = b.id => a = b
    BY <1>0 DEF RowsOK
  <2> QED BY <1>0, <1>2, <1>3, <2>1, <2>2 DEF RowsOK
<1>5. ASSUME ~disturbed', NEW a \in asked', NEW b \in asked',
             a.src = "default", b.src = "default", a # b
      PROVE  a.text # b.text \/ a.text = "own words"
  <2>1. ~disturbed
    BY <1>0, <1>5 DEF Touch, QuestionsInv, OpenersOK
  <2> QED BY <1>0, <1>5, <2>1 DEF QuestionsInv, RetriesDoNotRepeat
<1> QED BY <1>0, <1>1, <1>4, <1>5, AskedChanges

\* Reordering gives every row another sort_order and nothing else.
LEMMA ReorderInv ==
    ASSUME QuestionsInv, NEW ids \in SetToSeqs({q.id : q \in asked}), ReorderQuestions(ids)
    PROVE  QuestionsInv'
<1> DEFINE S == {q.id : q \in asked}
           place(q) == CHOOSE i \in DOMAIN ids : ids[i] = q.id
           f == [q \in asked |-> [q EXCEPT !.order = place(q) - 1]]
<1>1. /\ RowsOK /\ Edit /\ asked' = {[q EXCEPT !.order = place(q) - 1] : q \in asked}
      /\ ToSet(ids) = S
      /\ nextId' = nextId /\ curated' = curated /\ status' = status /\ due' = due
      /\ enabled' = enabled /\ used' = used /\ suggestion' = suggestion /\ opener' = opener
      /\ disturbed' = disturbed /\ faults' = faults
  BY DEF ReorderQuestions, QuestionsInv
<1>2. RestOK'
  BY <1>1, EditTypes DEF RestOK, QuestionsInv
<1>3. DOMAIN ids = 1..Cardinality(S)
  BY DEF SetToSeqs
<1>4. Cardinality(S) \in 0..MaxQuestions
  <2>1. S \in SUBSET (1..MaxQuestions)
    BY <1>1 DEF RowsOK, Question
  <2>2. IsFiniteSet(1..MaxQuestions) /\ Cardinality(1..MaxQuestions) = MaxQuestions
    BY QuestionsAssumption, FS_Interval
  <2>3. IsFiniteSet(S) /\ Cardinality(S) <= Cardinality(1..MaxQuestions)
    <3> HIDE DEF S
    <3> QED BY <2>1, <2>2, FS_Subset
  <2>4. Cardinality(S) \in Nat
    BY <2>3, FS_CardinalityType
  <2> HIDE DEF S
  <2> QED BY <2>2, <2>3, <2>4, QuestionsAssumption
<1>5. ASSUME NEW q \in asked PROVE place(q) - 1 \in 0..MaxQuestions
  <2>1. q.id \in ToSet(ids)
    BY <1>1
  <2>2. \E i \in DOMAIN ids : ids[i] = q.id
    BY <2>1 DEF ToSet
  <2>3. place(q) \in DOMAIN ids
    BY <2>2
  <2> HIDE DEF place, S
  <2>4. PICK c \in 0..MaxQuestions : c = Cardinality(S)
    BY <1>4
  <2>5. place(q) \in 1..c
    BY <1>3, <2>3, <2>4
  <2>6. PICK i \in 1..c : i = place(q)
    BY <2>5
  <2>7. i - 1 \in 0..MaxQuestions
    BY <2>4, <2>6, QuestionsAssumption
  <2> QED BY <2>6, <2>7
<1>6. ASSUME NEW q \in asked
      PROVE  f[q] \in Question /\ f[q].src = q.src /\ f[q].text = q.text /\ f[q].id = q.id
  <2>1. PICK k \in 0..MaxQuestions : k = place(q) - 1
    BY <1>5
  <2>2. f[q] = [q EXCEPT !.order = k]
    BY <2>1
  <2>3. q \in Question
    BY <1>1 DEF RowsOK
  <2>4. [q EXCEPT !.order = k] \in Question /\ [q EXCEPT !.order = k].src = q.src
        /\ [q EXCEPT !.order = k].text = q.text /\ [q EXCEPT !.order = k].id = q.id
    BY <2>1, <2>3 DEF Question
  <2> HIDE DEF f
  <2> QED BY <2>2, <2>4
<1>7. asked' = {f[q] : q \in asked} /\ DOMAIN f = asked /\ f = [q \in asked |-> f[q]]
  BY <1>1
<1> HIDE DEF f
<1>8. \A a, b \in asked : f[a].id = f[b].id => a = b
  BY <1>1, <1>6 DEF RowsOK
<1>9. IsFiniteSet(asked') /\ Cardinality(asked') = Cardinality(asked)
  <2>1. f \in [asked -> asked'] /\ IsInjective(f) /\ \A r \in asked' : \E q \in asked : f[q] = r
    BY <1>7, <1>8 DEF IsInjective
  <2>2. f \in Bijection(asked, asked')
    BY <2>1 DEF Bijection, Injection, Surjection
  <2>3. ExistsBijection(asked, asked')
    BY <2>2 DEF ExistsBijection
  <2> QED BY <1>1, <2>3, FS_Bijection DEF RowsOK
<1>10. nextId \in Nat /\ Cardinality(asked) \in Nat
  BY <1>1, NextIdNumber, FS_CardinalityType DEF RowsOK
<1>11. RowsOK' /\ nextId <= nextId' /\ nextId' \in Nat /\ Cardinality(asked) <= Cardinality(asked')
  <2>1. Cardinality(asked') < nextId'
    BY <1>1, <1>9 DEF RowsOK
  <2>2. asked' \subseteq Question
    BY <1>6, <1>7
  <2>3. \A r \in asked' : r.id < nextId'
    BY <1>1, <1>6, <1>7 DEF RowsOK
  <2>4. \A a, b \in asked' : a.id = b.id => a = b
    BY <1>6, <1>7, <1>8
  <2>5. Cardinality(asked) <= Cardinality(asked')
    BY <1>9, <1>10
  <2> QED BY <1>1, <1>9, <1>10, <2>1, <2>2, <2>3, <2>4, <2>5 DEF RowsOK
<1>12. HasDefaults' => HasDefaults
  BY <1>6, <1>7 DEF HasDefaults
<1>13. ASSUME ~disturbed', NEW a \in asked', NEW b \in asked',
              a.src = "default", b.src = "default", a # b
       PROVE  a.text # b.text \/ a.text = "own words"
  <2>1. PICK x \in asked, y \in asked : a = f[x] /\ b = f[y]
    BY <1>7
  <2>2. x # y /\ x.src = "default" /\ y.src = "default" /\ a.text = x.text /\ b.text = y.text
    BY <1>6, <1>13, <2>1
  <2> QED BY <1>1, <1>13, <2>1, <2>2 DEF QuestionsInv, RetriesDoNotRepeat
<1> QED BY <1>1, <1>2, <1>11, <1>12, <1>13, AskedChanges

\* Requests, switches and the clock leave questions and openings alone.
LEMMA SwitchInv ==
    ASSUME QuestionsInv,
           \/ FriendSubmits \/ OpensAt
           \/ \E d \in Defaults : UpdateDefaultQuestion(d)
           \/ \E on \in BOOLEAN : SetAllDefaultQuestionsEnabled(on)
           \/ UNCHANGED questionVars
    PROVE  QuestionsInv'
<1>0. RestOK
  BY DEF QuestionsInv
<1>1. CASE FriendSubmits
  <2>1. RestOK'
    BY <1>0, <1>1 DEF FriendSubmits, RestOK
  <2> QED BY <1>1, <2>1, QuestionsStill DEF FriendSubmits
<1>2. CASE OpensAt
  <2>1. RestOK'
    BY <1>0, <1>2 DEF OpensAt, RestOK
  <2> QED BY <1>2, <2>1, QuestionsStill DEF OpensAt
<1>3. ASSUME NEW d \in Defaults, UpdateDefaultQuestion(d) PROVE QuestionsInv'
  <2>1. edits' \in 0..MaxEdits
    BY <1>3, EditTypes DEF UpdateDefaultQuestion
  <2>2. RestOK'
    BY <1>0, <1>3, <2>1 DEF UpdateDefaultQuestion, RestOK
  <2> QED BY <1>3, <2>2, QuestionsStill DEF UpdateDefaultQuestion
<1>4. ASSUME NEW on \in BOOLEAN, SetAllDefaultQuestionsEnabled(on) PROVE QuestionsInv'
  <2>1. edits' \in 0..MaxEdits
    BY <1>4, EditTypes DEF SetAllDefaultQuestionsEnabled
  <2>2. RestOK'
    BY <1>0, <1>4, <2>1 DEF SetAllDefaultQuestionsEnabled, RestOK
  <2> QED BY <1>4, <2>2, QuestionsStill DEF SetAllDefaultQuestionsEnabled
<1>5. CASE UNCHANGED questionVars
  <2>1. RestOK'
    BY <1>0, <1>5 DEF questionVars, RestOK
  <2> QED BY <1>5, <2>1, QuestionsStill DEF questionVars
<1> QED BY <1>1, <1>2, <1>3, <1>4, <1>5

\* A step of one opening.
LEMMA OpenerMoves ==
    ASSUME QuestionsInv, NEW o \in Openers, NEW x \in Opening, opener' = [opener EXCEPT ![o] = x],
           x.listed < nextId', RestOK', RowsOK', nextId <= nextId', nextId' \in Nat,
           disturbed' \in BOOLEAN, ~disturbed' => ~disturbed,
           ~disturbed' /\ x.at # "idle" /\ opener[o].at = "idle" => \A p \in Openers : opener[p].at = "idle",
           ~disturbed' /\ x.at = "defaults" /\ ~x.stitched => ~HasDefaults',
           HasDefaults' => HasDefaults \/ opener[o].at # "idle",
           ~curated' => ~curated, Cardinality(asked) <= Cardinality(asked'),
           ~disturbed' /\ ~curated' => Enough(x, Cardinality(asked')),
           ~disturbed' => \A a, b \in asked' : a.src = "default" /\ b.src = "default" /\ a # b
                                                => a.text # b.text \/ a.text = "own words"
    PROVE  QuestionsInv'
<1>0. opener \in [Openers -> Opening] /\ nextId \in Nat /\ ListStillTrue
      /\ \A p \in Openers : opener[p].listed < nextId /\ opener[p].listed \in Nat
  BY NextIdNumber, OpenerTypes DEF QuestionsInv, OpenersOK, RowsOK
<1>1. opener' \in [Openers -> Opening] /\ opener'[o] = x /\ \A p \in Openers \ {o} : opener'[p] = opener[p]
  BY <1>0
<1>2. OpenersOK'
  <2>1. ASSUME NEW p \in Openers PROVE opener'[p].listed < nextId'
    <3>1. CASE p = o
      BY <1>1, <3>1
    <3>2. CASE p # o
      <4>1. opener'[p] = opener[p]
        BY <1>1, <3>2
      <4> QED BY <1>0, <4>1, LessTransitive, Zenon
    <3> QED BY <3>1, <3>2
  <2> QED BY <1>1, <2>1 DEF OpenersOK
<1>3. ASSUME ~disturbed', NEW p \in Openers, NEW q \in Openers, opener'[p].at # "idle", opener'[q].at # "idle"
      PROVE  p = q
  <2>1. \A a, b \in Openers : opener[a].at # "idle" /\ opener[b].at # "idle" => a = b
    BY <1>0, <1>3 DEF ListStillTrue, OpenerAt
  <2>2. opener[o].at # "idle" \/ x.at = "idle" \/ \A a \in Openers : opener[a].at = "idle"
    BY <1>3
  <2> QED BY <1>1, <1>3, <2>1, <2>2
<1>4. ASSUME ~disturbed', NEW p \in Openers, opener'[p].at = "defaults", ~opener'[p].stitched
      PROVE  ~HasDefaults'
  <2>1. CASE p = o
    BY <1>1, <1>4, <2>1
  <2>2. CASE p # o
    <3>1. opener[p].at = "defaults" /\ ~opener[p].stitched
      BY <1>1, <1>4, <2>2
    <3>2. ~HasDefaults
      BY <1>0, <1>4, <3>1 DEF ListStillTrue, OpenerAt
    <3>3. opener[o].at = "idle"
      BY <1>0, <1>4, <2>2, <3>1 DEF ListStillTrue, OpenerAt
    <3> QED BY <3>2, <3>3
  <2> QED BY <2>1, <2>2
<1>5. ListStillTrue'
  BY <1>3, <1>4 DEF ListStillTrue, OpenerAt
<1>6. RetriesDoNotRepeat'
  BY DEF RetriesDoNotRepeat
<1>7. ASSUME ~disturbed', ~curated', NEW p \in Openers PROVE Enough(opener'[p], Cardinality(asked'))
  <2>1. CASE p = o
    BY <1>1, <1>7, <2>1
  <2>2. CASE p # o
    <3>1. opener'[p] = opener[p] /\ opener[p] \in Opening
      BY <1>0, <1>1, <2>2
    <3>2. Enough(opener[p], Cardinality(asked))
      BY <1>7 DEF QuestionsInv, OpeningsHaveEnough
    <3>3. Cardinality(asked) \in Nat /\ Cardinality(asked') \in Nat
      BY FS_CardinalityType DEF QuestionsInv, RowsOK
    <3>4. Enough(opener[p], Cardinality(asked'))
      BY <3>1, <3>2, <3>3, EnoughKept
    <3> QED BY <3>1, <3>4
  <2> QED BY <2>1, <2>2
<1>8. OpeningsHaveEnough'
  BY <1>7 DEF OpeningsHaveEnough
<1> QED BY <1>2, <1>5, <1>6, <1>8 DEF QuestionsInv

\* A step of one opening that leaves the questions alone.
LEMMA OpenerOnly ==
    ASSUME QuestionsInv, NEW o \in Openers, NEW x \in Opening, opener' = [opener EXCEPT ![o] = x],
           x.listed < nextId, RestOK', asked' = asked, nextId' = nextId,
           disturbed' \in BOOLEAN, ~disturbed' => ~disturbed,
           ~disturbed' /\ x.at # "idle" /\ opener[o].at = "idle" => \A p \in Openers : opener[p].at = "idle",
           ~disturbed' /\ x.at = "defaults" /\ ~x.stitched => ~HasDefaults,
           curated' = curated, ~disturbed' /\ ~curated => Enough(x, Cardinality(asked))
    PROVE  QuestionsInv'
<1>1. nextId \in Nat
  BY NextIdNumber DEF QuestionsInv, RowsOK
<1>2. RowsOK' /\ nextId <= nextId' /\ nextId' \in Nat /\ x.listed < nextId'
  BY <1>1 DEF QuestionsInv, RowsOK
<1>3. HasDefaults' <=> HasDefaults
  BY DEF HasDefaults
<1>4. ~disturbed' => \A a, b \in asked' : a.src = "default" /\ b.src = "default" /\ a # b
                                          => a.text # b.text \/ a.text = "own words"
  BY DEF QuestionsInv, RetriesDoNotRepeat
<1>5. Cardinality(asked) <= Cardinality(asked') /\ (~curated' => ~curated)
      /\ (~disturbed' /\ ~curated' => Enough(x, Cardinality(asked')))
  <2>1. Cardinality(asked) \in Nat
    BY FS_CardinalityType DEF QuestionsInv, RowsOK
  <2> QED BY <2>1
<1> QED BY <1>2, <1>3, <1>4, <1>5, OpenerMoves

\* What an opening holds, and that the bounds are numbers.
LEMMA OpenerFacts ==
    ASSUME QuestionsInv, NEW o \in Openers
    PROVE  /\ RestOK /\ RowsOK /\ opener \in [Openers -> Opening] /\ opener[o] \in Opening
           /\ opener[o].listed < nextId /\ opener[o].listed \in Nat /\ disturbed \in BOOLEAN
           /\ opener[o].picks \subseteq Bank
           /\ nextId \in Nat \ {0} /\ MaxQuestions \in Nat
           /\ NotOpening \in Opening /\ NotOpening.at = "idle" /\ NotOpening.listed < nextId
           /\ Cardinality(asked) \in Nat
           /\ ~disturbed /\ ~curated => Enough(opener[o], Cardinality(asked))
<1>1. /\ RestOK /\ RowsOK /\ opener \in [Openers -> Opening] /\ opener[o].listed < nextId
      /\ disturbed \in BOOLEAN
  BY DEF QuestionsInv, OpenersOK
<1>2. nextId \in Nat \ {0}
  BY <1>1, NextIdNumber DEF RowsOK
<1>3. NotOpening \in Opening /\ NotOpening.at = "idle" /\ NotOpening.listed = 0
  <2>1. 0 \in 0..MaxQuestions
    BY QuestionsAssumption
  <2> QED BY <2>1 DEF NotOpening, Opening
<1>4. NotOpening.listed < nextId
  BY <1>2, <1>3
<1>5. /\ Cardinality(asked) \in Nat
      /\ ~disturbed /\ ~curated => Enough(opener[o], Cardinality(asked))
  BY <1>1, FS_CardinalityType DEF QuestionsInv, RowsOK, OpeningsHaveEnough
<1> QED BY <1>1, <1>2, <1>3, <1>4, <1>5, OpenerTypes, QuestionsAssumption

\* An opening reads the round and holds no list yet.
LEMMA ReadInv == ASSUME QuestionsInv, NEW o \in Openers, ReadFreshIssue(o) PROVE QuestionsInv'
<1>1. PICK at \in {"transition", "read"} :
        opener' = [opener EXCEPT ![o].at = at] /\ (~curated => at = "read")
  BY DEF ReadFreshIssue, OpenerGoes
<1>2. opener' = [opener EXCEPT ![o] = [opener[o] EXCEPT !.at = at]]
  BY <1>1, OpenerFacts
<1>3. PICK x \in Opening : x = [opener[o] EXCEPT !.at = at]
  BY <1>1, OpenerFacts DEF Opening
<1>4. x.at = at /\ x.listed = opener[o].listed
  BY <1>3, OpenerFacts DEF Opening
<1>5. /\ asked' = asked /\ nextId' = nextId /\ curated' = curated /\ status' = status /\ due' = due
      /\ enabled' = enabled /\ used' = used /\ suggestion' = suggestion /\ edits' = edits
      /\ faults' = faults /\ disturbed' = (disturbed \/ InWindow)
  BY DEF ReadFreshIssue
<1>6. RestOK'
  BY <1>5, OpenerFacts DEF RestOK
<1>7. disturbed' \in BOOLEAN /\ (~disturbed' => ~disturbed) /\ (~disturbed' => \A p \in Openers : opener[p].at = "idle")
  BY <1>5, OpenerFacts DEF InWindow
<1>8. x.at # "defaults"
  BY <1>1, <1>4
<1>9. opener' = [opener EXCEPT ![o] = x] /\ x.listed < nextId
  BY <1>2, <1>3, <1>4, OpenerFacts
<1>10. ~curated => Enough(x, Cardinality(asked))
  BY <1>1, <1>4 DEF Enough
<1> QED BY <1>3, <1>5, <1>6, <1>7, <1>8, <1>9, <1>10, OpenerOnly

\* An opening sees whether some question is a default when it reads the list.
LEMMA ListInv == ASSUME QuestionsInv, NEW o \in Openers, ListQuestions(o) PROVE QuestionsInv'
<1>0. /\ opener[o].at = "read"
      /\ asked' = asked /\ nextId' = nextId /\ curated' = curated /\ status' = status /\ due' = due
      /\ enabled' = enabled /\ used' = used /\ suggestion' = suggestion /\ edits' = edits
  BY DEF ListQuestions, OpenerAt
<1>1. CASE /\ opener' = [opener EXCEPT ![o] = [at |-> "defaults", listed |-> Cardinality(asked),
                                               stitched |-> Stitched, picks |-> {}]]
           /\ UNCHANGED <<disturbed, faults>>
  <2>1. Cardinality(asked) \in 0..MaxQuestions /\ Cardinality(asked) < nextId
    <3>1. Cardinality(asked) \in Nat /\ Cardinality(asked) < nextId /\ nextId \in 1..(MaxQuestions + 1)
      BY OpenerFacts, FS_CardinalityType DEF RowsOK
    <3> QED BY <3>1, OpenerFacts
  <2>2. PICK k \in 0..MaxQuestions, s \in BOOLEAN : k = Cardinality(asked) /\ s = Stitched
    <3>1. Stitched \in BOOLEAN
      BY DEF Stitched, HasDefaults
    <3> QED BY <2>1, <3>1
  <2>3. PICK x \in Opening : x = [at |-> "defaults", listed |-> k, stitched |-> s, picks |-> {}]
    BY <2>2 DEF Opening
  <2>4. opener' = [opener EXCEPT ![o] = x]
    BY <1>1, <2>2, <2>3
  <2>5. /\ x.at = "defaults" /\ x.listed < nextId /\ (~x.stitched => ~HasDefaults)
        /\ Enough(x, Cardinality(asked))
    <3>1. x.at = "defaults" /\ x.listed = k /\ x.stitched = s
      BY <2>3
    <3>2. x.listed <= Cardinality(asked)
      BY <2>2, <3>1, OpenerFacts
    <3> QED BY <2>1, <2>2, <3>1, <3>2 DEF Stitched, Enough
  <2>6. RestOK'
    BY <1>0, <1>1, OpenerFacts DEF RestOK
  <2>7. disturbed' \in BOOLEAN /\ disturbed' = disturbed
    BY <1>1, OpenerFacts
  <2> QED BY <1>0, <2>3, <2>4, <2>5, <2>6, <2>7, OpenerOnly
<1>2. CASE /\ Fault /\ opener' = [opener EXCEPT ![o].at = "defaults"] /\ disturbed' = TRUE
  <2>1. opener' = [opener EXCEPT ![o] = [opener[o] EXCEPT !.at = "defaults"]]
    BY <1>2, OpenerFacts
  <2>2. PICK x \in Opening : x = [opener[o] EXCEPT !.at = "defaults"]
    BY OpenerFacts DEF Opening
  <2>3. x.listed = opener[o].listed
    BY <2>2, OpenerFacts DEF Opening
  <2>4. faults' \in 0..MaxFaults
    BY <1>2, FaultTypes
  <2>5. RestOK'
    BY <1>0, <2>4, OpenerFacts DEF RestOK
  <2>6. opener' = [opener EXCEPT ![o] = x] /\ x.listed < nextId
    BY <2>1, <2>2, <2>3, OpenerFacts
  <2> QED BY <1>0, <1>2, <2>2, <2>5, <2>6, OpenerOnly
<1> QED BY <1>1, <1>2, Zenon DEF ListQuestions

\* An opening draws from the bank what the round does not ask yet, or nothing.
LEMMA SelectInv == ASSUME QuestionsInv, NEW o \in Openers, SelectBank(o) PROVE QuestionsInv'
<1>0. /\ opener[o].at = "select"
      /\ asked' = asked /\ nextId' = nextId /\ curated' = curated /\ status' = status /\ due' = due
      /\ enabled' = enabled /\ used' = used /\ suggestion' = suggestion /\ edits' = edits
  BY DEF SelectBank, OpenerAt
<1>1. PICK picks \in SUBSET Bank :
        /\ opener' = [opener EXCEPT ![o].at = "bank", ![o].picks = picks]
        /\ \/ /\ picks \in SelectRandomUnusedQuestions(Missing(opener[o].listed))
              /\ UNCHANGED <<disturbed, faults>>
           \/ Fault /\ disturbed' = TRUE
  <2>1. CASE /\ \E picks \in SelectRandomUnusedQuestions(Missing(opener[o].listed)) :
                   opener' = [opener EXCEPT ![o].at = "bank", ![o].picks = picks]
             /\ UNCHANGED <<disturbed, faults>>
    <3>1. used \subseteq Bank
      BY OpenerFacts DEF RestOK
    <3> QED BY <2>1, <3>1, PicksFromBank
  <2>2. CASE /\ Fault /\ disturbed' = TRUE
             /\ opener' = [opener EXCEPT ![o].at = "bank", ![o].picks = {}]
    <3>1. PICK none \in SUBSET Bank : none = {}
      OBVIOUS
    <3>2. opener' = [opener EXCEPT ![o].at = "bank", ![o].picks = none]
      BY <2>2, <3>1
    <3> QED BY <2>2, <3>2, Zenon
  <2> QED BY <2>1, <2>2, Zenon DEF SelectBank
<1>2. opener' = [opener EXCEPT ![o] = [opener[o] EXCEPT !.at = "bank", !.picks = picks]]
  BY <1>1, OpenerFacts
<1>3. PICK x \in Opening : x = [opener[o] EXCEPT !.at = "bank", !.picks = picks]
  BY <1>1, OpenerFacts DEF Opening
<1>4. x.at = "bank" /\ x.listed = opener[o].listed /\ x.picks = picks
  BY <1>3, OpenerFacts DEF Opening
<1>5. RestOK' /\ disturbed' \in BOOLEAN /\ (~disturbed' => ~disturbed)
  <2>1. faults' = faults \/ Fault
    BY <1>1, Zenon
  <2>2. faults' \in 0..MaxFaults
    <3>1. faults \in 0..MaxFaults
      BY DEF QuestionsInv, RestOK
    <3> QED BY <2>1, <3>1, FaultTypes
  <2>3. RestOK'
    BY <1>0, <2>2, OpenerFacts DEF RestOK
  <2>4. CASE disturbed' = disturbed
    BY <2>3, <2>4, OpenerFacts
  <2>5. CASE disturbed' = TRUE
    BY <2>3, <2>5
  <2> QED BY <1>1, <2>4, <2>5, Zenon
<1>6. opener' = [opener EXCEPT ![o] = x] /\ x.listed < nextId
  BY <1>2, <1>3, <1>4, OpenerFacts
<1>7. ASSUME ~disturbed', ~curated PROVE Enough(x, Cardinality(asked))
  <2>1. x.listed <= Cardinality(asked)
    BY <1>0, <1>4, <1>5, <1>7, OpenerFacts DEF Enough
  <2>2. picks \in SelectRandomUnusedQuestions(Missing(opener[o].listed)) /\ used \subseteq Bank
    BY <1>1, <1>7, OpenerFacts DEF RestOK
  <2>3. /\ x.listed \in Nat /\ Target \in Nat /\ Cardinality(Bank) \in Nat
        /\ Missing(x.listed) \in Nat /\ x.listed + Missing(x.listed) >= Target
    BY <1>4, OpenerFacts, QuestionsAssumption, FS_CardinalityType DEF Missing
  <2>4. Cardinality(picks) = Missing(x.listed) \/ Cardinality(picks) = Cardinality(Bank)
    BY <1>4, <2>2, <2>3, PicksFromBank
  <2>5. x.listed + Cardinality(picks) >= Target \/ Cardinality(picks) >= Cardinality(Bank)
    BY <2>3, <2>4
  <2> QED BY <1>4, <2>1, <2>5 DEF Enough
<1> QED BY <1>0, <1>3, <1>4, <1>5, <1>6, <1>7, OpenerOnly

\* The opening is over, has failed or was cut off.
LEMMA ClosingInv ==
    ASSUME QuestionsInv, NEW o \in Openers, Transition(o) \/ OpeningFails(o) PROVE QuestionsInv'
<1>1. /\ opener' = [opener EXCEPT ![o] = NotOpening] /\ disturbed' = disturbed
      /\ asked' = asked /\ nextId' = nextId /\ curated' = curated
  BY DEF Transition, OpeningFails
<1>2. RestOK'
  <2>1. CASE Transition(o)
    BY <2>1, OpenerFacts DEF Transition, RestOK
  <2>2. CASE OpeningFails(o)
    <3>1. faults' \in 0..MaxFaults
      BY <2>2, FaultTypes DEF OpeningFails
    <3> QED BY <2>2, <3>1, OpenerFacts DEF OpeningFails, RestOK
  <2> QED BY <2>1, <2>2
<1>3. Enough(NotOpening, Cardinality(asked))
  BY OpenerFacts DEF Enough
<1> QED BY <1>1, <1>2, <1>3, OpenerFacts, OpenerOnly

\* The defaults that an opening inserts: none of them, if it saw some.
LEMMA InsertInv == ASSUME QuestionsInv, NEW o \in Openers, InsertDefaultQuestions(o) PROVE QuestionsInv'
<1> DEFINE todo == IF opener[o].stitched THEN {} ELSE enabled
<1>0. /\ opener[o].at = "defaults" /\ curated' = curated /\ status' = status /\ due' = due
      /\ enabled' = enabled /\ used' = used /\ suggestion' = suggestion /\ edits' = edits
      /\ disturbed' = disturbed
  BY DEF InsertDefaultQuestions, OpenerAt
<1>1. PICK done \in SUBSET todo :
        /\ IF done = todo THEN UNCHANGED faults ELSE Fault
        /\ CreateQuestions(done, "default", opener[o].listed)
        /\ opener' = [opener EXCEPT ![o].at = "select", ![o].listed = @ + Cardinality(done)]
  BY Zenon DEF InsertDefaultQuestions
<1>2. done \in SUBSET Defaults /\ (opener[o].stitched => done = {})
  BY <1>1, OpenerFacts DEF RestOK
<1> HIDE DEF todo
<1>3. done \in SUBSET Texts /\ IsFiniteSet(done) /\ Cardinality(done) \in Nat
  BY <1>2, TextsFinite
<1>4. /\ RowsOK' /\ nextId' = nextId + Cardinality(done) /\ asked \subseteq asked'
      /\ Cardinality(asked') = Cardinality(asked) + Cardinality(done)
      /\ \A q \in asked' : q \in asked \/ (q.src = "default" /\ q.text \in done)
      /\ \A a, b \in asked' \ asked : a # b => a.text # b.text
  BY <1>1, <1>3, "default" \in Sources, OpenerFacts, CreateGrows DEF Sources
<1>5. PICK k \in Nat : k = Cardinality(done)
  BY <1>3
<1>6. PICK l \in Nat : l = opener[o].listed
  BY OpenerFacts
<1>7. l + k \in 0..MaxQuestions /\ l + k < nextId + k /\ nextId + k \in Nat /\ nextId <= nextId + k
  <2>1. l < nextId /\ nextId + k <= MaxQuestions + 1
    BY <1>1, <1>5, <1>6, OpenerFacts DEF CreateQuestions
  <2> QED BY <1>5, <1>6, <2>1, OpenerFacts
<1>8. PICK x \in Opening : x = [opener[o] EXCEPT !.at = "select", !.listed = l + k]
  BY <1>7, OpenerFacts DEF Opening
<1>9. x.at = "select" /\ x.listed = l + k
  BY <1>8, OpenerFacts DEF Opening
<1>10. opener' = [opener EXCEPT ![o] = x]
  <2>1. opener' = [opener EXCEPT ![o] = [opener[o] EXCEPT !.at = "select", !.listed = l + k]]
    BY <1>1, <1>5, <1>6, OpenerFacts
  <2> QED BY <1>8, <2>1
<1>11. nextId' = nextId + k /\ x.listed < nextId' /\ nextId <= nextId' /\ nextId' \in Nat
  BY <1>4, <1>5, <1>7, <1>9
<1>12. faults' \in 0..MaxFaults
  <2>1. faults \in 0..MaxFaults
    BY OpenerFacts DEF RestOK
  <2> QED BY <1>1, <2>1, FaultTypes
<1>13. RestOK' /\ disturbed' \in BOOLEAN
  BY <1>0, <1>12, OpenerFacts DEF RestOK
<1>14. ASSUME ~disturbed', NEW a \in asked', NEW b \in asked',
              a.src = "default", b.src = "default", a # b
       PROVE  a.text # b.text \/ a.text = "own words"
  <2>1. CASE opener[o].stitched
    <3>1. a \in asked /\ b \in asked
      BY <1>2, <1>4, <2>1
    <3> QED BY <1>0, <1>14, <3>1 DEF QuestionsInv, RetriesDoNotRepeat
  <2>2. CASE ~opener[o].stitched
    <3>1. ~HasDefaults
      BY <1>0, <1>14, <2>2 DEF QuestionsInv, ListStillTrue, OpenerAt
    <3>2. a \notin asked /\ b \notin asked
      BY <1>14, <3>1 DEF HasDefaults
    <3> QED BY <1>4, <1>14, <3>2
  <2> QED BY <2>1, <2>2
<1>15. Cardinality(asked) <= Cardinality(asked')
  BY <1>3, <1>4, OpenerFacts
<1>16. ASSUME ~disturbed', ~curated' PROVE Enough(x, Cardinality(asked'))
  <2>1. l <= Cardinality(asked)
    BY <1>0, <1>6, <1>16, OpenerFacts DEF Enough
  <2>2. l + k <= Cardinality(asked')
    BY <1>4, <1>5, <1>6, <2>1, OpenerFacts
  <2> QED BY <1>9, <2>2 DEF Enough
<1> QED BY <1>0, <1>4, <1>8, <1>9, <1>10, <1>11, <1>13, <1>14, <1>15, <1>16, OpenerMoves

\* Bank questions are no defaults, and join at the end.
LEMMA BankInv == ASSUME QuestionsInv, NEW o \in Openers, CreateBankQuestions(o) PROVE QuestionsInv'
<1>1. /\ opener[o].at = "bank" /\ curated' = curated /\ status' = status /\ due' = due
      /\ enabled' = enabled /\ suggestion' = suggestion /\ edits' = edits
      /\ disturbed' = disturbed
  BY DEF CreateBankQuestions, OpenerAt
<1>2. PICK done \in SUBSET opener[o].picks, marked \in SUBSET opener[o].picks :
        /\ IF marked = opener[o].picks THEN UNCHANGED faults ELSE Fault
        /\ CreateQuestions(done, "bank", opener[o].listed)
        /\ used' = used \cup marked
        /\ opener' = [opener EXCEPT ![o].at = "transition", ![o].picks = @ \ done]
  BY Zenon DEF CreateBankQuestions
<1>3. done \in SUBSET Bank /\ marked \in SUBSET Bank
  BY <1>2, OpenerFacts
<1>4. done \in SUBSET Texts /\ IsFiniteSet(done) /\ Cardinality(done) \in Nat
  BY <1>3, TextsFinite
<1>5. /\ RowsOK' /\ nextId' = nextId + Cardinality(done) /\ asked \subseteq asked'
      /\ Cardinality(asked') = Cardinality(asked) + Cardinality(done)
      /\ \A q \in asked' : q \in asked \/ q.src = "bank"
  BY <1>2, <1>4, "bank" \in Sources, OpenerFacts, CreateGrows DEF Sources
<1>6. nextId <= nextId' /\ nextId' \in Nat
  BY <1>4, <1>5, LessTransitive, OpenerFacts, Zenon
<1>7. PICK missed \in SUBSET Bank : missed = opener[o].picks \ done
  BY OpenerFacts
<1>8. PICK x \in Opening : x = [opener[o] EXCEPT !.at = "transition", !.picks = missed]
  BY OpenerFacts DEF Opening
<1>9. x.at = "transition" /\ x.listed = opener[o].listed /\ x.picks = missed
  BY <1>8, OpenerFacts DEF Opening
<1>10. opener' = [opener EXCEPT ![o] = x] /\ x.listed < nextId'
  <2>1. opener' = [opener EXCEPT ![o] = [opener[o] EXCEPT !.at = "transition", !.picks = missed]]
    BY <1>2, <1>7, OpenerFacts
  <2>2. x.listed \in Nat /\ x.listed < nextId /\ nextId \in Nat
    BY <1>9, OpenerFacts
  <2>3. x.listed < nextId'
    BY <1>6, <2>2, LessTransitive, Zenon
  <2> QED BY <1>8, <2>1, <2>3
<1>11. faults' \in 0..MaxFaults
  <2>1. faults \in 0..MaxFaults
    BY OpenerFacts DEF RestOK
  <2> QED BY <1>2, <2>1, FaultTypes
<1>12. RestOK' /\ disturbed' \in BOOLEAN
  BY <1>1, <1>2, <1>3, <1>11, OpenerFacts DEF RestOK
<1>13. HasDefaults' => HasDefaults
  BY <1>5 DEF HasDefaults
<1>14. ASSUME ~disturbed', NEW a \in asked', NEW b \in asked',
              a.src = "default", b.src = "default", a # b
       PROVE  a.text # b.text \/ a.text = "own words"
  <2>1. a \in asked /\ b \in asked
    BY <1>5, <1>14
  <2> QED BY <1>1, <1>14, <2>1 DEF QuestionsInv, RetriesDoNotRepeat
<1>15. Cardinality(asked) <= Cardinality(asked')
  BY <1>4, <1>5, OpenerFacts
<1>16. ASSUME ~disturbed', ~curated' PROVE Enough(x, Cardinality(asked'))
  <2> SUFFICES ASSUME missed = {} PROVE Cardinality(asked') >= Target \/ Cardinality(asked') >= Cardinality(Bank)
    BY <1>9 DEF Enough
  <2>1. done = opener[o].picks
    BY <1>7
  <2>2. /\ opener[o].listed <= Cardinality(asked)
        /\ opener[o].listed + Cardinality(done) >= Target \/ Cardinality(done) >= Cardinality(Bank)
    BY <1>1, <1>16, <2>1, OpenerFacts DEF Enough
  <2>3. Target \in Nat /\ Cardinality(Bank) \in Nat
    BY QuestionsAssumption, FS_CardinalityType
  <2> QED BY <1>4, <1>5, <2>2, <2>3, OpenerFacts
<1> QED BY <1>1, <1>5, <1>6, <1>8, <1>9, <1>10, <1>12, <1>13, <1>14, <1>15, <1>16, OpenerMoves

\* Every step of the round's questions keeps what openings know of them.
LEMMA QuestionsNextInv == QuestionsInv /\ [QuestionsNext]_questionVars => QuestionsInv'
<1> SUFFICES ASSUME QuestionsInv, [QuestionsNext]_questionVars PROVE QuestionsInv'
  OBVIOUS
<1>1. CASE PrepareDraftQuestions \/ CreateSuggestedQuestion
  BY <1>1, PrepareInv, SuggestedInv
<1>2. ASSUME NEW src \in Sources, NEW sortOrder \in SortOrders, AddQuestion(src, sortOrder)
      PROVE  QuestionsInv'
  BY <1>2, AddInv
<1>3. CASE \/ FriendSubmits \/ OpensAt
           \/ \E d \in Defaults : UpdateDefaultQuestion(d)
           \/ \E on \in BOOLEAN : SetAllDefaultQuestionsEnabled(on)
           \/ UNCHANGED questionVars
  BY <1>3, SwitchInv
<1>4. ASSUME NEW q \in asked, EditQuestion(q) \/ DeleteQuestion(q) PROVE QuestionsInv'
  BY <1>4, EditInv, DeleteQuestionInv
<1>5. ASSUME NEW ids \in SetToSeqs({q.id : q \in asked}), ReorderQuestions(ids) PROVE QuestionsInv'
  BY <1>5, ReorderInv
<1>6. ASSUME NEW o \in Openers,
             \/ ReadFreshIssue(o) \/ ListQuestions(o) \/ InsertDefaultQuestions(o)
             \/ SelectBank(o) \/ CreateBankQuestions(o) \/ Transition(o) \/ OpeningFails(o)
      PROVE  QuestionsInv'
  BY <1>6, ReadInv, ListInv, InsertInv, SelectInv, BankInv, ClosingInv
<1> QED BY <1>1, <1>3, <1>4, <1>5, <1>6, <1>2, Zenon DEF QuestionsNext

\* In every state, an opening whose list is not stale is right about the defaults
\* and has enough questions in sight.
THEOREM QuestionsInvariant == QuestionsSpec => []QuestionsInv
<1> QED BY QuestionsInitInv, QuestionsNextInv, PTL DEF QuestionsSpec

\* An opening that is tried again asks no default twice, unless an opening acted
\* on a list that had changed.
THEOREM DefaultsAskedOnce == QuestionsSpec => []RetriesDoNotRepeat
<1>1. QuestionsInv => RetriesDoNotRepeat
  BY DEF QuestionsInv
<1> QED BY QuestionsInvariant, <1>1, PTL

\* A round that nobody curated goes live with the questions the Loop asks for, or
\* as many as its bank holds, whatever openings failed half-way before.
THEOREM OpeningsAskEnough == QuestionsSpec => []RoundAsksEnough
<1>1. QuestionsInv => RoundAsksEnough
  BY DEF QuestionsInv, OpeningsHaveEnough, Enough, RoundAsksEnough, OpenerAt
<1> QED BY QuestionsInvariant, <1>1, PTL

-----------------------------------------------------------------------------
(* The data directory.                                                     *)

\* No file holds a row of a boot later than its own header says.
RowsNotAhead ==
    /\ \A r \in rows : r.gen <= gen
    /\ \A c \in copies : \A r \in c.rows : r.gen <= c.gen

\* How the header and the sidecar relate along one boot.
HeaderAgainstSidecar ==
    /\ pc \in {"verified", "migrated"} => gen >= sidecar
    /\ pc = "counted" => gen > sidecar
    /\ pc = "running" => origin = "own" /\ gen = sidecar /\ expected = rows
    /\ origin = "own" => gen >= sidecar /\ expected \subseteq rows

\* A database file with this header and these rows is refused by the guard,
\* or holds every row of the boots before the last recorded one.
RefusedOrComplete(g, rs) ==
    g >= sidecar => \A r \in expected : r.gen < sidecar => r \in rs

\* Until the escape hatch is used, no live copy is ahead of the sidecar.
CopiesBehind ==
    ~hatch =>
        /\ \A r \in expected : r.gen <= sidecar
        /\ \A c \in copies : c.kind = "live" =>
              c.gen <= sidecar /\ RefusedOrComplete(c.gen, c.rows)
        /\ origin = "live" => RefusedOrComplete(gen, rows)

IInv == TypeOK /\ RowsNotAhead /\ HeaderAgainstSidecar /\ CopiesBehind

-----------------------------------------------------------------------------
\* The empty data directory satisfies the inductive invariant.
LEMMA InitIInv == Init => IInv
<1> SUFFICES ASSUME Init PROVE IInv
  OBVIOUS
<1>1. TypeOK
  BY DEF Init, TypeOK, NoFile
<1>2. RowsNotAhead /\ HeaderAgainstSidecar
  BY DEF Init, RowsNotAhead, HeaderAgainstSidecar, NoFile
<1>3. CopiesBehind
  BY DEF Init, CopiesBehind, RefusedOrComplete
<1> QED BY <1>1, <1>2, <1>3 DEF IInv

\* Every step of a boot and of the operator preserves the inductive invariant.
LEMMA NextIInv == IInv /\ [Next]_vars => IInv'
<1> USE DEF IInv, TypeOK, Booting, NoFile
<1> SUFFICES ASSUME IInv, [Next]_vars PROVE IInv'
  OBVIOUS
<1>1. CASE VerifyDataDirectory
  BY <1>1 DEF VerifyDataDirectory, GenerationAccepted, RowsNotAhead,
     HeaderAgainstSidecar, CopiesBehind, RefusedOrComplete
<1>2. CASE RunMigrations
  <2>1. CASE UNCHANGED <<rows, nextRow>>
    BY <1>2, <2>1 DEF RunMigrations, RowsNotAhead, HeaderAgainstSidecar,
       CopiesBehind, RefusedOrComplete
  <2>2. CASE rows' = rows \cup {[id |-> nextRow, gen |-> gen]} /\ nextRow' = nextRow + 1
    <3>1. TypeOK'
      BY <1>2, <2>2 DEF RunMigrations, Row
    <3>2. RowsNotAhead' /\ HeaderAgainstSidecar'
      BY <1>2, <2>2 DEF RunMigrations, RowsNotAhead, HeaderAgainstSidecar
    <3>3. CopiesBehind'
      BY <1>2, <2>2 DEF RunMigrations, CopiesBehind, RefusedOrComplete
    <3> QED BY <3>1, <3>2, <3>3
  <2> QED BY <1>2, <2>1, <2>2 DEF RunMigrations
<1>3. CASE SetDataGeneration
  <2>1. TypeOK'
    BY <1>3 DEF SetDataGeneration
  <2>2. RowsNotAhead'
    BY <1>3 DEF SetDataGeneration, RowsNotAhead, Row, Copy
  <2>3. HeaderAgainstSidecar'
    BY <1>3 DEF SetDataGeneration, HeaderAgainstSidecar
  <2>4. CopiesBehind'
    BY <1>3 DEF SetDataGeneration, CopiesBehind, RefusedOrComplete, HeaderAgainstSidecar
  <2> QED BY <2>1, <2>2, <2>3, <2>4
<1>4. CASE WriteStateFile
  <2>1. TypeOK' /\ RowsNotAhead'
    BY <1>4 DEF WriteStateFile, RowsNotAhead
  <2>2. HeaderAgainstSidecar'
    BY <1>4 DEF WriteStateFile, HeaderAgainstSidecar
  <2>3. CopiesBehind'
    <3>1. gen > sidecar
      BY <1>4 DEF WriteStateFile, HeaderAgainstSidecar
    <3>2. ~hatch => \A c \in copies : c.kind = "live" => c.gen < gen
      BY <3>1 DEF CopiesBehind, Copy
    <3> QED BY <1>4, <3>2 DEF WriteStateFile, CopiesBehind, RefusedOrComplete,
               RowsNotAhead, Copy
  <2> QED BY <2>1, <2>2, <2>3
<1>5. CASE Write
  <2> DEFINE r == [id |-> nextRow, gen |-> gen]
  <2>1. /\ rows' = rows \cup {r} /\ expected' = expected \cup {r}
        /\ r \in Row /\ r.gen = gen /\ gen = sidecar
        /\ UNCHANGED <<pc, gen, sidecar, copies, origin, hatch>>
        /\ nextRow' = nextRow + 1 /\ pc = "running"
    BY <1>5 DEF Write, HeaderAgainstSidecar, Row
  <2> HIDE DEF r
  <2>2. TypeOK'
    BY <2>1
  <2>3. RowsNotAhead' /\ HeaderAgainstSidecar'
    BY <2>1 DEF RowsNotAhead, HeaderAgainstSidecar
  <2>4. CopiesBehind'
    BY <2>1 DEF CopiesBehind, RefusedOrComplete, HeaderAgainstSidecar
  <2> QED BY <2>2, <2>3, <2>4
<1>6. CASE Exit
  BY <1>6 DEF Exit, RowsNotAhead, HeaderAgainstSidecar, CopiesBehind, RefusedOrComplete
<1>7. CASE TakeCopy
  <2> DEFINE c == [gen |-> gen, rows |-> rows,
                   kind |-> IF pc = "running" THEN "live" ELSE "odd"]
  <2>1. /\ copies' = copies \cup {c} /\ c \in Copy
        /\ c.gen = gen /\ c.rows = rows
        /\ c.kind = "live" => pc = "running"
        /\ UNCHANGED <<pc, gen, rows, sidecar, origin, expected, nextRow, hatch>>
    BY <1>7 DEF TakeCopy, Copy
  <2> HIDE DEF c
  <2>2. TypeOK'
    BY <2>1
  <2>3. RowsNotAhead' /\ HeaderAgainstSidecar'
    BY <2>1 DEF RowsNotAhead, HeaderAgainstSidecar
  <2>4. CopiesBehind'
    BY <2>1 DEF CopiesBehind, RefusedOrComplete, HeaderAgainstSidecar
  <2> QED BY <2>2, <2>3, <2>4
<1>8. CASE Restore
  <2>1. PICK c \in copies : gen' = c.gen /\ rows' = c.rows /\ origin' = c.kind
    BY <1>8 DEF Restore
  <2>2. TypeOK' /\ RowsNotAhead' /\ HeaderAgainstSidecar'
    BY <1>8, <2>1 DEF Restore, RowsNotAhead, HeaderAgainstSidecar, Copy
  <2>3. CopiesBehind'
    BY <1>8, <2>1 DEF Restore, CopiesBehind, RefusedOrComplete
  <2> QED BY <2>2, <2>3
<1>9. CASE DeleteStateFile
  BY <1>9 DEF DeleteStateFile, RowsNotAhead, HeaderAgainstSidecar, CopiesBehind,
     RefusedOrComplete
<1>10. CASE UNCHANGED vars
  BY <1>10 DEF vars, RowsNotAhead, HeaderAgainstSidecar, CopiesBehind, RefusedOrComplete
<1> QED
  BY <1>1, <1>2, <1>3, <1>4, <1>5, <1>6, <1>7, <1>8, <1>9, <1>10 DEF Next

\* The inductive invariant holds in every reachable state.
THEOREM BootInvariant == Spec => []IInv
<1>1. Init => IInv
  BY InitIInv
<1>2. IInv /\ [Next]_vars => IInv'
  BY NextIInv
<1> QED BY <1>1, <1>2, PTL DEF Spec

\* The model's variables keep their types in every behaviour of boots,
\* crashes, copies and restores.
THEOREM TypeCorrect == Spec => []TypeOK
<1>1. IInv => TypeOK
  BY DEF IInv
<1> QED BY <1>1, BootInvariant, PTL

\* VerifyDataDirectory lets a boot go on only with a database that has every
\* row of the boots before the last recorded one.
THEOREM LossIsWithinLastBoot == Spec => []LossOnlyWithinLastBoot
<1>1. IInv => LossOnlyWithinLastBoot
  <2> SUFFICES ASSUME IInv, pc \in Booting, ~hatch, origin # "odd",
                      NEW r \in expected, r \notin rows
               PROVE  r.gen = sidecar
    BY DEF LossOnlyWithinLastBoot
  <2>1. origin = "live" /\ gen >= sidecar
    BY DEF IInv, TypeOK, HeaderAgainstSidecar, Booting
  <2>2. r.gen <= sidecar /\ ~(r.gen < sidecar)
    BY <2>1 DEF IInv, CopiesBehind, RefusedOrComplete
  <2> QED BY <2>2 DEF IInv, TypeOK, Row
<1> QED BY <1>1, BootInvariant, PTL

\* The write order of RecordDataDirectoryState: a crash between the header
\* and the sidecar never makes the guard refuse the program's own database.
THEOREM CrashFailsHarmlessly == Spec => []OwnDatabaseNeverRefused
<1>1. IInv => OwnDatabaseNeverRefused
  BY DEF IInv, HeaderAgainstSidecar, OwnDatabaseNeverRefused, GenerationAccepted
<1> QED BY <1>1, BootInvariant, PTL

-----------------------------------------------------------------------------
(* The five as one system.                                                 *)

\* The system that TLC explores behaves, in each of its parts, like that part.
THEOREM RecordsParts ==
    RecordsSpec => SignInSpec /\ QuestionsSpec /\ AnswersSpec /\ KeepsakesSpec /\ Spec
<1>1. RecordsInit => SignInInit /\ QuestionsInit /\ AnswersInit /\ KeepsakesInit /\ Init
  BY DEF RecordsInit
<1>2. [RecordsNext]_recordVars => [SignInNext]_signInVars
  BY DEF RecordsNext, recordVars
<1>3. [RecordsNext]_recordVars => [QuestionsNext]_questionVars
  BY DEF RecordsNext, recordVars
<1>4. [RecordsNext]_recordVars => [AnswersNext]_answerVars
  BY DEF RecordsNext, recordVars
<1>5. [RecordsNext]_recordVars => [KeepsakesNext]_keepsakeVars
  BY DEF RecordsNext, recordVars
<1>6. [RecordsNext]_recordVars => [Next]_vars
  BY DEF RecordsNext, recordVars
<1> QED
  BY <1>1, <1>2, <1>3, <1>4, <1>5, <1>6, PTL
  DEF RecordsSpec, SignInSpec, QuestionsSpec, AnswersSpec, KeepsakesSpec, Spec

\* Links, sessions, questions, answers, blocks, pages, files and the data
\* directory keep the values their tables and handlers allow.
THEOREM RecordsTyped == RecordsSpec => []RecordsTypeOK
<1> DEFINE Parted == part \in {"signin", "questions", "answers", "keepsakes", "datadir"}
<1>1. RecordsInit => Parted
  BY DEF RecordsInit
<1>2. Parted /\ [RecordsNext]_recordVars => Parted'
  BY DEF RecordsNext, recordVars
<1>3. Parted /\ LinkInv /\ QuestionsInv /\ AnswersInv /\ KeepsakesInv /\ IInv => RecordsTypeOK
  BY QuestionsInvTypes DEF RecordsTypeOK, LinkInv, AnswersInv, KeepsakesInv, IInv
<1> QED
  BY <1>1, <1>2, <1>3, RecordsParts, SignInInvariant, QuestionsInvariant, AnswersInvariant,
     KeepsakesStart, KeepsakesInductive, BootInvariant, PTL
  DEF RecordsSpec, KeepsakesSpec
=============================================================================
