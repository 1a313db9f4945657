--------------------------- MODULE JourneysProofs ---------------------------
(***************************************************************************)
(* Visits, the launch wizard, the comment digest and the JMAP transport,   *)
(* for every number of people, Loops, readers, comments, sends and         *)
(* failures: a page of a Loop is shown only to somebody who could enter    *)
(* it, whoever is mailed an invitation can accept it, a launched round     *)
(* asks what was picked and will close, the digest tells everybody hardly  *)
(* twice, and a mail is delivered once and survives a move of its          *)
(* provider.  Last, the system the runs explore is these four, each in     *)
(* its part, so its states satisfy their invariants.                       *)
(***************************************************************************)
EXTENDS MCJourneys, FiniteSetTheorems, WellFoundedInduction, TLAPS

(* Visits.                                                                 *)

\* A non-empty set of numbers has a least element, which Min chooses: the initial
\* segments of the set are finite, so one of them is the shortest.
LEMMA MinChooses ==
    ASSUME NEW S \in SUBSET Nat, S # {}
    PROVE  Min(S) \in S
<1> DEFINE UpTo(k) == S \cap (0..k)
           T == {UpTo(k) : k \in S}
<1>1. T \subseteq FiniteSubsetsOf(S)
  <2> SUFFICES ASSUME NEW k \in S PROVE UpTo(k) \in FiniteSubsetsOf(S)
    OBVIOUS
  <2>1. IsFiniteSet(0..k) /\ UpTo(k) \in SUBSET (0..k)
    BY FS_Interval
  <2>2. IsFiniteSet(UpTo(k))
    BY <2>1, FS_Subset
  <2> QED BY <2>2 DEF FiniteSubsetsOf
<1>2. T # {}
  OBVIOUS
<1>3. PICK U \in T : \A V \in T : ~(<<V, U>> \in StrictSubsetOrdering(S))
  BY <1>1, <1>2, FS_StrictSubsetOrderingWellFounded, WFMin
<1>4. PICK x \in S : U = UpTo(x)
  BY <1>3
<1>5. ASSUME NEW y \in S PROVE x <= y
  <2>1. SUFFICES ASSUME y < x PROVE FALSE
    OBVIOUS
  <2>2. UpTo(y) \in T /\ UpTo(y) \subseteq UpTo(x) /\ x \in UpTo(x) /\ x \notin UpTo(y)
    BY <2>1
  <2> QED BY <1>3, <1>4, <2>2 DEF StrictSubsetOrdering
<1> HIDE DEF T, UpTo
<1> QED BY <1>5 DEF Min

\* A visit under way asks for a page of the site, and knows who may enter which
\* Loop: as things are while it is on its way, as they were when its Loop was chosen.
VisitOK ==
    /\ visit.at # "shown" => visit.path \in Pages
    /\ visit.at = "go" => \A g \in Loops : Welcome(visit.who, g) => g \in enterable
    /\ visit.at \in {"session", "account", "route"} /\ visit.loop # NoLoop => visit.loop \in enterable
    /\ visit.at \in {"session", "account"} => visit.loop # NoLoop
    /\ visit.at = "shown" /\ visit.path \in LoopPages => visit.loop \in enterable

\* Nobody is made a member, outside a launch, whose account is not restored first.
DeskOK(d) ==
    /\ desk[d].at = "weave" => account[desk[d].who] = "on"
    /\ desk[d].at = "join" /\ desk[d].way # "launch" => account[desk[d].who] = "on"
    /\ desk[d].at = "mail" => account[desk[d].who] = "on" /\ Belongs(desk[d].who, desk[d].g)
    /\ desk[d].way = "launch" => desk[d].at \notin {"weave", "mail"}

VisitsInv == VisitsTypeOK /\ VisitOK /\ \A d \in Desks : DeskOK(d)

-----------------------------------------------------------------------------
\* The bounds leave room for the first Loop, and somebody is browsing.
LEMMA VisitNumbers ==
    ASSUME VisitsTypeOK
    PROVE  /\ 1 \in Loops /\ NoLoop \notin Loops /\ Loops \subseteq Nat
           /\ ops \in Nat /\ (Bounded => ops' \in 0..MaxOps)
           /\ visit \in Visit /\ visit.who \in Folk /\ visit.issue \in Loops
           /\ visit.loop \in Loops \cup {NoLoop} /\ visit.g \in Loops \cup {NoLoop}
<1>1. 1 \in Loops /\ NoLoop \notin Loops /\ Loops \subseteq Nat
  BY VisitsAssumption DEF Loops, NoLoop
<1>2. ops \in Nat /\ (Bounded => ops' \in 0..MaxOps)
  BY VisitsAssumption DEF VisitsTypeOK, Bounded
<1>3. visit \in Visit
  BY DEF VisitsTypeOK
<1> QED BY <1>1, <1>2, <1>3 DEF Visit

\* The first of the candidates that may be entered, or none.
LEMMA ResolvedMayEnter ==
    ASSUME VisitsTypeOK, NEW p \in Folk, NEW g \in Loops \cup {NoLoop}
    PROVE  /\ ResolveCurrentGroup(p, g) \in Loops \cup {NoLoop}
           /\ ResolveCurrentGroup(p, g) # NoLoop => TryGroup(p, ResolveCurrentGroup(p, g))
<1>0. /\ NoLoop \notin Loops /\ Loops \subseteq Nat
      /\ current \in Loops \cup {NoLoop} /\ last \in Loops \cup {NoLoop}
  BY VisitNumbers DEF VisitsTypeOK
<1> DEFINE remembered == <<g, current, last>>
           usable == {k \in 1..3 : Usable(p, remembered[k])}
           mine == {c \in UserGroups(p) : TryGroup(p, c)}
           own == OldestOf(mine)
           open == {c \in Loops : TryGroup(p, c)}
<1>1. usable # {} => /\ Min(usable) \in 1..3 /\ Usable(p, remembered[Min(usable)])
  BY MinChooses
<1>2. \A k \in 1..3 : remembered[k] \in Loops \cup {NoLoop}
  BY <1>0
<1>3. \A S \in SUBSET Loops : OldestOf(S) = NoLoop \/ OldestOf(S) \in S
  BY <1>0, MinChooses DEF OldestOf
<1>4. mine \in SUBSET Loops /\ open \in SUBSET Loops
  BY DEF UserGroups
<1>5. own = NoLoop \/ (own \in Loops /\ TryGroup(p, own))
  BY <1>3, <1>4
<1>6. OldestOf(open) = NoLoop \/ (OldestOf(open) \in Loops /\ TryGroup(p, OldestOf(open)))
  BY <1>3, <1>4
<1>7. ResolveCurrentGroup(p, g) =
        IF usable # {} THEN remembered[Min(usable)]
        ELSE IF own # NoLoop \/ p \notin Operators THEN own ELSE OldestOf(open)
  BY DEF ResolveCurrentGroup
<1> HIDE DEF usable, own, open, remembered, mine
<1> QED BY <1>1, <1>2, <1>5, <1>6, <1>7 DEF Usable

\* Whatever it sends the browser to is a page, and a page of a Loop is only
\* answered with when the request runs in one.
LEMMA Routed ==
    ASSUME NEW p, NEW path \in Pages, NEW g
    PROVE  /\ RouteOf(p, path, g) \in Pages
           /\ path \in LoopPages /\ RouteOf(p, path, g) = path => g # NoLoop
<1>1. LandingPage(p, g) \in Pages
  BY DEF LandingPage, Pages
<1>2. \A a \in Pages : RequireGroup(p, a, g) \in Pages
  BY DEF RequireGroup, Pages
<1>3. \A a \in Pages : RequireAdmin(p, a, g) \in Pages
  BY <1>2 DEF RequireAdmin, Pages
<1>4. \A a \in LoopPages : RequireGroup(p, a, g) = a => g # NoLoop
  BY DEF RequireGroup, LoopPages
<1>5. \A a \in LoopPages : RequireAdmin(p, a, g) = a => g # NoLoop
  BY <1>4 DEF RequireAdmin, LoopPages
<1>6. path \in LoopPages => path \in {"/issues", "/respond", "/admin", "/admin/setup"}
  BY DEF LoopPages
<1>7. CASE path = "/loops" \/ path = "/" \/ path = "/instance"
  BY <1>1, <1>7 DEF RouteOf, LoopPages, Pages
<1>8. CASE path = "/issues" \/ path = "/respond"
  BY <1>2, <1>4, <1>8 DEF RouteOf, LoopPages
<1>9. CASE path = "/admin"
  BY <1>3, <1>5, <1>9 DEF RouteOf, LoopPages
<1>10. CASE path = "/admin/setup"
  BY <1>3, <1>5, <1>10 DEF RouteOf, LoopPages, Pages
<1> QED BY <1>7, <1>8, <1>9, <1>10 DEF Pages

\* The two shapes a visit takes at the end of a request.
LEMMA VisitShapes ==
    ASSUME VisitsTypeOK, NEW p \in Folk
    PROVE  /\ AtLogin(p) \in Visit
           /\ \A page \in Pages \cup {"/login", "404"}, g \in Loops \cup {NoLoop} :
                [AtLogin(p) EXCEPT !.path = page, !.loop = g] \in Visit
BY VisitNumbers DEF AtLogin, Visit, NoLoop

\* Answering with a page.
LEMMA ShowKeeps ==
    ASSUME VisitsTypeOK, NEW page \in Pages \cup {"/login", "404"}, Show(page),
           page \in LoopPages => visit.loop \in enterable
    PROVE  /\ visit' \in Visit /\ enterable' \in SUBSET Loops
           /\ VisitOK'
<1> DEFINE g == IF page \in LoopPages THEN visit.loop ELSE NoLoop
<1>1. visit' = [AtLogin(visit.who) EXCEPT !.path = page, !.loop = g] /\ enterable' = enterable \cap {g}
  BY DEF Show
<1>2. g \in Loops \cup {NoLoop}
  BY VisitNumbers
<1> HIDE DEF g
<1>3. visit' \in Visit /\ visit'.at = "shown" /\ visit'.path = page /\ visit'.loop = g
  <2>1. visit.who \in Folk
    BY VisitNumbers
  <2>2. [AtLogin(visit.who) EXCEPT !.path = page, !.loop = g] \in Visit
    BY <1>2, <2>1, VisitShapes
  <2>3. LET v == [AtLogin(visit.who) EXCEPT !.path = page, !.loop = g]
        IN  v.at = "shown" /\ v.path = page /\ v.loop = g
    BY DEF AtLogin
  <2> QED BY <1>1, <2>2, <2>3
<1>4. page \in LoopPages => g \in enterable'
  BY <1>1 DEF g
<1>5. VisitOK'
  BY <1>3, <1>4 DEF VisitOK
<1>6. enterable' \in SUBSET Loops
  BY <1>1 DEF VisitsTypeOK
<1> QED BY <1>3, <1>5, <1>6

\* Asking for a page.
LEMMA AskKeeps ==
    ASSUME NEW v \in Visit, v.at = "go", v.path \in Pages, Ask(v), UNCHANGED <<member, loop>>
    PROVE  /\ visit' \in Visit /\ enterable' \in SUBSET Loops
           /\ VisitOK'
<1>1. visit' = v /\ enterable' = {g \in Loops : Welcome(v.who, g)}
  BY DEF Ask
<1>2. \A g \in Loops : Welcome(v.who, g)' = Welcome(v.who, g)
  BY DEF Welcome, Belongs
<1>3. (\A g \in Loops : Welcome(visit.who, g) => g \in enterable)'
  BY <1>1, <1>2
<1> QED BY <1>1, <1>3 DEF VisitOK

\* The steps of a request.
LEMMA VisitKeeps ==
    ASSUME VisitsTypeOK, VisitOK, VisitStep \/ \E a \in Addresses : Navigate(a)
    PROVE  /\ visit' \in Visit /\ enterable' \in SUBSET Loops /\ ops' \in 0..MaxOps
           /\ current' \in Loops \cup {NoLoop} /\ last' \in Loops \cup {NoLoop}
           /\ signedIn' \in BOOLEAN
           /\ VisitOK'
<1> DEFINE Goal == /\ visit' \in Visit /\ enterable' \in SUBSET Loops /\ ops' \in 0..MaxOps
                   /\ current' \in Loops \cup {NoLoop} /\ last' \in Loops \cup {NoLoop}
                   /\ signedIn' \in BOOLEAN
                   /\ VisitOK'
<1>0. /\ visit \in Visit /\ visit.who \in Folk /\ visit.loop \in Loops \cup {NoLoop}
      /\ visit.issue \in Loops /\ 1 \in Loops /\ NoLoop \notin Loops
      /\ enterable \in SUBSET Loops /\ ops \in 0..MaxOps /\ signedIn \in BOOLEAN
      /\ current \in Loops \cup {NoLoop} /\ last \in Loops \cup {NoLoop}
      /\ visit.auth \in BOOLEAN /\ visit.path \in Pages \cup {"/login", "404"}
  BY VisitNumbers DEF VisitsTypeOK, Visit
<1>1. ASSUME NEW a \in Addresses, Navigate(a) PROVE Goal
  <2> DEFINE v == [AtLogin(visit.who) EXCEPT !.at = "go", !.path = a.path, !.g = a.g,
                                             !.auth = a.auth, !.issue = a.issue]
  <2>1. a.path \in Pages /\ a.g \in Loops \cup {NoLoop} /\ a.auth \in BOOLEAN /\ a.issue \in Loops
    <3>1. CASE a \in {[path |-> b, g |-> NoLoop, auth |-> FALSE, issue |-> 1] : b \in Pages}
      <4>1. PICK b \in Pages : a = [path |-> b, g |-> NoLoop, auth |-> FALSE, issue |-> 1]
        BY <3>1
      <4>2. a.path = b /\ a.g = NoLoop /\ a.auth = FALSE /\ a.issue = 1
        BY <4>1
      <4> QED BY <1>0, <4>2
    <3>2. CASE a \in [path : {"/"}, g : Loops, auth : {TRUE}, issue : {1}]
      BY <1>0, <3>2 DEF Pages
    <3>3. CASE a \in [path : {"/respond"}, g : Loops \cup {NoLoop}, auth : {TRUE}, issue : Loops]
      BY <1>0, <3>3 DEF Pages
    <3> QED BY <3>1, <3>2, <3>3 DEF Addresses
  <2>2. v \in Visit /\ v.at = "go" /\ v.path \in Pages
    BY <1>0, <2>1 DEF AtLogin, Visit
  <2>3. Ask(v) /\ UNCHANGED <<peopleVars, signedIn, current, last, ops>>
    BY <1>1 DEF Navigate
  <2> HIDE DEF v
  <2> QED BY <1>0, <2>2, <2>3, AskKeeps DEF peopleVars
<1>2. CASE ExchangeLink
  <2> DEFINE v == [visit EXCEPT !.auth = FALSE]
  <2>1. v \in Visit /\ v.at = visit.at /\ v.path = visit.path
    BY <1>0 DEF Visit
  <2>2. v.at = "go" /\ v.path \in Pages
    BY <1>2, <2>1 DEF ExchangeLink, VisitOK
  <2>3. Ask(v) /\ UNCHANGED <<peopleVars, last, ops>> /\ signedIn' \in BOOLEAN
        /\ current' \in {current, last}
    BY <1>2 DEF ExchangeLink
  <2> HIDE DEF v
  <2> QED BY <1>0, <2>1, <2>2, <2>3, AskKeeps DEF peopleVars
<1>3. CASE Unauthorized
  <2>1. Show("/login") /\ "/login" \notin LoopPages
    BY <1>3 DEF Unauthorized, LoopPages
  <2> QED BY <1>0, <1>3, <2>1, ShowKeeps DEF Unauthorized
<1>4. CASE Resolve
  <2> DEFINE g == ResolveCurrentGroup(visit.who, visit.g)
  <2>1. g \in Loops \cup {NoLoop} /\ (g # NoLoop => TryGroup(visit.who, g))
    BY <1>0, VisitNumbers, ResolvedMayEnter
  <2>2. /\ visit.at = "go"
        /\ visit' = [visit EXCEPT !.loop = g, !.at = IF g = NoLoop THEN "route" ELSE "session"]
        /\ UNCHANGED <<signedIn, current, last, enterable, ops>>
    BY <1>4 DEF Resolve
  <2>3. g # NoLoop => g \in enterable
    BY <2>1, <2>2 DEF VisitOK, TryGroup, Welcome
  <2> HIDE DEF g
  <2>4. /\ visit' \in Visit /\ visit'.loop = g /\ visit'.path = visit.path
        /\ visit'.at = (IF g = NoLoop THEN "route" ELSE "session")
    BY <1>0, <2>1, <2>2 DEF Visit
  <2>5. visit.path \in Pages
    BY <2>2 DEF VisitOK
  <2>6. VisitOK'
    BY <2>2, <2>3, <2>4, <2>5 DEF VisitOK
  <2> QED BY <1>0, <2>2, <2>4, <2>6
<1>5. CASE PersistSessionGroup \/ PersistLastGroup
  <2>1. PICK at \in {"account", "route"} :
          /\ visit.at \in {"session", "account"} /\ visit' = [visit EXCEPT !.at = at]
          /\ UNCHANGED <<signedIn, enterable>>
          /\ current' \in {current, visit.loop} /\ last' \in {last, visit.loop}
          /\ UNCHANGED ops \/ Bounded
    BY <1>5 DEF PersistSessionGroup, PersistLastGroup, Kept
  <2>2. visit' \in Visit /\ visit'.at = at /\ visit'.path = visit.path /\ visit'.loop = visit.loop
    BY <1>0, <2>1 DEF Visit
  <2>3. VisitOK'
    BY <2>1, <2>2 DEF VisitOK
  <2> QED BY <1>0, <2>1, <2>2, <2>3, VisitNumbers
<1>6. CASE Route
  <2> DEFINE to == RouteOf(visit.who, visit.path, visit.loop)
             elsewhere == to = "/respond" /\ visit.path = "/respond" /\ visit.issue # visit.loop
  <2>1. visit.at = "route" /\ visit.path \in Pages /\ UNCHANGED <<member, loop, signedIn>>
    BY <1>6 DEF Route, VisitOK, peopleVars
  <2>2. to \in Pages /\ (visit.path \in LoopPages /\ to = visit.path => visit.loop # NoLoop)
    BY <2>1, Routed
  <2>3. CASE to = visit.path /\ ~elsewhere /\ Show(to) /\ UNCHANGED <<current, last, ops>>
    <3>1. to \in LoopPages => visit.loop \in enterable
      BY <2>1, <2>2, <2>3 DEF VisitOK
    <3> HIDE DEF to
    <3> QED BY <1>0, <2>1, <2>2, <2>3, <3>1, ShowKeeps
  <2>4. CASE /\ to # visit.path /\ UNCHANGED <<current, last, ops>>
             /\ Ask([AtLogin(visit.who) EXCEPT !.at = "go", !.path = to,
                                               !.issue = IF to = "/respond" THEN visit.loop ELSE 1])
    <3> DEFINE i == IF to = "/respond" THEN visit.loop ELSE 1
               v == [AtLogin(visit.who) EXCEPT !.at = "go", !.path = to, !.issue = i]
    <3>1. to = "/respond" => visit.loop # NoLoop
      <4>1. to = "/respond" /\ visit.path # to => visit.path = "/"
        BY <2>1 DEF RouteOf, RequireGroup, RequireAdmin, LandingPage, Pages
      <4>2. visit.path = "/" => to = LandingPage(visit.who, visit.loop)
        BY DEF RouteOf
      <4> QED BY <2>4, <4>1, <4>2 DEF LandingPage
    <3>2. i \in Loops
      BY <1>0, <3>1
    <3> HIDE DEF to, i
    <3>3. v \in Visit /\ v.at = "go" /\ v.path = to
      BY <1>0, <2>2, <3>2 DEF AtLogin, Visit
    <3>4. Ask(v)
      BY <2>4 DEF i
    <3> HIDE DEF v
    <3> QED BY <1>0, <2>1, <2>2, <2>4, <3>3, <3>4, AskKeeps
  <2>5. CASE /\ Ask([SansGroup(visit) EXCEPT !.at = "go", !.loop = NoLoop])
             /\ current' \in {current, visit.issue} /\ last' \in {last, visit.issue}
             /\ UNCHANGED ops \/ Bounded
    <3> DEFINE v == [SansGroup(visit) EXCEPT !.at = "go", !.loop = NoLoop]
    <3>1. SansGroup(visit) \in Visit /\ SansGroup(visit).path = visit.path
      BY <1>0 DEF SansGroup, Visit
    <3>2. v \in Visit /\ v.at = "go" /\ v.path = visit.path
      BY <1>0, <3>1 DEF Visit
    <3> HIDE DEF v
    <3>3. Ask(v)
      BY <2>5 DEF v
    <3> QED BY <1>0, <2>1, <2>5, <3>2, <3>3, AskKeeps, VisitNumbers
  <2>6. CASE Show("404") /\ UNCHANGED <<current, last, ops>>
    <3>1. "404" \notin LoopPages
      BY DEF LoopPages
    <3> QED BY <1>0, <2>1, <2>6, <3>1, ShowKeeps
  <2> QED BY <1>6, <2>3, <2>4, <2>5, <2>6 DEF Route
<1> QED BY <1>1, <1>2, <1>3, <1>4, <1>5, <1>6 DEF VisitStep

\* A change elsewhere keeps what the visit under way knows, when the history of
\* what was enterable follows it.
LEMMA HistoryFollows ==
    ASSUME VisitsTypeOK, VisitOK, visit' = visit,
           \/ enterable' = enterable /\ \A g \in Loops : Welcome(visit.who, g)' => Welcome(visit.who, g)
           \/ Widen
    PROVE  VisitOK' /\ enterable' \in SUBSET Loops
<1>1. enterable \subseteq enterable' /\ enterable' \in SUBSET Loops
  BY DEF Widen, VisitsTypeOK
<1>2. visit.at = "go" => \A g \in Loops : Welcome(visit.who, g)' => g \in enterable'
  BY DEF Widen, VisitOK
<1>3. (visit.at = "go" => \A g \in Loops : Welcome(visit.who, g) => g \in enterable)'
  BY <1>2
<1> QED BY <1>1, <1>3 DEF VisitOK

\* What other tabs and other people do keeps the types and the visit.
LEMMA OthersKeep ==
    ASSUME VisitsTypeOK, VisitOK,
           SignOut \/ \E g \in Loops : SwitchGroup(g) \/ UpdateGroup(g) \/ FinishSetup(g)
    PROVE  /\ VisitsTypeOK' /\ VisitOK'
           /\ UNCHANGED <<account, member, desk>>
<1>0. ops' \in 0..MaxOps
  BY VisitNumbers DEF SignOut, SwitchGroup, UpdateGroup, FinishSetup
<1>1. CASE SignOut
  <2>1. UNCHANGED <<peopleVars, current, last, visit, desk, enterable>> /\ signedIn' \in BOOLEAN
    BY <1>1 DEF SignOut
  <2>2. \A g \in Loops : Welcome(visit.who, g)' => Welcome(visit.who, g)
    BY <2>1 DEF Welcome, Belongs, peopleVars
  <2> QED BY <1>0, <2>1, <2>2, HistoryFollows DEF VisitsTypeOK, peopleVars
<1>2. ASSUME NEW g \in Loops, SwitchGroup(g) PROVE VisitsTypeOK' /\ VisitOK' /\ UNCHANGED <<account, member, desk>>
  <2>1. /\ UNCHANGED <<peopleVars, signedIn, visit, desk, enterable>>
        /\ current' = g /\ last' = g
    BY <1>2 DEF SwitchGroup
  <2>2. \A c \in Loops : Welcome(visit.who, c)' => Welcome(visit.who, c)
    BY <2>1 DEF Welcome, Belongs, peopleVars
  <2> QED BY <1>0, <2>1, <2>2, HistoryFollows DEF VisitsTypeOK, peopleVars
<1>3. ASSUME NEW g \in Loops, UpdateGroup(g) PROVE VisitsTypeOK' /\ VisitOK' /\ UNCHANGED <<account, member, desk>>
  <2>1. /\ UNCHANGED <<account, member, setup, desk, signedIn, current, last, visit>> /\ Widen
        /\ loop' = [loop EXCEPT ![g] = IF @ = "open" THEN "archived" ELSE "open"]
    BY <1>3 DEF UpdateGroup, deskFree
  <2>2. loop' \in [Loops -> {"absent", "open", "archived"}]
    BY <2>1 DEF VisitsTypeOK
  <2> QED BY <1>0, <2>1, <2>2, HistoryFollows DEF VisitsTypeOK
<1>4. ASSUME NEW g \in Loops, FinishSetup(g) PROVE VisitsTypeOK' /\ VisitOK' /\ UNCHANGED <<account, member, desk>>
  <2>1. /\ UNCHANGED <<account, member, loop, desk, enterable, signedIn, current, last, visit>>
        /\ setup' = [setup EXCEPT ![g] = TRUE]
    BY <1>4 DEF FinishSetup, deskFree
  <2>2. setup' \in [Loops -> BOOLEAN]
    BY <2>1 DEF VisitsTypeOK
  <2>3. \A c \in Loops : Welcome(visit.who, c)' => Welcome(visit.who, c)
    BY <2>1 DEF Welcome, Belongs
  <2> QED BY <1>0, <2>1, <2>2, <2>3, HistoryFollows DEF VisitsTypeOK
<1> QED BY <1>1, <1>2, <1>3, <1>4

\* What the desks hold, and what a step of one of them makes of it.
LEMMA DeskShapes ==
    ASSUME VisitsTypeOK
    PROVE  /\ FreeDesk \in Desk
           /\ \A d \in Desks, k \in Desk : [desk EXCEPT ![d] = k] \in [Desks -> Desk]
           /\ \A d \in Desks, at \in {"free", "create", "reactivate", "join", "weave", "mail"} :
                [desk EXCEPT ![d].at = at] \in [Desks -> Desk]
<1>1. FreeDesk \in Desk
  <2>1. (CHOOSE p \in Folk : TRUE) \in Folk
    BY VisitNumbers
  <2> QED BY <2>1, VisitNumbers DEF FreeDesk, Desk
<1>2. desk \in [Desks -> Desk]
  BY DEF VisitsTypeOK
<1>3. ASSUME NEW d \in Desks, NEW at \in {"free", "create", "reactivate", "join", "weave", "mail"}
      PROVE  [desk EXCEPT ![d].at = at] \in [Desks -> Desk]
  <2>1. [desk[d] EXCEPT !.at = at] \in Desk
    BY <1>2 DEF Desk
  <2> QED BY <1>2, <2>1
<1> QED BY <1>1, <1>2, <1>3

\* A desk's step leaves the other desks alone and takes nobody's account or
\* membership away.
LEMMA OtherDesks ==
    ASSUME VisitsTypeOK, NEW d \in Desks, \A c \in Desks : DeskOK(c),
           \A c \in Desks \ {d} : desk'[c] = desk[c],
           \A p \in Folk : account[p] = "on" => account'[p] = "on",
           \A p \in Folk, g \in Loops : Belongs(p, g) => Belongs(p, g)',
           DeskOK(d)'
    PROVE  \A c \in Desks : DeskOK(c)'
<1> SUFFICES ASSUME NEW c \in Desks \ {d} PROVE DeskOK(c)'
  OBVIOUS
<1>1. desk[c].who \in Folk /\ desk[c].g \in Loops
  BY DEF VisitsTypeOK, Desk
<1>2. account[desk[c].who] = "on" => account'[desk'[c].who] = "on"
  BY <1>1
<1>3. PICK p, g : p = desk[c].who /\ g = desk[c].g
  OBVIOUS
<1>4. Belongs(p, g) => Belongs(p, g)'
  BY <1>1, <1>3
<1>5. desk'[c].who = p /\ desk'[c].g = g
  BY <1>3
<1> QED BY <1>2, <1>3, <1>4, <1>5 DEF DeskOK, Belongs

\* The steps of invitations and of new Loops.
LEMMA DeskKeeps ==
    ASSUME VisitsInv, NEW d \in Desks, DeskStep(d)
    PROVE  VisitsInv'
<1>0. /\ VisitsTypeOK /\ VisitOK /\ \A c \in Desks : DeskOK(c)
      /\ desk \in [Desks -> Desk] /\ desk[d] \in Desk /\ FreeDesk \in Desk
      /\ account \in [Folk -> {"unknown", "off", "on"}]
      /\ member \in [Loops -> [Folk -> Member]]
      /\ desk[d].who \in Folk /\ desk[d].g \in Loops
  BY DeskShapes DEF VisitsInv, VisitsTypeOK, Desk
\* It suffices to look at the tables, at this desk and at what it makes enterable.
<1>1. ASSUME /\ account' \in [Folk -> {"unknown", "off", "on"}]
             /\ \A p \in Folk : account[p] = "on" => account'[p] = "on"
             /\ member' \in [Loops -> [Folk -> Member]]
             /\ \A p \in Folk, g \in Loops : Belongs(p, g) => Belongs(p, g)'
             /\ loop' \in [Loops -> {"absent", "open", "archived"}]
             /\ UNCHANGED setup /\ deskFree
             /\ Widen \/ UNCHANGED <<enterable, member, loop>>
             /\ UNCHANGED ops \/ Bounded
             /\ \E k \in Desk : desk' = [desk EXCEPT ![d] = k]
             /\ DeskOK(d)'
      PROVE  VisitsInv'
  <2>1. VisitOK' /\ enterable' \in SUBSET Loops
    <3>1. UNCHANGED <<member, loop>> => \A g \in Loops : Welcome(visit.who, g)' => Welcome(visit.who, g)
      BY <1>1 DEF Welcome, Belongs, deskFree
    <3>2. visit' = visit
      BY <1>1 DEF deskFree
    <3> QED BY <1>0, <1>1, <3>1, <3>2, HistoryFollows
  <2>2. desk' \in [Desks -> Desk] /\ \A c \in Desks \ {d} : desk'[c] = desk[c]
    BY <1>0, <1>1
  <2>3. \A c \in Desks : DeskOK(c)'
    BY <1>0, <1>1, <2>2, OtherDesks
  <2>4. ops' \in 0..MaxOps
    BY <1>0, <1>1, VisitNumbers DEF VisitsTypeOK
  <2>5. VisitsTypeOK'
    BY <1>0, <1>1, <2>1, <2>2, <2>4 DEF VisitsTypeOK, deskFree
  <2> QED BY <2>1, <2>3, <2>5 DEF VisitsInv
<1>2. ASSUME NEW g \in Loops, NEW p \in Folk, NEW way \in {"invite", "weave", "launch"},
             LookUp(d, g, p, way)
      PROVE  VisitsInv'
  <2> DEFINE at == CASE account[p] = "unknown" -> "create"
                     [] account[p] = "off" -> "reactivate"
                     [] OTHER -> Joining(way)
             k == [at |-> at, g |-> g, who |-> p, way |-> way]
  <2>1. at \in {"create", "reactivate", "join", "weave"}
        /\ (at \in {"join", "weave"} => account[p] = "on") /\ (at = "weave" => way = "weave")
    BY <1>0 DEF Joining
  <2>2. desk' = [desk EXCEPT ![d] = k] /\ UNCHANGED <<peopleVars, enterable, ops>> /\ deskFree
    BY <1>2 DEF LookUp
  <2> HIDE DEF at
  <2>3. k \in Desk
    BY <2>1 DEF Desk
  <2>4. desk'[d].at = at /\ desk'[d].who = p /\ desk'[d].way = way
    BY <1>0, <2>2
  <2>5. DeskOK(d)'
    BY <2>1, <2>2, <2>4 DEF DeskOK, peopleVars
  <2> QED BY <1>0, <1>1, <2>2, <2>3, <2>5 DEF peopleVars, VisitsTypeOK, Belongs
<1>3. CASE LaunchGoesOn(d)
  <2>1. /\ desk[d].way = "launch" /\ desk' = [desk EXCEPT ![d] = [desk[d] EXCEPT !.at = "join"]]
        /\ UNCHANGED <<peopleVars, enterable>> /\ deskFree /\ Bounded
    BY <1>0, <1>3 DEF LaunchGoesOn
  <2>2. [desk[d] EXCEPT !.at = "join"] \in Desk
    BY <1>0 DEF Desk
  <2>3. desk'[d].at = "join" /\ desk'[d].way = "launch"
    BY <1>0, <2>1 DEF Desk
  <2>4. DeskOK(d)'
    BY <2>3 DEF DeskOK
  <2> QED BY <1>0, <1>1, <2>1, <2>2, <2>4 DEF peopleVars, VisitsTypeOK, Belongs
<1>4. CASE RestoreAccount(d)
  <2> DEFINE at == Joining(desk[d].way)
  <2>1. /\ desk' = [desk EXCEPT ![d] = [desk[d] EXCEPT !.at = at]]
        /\ UNCHANGED <<member, loop, setup, enterable, ops>> /\ deskFree
        /\ account' = [account EXCEPT ![desk[d].who] = "on"]
    BY <1>0, <1>4 DEF RestoreAccount
  <2>2. at \in {"join", "weave"} /\ (at = "weave" => desk[d].way = "weave")
    BY DEF Joining
  <2> HIDE DEF at
  <2>3. [desk[d] EXCEPT !.at = at] \in Desk
    BY <1>0, <2>2 DEF Desk
  <2>4. desk'[d].at = at /\ desk'[d].who = desk[d].who /\ desk'[d].way = desk[d].way
    BY <1>0, <2>1 DEF Desk
  <2>5. account' \in [Folk -> {"unknown", "off", "on"}] /\ account'[desk[d].who] = "on"
        /\ \A p \in Folk : account[p] = "on" => account'[p] = "on"
    BY <1>0, <2>1
  <2>6. DeskOK(d)'
    BY <2>2, <2>4, <2>5 DEF DeskOK
  <2> QED BY <1>0, <1>1, <2>1, <2>3, <2>5, <2>6 DEF VisitsTypeOK, Belongs
<1>5. CASE Join(d)
  <2> DEFINE g == desk[d].g
             p == desk[d].who
             m == CreateMembership(member[g][p], "member")
             k == IF desk[d].way = "launch" THEN FreeDesk ELSE [desk[d] EXCEPT !.at = "mail"]
  <2>1. /\ desk[d].at = "join" /\ desk' = [desk EXCEPT ![d] = k]
        /\ member' = [member EXCEPT ![g] = [member[g] EXCEPT ![p] = m]]
        /\ UNCHANGED <<account, loop, setup, ops>> /\ deskFree /\ Widen
    BY <1>0, <1>5 DEF Join
  <2>2. member[g][p] \in Member /\ g \in Loops /\ p \in Folk
    BY <1>0
  <2>3. m \in Member /\ m.role # "none" /\ m.on
    BY <2>2 DEF CreateMembership, Member
  <2>4. k \in Desk
    BY <1>0 DEF Desk
  <2>5. desk'[d] = k
    BY <1>0, <2>1
  <2>6. k.at \in {"free", "mail"}
        /\ (k.at = "mail" => desk[d].way # "launch" /\ k.way = desk[d].way /\ k.who = p /\ k.g = g)
    BY <1>0 DEF Desk, FreeDesk
  <2> HIDE DEF m, k
  <2>7. member' \in [Loops -> [Folk -> Member]]
    BY <1>0, <2>1, <2>2, <2>3
  <2>8. member'[g][p] = m
    BY <1>0, <2>1, <2>2
  <2>9. \A q \in Folk, h \in Loops : member'[h][q] = IF h = g /\ q = p THEN m ELSE member[h][q]
    BY <1>0, <2>1, <2>2
  <2>10. \A q \in Folk, h \in Loops : Belongs(q, h) => Belongs(q, h)'
    BY <2>3, <2>9 DEF Belongs
  <2>11. k.at = "mail" => account[p] = "on"
    BY <1>0, <2>1, <2>6 DEF DeskOK
  <2>12. DeskOK(d)'
    BY <2>1, <2>3, <2>5, <2>6, <2>8, <2>11 DEF DeskOK, Belongs
  <2> QED BY <1>0, <1>1, <2>1, <2>4, <2>7, <2>10, <2>12 DEF VisitsTypeOK
<1>6. CASE CreateGroup(d)
  <2> DEFINE g == desk[d].g
             p == desk[d].who
             m == [role |-> "admin", on |-> TRUE]
             k == [desk[d] EXCEPT !.at = "mail"]
  <2>1. /\ desk[d].at = "weave" /\ desk' = [desk EXCEPT ![d] = k]
        /\ member' = [member EXCEPT ![g] = [member[g] EXCEPT ![p] = m]]
        /\ loop' = [loop EXCEPT ![g] = "open"]
        /\ UNCHANGED <<account, setup, ops>> /\ deskFree /\ Widen
    BY <1>0, <1>6 DEF CreateGroup
  <2>2. g \in Loops /\ p \in Folk
    BY <1>0
  <2>3. m \in Member /\ m.role # "none" /\ m.on
    BY DEF Member
  <2>4. k \in Desk /\ k.at = "mail" /\ k.who = p /\ k.g = g /\ k.way = desk[d].way
    BY <1>0 DEF Desk
  <2>5. desk'[d] = k
    BY <1>0, <2>1
  <2> HIDE DEF m, k
  <2>7. member' \in [Loops -> [Folk -> Member]]
    BY <1>0, <2>1, <2>2, <2>3
  <2>8. \A q \in Folk, h \in Loops : member'[h][q] = IF h = g /\ q = p THEN m ELSE member[h][q]
    BY <1>0, <2>1, <2>2
  <2>9. \A q \in Folk, h \in Loops : Belongs(q, h) => Belongs(q, h)'
    BY <2>3, <2>8 DEF Belongs
  <2>10. desk[d].way # "launch"
    BY <1>0, <2>1 DEF DeskOK
  <2>11. DeskOK(d)'
    BY <1>0, <2>1, <2>2, <2>3, <2>4, <2>5, <2>8, <2>10 DEF DeskOK, Belongs
  <2>12. loop' \in [Loops -> {"absent", "open", "archived"}]
    BY <1>0, <2>1 DEF VisitsTypeOK
  <2> QED BY <1>0, <1>1, <2>1, <2>4, <2>7, <2>9, <2>11, <2>12 DEF VisitsTypeOK
<1>7. CASE SendInviteEmail(d) \/ DeskFails(d)
  <2>1. /\ desk' = [desk EXCEPT ![d] = FreeDesk] /\ UNCHANGED <<peopleVars, enterable, ops>> /\ deskFree
    BY <1>7 DEF SendInviteEmail, DeskFails
  <2>2. desk'[d].at = "free"
    BY <1>0, <2>1 DEF FreeDesk
  <2>3. DeskOK(d)'
    BY <2>2 DEF DeskOK
  <2> QED BY <1>0, <1>1, <2>1, <2>3 DEF peopleVars, VisitsTypeOK, Belongs
<1> QED BY <1>2, <1>3, <1>4, <1>5, <1>6, <1>7 DEF DeskStep

\* Every reachable state satisfies what a visit and an invitation rely on.
THEOREM VisitsInvariant == VisitsSpec => []VisitsInv
<1>1. VisitsInit => VisitsInv
  <2> SUFFICES ASSUME VisitsInit PROVE VisitsInv
    OBVIOUS
  <2>0. 1 \in Loops /\ 0 \in 0..MaxOps
    BY VisitsAssumption DEF Loops
  <2>1. PICK p \in Folk : visit = AtLogin(p)
    BY DEF VisitsInit
  <2>2. /\ visit \in Visit /\ visit.at = "shown" /\ visit.path = "/login"
    BY <2>0, <2>1 DEF AtLogin, Visit
  <2>3. FreeDesk \in Desk /\ FreeDesk.at = "free"
    <3>1. (CHOOSE q \in Folk : TRUE) \in Folk
      BY <2>1
    <3> QED BY <2>0, <3>1 DEF FreeDesk, Desk
  <2>4. desk \in [Desks -> Desk] /\ \A d \in Desks : desk[d].at = "free"
    BY <2>3 DEF VisitsInit
  <2>5. member \in [Loops -> [Folk -> Member]]
    <3>1. PICK old : member = [g \in Loops |-> [u \in Folk |->
                     IF g = 1 /\ u \in Operators THEN [role |-> "admin", on |-> TRUE]
                     ELSE IF g = 1 /\ u \in old THEN [role |-> "admin", on |-> FALSE]
                     ELSE [role |-> "none", on |-> FALSE]]]
      BY DEF VisitsInit
    <3>2. /\ [role |-> "admin", on |-> TRUE] \in Member
          /\ [role |-> "admin", on |-> FALSE] \in Member
          /\ [role |-> "none", on |-> FALSE] \in Member
      BY DEF Member
    <3> QED BY <3>1, <3>2
  <2>6. VisitsTypeOK
    <3>1. account \in [Folk -> {"unknown", "off", "on"}]
      BY DEF VisitsInit
    <3>2. loop \in [Loops -> {"absent", "open", "archived"}] /\ setup \in [Loops -> BOOLEAN]
      BY DEF VisitsInit
    <3> QED BY <2>0, <2>2, <2>4, <2>5, <3>1, <3>2 DEF VisitsInit, VisitsTypeOK
  <2>7. VisitOK
    <3>1. "/login" \notin LoopPages
      BY DEF LoopPages
    <3> QED BY <2>2, <3>1 DEF VisitOK
  <2>8. \A d \in Desks : DeskOK(d)
    BY <2>4 DEF DeskOK
  <2> QED BY <2>6, <2>7, <2>8 DEF VisitsInv
<1>2. VisitsInv /\ [VisitsNext]_visitVars => VisitsInv'
  <2> SUFFICES ASSUME VisitsInv, [VisitsNext]_visitVars PROVE VisitsInv'
    OBVIOUS
  <2>0. VisitsTypeOK /\ VisitOK /\ \A d \in Desks : DeskOK(d)
    BY DEF VisitsInv
  <2>1. ASSUME UNCHANGED <<account, member, desk>> PROVE (\A d \in Desks : DeskOK(d))'
    BY <2>0, <2>1 DEF DeskOK, Belongs
  <2>2. CASE VisitStep \/ \E a \in Addresses : Navigate(a)
    <3>1. UNCHANGED <<peopleVars, desk>>
      BY <2>2 DEF VisitStep, Navigate, ExchangeLink, Unauthorized, Resolve, PersistSessionGroup,
                  PersistLastGroup, Route
    <3>2. VisitsTypeOK' /\ VisitOK'
      BY <2>0, <2>2, <3>1, VisitKeeps DEF VisitsTypeOK, peopleVars
    <3> QED BY <2>1, <3>1, <3>2 DEF VisitsInv, peopleVars
  <2>3. CASE SignOut \/ \E g \in Loops : SwitchGroup(g) \/ UpdateGroup(g) \/ FinishSetup(g)
    BY <2>0, <2>1, <2>3, OthersKeep DEF VisitsInv
  <2>4. ASSUME NEW d \in Desks, DeskStep(d) PROVE VisitsInv'
    BY <2>4, DeskKeeps
  <2>5. CASE UNCHANGED visitVars
    <3>1. VisitOK'
      BY <2>0, <2>5 DEF visitVars, VisitOK, Welcome, Belongs
    <3>2. VisitsTypeOK'
      BY <2>0, <2>5 DEF visitVars, VisitsTypeOK
    <3> QED BY <2>1, <2>5, <3>1, <3>2 DEF visitVars, VisitsInv
  <2> QED BY <2>2, <2>3, <2>4, <2>5 DEF VisitsNext
<1> QED BY <1>1, <1>2, PTL DEF VisitsSpec

\* A page of a Loop is shown only to somebody who could enter that Loop at some
\* moment of the request, however Loops are archived, memberships change and
\* sessions move while the browser is redirected.
THEOREM ShownWhereWelcome == VisitsSpec => []ShownOnlyWhereWelcome
<1>1. VisitsInv => ShownOnlyWhereWelcome
  BY DEF VisitsInv, VisitOK, ShownOnlyWhereWelcome
<1> QED BY <1>1, VisitsInvariant, PTL

\* Whoever is mailed an invitation can sign in and enter the Loop, whichever steps
\* failed before and however many invitations raced.
THEOREM InvitedGetIn == VisitsSpec => []InvitedAreMembers
<1>1. VisitsInv => InvitedAreMembers
  BY DEF VisitsInv, DeskOK, InvitedAreMembers
<1> QED BY <1>1, VisitsInvariant, PTL

-----------------------------------------------------------------------------
(* The launch wizard.                                                      *)

\* An attempt in flight has a form, and a launched wizard has none in flight.
AttemptOK ==
    /\ wizardAt # "closed" \/ complete => form \in Payload /\ form.keep \subseteq form.picks
    /\ complete => wizardAt = "closed"

\* How often the round under way asks each text, at each place of the attempt.
CountsOK ==
    \A t \in Texts :
        LET n == asked[form.month][t] IN
        /\ wizardAt = "defaults" => n = 0
        /\ wizardAt = "picks" => n <= 1 /\ (n = 1 => defaults[t] = "on")
        /\ wizardAt \in {"promote", "requeue", "invite", "complete"} \/ complete =>
             /\ t \in form.picks => n >= 1
             /\ t \in form.keep => n = 1 \/ blind
             /\ n <= (IF t \in form.picks THEN 1 ELSE 0) + (IF defaults[t] = "on" THEN 1 ELSE 0)

\* From the queueing of its events on, a round that collects will be closed.
CloseQueued ==
    (wizardAt \in {"invite", "complete"} \/ complete) /\ round[form.month] = "collecting" =>
        autoClose[form.month] = "pending" /\ form.month \notin closing

WizardInv == WizardTypeOK /\ AttemptOK /\ CountsOK /\ CloseQueued

-----------------------------------------------------------------------------
\* Adding a set of texts to a round's questions counts each of them once more.
LEMMA QuestionsAdded ==
    ASSUME asked \in [Months -> [Texts -> Nat]], NEW month \in Months, NEW S
    PROVE  /\ WithQuestions(month, S) \in [Months -> [Texts -> Nat]]
           /\ \A t \in Texts : WithQuestions(month, S)[month][t]
                                 = asked[month][t] + IF t \in S THEN 1 ELSE 0
BY DEF WithQuestions

\* What a step may count as failed.
LEMMA FailuresBounded ==
    ASSUME WizardTypeOK
    PROVE  /\ OneMoreFailure => failures' \in 0..MaxFailures
           /\ \A S, done : Through(S, done) => failures' \in 0..MaxFailures
<1>1. failures \in 0..MaxFailures /\ MaxFailures \in Nat
  BY WizardAssumption DEF WizardTypeOK
<1>2. OneMoreFailure => failures' \in 0..MaxFailures
  BY <1>1 DEF OneMoreFailure
<1> QED BY <1>1, <1>2 DEF Through

\* The attempt's steps, and the scheduler's beside them, keep the types.
LEMMA WizardTypeInductive == WizardTypeOK /\ AttemptOK /\ [WizardNext]_wizardVars => WizardTypeOK'
<1> SUFFICES ASSUME WizardTypeOK, AttemptOK, [WizardNext]_wizardVars PROVE WizardTypeOK'
  OBVIOUS
<1> USE DEF WizardTypeOK
<1>0. wizardAt # "closed" => form \in Payload /\ form.month \in Months
  BY DEF AttemptOK, Payload
<1>1. ASSUME NEW f \in Payload, SubmitWizard(f) PROVE WizardTypeOK'
  BY <1>1 DEF SubmitWizard, Then, WizardSteps
<1>2. CASE SetDefaultQuestionEnabled
  <2>1. failures' \in 0..MaxFailures
    BY <1>2, FailuresBounded DEF SetDefaultQuestionEnabled
  <2>2. defaults' \in [Texts -> {"absent", "on", "off"}]
    BY <1>2 DEF SetDefaultQuestionEnabled
  <2> QED BY <1>2, <2>1, <2>2 DEF SetDefaultQuestionEnabled, Then, WizardSteps
<1>3. CASE GetOrCreateSetupIssue \/ SetCollecting
  BY <1>3 DEF GetOrCreateSetupIssue, SetCollecting, Then, WizardSteps
<1>4. CASE DeleteQuestionsByIssue \/ ResetRefused
  <2>1. CASE DeleteQuestionsByIssue
    <3>1. [t \in Texts |-> 0] \in [Texts -> Nat]
      OBVIOUS
    <3>2. asked' \in [Months -> [Texts -> Nat]]
      BY <2>1, <3>1 DEF DeleteQuestionsByIssue
    <3> QED BY <2>1, <3>2 DEF DeleteQuestionsByIssue, Then, WizardSteps
  <2>2. CASE ResetRefused
    BY <2>2 DEF ResetRefused, Then, WizardSteps
  <2> QED BY <1>4, <2>1, <2>2
<1>5. CASE InsertDefaultQuestions
  <2>1. failures' \in 0..MaxFailures
    BY <1>5, FailuresBounded DEF InsertDefaultQuestions
  <2>2. asked' \in [Months -> [Texts -> Nat]]
    BY <1>0, <1>5, QuestionsAdded DEF InsertDefaultQuestions, Then
  <2> QED BY <1>5, <2>1, <2>2 DEF InsertDefaultQuestions, Then, WizardSteps
<1>6. CASE CreatePicks
  <2>1. failures' \in 0..MaxFailures
    BY <1>6, FailuresBounded DEF CreatePicks
  <2>2. asked' \in [Months -> [Texts -> Nat]]
    BY <1>0, <1>6, QuestionsAdded DEF CreatePicks, Then
  <2> QED BY <1>6, <2>1, <2>2 DEF CreatePicks, Then, WizardSteps
<1>7. CASE CreatePicksFails
  <2>1. failures' \in 0..MaxFailures
    BY <1>7, FailuresBounded DEF CreatePicksFails
  <2>2. asked' \in [Months -> [Texts -> Nat]]
    BY <1>0, <1>7, QuestionsAdded DEF CreatePicksFails, Then
  <2> QED BY <1>7, <2>1, <2>2 DEF CreatePicksFails, Then, WizardSteps
<1>8. CASE PromotePicks
  <2>1. failures' \in 0..MaxFailures
    BY <1>8, FailuresBounded DEF PromotePicks
  <2>2. defaults' \in [Texts -> {"absent", "on", "off"}]
    BY <1>8 DEF PromotePicks
  <2> QED BY <1>8, <2>1, <2>2 DEF PromotePicks, Then, WizardSteps
<1>9. CASE RequeueIssueEvents \/ InviteFriends \/ CompleteSetup
  BY <1>9 DEF RequeueIssueEvents, InviteFriends, CompleteSetup, Rearmed, Then, WizardSteps
<1>10. CASE WizardFails
  <2>1. failures' \in 0..MaxFailures
    BY <1>10, FailuresBounded DEF WizardFails
  <2> QED BY <1>10, <2>1 DEF WizardFails, WizardSteps
<1>11. ASSUME NEW k \in Months, FireAutoClose(k) \/ MarkCloseFired(k) \/ AdminAnswersRound(k)
       PROVE  WizardTypeOK'
  BY <1>11 DEF FireAutoClose, MarkCloseFired, AdminAnswersRound
<1>12. CASE UNCHANGED wizardVars
  BY <1>12 DEF wizardVars
<1> QED
  BY <1>1, <1>2, <1>3, <1>4, <1>5, <1>6, <1>7, <1>8, <1>9, <1>10, <1>11, <1>12
  DEF WizardNext, WizardStep

\* An attempt begins with a form, and ends with a launch or with none.
LEMMA AttemptInductive == AttemptOK /\ [WizardNext]_wizardVars => AttemptOK'
<1> SUFFICES ASSUME AttemptOK, [WizardNext]_wizardVars PROVE AttemptOK'
  OBVIOUS
<1> USE DEF AttemptOK
<1>1. ASSUME NEW f \in Payload, SubmitWizard(f) PROVE AttemptOK'
  BY <1>1 DEF SubmitWizard, Then
<1>2. CASE SetDefaultQuestionEnabled \/ GetOrCreateSetupIssue \/ SetCollecting
           \/ DeleteQuestionsByIssue \/ InsertDefaultQuestions
  BY <1>2 DEF SetDefaultQuestionEnabled, GetOrCreateSetupIssue, SetCollecting,
              DeleteQuestionsByIssue, InsertDefaultQuestions, Then
<1>3. CASE CreatePicks \/ PromotePicks \/ RequeueIssueEvents \/ InviteFriends \/ CompleteSetup
  BY <1>3 DEF CreatePicks, PromotePicks, RequeueIssueEvents, InviteFriends, CompleteSetup, Then
<1>4. CASE ResetRefused \/ CreatePicksFails \/ WizardFails
  BY <1>4 DEF ResetRefused, CreatePicksFails, WizardFails, Then
<1>5. ASSUME NEW k \in Months, FireAutoClose(k) \/ MarkCloseFired(k) \/ AdminAnswersRound(k)
      PROVE  AttemptOK'
  BY <1>5 DEF FireAutoClose, MarkCloseFired, AdminAnswersRound
<1>6. CASE UNCHANGED wizardVars
  BY <1>6 DEF wizardVars
<1> QED BY <1>1, <1>2, <1>3, <1>4, <1>5, <1>6 DEF WizardNext, WizardStep

\* SetCollecting comes before the events are queued; a close takes the round out of
\* collecting before it is marked.
LEMMA CloseInductive ==
    WizardTypeOK /\ AttemptOK /\ CloseQueued /\ [WizardNext]_wizardVars => CloseQueued'
<1> SUFFICES ASSUME WizardTypeOK, AttemptOK, CloseQueued, [WizardNext]_wizardVars PROVE CloseQueued'
  OBVIOUS
<1> USE DEF CloseQueued
<1>0. wizardAt # "closed" \/ complete => form.month \in Months
  BY DEF AttemptOK, Payload
<1>1. CASE \/ \E f \in Payload : SubmitWizard(f)
           \/ SetDefaultQuestionEnabled \/ GetOrCreateSetupIssue \/ SetCollecting
           \/ DeleteQuestionsByIssue \/ InsertDefaultQuestions \/ ResetRefused
           \/ CreatePicks \/ CreatePicksFails \/ PromotePicks \/ WizardFails
  <2>1. wizardAt' \notin {"invite", "complete"} /\ complete' = complete
    BY <1>1 DEF SubmitWizard, SetDefaultQuestionEnabled, GetOrCreateSetupIssue, SetCollecting,
                DeleteQuestionsByIssue, InsertDefaultQuestions, ResetRefused, CreatePicks,
                CreatePicksFails, PromotePicks, WizardFails, Then
  <2>2. ~complete
    BY <1>1 DEF SubmitWizard, SetDefaultQuestionEnabled, GetOrCreateSetupIssue, SetCollecting,
                DeleteQuestionsByIssue, InsertDefaultQuestions, ResetRefused, CreatePicks,
                CreatePicksFails, PromotePicks, WizardFails, Then, AttemptOK
  <2> QED BY <2>1, <2>2
<1>2. CASE RequeueIssueEvents
  <2>1. wizardAt = "requeue" /\ autoClose'[form.month] = "pending"
    BY <1>0, <1>2 DEF RequeueIssueEvents, Rearmed, Then, WizardTypeOK
  <2> QED BY <1>2, <2>1 DEF RequeueIssueEvents
<1>3. CASE InviteFriends \/ CompleteSetup
  BY <1>3 DEF InviteFriends, CompleteSetup, Then
<1>4. ASSUME NEW k \in Months, FireAutoClose(k) PROVE CloseQueued'
  BY <1>0, <1>4 DEF FireAutoClose, WizardTypeOK
<1>5. ASSUME NEW k \in Months, MarkCloseFired(k) PROVE CloseQueued'
  BY <1>0, <1>5 DEF MarkCloseFired, WizardTypeOK
<1>6. ASSUME NEW k \in Months, AdminAnswersRound(k) PROVE CloseQueued'
  BY <1>6 DEF AdminAnswersRound
<1>7. CASE UNCHANGED wizardVars
  BY <1>7 DEF wizardVars
<1> QED BY <1>1, <1>2, <1>3, <1>4, <1>5, <1>6, <1>7 DEF WizardNext, WizardStep

\* Whatever earlier attempts left in the round, deleting its questions starts the
\* count afresh, and a default or a pick counts once.
LEMMA CountsInductive ==
    WizardTypeOK /\ AttemptOK /\ CountsOK /\ [WizardNext]_wizardVars => CountsOK'
<1> SUFFICES ASSUME WizardTypeOK, AttemptOK, CountsOK, [WizardNext]_wizardVars PROVE CountsOK'
  OBVIOUS
<1>0. /\ asked \in [Months -> [Texts -> Nat]]
      /\ wizardAt # "closed" => form.month \in Months /\ form.keep \subseteq form.picks
      /\ wizardAt # "closed" \/ complete => \A t \in Texts : asked[form.month][t] \in Nat
  BY DEF WizardTypeOK, AttemptOK, Payload
\* A step to a place that says nothing of the counts.
<1>1. CASE /\ wizardAt' \in {"closed", "switches", "issue", "collecting", "clear"}
           /\ ~complete'
  BY <1>1 DEF CountsOK
<1>2. CASE \/ \E f \in Payload : SubmitWizard(f)
           \/ SetDefaultQuestionEnabled \/ GetOrCreateSetupIssue \/ SetCollecting
           \/ ResetRefused \/ CreatePicksFails \/ WizardFails
  BY <1>1, <1>2 DEF SubmitWizard, SetDefaultQuestionEnabled, GetOrCreateSetupIssue, SetCollecting,
                    ResetRefused, CreatePicksFails, WizardFails, Then, AttemptOK
<1>3. CASE DeleteQuestionsByIssue
  <2>1. wizardAt' = "defaults" /\ ~complete' /\ wizardAt = "clear" /\ form' = form
    BY <1>3 DEF DeleteQuestionsByIssue, Then, AttemptOK
  <2>2. \A t \in Texts : asked'[form.month][t] = 0
    BY <1>0, <1>3, <2>1 DEF DeleteQuestionsByIssue
  <2> QED BY <2>1, <2>2 DEF CountsOK
<1>4. CASE InsertDefaultQuestions
  <2>1. wizardAt' = "picks" /\ ~complete' /\ wizardAt = "defaults" /\ form' = form
        /\ defaults' = defaults
    BY <1>4 DEF InsertDefaultQuestions, Then, AttemptOK
  <2>2. PICK done \in SUBSET Enabled : asked' = WithQuestions(form.month, done)
    BY <1>4 DEF InsertDefaultQuestions
  <2>3. \A t \in Texts : asked'[form.month][t] = asked[form.month][t] + IF t \in done THEN 1 ELSE 0
    BY <1>0, <2>1, <2>2, QuestionsAdded
  <2>4. \A t \in Texts : asked[form.month][t] = 0
    BY <2>1 DEF CountsOK
  <2>5. \A t \in done : defaults[t] = "on"
    BY <2>2 DEF Enabled
  <2> QED BY <2>1, <2>3, <2>4, <2>5 DEF CountsOK
<1>5. CASE CreatePicks
  <2>1. wizardAt' = "promote" /\ ~complete' /\ wizardAt = "picks" /\ form' = form
        /\ defaults' = defaults
    BY <1>5 DEF CreatePicks, Then, AttemptOK
  <2>2. ASSUME NEW t \in Texts
        PROVE  LET n == asked'[form.month][t] IN
               /\ t \in form.picks => n >= 1
               /\ t \in form.keep => n = 1 \/ blind'
               /\ n <= (IF t \in form.picks THEN 1 ELSE 0) + (IF defaults[t] = "on" THEN 1 ELSE 0)
    <3>1. asked[form.month][t] \in Nat /\ asked[form.month][t] <= 1
          /\ (asked[form.month][t] = 1 => defaults[t] = "on")
          /\ (t \in form.keep => t \in form.picks)
      BY <1>0, <2>1 DEF CountsOK
    <3>2. CASE asked' = WithQuestions(form.month, PicksToInsert)
      <4>1. asked'[form.month][t] = asked[form.month][t] + IF t \in PicksToInsert THEN 1 ELSE 0
        BY <1>0, <2>1, <3>2, QuestionsAdded
      <4>2. t \in PicksToInsert <=> t \in form.picks /\ ~(t \in form.keep /\ asked[form.month][t] > 0)
        BY DEF PicksToInsert
      <4> QED BY <3>1, <4>1, <4>2
    <3>3. CASE blind' = TRUE /\ asked' = WithQuestions(form.month, form.picks)
      <4>1. asked'[form.month][t] = asked[form.month][t] + IF t \in form.picks THEN 1 ELSE 0
        BY <1>0, <2>1, <3>3, QuestionsAdded
      <4> QED BY <3>1, <3>3, <4>1
    <3> QED BY <1>5, <3>2, <3>3 DEF CreatePicks
  <2> QED BY <2>1, <2>2 DEF CountsOK
<1>6. CASE PromotePicks
  <2>1. wizardAt' = "requeue" /\ ~complete' /\ wizardAt = "promote"
        /\ UNCHANGED <<asked, form, blind>>
    BY <1>6 DEF PromotePicks, Then, AttemptOK
  <2>2. \A t \in Texts : defaults[t] = "on" => defaults'[t] = "on"
    BY <1>6 DEF PromotePicks
  <2>3. \A t \in Texts : asked[form.month][t] \in Nat
    BY <1>0, <2>1
  <2> QED BY <2>1, <2>2, <2>3 DEF CountsOK
<1>7. CASE RequeueIssueEvents \/ InviteFriends \/ CompleteSetup
  BY <1>7 DEF RequeueIssueEvents, InviteFriends, CompleteSetup, Then, CountsOK
<1>8. CASE \E k \in Months : FireAutoClose(k) \/ MarkCloseFired(k) \/ AdminAnswersRound(k)
  <2>1. UNCHANGED <<asked, form, blind, defaults, complete, wizardAt>>
    BY <1>8 DEF FireAutoClose, MarkCloseFired, AdminAnswersRound
  <2> QED BY <2>1 DEF CountsOK
<1>9. CASE UNCHANGED wizardVars
  BY <1>9 DEF wizardVars, CountsOK
<1> QED BY <1>2, <1>3, <1>4, <1>5, <1>6, <1>7, <1>8, <1>9 DEF WizardNext, WizardStep

\* Every reachable state of the wizard satisfies them all.
THEOREM WizardInvariant == WizardSpec => []WizardInv
<1>1. WizardInit => WizardInv
  <2> SUFFICES ASSUME WizardInit PROVE WizardInv
    OBVIOUS
  <2>1. [t \in Texts |-> 0] \in [Texts -> Nat]
    OBVIOUS
  <2>2. asked \in [Months -> [Texts -> Nat]]
    BY <2>1 DEF WizardInit
  <2>3. failures \in 0..MaxFailures
    BY WizardAssumption DEF WizardInit
  <2>4. WizardTypeOK
    BY <2>2, <2>3 DEF WizardInit, WizardTypeOK, WizardSteps
  <2> QED BY <2>4 DEF WizardInit, WizardInv, AttemptOK, CountsOK, CloseQueued
<1>2. WizardInv /\ [WizardNext]_wizardVars => WizardInv'
  BY WizardTypeInductive, AttemptInductive, CountsInductive, CloseInductive DEF WizardInv
<1> QED BY <1>1, <1>2, PTL DEF WizardSpec

\* The round that is launched asks every pick, nothing twice without reason and
\* nothing else, after however many attempts that failed or stopped halfway.
THEOREM LaunchAsksOnce == WizardSpec => []LaunchAsksEachPickOnce
<1>1. WizardInv => LaunchAsksEachPickOnce
  BY DEF WizardInv, CountsOK, LaunchAsksEachPickOnce, Launched
<1> QED BY <1>1, WizardInvariant, PTL

\* A launched round that collects has its auto_close event queued, even when an
\* abandoned attempt's event closes and is marked while the wizard runs.
THEOREM LaunchCloses == WizardSpec => []LaunchedRoundCloses
<1>1. WizardInv => LaunchedRoundCloses
  BY DEF WizardInv, CloseQueued, LaunchedRoundCloses, Launched
<1> QED BY <1>1, WizardInvariant, PTL

-----------------------------------------------------------------------------
(* The comment digest.                                                     *)

\* Not queued yet: the comment is not written, or its posting has not come to
\* this recipient.
Waiting(n) ==
    \/ remark[n.about].state = "unwritten"
    \/ posting.about = n.about /\ (posting.listed => n.to \in posting.to)

\* The digest holds the row; it has mailed it and is about to delete it.
Known(n) == n \in queue \cup digest.rows
Draining(n) == digest.at = "drain" /\ n.to = digest.to /\ n \in digest.rows

\* A row that can still be mailed has been mailed at most once per slip.
NoteOK(n) ==
    /\ mailed[n] <= 1 + slips
    /\ Waiting(n) => mailed[n] = 0 /\ ~Known(n)
    /\ Known(n) /\ ~Draining(n) => mailed[n] <= slips
    /\ Draining(n) => mailed[n] > 0
    /\ Known(n) \/ mailed[n] > 0 => remark[n.about].by # n.to
    /\ posting.about = n.about /\ posting.listed /\ n.to \in posting.to
         => remark[n.about].by # n.to

Noted == \A n \in Notification : NoteOK(n)

\* Recipients are in hand only once they have been listed.
ListedFirst == posting.to # {} => posting.listed

\* Whose rows the digest is about to drop was muted when it looked.
MutedSeen == digest.at = "muted" => Listed(digest.to) \subseteq hushed

DiscussionInv == DiscussionTypeOK /\ ListedFirst /\ Noted /\ MutedSeen

-----------------------------------------------------------------------------
\* Readers, comments and counts are what they should be.
LEMMA Numbers ==
    ASSUME DiscussionTypeOK
    PROVE  /\ slips \in Nat
           /\ \A n \in Notification : n.to \in Readers /\ n.about \in Comments /\ mailed[n] \in Nat
           /\ NoComment \notin Comments
<1>1. slips \in Nat /\ NoComment \notin Comments
  BY DiscussionAssumption DEF DiscussionTypeOK, Comments, NoComment
<1>2. ASSUME NEW n \in Notification PROVE n.to \in Readers /\ n.about \in Comments
  BY DEF Notification
<1>3. ASSUME NEW n \in Notification PROVE mailed[n] \in Nat
  BY DEF DiscussionTypeOK
<1> QED
  BY <1>1, <1>2, <1>3

\* Whatever the digest has in hand when it goes on is part of what it listed.
LEMMA DoneShrinks ==
    ASSUME DiscussionTypeOK, NEW m \in Readers
    PROVE  /\ Done(m) \in [at : {"idle", "next", "muted", "send", "drain"}, rows : SUBSET Notification,
                           to : Readers]
           /\ Done(m).rows = digest.rows \ Listed(m)
           /\ Done(m).at \notin {"muted", "drain"}
BY DiscussionAssumption DEF DiscussionTypeOK, Done, NoDigest, Listed

\* Comments, queued rows and the digest in flight keep their types.
LEMMA DiscussionTypeInductive == DiscussionTypeOK /\ [DiscussionNext]_discussionVars => DiscussionTypeOK'
<1> SUFFICES ASSUME DiscussionTypeOK, [DiscussionNext]_discussionVars PROVE DiscussionTypeOK'
  OBVIOUS
<1> USE DiscussionAssumption
<1>s. Slip => slips' \in 0..MaxSlips
  BY DEF Slip, DiscussionTypeOK
<1>u. slips' = slips => slips' \in 0..MaxSlips
  BY DEF DiscussionTypeOK
<1>h. digest' \in [at : {"idle", "next", "muted", "send", "drain"}, rows : SUBSET Notification,
                   to : Readers]
        => hushed' \subseteq Notification
  <2>1. CASE DiscussionNext
    BY <2>1 DEF DiscussionNext, DigestStep, RememberMuted
  <2>2. CASE UNCHANGED discussionVars
    BY <2>2 DEF discussionVars, DiscussionTypeOK
  <2> QED
    BY <2>1, <2>2
<1>1. ASSUME NEW c \in Comments, NEW u \in Readers, NEW parent \in Comments \cup {NoComment},
             CreateComment(c, u, parent)
      PROVE  DiscussionTypeOK'
  BY <1>1, <1>h DEF CreateComment, DiscussionTypeOK, NotPosting
<1>2. CASE ListRecipients
  <2>1. ToldAbout(posting.about) \subseteq Readers
    BY DEF ToldAbout, ThreadParticipants, DiscussionTypeOK
  <2> QED
    BY <1>2, <2>1, <1>h DEF ListRecipients, DiscussionTypeOK, NotPosting
<1>3. ASSUME NEW m \in Readers, EnqueueCommentNotification(m) PROVE DiscussionTypeOK'
  BY <1>3, <1>h DEF EnqueueCommentNotification, DiscussionTypeOK, NotPosting, Notification, Posted
<1>4. ASSUME NEW c \in Comments, DeleteComment(c) PROVE DiscussionTypeOK'
  BY <1>4, <1>h DEF DeleteComment, DiscussionTypeOK
<1>5. CASE UpdateNotificationPreferences
  BY <1>5, <1>h DEF UpdateNotificationPreferences, DiscussionTypeOK
<1>6. CASE ListPendingCommentNotifications
  BY <1>6, <1>h DEF ListPendingCommentNotifications, DiscussionTypeOK, NoDigest
<1>7. CASE SendDigest
  <2>1. digest.to \in Readers
    BY DEF DiscussionTypeOK
  <2>2. CASE /\ mailed' = [n \in Notification |-> mailed[n] + IF n \in Listed(digest.to) THEN 1 ELSE 0]
             /\ digest' = [digest EXCEPT !.at = "drain"]
             /\ UNCHANGED slips
    <3>1. mailed' \in [Notification -> Nat]
      BY <2>2 DEF DiscussionTypeOK
    <3> QED
      BY <1>7, <2>2, <3>1, <1>h DEF SendDigest, DiscussionTypeOK
  <2>3. CASE Slip /\ digest' = Done(digest.to) /\ UNCHANGED mailed
    BY <1>7, <2>1, <2>3, <1>s, <1>h, DoneShrinks DEF SendDigest, DiscussionTypeOK
  <2> QED
    BY <1>7, <2>2, <2>3 DEF SendDigest
<1>8. CASE DeleteCommentNotifications
  <2>1. digest.to \in Readers
    BY DEF DiscussionTypeOK
  <2> QED
    BY <1>8, <2>1, <1>s, <1>u, <1>h, DoneShrinks DEF DeleteCommentNotifications, DiscussionTypeOK, Drained
<1>9. ASSUME NEW m \in Readers, NextRecipient(m) PROVE DiscussionTypeOK'
  <2>1. slips' \in 0..MaxSlips
    BY <1>9, <1>s, <1>u DEF NextRecipient
  <2> QED
    BY <1>9, <2>1, <1>h DEF NextRecipient, DiscussionTypeOK
<1>10. CASE DiscussionStops
  BY <1>10, <1>s, <1>h DEF DiscussionStops, DiscussionTypeOK, NotPosting, NoDigest
<1>11. CASE UNCHANGED discussionVars
  BY <1>11 DEF discussionVars, DiscussionTypeOK
<1>12. CASE DrainMuted
  <2>1. digest.to \in Readers
    BY DEF DiscussionTypeOK
  <2> QED
    BY <1>12, <2>1, <1>s, <1>u, <1>h, DoneShrinks DEF DrainMuted, DiscussionTypeOK, DrainedWhenMuted
<1> QED
  BY <1>1, <1>2, <1>3, <1>4, <1>5, <1>6, <1>7, <1>8, <1>9, <1>10, <1>11, <1>12 DEF DiscussionNext, DigestStep

\* Posting lists whom to tell before it queues a row for any of them.
LEMMA ListedFirstInductive ==
    ASSUME DiscussionTypeOK, ListedFirst, [DiscussionNext]_discussionVars
    PROVE  ListedFirst'
<1>1. ASSUME NEW c \in Comments, NEW u \in Readers, NEW parent \in Comments \cup {NoComment},
             CreateComment(c, u, parent)
      PROVE  ListedFirst'
  BY <1>1 DEF CreateComment, NotPosting, ListedFirst
<1>2. CASE ListRecipients
  BY <1>2 DEF ListRecipients, NotPosting, ListedFirst, DiscussionTypeOK
<1>3. ASSUME NEW m \in Readers, EnqueueCommentNotification(m) PROVE ListedFirst'
  BY <1>3 DEF EnqueueCommentNotification, NotPosting, ListedFirst, DiscussionTypeOK
<1>4. CASE DiscussionStops
  BY <1>4 DEF DiscussionStops, NotPosting, ListedFirst
<1>5. CASE UNCHANGED posting
  BY <1>5 DEF ListedFirst
<1> QED
  BY <1>1, <1>2, <1>3, <1>4, <1>5
     DEF DiscussionNext, DigestStep, DeleteComment, UpdateNotificationPreferences,
         ListPendingCommentNotifications, NextRecipient, DrainMuted, SendDigest,
         DeleteCommentNotifications, discussionVars

\* The rows of whoever was muted when the digest looked are marked until it drops them.
LEMMA MutedSeenInductive ==
    ASSUME DiscussionTypeOK, MutedSeen, [DiscussionNext]_discussionVars
    PROVE  MutedSeen'
<1> USE DEF MutedSeen, Listed
<1>1. ASSUME RememberMuted, UNCHANGED digest PROVE MutedSeen'
  BY <1>1 DEF RememberMuted
<1>2. ASSUME NEW m \in Readers, NextRecipient(m), RememberMuted PROVE MutedSeen'
  <2>1. CASE /\ m \in silenced
             /\ digest' = [digest EXCEPT !.at = "muted", !.to = m]
    BY <1>2, <2>1 DEF NextRecipient, RememberMuted, DiscussionTypeOK
  <2>2. CASE digest' = [digest EXCEPT !.at = "send", !.to = m]
    BY <2>2 DEF DiscussionTypeOK
  <2> QED
    BY <1>2, <2>1, <2>2 DEF NextRecipient
<1>3. CASE ListPendingCommentNotifications
  BY <1>3 DEF ListPendingCommentNotifications, DiscussionTypeOK
<1>4. CASE SendDigest \/ DeleteCommentNotifications \/ DrainMuted
  <2>1. digest.to \in Readers
    BY DEF DiscussionTypeOK
  <2> QED
    BY <1>4, <2>1, DoneShrinks DEF SendDigest, DeleteCommentNotifications, DrainMuted, DiscussionTypeOK
<1>5. CASE DiscussionStops
  BY <1>5 DEF DiscussionStops, NoDigest
<1>6. CASE UNCHANGED discussionVars
  BY <1>6 DEF discussionVars
<1> QED
  BY <1>1, <1>2, <1>3, <1>4, <1>5, <1>6
     DEF DiscussionNext, DigestStep, CreateComment, ListRecipients, EnqueueCommentNotification,
         DeleteComment, UpdateNotificationPreferences

\* Each step keeps every row's account.
LEMMA NotedInductive ==
    ASSUME DiscussionInv, [DiscussionNext]_discussionVars, NEW n \in Notification
    PROVE  NoteOK(n)'
<1> USE DiscussionAssumption DEF DiscussionInv
<1>t. slips \in Nat /\ slips' \in Nat /\ mailed[n] \in Nat /\ n.to \in Readers /\ n.about \in Comments
      /\ n.about # NoComment
  BY Numbers, DiscussionTypeInductive DEF DiscussionTypeOK
<1>n. NoteOK(n)
  BY DEF Noted
<1>1. ASSUME NEW c \in Comments, NEW u \in Readers, NEW parent \in Comments \cup {NoComment},
             CreateComment(c, u, parent)
      PROVE  NoteOK(n)'
  <2>1. CASE n.about = c
    BY <1>1, <2>1, <1>t, <1>n
       DEF CreateComment, DiscussionTypeOK, NotPosting, NoteOK, Waiting, Known, Draining
  <2>2. CASE n.about # c
    BY <1>1, <2>2, <1>t, <1>n
       DEF CreateComment, DiscussionTypeOK, NotPosting, NoteOK, Waiting, Known, Draining
  <2> QED
    BY <2>1, <2>2
<1>2. CASE ListRecipients
  <2>1. posting.about = n.about => n.to # remark[n.about].by \/ n.to \notin ToldAbout(posting.about)
    BY DEF ToldAbout
  <2> QED
    BY <1>2, <2>1, <1>t, <1>n
       DEF ListRecipients, DiscussionTypeOK, NotPosting, NoteOK, Waiting, Known, Draining
<1>3. ASSUME NEW m \in Readers, EnqueueCommentNotification(m) PROVE NoteOK(n)'
  <2>1. CASE n = [to |-> m, about |-> posting.about]
    <3>1. posting.listed /\ n.to = m /\ n.about = posting.about /\ m \in posting.to
      BY <1>3, <2>1 DEF EnqueueCommentNotification, ListedFirst
    <3>2. Waiting(n) /\ mailed[n] = 0 /\ ~Draining(n) /\ remark[n.about].by # n.to
      BY <3>1, <1>n DEF NoteOK, Waiting, Known, Draining
    <3>3. ~Waiting(n)' \/ remark[n.about].state = "unwritten"
      BY <1>3, <3>1, <1>t DEF EnqueueCommentNotification, DiscussionTypeOK, NotPosting, Waiting
    <3>4. CASE remark[n.about].state = "unwritten"
      BY <1>3, <3>1, <3>2, <3>4, <1>t, <1>n
         DEF EnqueueCommentNotification, Posted, DiscussionTypeOK, NotPosting, NoteOK, Waiting, Known, Draining
    <3>5. CASE ~Waiting(n)'
      BY <1>3, <3>1, <3>2, <3>5, <1>t, <1>n
         DEF EnqueueCommentNotification, DiscussionTypeOK, NotPosting, NoteOK, Known, Draining
    <3> QED
      BY <3>3, <3>4, <3>5
  <2>2. CASE n # [to |-> m, about |-> posting.about]
    <3>1. n.to # m \/ n.about # posting.about
      BY <2>2 DEF Notification
    <3> QED
      BY <1>3, <2>2, <3>1, <1>t, <1>n
         DEF EnqueueCommentNotification, DiscussionTypeOK, NotPosting, NoteOK, Waiting, Known, Draining
  <2> QED
    BY <2>1, <2>2
<1>4. ASSUME NEW c \in Comments, DeleteComment(c) PROVE NoteOK(n)'
  BY <1>4, <1>t, <1>n DEF DeleteComment, Posted, DiscussionTypeOK, NoteOK, Waiting, Known, Draining
<1>5. CASE UpdateNotificationPreferences
  BY <1>5, <1>n DEF UpdateNotificationPreferences, NoteOK, Waiting, Known, Draining
<1>6. CASE ListPendingCommentNotifications
  BY <1>6, <1>t, <1>n DEF ListPendingCommentNotifications, NoDigest, NoteOK, Waiting, Known, Draining
<1>7. CASE SendDigest
  <2>1. digest.to \in Readers
    BY DEF DiscussionTypeOK
  <2>2. CASE /\ mailed' = [k \in Notification |-> mailed[k] + IF k \in Listed(digest.to) THEN 1 ELSE 0]
             /\ digest' = [digest EXCEPT !.at = "drain"]
             /\ UNCHANGED slips
    <3>1. mailed'[n] = mailed[n] + IF n \in Listed(digest.to) THEN 1 ELSE 0
      BY <2>2
    <3> QED
      BY <1>7, <2>2, <3>1, <1>t, <1>n
         DEF SendDigest, Listed, DiscussionTypeOK, NoteOK, Waiting, Known, Draining
  <2>3. CASE Slip /\ digest' = Done(digest.to) /\ UNCHANGED mailed
    BY <1>7, <2>1, <2>3, <1>t, <1>n, DoneShrinks
       DEF SendDigest, Slip, Listed, NoteOK, Waiting, Known, Draining
  <2> QED
    BY <1>7, <2>2, <2>3 DEF SendDigest
<1>8. CASE DeleteCommentNotifications
  <2>1. digest.to \in Readers
    BY DEF DiscussionTypeOK
  <2> QED
    BY <1>8, <2>1, <1>t, <1>n, DoneShrinks
       DEF DeleteCommentNotifications, Slip, Drained, Listed, NoteOK, Waiting, Known, Draining
<1>9. ASSUME NEW m \in Readers, NextRecipient(m) PROVE NoteOK(n)'
  <2>1. slips' >= slips
    BY <1>9, <1>t DEF NextRecipient, Slip
  <2>2. digest'.rows = digest.rows /\ digest'.at # "drain" /\ digest.at = "next"
    BY <1>9 DEF NextRecipient, DiscussionTypeOK
  <2> QED
    BY <1>9, <2>1, <2>2, <1>t, <1>n DEF NextRecipient, NoteOK, Waiting, Known, Draining
<1>10. CASE DiscussionStops
  BY <1>10, <1>t, <1>n DEF DiscussionStops, Slip, NotPosting, NoDigest, NoteOK, Waiting, Known, Draining
<1>11. CASE UNCHANGED discussionVars
  BY <1>11, <1>n DEF discussionVars, NoteOK, Waiting, Known, Draining
<1>12. CASE DrainMuted
  <2>1. digest.to \in Readers
    BY DEF DiscussionTypeOK
  <2> QED
    BY <1>12, <2>1, <1>t, <1>n, DoneShrinks
       DEF DrainMuted, Slip, DrainedWhenMuted, Listed, NoteOK, Waiting, Known, Draining
<1> QED
  BY <1>1, <1>2, <1>3, <1>4, <1>5, <1>6, <1>7, <1>8, <1>9, <1>10, <1>11, <1>12 DEF DiscussionNext, DigestStep

-----------------------------------------------------------------------------
\* What the digest has listed, mailed and not deleted yet is accounted for.
THEOREM DiscussionInvariant == DiscussionSpec => []DiscussionInv
<1>1. DiscussionInit => DiscussionInv
  <2> SUFFICES ASSUME DiscussionInit PROVE DiscussionInv
    OBVIOUS
  <2>1. DiscussionTypeOK
    BY DiscussionAssumption DEF DiscussionInit, DiscussionTypeOK, NotPosting, NoDigest, Notification
  <2>2. ASSUME NEW n \in Notification PROVE NoteOK(n)
    BY <2>1, Numbers
       DEF DiscussionInit, NotPosting, NoDigest, NoteOK, Waiting, Known, Draining
  <2> QED
    BY <2>1, <2>2 DEF DiscussionInv, Noted, ListedFirst, MutedSeen, DiscussionInit, NotPosting, NoDigest
<1>2. DiscussionInv /\ [DiscussionNext]_discussionVars => DiscussionInv'
  <2> SUFFICES ASSUME DiscussionInv, [DiscussionNext]_discussionVars PROVE DiscussionInv'
    OBVIOUS
  <2>1. DiscussionTypeOK'
    BY DiscussionTypeInductive DEF DiscussionInv
  <2>2. Notification' = Notification
    BY DEF Notification, Comments
  <2>3. \A n \in Notification : NoteOK(n)'
    BY NotedInductive
  <2>4. ListedFirst'
    BY ListedFirstInductive DEF DiscussionInv
  <2>5. MutedSeen'
    BY MutedSeenInductive DEF DiscussionInv
  <2> QED
    BY <2>1, <2>2, <2>3, <2>4, <2>5 DEF DiscussionInv, Noted
<1> QED
  BY <1>1, <1>2, PTL DEF DiscussionSpec

\* Nobody is mailed about their own comment, and about another's once, plus at
\* most once for each failure or stop, however comments and digests overlap.
THEOREM ToldOnce == DiscussionSpec => []CommentsToldOnce
<1>1. DiscussionInv => CommentsToldOnce
  BY DEF DiscussionInv, Noted, NoteOK, CommentsToldOnce
<1> QED
  BY <1>1, DiscussionInvariant, PTL

\* A row leaves the queue only when its recipient was told, was muted since the
\* digest listed it, or its comment is gone, for any number of readers and
\* comments and whatever becomes of the preference while the digest runs.
THEOREM NobodyForgotten == DiscussionSpec => NothingDrainedUntold
<1> DEFINE Told == \A n \in queue \ queue' :
                     mailed[n] > 0 \/ n \in hushed \/ ~Posted(n.about)'
<1>1. DiscussionInv /\ [DiscussionNext]_discussionVars => [Told]_discussionVars
  <2> SUFFICES ASSUME DiscussionInv, DiscussionNext, NEW n \in queue, n \notin queue'
               PROVE  mailed[n] > 0 \/ n \in hushed \/ ~Posted(n.about)'
    OBVIOUS
  <2>t. n \in Notification /\ n.about \in Comments
    BY Numbers DEF DiscussionInv, DiscussionTypeOK
  <2>n. NoteOK(n)
    BY <2>t DEF DiscussionInv, Noted
  <2>1. ASSUME NEW m \in Readers, EnqueueCommentNotification(m) PROVE FALSE
    BY <2>1 DEF EnqueueCommentNotification
  <2>2. ASSUME NEW c \in Comments, DeleteComment(c) PROVE ~Posted(n.about)'
    BY <2>2, <2>t DEF DeleteComment, Posted, DiscussionInv, DiscussionTypeOK
  <2>3. CASE DeleteCommentNotifications
    BY <2>3, <2>n DEF DeleteCommentNotifications, Drained, Listed, NoteOK, Draining
  <2>4. CASE DrainMuted
    BY <2>4 DEF DrainMuted, DrainedWhenMuted, DiscussionInv, MutedSeen
  <2>5. CASE UNCHANGED queue
    BY <2>5
  <2>6. \/ UNCHANGED queue
        \/ \E m \in Readers : EnqueueCommentNotification(m)
        \/ \E c \in Comments : DeleteComment(c)
        \/ DeleteCommentNotifications \/ DrainMuted
    BY DEF DiscussionNext, DigestStep, CreateComment, ListRecipients, UpdateNotificationPreferences,
           ListPendingCommentNotifications, NextRecipient, SendDigest, DiscussionStops
  <2> QED
    BY <2>1, <2>2, <2>3, <2>4, <2>5, <2>6
<1> QED
  BY <1>1, DiscussionInvariant, PTL DEF DiscussionSpec, NothingDrainedUntold

-----------------------------------------------------------------------------
(* The JMAP transport.                                                     *)

\* A message has been delivered only if its attempt is the last one: it was
\* accepted, or its answer was lost, and neither is tried again.
LastAttempt(s) ==
    \/ sending[s].at \in {"sent", "failed"}
    \/ sending[s].at = "answer" /\ sending[s].outcome \in {"ok", "lost"}

Accepted(s) == sending[s].at = "sent" \/ (sending[s].at = "answer" /\ sending[s].outcome = "ok")

CountOK(s) == /\ delivered[s] <= 1
              /\ delivered[s] = 1 => LastAttempt(s)
              /\ Accepted(s) => delivered[s] = 1

Counted == \A s \in Sends : CountOK(s)

JmapInv == JmapTypeOK /\ Counted

-----------------------------------------------------------------------------
\* A step of a call, and an answer to it, keep the calls typed.
LEMMA CallsTyped ==
    ASSUME sending \in [Sends -> Call], NEW s \in Sends,
           \/ \E at \in Step : Proceed(s, at)
           \/ \E o \in Reply : Answer(s, o)
    PROVE  sending' \in [Sends -> Call]
<1>1. ASSUME NEW at \in Step, Proceed(s, at) PROVE sending' \in [Sends -> Call]
  BY <1>1 DEF Proceed, Call
<1>2. ASSUME NEW o \in Reply, Answer(s, o) PROVE sending' \in [Sends -> Call]
  <2>1. "answer" \in Step
    BY DEF Step
  <2> QED
    BY <1>2, <2>1 DEF Answer, Call
<1> QED
  BY <1>1, <1>2

\* The cached fields, the requests put together from them and the calls in
\* flight keep their types through every step of send and ensureSession.
LEMMA JmapTypeInductive == JmapTypeOK /\ [JmapNext]_jmapVars => JmapTypeOK'
<1> SUFFICES ASSUME JmapTypeOK, [JmapNext]_jmapVars PROVE JmapTypeOK'
  OBVIOUS
<1>e. provider \in Epoch /\ MaxMoves \in Nat
  BY JmapAssumption DEF JmapTypeOK
<1>1. CASE ProviderMoves
  BY <1>1, <1>e DEF ProviderMoves, JmapTypeOK, Epoch
<1>2. ASSUME NEW s \in Sends, EnsureSession(s) PROVE JmapTypeOK'
  <2>1. sending' \in [Sends -> Call]
    BY <1>2, CallsTyped DEF EnsureSession, JmapTypeOK, Step
  <2> QED
    BY <1>2, <2>1 DEF EnsureSession, JmapTypeOK
<1>3. ASSUME NEW s \in Sends, FetchSession(s) PROVE JmapTypeOK'
  <2>1. sending' \in [Sends -> Call]
    BY <1>3, CallsTyped DEF FetchSession, Hitch, JmapTypeOK, Step
  <2>2. cache' \in Session
    BY <1>3, <1>e DEF FetchSession, JmapTypeOK, Session
  <2> QED
    BY <1>3, <2>1, <2>2 DEF FetchSession, Hitch, JmapTypeOK
<1>4. ASSUME NEW s \in Sends, Bootstrap(s) PROVE JmapTypeOK'
  <2>1. sending' \in [Sends -> Call]
    BY <1>4, CallsTyped DEF Bootstrap, Hitch, JmapTypeOK, Step, Reply
  <2>2. cache' \in Session
    BY <1>4, <1>e DEF Bootstrap, JmapTypeOK, Session
  <2> QED
    BY <1>4, <2>1, <2>2 DEF Bootstrap, Hitch, JmapTypeOK
<1>5. ASSUME NEW s \in Sends, ReadCache(s) PROVE JmapTypeOK'
  <2>1. request[s] \in Seq(Epoch) /\ Len(request[s]) \in Nat /\ Len(request[s]) < 5
    BY <1>5 DEF ReadCache, Reads, JmapTypeOK
  <2>2. Len(request[s]) + 1 \in 1..5
    BY <2>1
  <2>3. Reads[Len(request[s]) + 1] \in {"account", "boxes", "url"}
    BY <2>2 DEF Reads
  <2>4. cache[Reads[Len(request[s]) + 1]] \in Epoch
    BY <2>3 DEF JmapTypeOK, Session
  <2>5. Append(request[s], cache[Reads[Len(request[s]) + 1]]) \in Seq(Epoch)
    BY <2>1, <2>4
  <2> QED
    BY <1>5, <2>5 DEF ReadCache, JmapTypeOK
<1>6. ASSUME NEW s \in Sends, PostRequest(s) PROVE JmapTypeOK'
  <2>1. Verdict(request[s]) \in {"ok", "gone", "refused"}
    BY DEF Verdict
  <2>2. sending' \in [Sends -> Call]
    BY <1>6, <2>1, CallsTyped DEF PostRequest, Hitch, JmapTypeOK, Reply
  <2>3. delivered' \in [Sends -> Nat]
    BY <1>6 DEF PostRequest, JmapTypeOK
  <2>4. troubled' \subseteq Sends
    BY <1>6 DEF PostRequest, Hitch, JmapTypeOK
  <2> QED
    BY <1>6, <2>2, <2>3, <2>4 DEF PostRequest, JmapTypeOK
<1>7. ASSUME NEW s \in Sends, SendReturns(s) PROVE JmapTypeOK'
  <2>1. sending' \in [Sends -> Call]
    BY <1>7, CallsTyped DEF SendReturns, JmapTypeOK, Step
  <2> QED
    BY <1>7, <2>1 DEF SendReturns, JmapTypeOK
<1>8. ASSUME NEW s \in Sends, Invalidate(s) PROVE JmapTypeOK'
  <2>1. request' \in [Sends -> Seq(Epoch)]
    BY <1>8 DEF Invalidate, JmapTypeOK
  <2>2. sending' \in [Sends -> Call]
    <3>1. sending \in [Sends -> Call]
      BY DEF JmapTypeOK
    <3>2. sending' = [sending EXCEPT ![s] = [sending[s] EXCEPT !.at = "session", !.try = 2]]
      BY <1>8, <3>1 DEF Invalidate, Call
    <3>3. [sending[s] EXCEPT !.at = "session", !.try = 2] \in Call
      <4>1. "session" \in Step /\ 2 \in 1..2
        BY DEF Step
      <4>2. [sending[s] EXCEPT !.at = "session"] \in Call
        BY <3>1, <4>1 DEF Call
      <4> QED
        BY <4>1, <4>2 DEF Call
    <3> QED
      BY <3>1, <3>2, <3>3
  <2>3. cache' \in Session
    BY <1>8 DEF Invalidate, DropSession, JmapTypeOK, Session
  <2> QED
    BY <1>8, <2>1, <2>2, <2>3 DEF Invalidate, JmapTypeOK
<1>9. CASE UNCHANGED jmapVars
  BY <1>9 DEF jmapVars, JmapTypeOK
<1> QED
  BY <1>1, <1>2, <1>3, <1>4, <1>5, <1>6, <1>7, <1>8, <1>9 DEF JmapNext

\* Only PostRequest delivers, from an attempt that had delivered nothing, and
\* only an answer that proves nothing was done leads to another attempt.
LEMMA CountedInductive == JmapInv /\ [JmapNext]_jmapVars => Counted'
<1> SUFFICES ASSUME JmapInv, [JmapNext]_jmapVars, NEW t \in Sends
             PROVE  CountOK(t)'
  BY DEF Counted
<1>t. /\ sending \in [Sends -> Call]
      /\ delivered \in [Sends -> Nat]
  BY DEF JmapInv, JmapTypeOK
<1>c. CountOK(t)
  BY DEF JmapInv, Counted
<1> USE DEF CountOK, LastAttempt, Accepted
<1>1. CASE ProviderMoves
  BY <1>1, <1>c DEF ProviderMoves
\* A step that delivers nothing, of a call that has not been answered.
<1>u. ASSUME NEW s \in Sends, delivered' = delivered,
             sending[s].at \in {"session", "fetch", "bootstrap"},
             \/ \E at \in {"fetch", "bootstrap", "read"} : Proceed(s, at)
             \/ \E o \in {"lost", "gone"} : Answer(s, o)
      PROVE  CountOK(t)'
  <2>1. CASE s # t
    <3>1. sending'[t] = sending[t]
      BY <1>u, <1>t, <2>1 DEF Proceed, Answer
    <3> QED
      BY <3>1, <1>u, <1>c
  <2>2. CASE s = t
    <3>1. delivered[t] = 0
      BY <1>u, <1>t, <1>c, <2>2
    <3>2. sending[t] \in Call
      BY <1>t
    <3>3. ASSUME NEW at \in {"fetch", "bootstrap", "read"}, Proceed(s, at)
          PROVE  sending'[t].at = at
      BY <3>2, <3>3, <1>t, <2>2 DEF Proceed, Call
    <3>4. ASSUME NEW o \in {"lost", "gone"}, Answer(s, o)
          PROVE  sending'[t].at = "answer" /\ sending'[t].outcome = o
      <4>1. sending'[t] = [sending[t] EXCEPT !.at = "answer", !.outcome = o]
        BY <3>4, <1>t, <2>2 DEF Answer
      <4> QED
        BY <4>1, <3>2 DEF Call
    <3> QED
      BY <3>1, <3>3, <3>4, <1>u
  <2> QED
    BY <2>1, <2>2
<1>2. ASSUME NEW s \in Sends, EnsureSession(s) PROVE CountOK(t)'
  <2>1. \E at \in {"fetch", "bootstrap", "read"} : Proceed(s, at)
    BY <1>2 DEF EnsureSession
  <2> HIDE DEF CountOK
  <2> QED
    BY <1>2, <1>u, <2>1 DEF EnsureSession
<1>3. ASSUME NEW s \in Sends, FetchSession(s) PROVE CountOK(t)'
  <2>1. \/ \E at \in {"fetch", "bootstrap", "read"} : Proceed(s, at)
        \/ \E o \in {"lost", "gone"} : Answer(s, o)
    BY <1>3 DEF FetchSession, Hitch
  <2> HIDE DEF CountOK
  <2> QED
    BY <1>3, <1>u, <2>1 DEF FetchSession
<1>4. ASSUME NEW s \in Sends, Bootstrap(s) PROVE CountOK(t)'
  <2>1. \/ \E at \in {"fetch", "bootstrap", "read"} : Proceed(s, at)
        \/ \E o \in {"lost", "gone"} : Answer(s, o)
    BY <1>4 DEF Bootstrap, Hitch
  <2> HIDE DEF CountOK
  <2> QED
    BY <1>4, <1>u, <2>1 DEF Bootstrap
<1>5. ASSUME NEW s \in Sends, ReadCache(s) PROVE CountOK(t)'
  BY <1>5, <1>c DEF ReadCache
<1>6. ASSUME NEW s \in Sends, PostRequest(s) PROVE CountOK(t)'
  <2>1. CASE s # t
    <3>1. sending'[t] = sending[t]
      BY <1>6, <1>t, <2>1 DEF PostRequest, Hitch, Answer
    <3>2. delivered'[t] = delivered[t]
      BY <1>6, <1>t, <2>1 DEF PostRequest
    <3> QED
      BY <3>1, <3>2, <1>c
  <2>2. CASE s = t
    <3>1. delivered[t] = 0
      BY <1>6, <1>t, <1>c, <2>2 DEF PostRequest, Call
    <3>2. sending[t] \in Call
      BY <1>t
    <3>3. ASSUME NEW o, Answer(s, o)
          PROVE  sending'[t].at = "answer" /\ sending'[t].outcome = o
      <4>1. sending'[t] = [sending[t] EXCEPT !.at = "answer", !.outcome = o]
        BY <3>3, <1>t, <2>2 DEF Answer
      <4> QED
        BY <4>1, <3>2 DEF Call
    <3>4. delivered' = delivered => delivered'[t] = 0
      BY <3>1
    <3>5. \A n \in {0, 1} : delivered' = [delivered EXCEPT ![s] = @ + n] => delivered'[t] = n
      BY <3>1, <1>t, <2>2
    <3>6. \E o : /\ Answer(s, o)
                 /\ \/ o = "ok" /\ delivered'[t] = 1
                    \/ o = "lost" /\ delivered'[t] \in {0, 1}
                    \/ o \in {"gone", "refused"} /\ delivered'[t] = 0
      <4>1. CASE /\ Answer(s, Verdict(request[s]))
                 /\ delivered' = [delivered EXCEPT ![s] = @ + IF Verdict(request[s]) = "ok" THEN 1 ELSE 0]
        <5>1. Verdict(request[s]) \in {"ok", "gone", "refused"}
          BY DEF Verdict
        <5> QED
          BY <4>1, <5>1, <3>5
      <4>2. CASE Hitch(s, "gone") /\ UNCHANGED delivered
        BY <4>2, <3>4 DEF Hitch
      <4>3. CASE /\ Hitch(s, "lost")
                 /\ \/ UNCHANGED delivered
                    \/ delivered' = [delivered EXCEPT ![s] = @ + 1]
        BY <4>3, <3>4, <3>5 DEF Hitch
      <4>4. CASE Answer(s, "refused") /\ UNCHANGED delivered
        BY <4>4, <3>4
      <4> QED
        BY <1>6, <4>1, <4>2, <4>3, <4>4 DEF PostRequest
    <3> QED
      BY <3>3, <3>6
  <2> QED
    BY <2>1, <2>2
<1>7. ASSUME NEW s \in Sends, SendReturns(s) PROVE CountOK(t)'
  BY <1>7, <1>t, <1>c DEF SendReturns, Proceed, SessionStale, Reply, Call
<1>8. ASSUME NEW s \in Sends, Invalidate(s) PROVE CountOK(t)'
  BY <1>8, <1>t, <1>c DEF Invalidate
<1>9. CASE UNCHANGED jmapVars
  BY <1>9, <1>c DEF jmapVars
<1> QED
  BY <1>1, <1>2, <1>3, <1>4, <1>5, <1>6, <1>7, <1>8, <1>9 DEF JmapNext

\* Every reachable state of the transport satisfies both.
THEOREM JmapInvariant == JmapSpec => []JmapInv
<1>1. JmapInit => JmapInv
  <2> SUFFICES ASSUME JmapInit PROVE JmapInv
    OBVIOUS
  <2>1. request \in [Sends -> Seq(Epoch)]
    BY DEF JmapInit
  <2>2. JmapTypeOK
    <3>1. 0 \in Epoch
      BY JmapAssumption DEF Epoch
    <3>2. cache \in Session
      BY <3>1 DEF JmapInit, Session
    <3>3. sending \in [Sends -> Call]
      BY DEF JmapInit, Call, Step, Reply
    <3> QED
      BY <2>1, <3>1, <3>2, <3>3 DEF JmapInit, JmapTypeOK
  <2>3. Counted
    <3> SUFFICES ASSUME NEW s \in Sends PROVE CountOK(s)
      BY DEF Counted
    <3>1. delivered[s] = 0 /\ sending[s].at = "session"
      BY DEF JmapInit
    <3> QED
      BY <3>1 DEF CountOK, Accepted
  <2> QED
    BY <2>2, <2>3 DEF JmapInv
<1>2. JmapInv /\ [JmapNext]_jmapVars => JmapInv'
  BY JmapTypeInductive, CountedInductive DEF JmapInv
<1> QED
  BY <1>1, <1>2, PTL DEF JmapSpec

\* send never delivers a message twice, and returns no error only when it has
\* delivered it, whatever is lost, refused or moved while it tries.
THEOREM SendDeliversOnce == JmapSpec => []DeliveredOnce
<1>1. JmapInv => DeliveredOnce
  BY DEF JmapInv, Counted, CountOK, DeliveredOnce, Accepted
<1> QED
  BY <1>1, JmapInvariant, PTL

-----------------------------------------------------------------------------
(* What a send may rely on when the provider moves.                        *)

\* The cache is never ahead of the provider, and of one generation when ready.
CacheOK ==
    /\ cache.url <= provider /\ cache.boxes <= provider /\ cache.account = cache.url
    /\ cache.ready => mutex = {} /\ cache.boxes = cache.url
    /\ \A s \in Sends : sending[s].at \in {"fetch", "bootstrap"} => mutex = {s}

Uniform(r, e) == \A i \in DOMAIN r : r[i] = e

\* A send that goes on to its second attempt has met a provider that had moved.
MetMove(s) ==
    \/ sending[s].try = 2 \/ sending[s].at = "invalidate"
    \/ sending[s].at = "answer" /\ sending[s].outcome = "gone"

\* From then on whatever it waits for, and reads, is of the last generation.
LastGeneration(s) ==
    /\ provider = 1
    /\ sending[s].try = 2 =>
         /\ Uniform(request[s], 1)
         /\ cache.ready \/ sending[s].at = "bootstrap" => cache.url = 1
         /\ sending[s].at = "read" => cache.url = 1 /\ cache.boxes = 1
         /\ sending[s].at = "answer" => sending[s].outcome = "ok"

\* A send that nothing troubled and that ends without success was caught half read.
UntroubledOK(s) ==
    /\ MetMove(s) => LastGeneration(s)
    /\ sending[s].at = "answer" /\ sending[s].outcome # "ok" =>
         \/ sending[s].outcome = "gone"
         \/ sending[s].outcome = "refused" /\ Mixed(request[s])
    /\ sending[s].at = "failed" => Mixed(request[s])

\* Nor is a request ahead of it.
NotAhead == \A s \in Sends : \A i \in DOMAIN request[s] : request[s][i] <= provider

MoveInv ==
    /\ CacheOK /\ NotAhead
    /\ \A s \in Sends : s \notin troubled => UntroubledOK(s)

\* What a step of one call does to the calls.
LEMMA Proceeds ==
    ASSUME sending \in [Sends -> Call], NEW s \in Sends, NEW at, Proceed(s, at)
    PROVE  /\ sending'[s].at = at /\ sending'[s].try = sending[s].try
           /\ sending'[s].outcome = sending[s].outcome
           /\ \A t \in Sends \ {s} : sending'[t] = sending[t]
<1>1. sending'[s] = [sending[s] EXCEPT !.at = at] /\ sending[s] \in Call
  BY DEF Proceed
<1>2. \A t \in Sends \ {s} : sending'[t] = sending[t]
  BY DEF Proceed
<1> QED BY <1>1, <1>2 DEF Call

\* What an answer does to them.
LEMMA Answers ==
    ASSUME sending \in [Sends -> Call], NEW s \in Sends, NEW o, Answer(s, o)
    PROVE  /\ sending'[s].at = "answer" /\ sending'[s].try = sending[s].try
           /\ sending'[s].outcome = o
           /\ \A t \in Sends \ {s} : sending'[t] = sending[t]
<1>1. sending'[s] = [sending[s] EXCEPT !.at = "answer", !.outcome = o] /\ sending[s] \in Call
  BY DEF Answer
<1>2. \A t \in Sends \ {s} : sending'[t] = sending[t]
  BY DEF Answer
<1> QED BY <1>1, <1>2 DEF Call

\* The calls and the cache a step starts from, when the provider moves once.
LEMMA OneMove ==
    ASSUME JmapTypeOK, MaxMoves = 1
    PROVE  /\ provider \in {0, 1} /\ cache \in Session /\ sending \in [Sends -> Call]
           /\ cache.url \in {0, 1} /\ cache.boxes \in {0, 1} /\ cache.account \in {0, 1}
           /\ cache.ready \in BOOLEAN
           /\ \A s \in Sends : /\ sending[s] \in Call /\ sending[s].at \in Step
                              /\ sending[s].try \in {1, 2} /\ sending[s].outcome \in Reply
                              /\ request[s] \in Seq({0, 1})
           /\ troubled \subseteq Sends
BY DEF JmapTypeOK, Epoch, Session, Call

\* The cache follows the provider.
LEMMA CacheFollows ==
    JmapTypeOK /\ MaxMoves = 1 /\ CacheOK /\ [JmapNext]_jmapVars => CacheOK'
<1> SUFFICES ASSUME JmapTypeOK, MaxMoves = 1, CacheOK, [JmapNext]_jmapVars PROVE CacheOK'
  OBVIOUS
<1>0. /\ provider \in {0, 1} /\ cache \in Session /\ sending \in [Sends -> Call]
      /\ cache.url \in {0, 1} /\ cache.boxes \in {0, 1} /\ cache.account \in {0, 1}
  BY OneMove
<1>1. CASE ProviderMoves
  BY <1>0, <1>1 DEF ProviderMoves, CacheOK
<1>2. ASSUME NEW s \in Sends, EnsureSession(s) PROVE CacheOK'
  <2>1. CASE cache.ready
    <3>1. Proceed(s, "read") /\ UNCHANGED <<provider, cache, mutex>>
      BY <1>2, <2>1 DEF EnsureSession
    <3> QED BY <1>0, <3>1, Proceeds DEF CacheOK
  <2>2. CASE ~cache.ready
    <3>1. Proceed(s, "fetch") /\ UNCHANGED <<provider, cache>> /\ mutex = {} /\ mutex' = {s}
      BY <1>2, <2>2 DEF EnsureSession
    <3> QED BY <1>0, <2>2, <3>1, Proceeds DEF CacheOK
  <2> QED BY <2>1, <2>2
<1>3. ASSUME NEW s \in Sends, FetchSession(s) PROVE CacheOK'
  <2>1. mutex = {s} /\ ~cache.ready /\ \A t \in Sends \ {s} : sending[t].at \notin {"fetch", "bootstrap"}
    BY <1>3 DEF FetchSession, CacheOK
  <2>2. CASE /\ cache' = [cache EXCEPT !.url = provider, !.account = provider]
             /\ Proceed(s, "bootstrap") /\ UNCHANGED <<provider, mutex>>
    <3>1. cache'.url = provider /\ cache'.account = provider /\ cache'.boxes = cache.boxes
          /\ cache'.ready = cache.ready
      BY <1>0, <2>2 DEF Session
    <3> QED BY <1>0, <2>1, <2>2, <3>1, Proceeds DEF CacheOK
  <2>3. CASE \E o : Answer(s, o) /\ mutex' = {} /\ UNCHANGED <<provider, cache>>
    BY <1>0, <2>1, <2>3, Answers DEF CacheOK
  <2> QED BY <1>3, <2>2, <2>3 DEF FetchSession, Hitch
<1>4. ASSUME NEW s \in Sends, Bootstrap(s) PROVE CacheOK'
  <2>1. mutex = {s} /\ ~cache.ready /\ \A t \in Sends \ {s} : sending[t].at \notin {"fetch", "bootstrap"}
    BY <1>4 DEF Bootstrap, CacheOK
  <2>2. CASE /\ cache' = [cache EXCEPT !.boxes = provider, !.ready = TRUE] /\ cache.url = provider
             /\ Proceed(s, "read") /\ UNCHANGED provider /\ mutex' = {}
    <3>1. cache'.url = provider /\ cache'.account = cache.account /\ cache'.boxes = provider
      BY <1>0, <2>2 DEF Session
    <3> QED BY <1>0, <2>1, <2>2, <3>1, Proceeds DEF CacheOK
  <2>3. CASE \E o : Answer(s, o) /\ mutex' = {} /\ UNCHANGED <<provider, cache>>
    BY <1>0, <2>1, <2>3, Answers DEF CacheOK
  <2> QED BY <1>4, <2>2, <2>3 DEF Bootstrap, Hitch
<1>5. ASSUME NEW s \in Sends, ReadCache(s) PROVE CacheOK'
  BY <1>5 DEF ReadCache, CacheOK
<1>6. ASSUME NEW s \in Sends, PostRequest(s) PROVE CacheOK'
  <2>1. PICK o : Answer(s, o)
    BY <1>6 DEF PostRequest, Hitch
  <2>2. UNCHANGED <<provider, cache, mutex>>
    BY <1>6 DEF PostRequest
  <2> QED BY <1>0, <2>1, <2>2, Answers DEF CacheOK
<1>7. ASSUME NEW s \in Sends, SendReturns(s) PROVE CacheOK'
  <2>1. PICK at \in {"sent", "failed", "invalidate"} : Proceed(s, at)
    BY <1>7 DEF SendReturns
  <2>2. UNCHANGED <<provider, cache, mutex>>
    BY <1>7 DEF SendReturns
  <2> QED BY <1>0, <2>1, <2>2, Proceeds DEF CacheOK
<1>8. ASSUME NEW s \in Sends, Invalidate(s) PROVE CacheOK'
  <2>1. /\ cache'.url = cache.url /\ cache'.account = cache.account /\ cache'.boxes = cache.boxes
        /\ ~cache'.ready /\ UNCHANGED <<provider, mutex>>
    BY <1>0, <1>8 DEF Invalidate, DropSession, Session
  <2>2. \A t \in Sends : sending'[t].at = sending[t].at \/ sending'[t].at = "session"
    BY <1>0, <1>8 DEF Invalidate, Call
  <2> QED BY <1>0, <2>1, <2>2 DEF CacheOK
<1>9. CASE UNCHANGED jmapVars
  BY <1>9 DEF jmapVars, CacheOK
<1> QED BY <1>1, <1>2, <1>3, <1>4, <1>5, <1>6, <1>7, <1>8, <1>9 DEF JmapNext

\* What a send reads next.
LEMMA NextRead ==
    ASSUME JmapTypeOK, MaxMoves = 1, CacheOK, NEW s \in Sends, ReadCache(s)
    PROVE  \E e \in {cache.url, cache.boxes} :
             /\ request' = [request EXCEPT ![s] = Append(request[s], e)]
             /\ DOMAIN request'[s] = 1..Len(request[s]) + 1
             /\ \A i \in DOMAIN request[s] : request'[s][i] = request[s][i]
             /\ request'[s][Len(request[s]) + 1] = e
<1>0. request \in [Sends -> Seq({0, 1})] /\ cache.account = cache.url
  BY DEF JmapTypeOK, Epoch, CacheOK
<1>1. Len(request[s]) + 1 \in 1..5
  BY <1>0 DEF ReadCache, Reads
<1>2. Reads[Len(request[s]) + 1] \in {"account", "boxes", "url"}
  BY <1>1 DEF Reads
<1>3. PICK e \in {cache.url, cache.boxes} : e = cache[Reads[Len(request[s]) + 1]]
  BY <1>0, <1>2
<1>4. request' = [request EXCEPT ![s] = Append(request[s], e)] /\ e \in {0, 1}
  BY <1>3, OneMove DEF ReadCache
<1>5. request'[s] = Append(request[s], e) /\ request[s] \in Seq({0, 1})
  BY <1>0, <1>4
<1>6. ASSUME NEW r \in Seq({0, 1}), NEW v \in {0, 1}
      PROVE  /\ DOMAIN Append(r, v) = 1..Len(r) + 1
             /\ \A i \in DOMAIN r : Append(r, v)[i] = r[i]
             /\ Append(r, v)[Len(r) + 1] = v
  BY <1>6
<1>7. /\ DOMAIN request'[s] = 1..Len(request[s]) + 1
      /\ \A i \in DOMAIN request[s] : request'[s][i] = request[s][i]
      /\ request'[s][Len(request[s]) + 1] = e
  BY <1>4, <1>5, <1>6
<1> QED BY <1>4, <1>7

\* No request is ahead of the provider.
LEMMA RequestsFollow ==
    JmapTypeOK /\ MaxMoves = 1 /\ CacheOK /\ NotAhead /\ [JmapNext]_jmapVars => NotAhead'
<1> SUFFICES ASSUME JmapTypeOK, MaxMoves = 1, CacheOK, NotAhead, [JmapNext]_jmapVars PROVE NotAhead'
  OBVIOUS
<1>0. /\ provider \in {0, 1} /\ request \in [Sends -> Seq({0, 1})]
  BY OneMove DEF JmapTypeOK, Epoch
<1>1. CASE ProviderMoves
  BY <1>0, <1>1 DEF ProviderMoves, NotAhead
<1>2. ASSUME NEW s \in Sends, ReadCache(s) PROVE NotAhead'
  <2>1. PICK e \in {cache.url, cache.boxes} :
             /\ request' = [request EXCEPT ![s] = Append(request[s], e)]
             /\ DOMAIN request'[s] = 1..Len(request[s]) + 1
             /\ \A i \in DOMAIN request[s] : request'[s][i] = request[s][i]
             /\ request'[s][Len(request[s]) + 1] = e
    BY <1>2, NextRead
  <2>2. e <= provider /\ provider' = provider
    BY <1>2 DEF ReadCache, CacheOK
  <2>3. \A t \in Sends \ {s} : request'[t] = request[t]
    BY <1>0, <2>1
  <2>4. \A i \in DOMAIN request'[s] : i \in DOMAIN request[s] \/ i = Len(request[s]) + 1
    <3>1. request[s] \in Seq({0, 1})
      BY <1>0
    <3> QED BY <2>1, <3>1
  <2>5. \A i \in DOMAIN request'[s] : request'[s][i] <= provider
    BY <2>1, <2>2, <2>4 DEF NotAhead
  <2> QED BY <2>2, <2>3, <2>5 DEF NotAhead
<1>3. ASSUME NEW s \in Sends, Invalidate(s) PROVE NotAhead'
  <2>1. request'[s] = <<>> /\ \A t \in Sends \ {s} : request'[t] = request[t]
    BY <1>0, <1>3 DEF Invalidate
  <2> QED BY <1>3, <2>1 DEF Invalidate, NotAhead
<1>4. CASE UNCHANGED <<provider, request>>
  BY <1>4 DEF NotAhead
<1> QED
  BY <1>1, <1>2, <1>3, <1>4
  DEF JmapNext, EnsureSession, FetchSession, Bootstrap, PostRequest, SendReturns, jmapVars

\* A request whose identifiers are not those of one generation is mixed.
LEMMA RefusedMixed ==
    ASSUME JmapTypeOK, MaxMoves = 1, NEW s \in Sends, Len(request[s]) = 5,
           Verdict(request[s]) = "refused"
    PROVE  Mixed(request[s])
<1>1. request[s] \in Seq({0, 1}) /\ provider \in {0, 1} /\ DOMAIN request[s] = 1..5
  BY OneMove
<1>2. request[s] # [i \in 1..5 |-> provider] /\ request[s][1] = provider
  BY DEF Verdict
<1>3. request[s] = [i \in 1..5 |-> request[s][i]]
  BY <1>1
<1>4. PICK i \in 1..5 : request[s][i] # provider
  BY <1>2, <1>3
<1> QED BY <1>1, <1>2, <1>4 DEF Mixed

\* A request refused as gone, of one generation, is of the one before the move.
LEMMA GoneMoved ==
    ASSUME JmapTypeOK, MaxMoves = 1, NotAhead, NEW s \in Sends, Len(request[s]) = 5,
           Verdict(request[s]) # "ok"
    PROVE  /\ provider = 1 \/ Verdict(request[s]) = "refused"
           /\ ~(provider = 1 /\ Uniform(request[s], 1))
<1>1. request[s] \in Seq({0, 1}) /\ provider \in {0, 1} /\ DOMAIN request[s] = 1..5
  BY OneMove
<1>2. request[s] = [i \in 1..5 |-> request[s][i]]
  BY <1>1
<1>3. ASSUME provider = 1, Uniform(request[s], 1) PROVE FALSE
  <2>1. request[s] = [i \in 1..5 |-> 1]
    BY <1>1, <1>2, <1>3 DEF Uniform
  <2>2. request[s][5] = 1 /\ request[s][1] = 1
    BY <2>1
  <2> QED BY <1>3, <2>1, <2>2 DEF Verdict
<1>4. provider = 0 => Verdict(request[s]) = "refused"
  <2>1. request[s][1] \in {0, 1} /\ request[s][5] \in {0, 1}
    BY <1>1
  <2>2. request[s][1] <= provider /\ request[s][5] <= provider
    BY <1>1 DEF NotAhead
  <2> QED BY <2>1, <2>2 DEF Verdict
<1> QED BY <1>1, <1>3, <1>4

\* A step of one call leaves what the others rely on: the last generation stays.
LEMMA OthersUntroubled ==
    ASSUME JmapTypeOK, MaxMoves = 1, CacheOK, NEW s \in Sends, NEW t \in Sends \ {s},
           UntroubledOK(t), sending'[t] = sending[t], request'[t] = request[t],
           \/ EnsureSession(s) \/ FetchSession(s) \/ Bootstrap(s) \/ ReadCache(s)
           \/ PostRequest(s) \/ SendReturns(s) \/ Invalidate(s)
    PROVE  UntroubledOK(t)'
<1>0. /\ provider \in {0, 1} /\ cache \in Session
      /\ cache.url \in {0, 1} /\ cache.boxes \in {0, 1} /\ cache.account \in {0, 1}
  BY OneMove
<1>1. MetMove(t)' = MetMove(t) /\ Mixed(request[t])' = Mixed(request[t]) /\ provider' = provider
  BY DEF MetMove, Mixed, EnsureSession, FetchSession, Bootstrap, ReadCache, PostRequest,
         SendReturns, Invalidate
<1>2. ASSUME LastGeneration(t) PROVE LastGeneration(t)'
  <2>1. CASE cache' = cache
    BY <1>1, <1>2, <2>1 DEF LastGeneration, Uniform
  <2>2. CASE FetchSession(s) /\ cache' = [cache EXCEPT !.url = provider, !.account = provider]
    <3>1. cache'.url = provider /\ cache'.boxes = cache.boxes /\ cache'.ready = cache.ready
      BY <1>0, <2>2 DEF Session
    <3> QED BY <1>1, <1>2, <3>1 DEF LastGeneration, Uniform
  <2>3. CASE Bootstrap(s) /\ cache.url = provider
             /\ cache' = [cache EXCEPT !.boxes = provider, !.ready = TRUE]
    <3>1. cache'.url = provider /\ cache'.boxes = provider
      BY <1>0, <2>3 DEF Session
    <3> QED BY <1>1, <1>2, <3>1 DEF LastGeneration, Uniform
  <2>4. CASE Invalidate(s)
    <3>1. cache'.url = cache.url /\ cache'.boxes = cache.boxes /\ ~cache'.ready
      BY <1>0, <2>4 DEF Invalidate, DropSession, Session
    <3> QED BY <1>1, <1>2, <3>1 DEF LastGeneration, Uniform
  <2> QED
    BY <2>1, <2>2, <2>3, <2>4
    DEF EnsureSession, FetchSession, Bootstrap, ReadCache, PostRequest, SendReturns
<1> QED BY <1>1, <1>2 DEF UntroubledOK

\* The step of a call that nothing has troubled, up to its request.
LEMMA SessionUntroubled ==
    ASSUME JmapTypeOK, MaxMoves = 1, CacheOK, NEW s \in Sends, UntroubledOK(s),
           s \notin troubled',
           EnsureSession(s) \/ FetchSession(s) \/ Bootstrap(s)
    PROVE  UntroubledOK(s)'
<1>0. /\ provider \in {0, 1} /\ cache \in Session /\ sending \in [Sends -> Call]
      /\ cache.url \in {0, 1} /\ cache.boxes \in {0, 1} /\ cache.account \in {0, 1}
      /\ sending[s].try \in {1, 2}
  BY OneMove
<1>1. CASE EnsureSession(s)
  <2>1. UNCHANGED <<provider, cache, request>> /\ sending[s].at = "session"
        /\ (Proceed(s, "fetch") \/ (cache.ready /\ Proceed(s, "read")))
    BY <1>1 DEF EnsureSession
  <2>2. /\ sending'[s].at = "fetch" \/ (cache.ready /\ sending'[s].at = "read")
        /\ sending'[s].try = sending[s].try
    BY <1>0, <2>1, Proceeds
  <2> QED BY <1>0, <2>1, <2>2 DEF UntroubledOK, LastGeneration, MetMove, Uniform, CacheOK
<1>2. CASE FetchSession(s)
  <2>1. UNCHANGED <<provider, request>> /\ sending[s].at = "fetch"
    BY <1>2 DEF FetchSession
  <2>2. cache' = [cache EXCEPT !.url = provider, !.account = provider] /\ Proceed(s, "bootstrap")
    BY <1>2 DEF FetchSession, Hitch
  <2>3. sending'[s].at = "bootstrap" /\ sending'[s].try = sending[s].try
    BY <1>0, <2>2, Proceeds
  <2>4. cache'.url = provider
    BY <1>0, <2>2 DEF Session
  <2> QED BY <1>0, <2>1, <2>3, <2>4 DEF UntroubledOK, LastGeneration, MetMove, Uniform
<1>3. CASE Bootstrap(s)
  <2>1. UNCHANGED <<provider, request>> /\ sending[s].at = "bootstrap"
    BY <1>3 DEF Bootstrap
  <2>2. CASE cache.url = provider /\ cache' = [cache EXCEPT !.boxes = provider, !.ready = TRUE]
             /\ Proceed(s, "read")
    <3>1. sending'[s].at = "read" /\ sending'[s].try = sending[s].try
      BY <1>0, <2>2, Proceeds
    <3>2. cache'.url = provider /\ cache'.boxes = provider
      BY <1>0, <2>2 DEF Session
    <3> QED BY <1>0, <2>1, <3>1, <3>2 DEF UntroubledOK, LastGeneration, MetMove, Uniform
  <2>3. CASE cache.url # provider /\ Answer(s, "gone") /\ UNCHANGED cache
    <3>1. /\ sending'[s].at = "answer" /\ sending'[s].outcome = "gone"
          /\ sending'[s].try = sending[s].try
      BY <1>0, <2>3, Answers
    <3>2. provider = 1
      BY <1>0, <2>3 DEF CacheOK
    <3>3. sending[s].try = 1
      BY <1>0, <2>1, <2>3, <3>2 DEF UntroubledOK, LastGeneration, MetMove
    <3> QED BY <2>1, <3>1, <3>2, <3>3 DEF UntroubledOK, LastGeneration, MetMove
  <2> QED BY <1>3, <2>2, <2>3 DEF Bootstrap, Hitch
<1> QED BY <1>1, <1>2, <1>3

\* From its request on.
LEMMA RequestUntroubled ==
    ASSUME JmapTypeOK, MaxMoves = 1, CacheOK, NotAhead, NEW s \in Sends, UntroubledOK(s),
           s \notin troubled',
           ReadCache(s) \/ PostRequest(s) \/ SendReturns(s) \/ Invalidate(s)
    PROVE  UntroubledOK(s)'
<1>0. /\ provider \in {0, 1} /\ cache \in Session /\ sending \in [Sends -> Call]
      /\ cache.url \in {0, 1} /\ cache.boxes \in {0, 1} /\ cache.account \in {0, 1}
      /\ sending[s].try \in {1, 2} /\ sending[s].outcome \in Reply /\ sending[s].at \in Step
      /\ request \in [Sends -> Seq({0, 1})]
  BY OneMove DEF JmapTypeOK, Epoch
<1>1. CASE ReadCache(s)
  <2>1. PICK e \in {cache.url, cache.boxes} :
             /\ DOMAIN request'[s] = 1..Len(request[s]) + 1
             /\ \A i \in DOMAIN request[s] : request'[s][i] = request[s][i]
             /\ request'[s][Len(request[s]) + 1] = e
    BY <1>1, NextRead
  <2>2. UNCHANGED <<provider, cache, sending>> /\ sending[s].at = "read"
    BY <1>1 DEF ReadCache
  <2>3. \A i \in DOMAIN request'[s] : i \in DOMAIN request[s] \/ i = Len(request[s]) + 1
    <3>1. request[s] \in Seq({0, 1})
      BY <1>0
    <3> QED BY <2>1, <3>1
  <2>4. ASSUME MetMove(s) PROVE LastGeneration(s)'
    <3>1. sending[s].try = 2 /\ LastGeneration(s) /\ e = 1
      BY <1>0, <2>2, <2>4 DEF MetMove, UntroubledOK, LastGeneration
    <3>2. Uniform(request[s], 1)'
      BY <2>1, <2>3, <3>1 DEF Uniform, LastGeneration
    <3> QED BY <2>2, <3>1, <3>2 DEF LastGeneration
  <2> QED BY <2>2, <2>4 DEF UntroubledOK, MetMove
<1>2. CASE PostRequest(s)
  <2>1. UNCHANGED <<provider, cache, request>> /\ sending[s].at = "read" /\ Len(request[s]) = 5
    BY <1>2 DEF PostRequest, Reads
  <2>2. Answer(s, Verdict(request[s]))
    BY <1>2 DEF PostRequest, Hitch
  <2>3. /\ sending'[s].at = "answer" /\ sending'[s].outcome = Verdict(request[s])
        /\ sending'[s].try = sending[s].try
    BY <1>0, <2>2, Answers
  <2>4. Verdict(request[s]) \in {"ok", "gone", "refused"}
    BY DEF Verdict
  <2>5. Verdict(request[s]) = "refused" => Mixed(request[s])
    BY <2>1, RefusedMixed
  <2>6. Verdict(request[s]) = "gone" => provider = 1
    BY <2>1, GoneMoved
  <2>7. sending[s].try = 2 => LastGeneration(s) /\ Verdict(request[s]) = "ok"
    BY <2>1, GoneMoved DEF UntroubledOK, MetMove, LastGeneration
  <2>8. Mixed(request[s])' = Mixed(request[s]) /\ Uniform(request[s], 1)' = Uniform(request[s], 1)
    BY <2>1
  <2>9. (MetMove(s) => LastGeneration(s))'
    BY <1>0, <2>1, <2>3, <2>6, <2>7, <2>8 DEF MetMove, LastGeneration
  <2> QED BY <2>3, <2>4, <2>5, <2>8, <2>9 DEF UntroubledOK
<1>3. CASE SendReturns(s)
  <2>1. UNCHANGED <<provider, cache, request>> /\ sending[s].at = "answer"
    BY <1>3 DEF SendReturns
  <2>2. PICK at \in {"sent", "invalidate", "failed"} :
          /\ Proceed(s, at)
          /\ at = "invalidate" => sending[s].outcome = "gone"
          /\ at = "failed" => sending[s].outcome # "ok"
                              /\ (sending[s].outcome # "gone" \/ sending[s].try # 1)
    BY <1>3 DEF SendReturns, SessionStale
  <2>3. sending'[s].at = at /\ sending'[s].try = sending[s].try
    BY <1>0, <2>2, Proceeds
  <2>4. Mixed(request[s])' = Mixed(request[s]) /\ Uniform(request[s], 1)' = Uniform(request[s], 1)
    BY <2>1
  <2>5. at = "failed" => Mixed(request[s])
    BY <1>0, <2>1, <2>2 DEF UntroubledOK, LastGeneration, MetMove
  <2>6. (MetMove(s) => LastGeneration(s))'
    BY <2>1, <2>2, <2>3, <2>4 DEF UntroubledOK, LastGeneration, MetMove
  <2> QED BY <2>2, <2>3, <2>4, <2>5, <2>6 DEF UntroubledOK
<1>4. CASE Invalidate(s)
  <2>1. /\ provider' = provider /\ sending[s].at = "invalidate" /\ request'[s] = <<>>
        /\ sending'[s] = [[sending[s] EXCEPT !.at = "session"] EXCEPT !.try = 2]
    BY <1>0, <1>4 DEF Invalidate
  <2>2. sending'[s].at = "session" /\ sending'[s].try = 2
    BY <1>0, <2>1 DEF Call
  <2>3. ~cache'.ready
    BY <1>0, <1>4 DEF Invalidate, DropSession, Session
  <2>4. Uniform(request[s], 1)'
    BY <2>1 DEF Uniform
  <2> QED BY <2>1, <2>2, <2>3, <2>4 DEF UntroubledOK, LastGeneration, MetMove
<1> QED BY <1>1, <1>2, <1>3, <1>4

\* Every step of the transport keeps what an untroubled send relies on.
LEMMA MoveInductive ==
    JmapTypeOK /\ MaxMoves = 1 /\ MoveInv /\ [JmapNext]_jmapVars => MoveInv'
<1> SUFFICES ASSUME JmapTypeOK, MaxMoves = 1, MoveInv, [JmapNext]_jmapVars PROVE MoveInv'
  OBVIOUS
<1>1. CacheOK' /\ NotAhead' /\ CacheOK /\ NotAhead
  BY CacheFollows, RequestsFollow DEF MoveInv, NotAhead
<1>2. ASSUME NEW t \in Sends, t \notin troubled' PROVE UntroubledOK(t)'
  <2>0. /\ sending \in [Sends -> Call] /\ request \in [Sends -> Seq(Epoch)]
        /\ provider \in {0, 1}
    BY OneMove DEF JmapTypeOK
  <2>1. t \notin troubled
    BY <1>2
    DEF JmapNext, ProviderMoves, EnsureSession, FetchSession, Bootstrap, ReadCache, PostRequest,
        SendReturns, Invalidate, Hitch, jmapVars
  <2>2. UntroubledOK(t)
    BY <2>1 DEF MoveInv
  <2>3. CASE ProviderMoves
    BY <2>0, <2>2, <2>3 DEF ProviderMoves, UntroubledOK, LastGeneration, MetMove
  <2>4. ASSUME NEW s \in Sends,
               \/ EnsureSession(s) \/ FetchSession(s) \/ Bootstrap(s) \/ ReadCache(s)
               \/ PostRequest(s) \/ SendReturns(s) \/ Invalidate(s)
        PROVE  UntroubledOK(t)'
    <3>1. CASE s = t
      BY <1>1, <1>2, <2>2, <2>4, <3>1, SessionUntroubled, RequestUntroubled
    <3>2. CASE s # t
      <4>1. request'[t] = request[t]
        BY <2>0, <2>4, <3>2
        DEF EnsureSession, FetchSession, Bootstrap, ReadCache, PostRequest, SendReturns, Invalidate
      <4>2. sending'[t] = sending[t]
        BY <2>0, <2>4, <3>2
        DEF EnsureSession, FetchSession, Bootstrap, ReadCache, PostRequest, SendReturns, Invalidate,
            Proceed, Answer, Hitch
      <4> QED BY <1>1, <2>2, <2>4, <3>2, <4>1, <4>2, OthersUntroubled
    <3> QED BY <3>1, <3>2
  <2>5. CASE UNCHANGED jmapVars
    BY <2>2, <2>5 DEF jmapVars, UntroubledOK, LastGeneration, MetMove, Uniform, Mixed
  <2> QED BY <2>3, <2>4, <2>5 DEF JmapNext
<1> QED BY <1>1, <1>2 DEF MoveInv, NotAhead

\* However the sends interleave with the one move of the provider, a send that
\* nothing refused or lost fails only with a request put together from the old
\* session and from the new one: its second attempt always succeeds.
THEOREM UntroubledSendsSurvive == JmapSpec => []OnlyMixedSendsFail
<1>1. JmapInit => (MaxMoves = 1 => MoveInv)
  BY DEF JmapInit, MoveInv, CacheOK, NotAhead, UntroubledOK, MetMove
<1>2. JmapTypeOK /\ (MaxMoves = 1 => MoveInv) /\ [JmapNext]_jmapVars => (MaxMoves = 1 => MoveInv)'
  BY MoveInductive
<1>3. JmapInv => JmapTypeOK
  BY DEF JmapInv
<1>4. (MaxMoves = 1 => MoveInv) => OnlyMixedSendsFail
  BY DEF MoveInv, UntroubledOK, OnlyMixedSendsFail
<1> QED BY <1>1, <1>2, <1>3, <1>4, JmapInvariant, PTL DEF JmapSpec

-----------------------------------------------------------------------------
(* The four as one system.                                                 *)

\* The system that TLC explores behaves, in each of its parts, like that part.
THEOREM JourneysParts == JourneysSpec => VisitsSpec /\ WizardSpec /\ DiscussionSpec /\ JmapSpec
<1>1. JourneysInit => VisitsInit /\ WizardInit /\ DiscussionInit /\ JmapInit
  BY DEF JourneysInit
<1>2. [JourneysNext]_journeyVars => [VisitsNext]_visitVars
  BY DEF JourneysNext, VisitsPart, WizardPart, DiscussionPart, JmapPart, journeyVars
<1>3. [JourneysNext]_journeyVars => [WizardNext]_wizardVars
  BY DEF JourneysNext, VisitsPart, WizardPart, DiscussionPart, JmapPart, journeyVars
<1>4. [JourneysNext]_journeyVars => [DiscussionNext]_discussionVars
  BY DEF JourneysNext, VisitsPart, WizardPart, DiscussionPart, JmapPart, journeyVars
<1>5. [JourneysNext]_journeyVars => [JmapNext]_jmapVars
  BY DEF JourneysNext, VisitsPart, WizardPart, DiscussionPart, JmapPart, journeyVars
<1> QED
  BY <1>1, <1>2, <1>3, <1>4, <1>5, PTL DEF JourneysSpec, VisitsSpec, WizardSpec, DiscussionSpec, JmapSpec

\* Accounts, memberships, wizard rows, comments, cached sessions and whatever is on
\* its way keep the values their tables and handlers allow.
THEOREM JourneysTyped == JourneysSpec => []JourneysTypeOK
<1> DEFINE Parted == part \in {"visits", "wizard", "discussion", "jmap"}
<1>1. JourneysInit => Parted
  BY DEF JourneysInit
<1>2. Parted /\ [JourneysNext]_journeyVars => Parted'
  BY DEF JourneysNext, VisitsPart, WizardPart, DiscussionPart, JmapPart, journeyVars
<1>3. Parted /\ VisitsInv /\ WizardInv /\ DiscussionInv /\ JmapInv => JourneysTypeOK
  BY DEF JourneysTypeOK, VisitsInv, WizardInv, DiscussionInv, JmapInv
<1> QED
  BY <1>1, <1>2, <1>3, JourneysParts, VisitsInvariant, WizardInvariant, DiscussionInvariant,
     JmapInvariant, PTL
  DEF JourneysSpec
=============================================================================
