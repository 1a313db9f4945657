------------------------------- MODULE Visits -------------------------------
(***************************************************************************)
(* Getting to a page: who belongs to which Loop, which Loop a request runs *)
(* in, and where the middleware and the handlers send a browser that asked *)
(* for something else.  A browser follows redirects, so a visit is a chain *)
(* of requests; each request resolves its Loop, writes the choice back to  *)
(* the session and the account, and is then routed.  Invitations, new      *)
(* Loops, archiving and switching in another tab go on meanwhile.  Visits  *)
(* of different people write nothing the other reads, so one browser is    *)
(* followed, which may be anybody's.                                       *)
(***************************************************************************)
EXTENDS Naturals, Sequences, FiniteSets, FiniteSetsExt

CONSTANTS Folk,          \* people with, or without yet, an account
          Operators,     \* users.is_instance_admin
          NLoops,        \* bound: Loops ever woven; ids are handed out in order
          Collecting,    \* Loops whose current round is collecting
          Desks,         \* invitations and Loop creations in flight together
          MaxOps         \* bound: archivings, launches, switches, sign-outs, failed writes

ASSUME VisitsAssumption == NLoops \in Nat \ {0} /\ MaxOps \in Nat

Loops == 1..NLoops
NoLoop == 0
Pages == {"/", "/loops", "/instance", "/issues", "/respond", "/admin", "/admin/setup"}

VARIABLES account,    \* users: unknown, off (is_active = 0) or on
          member,     \* memberships: role and is_active
          loop,       \* groups: absent, open or archived
          setup,      \* settings.setup_complete
          signedIn,   \* the browser carries a live session
          current,    \* sessions.group_id of that session, if there is one
          last,       \* users.last_group_id of the browser's owner
          visit,      \* the request the browser is making
          desk,       \* invitations in flight
          enterable,  \* history: Loops one could enter since the request began
          ops         \* bounded operations so far

visitVars == <<account, member, loop, setup, signedIn, current, last, visit, desk,
               enterable, ops>>
peopleVars == <<account, member, loop, setup>>

Member == [role : {"none", "member", "admin"}, on : BOOLEAN]
Visit == [who : Folk, at : {"shown", "go", "session", "account", "route"},
          path : Pages \cup {"/login", "404"},
          g : Loops \cup {NoLoop}, auth : BOOLEAN, issue : Loops, loop : Loops \cup {NoLoop}]
Desk == [at : {"free", "create", "reactivate", "join", "weave", "mail"},
         g : Loops, who : Folk, way : {"invite", "weave", "launch"}]

VisitsTypeOK ==
    /\ account \in [Folk -> {"unknown", "off", "on"}]
    /\ member \in [Loops -> [Folk -> Member]]
    /\ loop \in [Loops -> {"absent", "open", "archived"}]
    /\ setup \in [Loops -> BOOLEAN]
    /\ signedIn \in BOOLEAN
    /\ current \in Loops \cup {NoLoop}
    /\ last \in Loops \cup {NoLoop}
    /\ visit \in Visit
    /\ desk \in [Desks -> Desk]
    /\ enterable \in SUBSET Loops
    /\ ops \in 0..MaxOps

AtLogin(p) == [who |-> p, at |-> "shown", path |-> "/login", g |-> NoLoop, auth |-> FALSE,
               issue |-> 1, loop |-> NoLoop]
FreeDesk == [at |-> "free", g |-> 1, who |-> CHOOSE p \in Folk : TRUE, way |-> "invite"]

\* The instance as the seed leaves it: one Loop, kept by an operator, before
\* its launch or after it; everybody else unknown, or deactivated by an earlier version.
VisitsInit ==
    /\ account \in {a \in [Folk -> {"unknown", "off", "on"}] :
                      \A p \in Folk : (a[p] = "on") <=> (p \in Operators)}
    /\ \E old \in SUBSET {p \in Folk : account[p] = "off"} :
         member = [g \in Loops |-> [p \in Folk |->
                     IF g = 1 /\ p \in Operators THEN [role |-> "admin", on |-> TRUE]
                     ELSE IF g = 1 /\ p \in old THEN [role |-> "admin", on |-> FALSE]
                     ELSE [role |-> "none", on |-> FALSE]]]
    /\ loop = [g \in Loops |-> IF g = 1 THEN "open" ELSE "absent"]
    /\ \E launched \in SUBSET {1} : setup = [g \in Loops |-> g \in launched]
    /\ signedIn = FALSE
    /\ current = NoLoop
    /\ last = NoLoop
    /\ \E p \in Folk : visit = AtLogin(p)
    /\ desk = [d \in Desks |-> FreeDesk]
    /\ enterable = {}
    /\ ops = 0

-----------------------------------------------------------------------------
\* BUG: an archived Loop is entered like an open one.
TryAnyGroup(p, g) == loop[g] # "absent" /\ (member[g][p].role # "none" \/ p \in Operators)

\* tryGroup, isGroupAdmin and the candidates of resolveCurrentGroup, in their
\* order: ?g=, the session's Loop, the last one, the first membership, and for
\* an operator the oldest open Loop.
Belongs(p, g) == member[g][p].role # "none" /\ member[g][p].on
TryGroup(p, g) == loop[g] = "open" /\ (Belongs(p, g) \/ p \in Operators)
IsGroupAdmin(p, g) ==
    p \in Operators \/ (g # NoLoop /\ Belongs(p, g) /\ member[g][p].role = "admin")

Usable(p, g) == g # NoLoop /\ TryGroup(p, g)
OldestOf(S) == IF S = {} THEN NoLoop ELSE Min(S)
UserGroups(p) == {g \in Loops : Belongs(p, g) /\ loop[g] = "open"}

ResolveCurrentGroup(p, g) ==
    LET remembered == <<g, current, last>>
        usable == {k \in 1..3 : Usable(p, remembered[k])}
        own == OldestOf({c \in UserGroups(p) : TryGroup(p, c)})
    IN  IF usable # {} THEN remembered[Min(usable)]
        ELSE IF own # NoLoop \/ p \notin Operators THEN own
        ELSE OldestOf({c \in Loops : TryGroup(p, c)})

\* Where a request for a page ends up: the page itself, or the next address.
LandingPage(p, g) ==
    IF g = NoLoop THEN IF p \in Operators THEN "/instance" ELSE "/loops"
    ELSE IF ~setup[g] THEN IF IsGroupAdmin(p, g) THEN "/admin/setup" ELSE "/loops"
    ELSE IF ~IsGroupAdmin(p, g) /\ g \in Collecting THEN "/respond" ELSE "/issues"

RequireGroup(p, path, g) ==
    IF g = NoLoop THEN IF p \in Operators THEN "/instance" ELSE "/loops"
    ELSE IF ~setup[g] /\ ~IsGroupAdmin(p, g) THEN "/loops" ELSE path

RequireAdmin(p, path, g) ==
    LET allowed == RequireGroup(p, path, g) IN
    IF allowed # path THEN allowed ELSE IF ~IsGroupAdmin(p, g) THEN "/" ELSE path

RouteOf(p, path, g) ==
    CASE path = "/loops" -> path
      [] path = "/" -> LandingPage(p, g)
      [] path = "/instance" -> IF p \in Operators THEN path ELSE "/"
      [] path \in {"/issues", "/respond"} -> RequireGroup(p, path, g)
      [] path = "/admin" -> RequireAdmin(p, path, g)
      [] path = "/admin/setup" ->
           IF RequireAdmin(p, path, g) = path /\ setup[g] THEN "/admin"
           ELSE RequireAdmin(p, path, g)

-----------------------------------------------------------------------------
\* Who is welcome in a Loop, for the history enterable.
Welcome(p, g) == loop[g] = "open" /\ (Belongs(p, g) \/ p \in Operators)

Ask(v) ==
    /\ visit' = v
    /\ enterable' = {g \in Loops : Welcome(v.who, g)}

LoopPages == {"/issues", "/respond", "/admin", "/admin/setup"}

Show(page) ==
    LET g == IF page \in LoopPages THEN visit.loop ELSE NoLoop IN
    /\ visit' = [AtLogin(visit.who) EXCEPT !.path = page, !.loop = g]
    /\ enterable' = enterable \cap {g}

\* Addresses with ?g= and ?auth= come from mails; an issue's page names it.
Addresses ==
    {[path |-> a, g |-> NoLoop, auth |-> FALSE, issue |-> 1] : a \in Pages}
      \cup [path : {"/"}, g : Loops, auth : {TRUE}, issue : {1}]
      \cup [path : {"/respond"}, g : Loops \cup {NoLoop}, auth : {TRUE}, issue : Loops]

Navigate(a) ==
    /\ visit.at = "shown"
    /\ Ask([AtLogin(visit.who) EXCEPT !.at = "go", !.path = a.path, !.g = a.g, !.auth = a.auth,
                                     !.issue = a.issue])
    /\ UNCHANGED <<peopleVars, signedIn, current, last, desk, ops>>

Bounded == ops < MaxOps /\ ops' = ops + 1

Authenticated == signedIn /\ account[visit.who] = "on"

\* handleAuthParam: a mail's link signs its owner in (or is ignored when a
\* session is there) and the same address is asked for again without it.
ExchangeLink ==
    /\ visit.at = "go" /\ visit.auth /\ account[visit.who] # "unknown"
    /\ signedIn' = TRUE
    /\ current' = IF Authenticated THEN current ELSE last
    /\ Ask([visit EXCEPT !.auth = FALSE])
    /\ UNCHANGED <<peopleVars, last, desk, ops>>

\* authMiddleware without a usable session or account, or with a link that has
\* expired or been cleaned up.
Unauthorized ==
    /\ visit.at = "go" /\ ~Authenticated
    /\ signedIn' = (signedIn /\ visit.auth)
    /\ Show("/login")
    /\ UNCHANGED <<peopleVars, current, last, desk, ops>>

Resolve ==
    LET g == ResolveCurrentGroup(visit.who, visit.g) IN
    /\ visit.at = "go" /\ ~visit.auth /\ Authenticated
    /\ visit' = [visit EXCEPT !.loop = g, !.at = IF g = NoLoop THEN "route" ELSE "session"]
    /\ UNCHANGED <<peopleVars, signedIn, current, last, desk, enterable, ops>>

\* The two writes of a choice; one that fails is logged and the request goes on.
Kept(remembered, g) ==
    \/ remembered' = g /\ UNCHANGED ops
    \/ Bounded /\ UNCHANGED remembered

PersistSessionGroup ==
    /\ visit.at = "session"
    /\ Kept(current, visit.loop)
    /\ visit' = [visit EXCEPT !.at = "account"]
    /\ UNCHANGED <<peopleVars, signedIn, last, desk, enterable>>

PersistLastGroup ==
    /\ visit.at = "account"
    /\ Kept(last, visit.loop)
    /\ visit' = [visit EXCEPT !.at = "route"]
    /\ UNCHANGED <<peopleVars, signedIn, current, desk, enterable>>

\* BUG: the redirect keeps the query as it was.
SameQuery(v) == v

\* The answers that show a page, send the browser elsewhere, or (requireIssue)
\* move the session to the issue's Loop and ask for the same page again,
\* without the ?g= that would otherwise win over the switch.
SansGroup(v) == [v EXCEPT !.g = NoLoop]

Route ==
    LET v == visit
        p == v.who
        to == RouteOf(p, v.path, v.loop)
        elsewhere == to = "/respond" /\ v.path = "/respond" /\ v.issue # v.loop
    IN  /\ v.at = "route"
        /\ \/ /\ to = v.path /\ ~elsewhere
              /\ Show(to)
              /\ UNCHANGED <<current, last, ops>>
           \/ /\ to # v.path
              /\ Ask([AtLogin(p) EXCEPT !.at = "go", !.path = to,
                                        !.issue = IF to = "/respond" THEN v.loop ELSE 1])
              /\ UNCHANGED <<current, last, ops>>
           \/ /\ elsewhere /\ TryGroup(p, v.issue)
              /\ \/ current' = v.issue /\ last' = v.issue /\ UNCHANGED ops
                 \/ Bounded /\ current' \in {current, v.issue} /\ last' \in {last, v.issue}
              /\ Ask([SansGroup(v) EXCEPT !.at = "go", !.loop = NoLoop])
           \/ /\ elsewhere /\ ~TryGroup(p, v.issue)
              /\ Show("404")
              /\ UNCHANGED <<current, last, ops>>
        /\ UNCHANGED <<peopleVars, signedIn, desk>>

VisitStep == \/ ExchangeLink \/ Unauthorized \/ Resolve
             \/ PersistSessionGroup \/ PersistLastGroup \/ Route

-----------------------------------------------------------------------------
\* Operations of other tabs and other people; the history of what was
\* enterable during a request follows every change of who may enter what.
Widen == enterable' = enterable \cup {g \in Loops : Welcome(visit.who, g)'}
deskFree == UNCHANGED <<signedIn, current, last, visit>>

SwitchGroup(g) ==
    /\ Bounded /\ Authenticated /\ TryGroup(visit.who, g)
    /\ current' = g
    /\ last' = g
    /\ UNCHANGED <<peopleVars, signedIn, visit, desk, enterable>>

SignOut ==
    /\ Bounded /\ signedIn
    /\ signedIn' = FALSE
    /\ UNCHANGED <<peopleVars, current, last, visit, desk, enterable>>

UpdateGroup(g) ==
    /\ Bounded /\ loop[g] # "absent"
    /\ loop' = [loop EXCEPT ![g] = IF @ = "open" THEN "archived" ELSE "open"]
    /\ deskFree
    /\ UNCHANGED <<account, member, setup, desk>>
    /\ Widen

FinishSetup(g) ==
    /\ Bounded /\ loop[g] = "open" /\ ~setup[g]
    /\ setup' = [setup EXCEPT ![g] = TRUE]
    /\ deskFree
    /\ UNCHANGED <<account, member, loop, desk, enterable>>

\* handleInviteUser, handleCreateGroup and the wizard's list of friends: look the
\* address up, create or restore the account, then join the Loop (or weave it
\* with its keeper).  The wizard also mails whoever is a member already, which
\* changes nothing here.
MayInvite(g) == \E a \in Folk : IsGroupAdmin(a, g) /\ TryGroup(a, g)
Allowed(way, g, p) ==
    IF way = "weave" THEN loop[g] = "absent" /\ \A k \in 1..g-1 : loop[k] # "absent"
    ELSE /\ MayInvite(g) /\ ~(account[p] = "on" /\ Belongs(p, g))
         /\ way = "launch" => ~setup[g]

Joining(way) == IF way = "weave" THEN "weave" ELSE "join"

LookUp(d, g, p, way) ==
    /\ desk[d].at = "free" /\ Allowed(way, g, p)
    /\ desk' = [desk EXCEPT ![d] =
                  [at |-> CASE account[p] = "unknown" -> "create"
                            [] account[p] = "off" -> "reactivate"
                            [] OTHER -> Joining(way),
                   g |-> g, who |-> p, way |-> way]]
    /\ deskFree
    /\ UNCHANGED <<peopleVars, enterable, ops>>

\* BUG: a deactivated account is invited without being restored.
LeaveAccount(d) ==
    /\ desk[d].at \in {"create", "reactivate"}
    /\ account' = [account EXCEPT ![desk[d].who] = IF @ = "unknown" THEN "on" ELSE @]
    /\ desk' = [desk EXCEPT ![d].at = Joining(desk[d].way)]
    /\ UNCHANGED <<member, loop, setup, signedIn, current, last, visit, enterable, ops>>

\* users.email is unique: the second of two creations fails.
RestoreAccount(d) ==
    LET k == desk[d] IN
    /\ k.at \in {"create", "reactivate"}
    /\ k.at = "create" => account[k.who] = "unknown"
    /\ account' = [account EXCEPT ![k.who] = "on"]
    /\ desk' = [desk EXCEPT ![d].at = Joining(k.way)]
    /\ deskFree
    /\ UNCHANGED <<member, loop, setup, enterable, ops>>

\* The role only ever moves up; a deactivated membership is switched on again.
CreateMembership(old, role) ==
    [role |-> IF old.role = "admin" THEN "admin" ELSE role, on |-> TRUE]

Join(d) ==
    LET k == desk[d] IN
    /\ k.at = "join"
    /\ member' = [member EXCEPT ![k.g][k.who] = CreateMembership(@, "member")]
    /\ desk' = [desk EXCEPT ![d] = IF k.way = "launch" THEN FreeDesk ELSE [@ EXCEPT !.at = "mail"]]
    /\ deskFree
    /\ UNCHANGED <<account, loop, setup, ops>>
    /\ Widen

CreateGroup(d) ==
    LET k == desk[d] IN
    /\ k.at = "weave" /\ loop[k.g] = "absent"
    /\ loop' = [loop EXCEPT ![k.g] = "open"]
    /\ member' = [member EXCEPT ![k.g][k.who] = [role |-> "admin", on |-> TRUE]]
    /\ desk' = [desk EXCEPT ![d].at = "mail"]
    /\ deskFree
    /\ UNCHANGED <<account, setup, ops>>
    /\ Widen

\* The wizard logs a restoration that failed and goes on.
LaunchGoesOn(d) ==
    /\ desk[d].way = "launch" /\ desk[d].at = "reactivate" /\ Bounded
    /\ desk' = [desk EXCEPT ![d].at = "join"]
    /\ deskFree
    /\ UNCHANGED <<peopleVars, enterable>>

\* The wizard's own mails are left out: it sends them whatever has failed.
SendInviteEmail(d) ==
    /\ desk[d].at = "mail"
    /\ desk' = [desk EXCEPT ![d] = FreeDesk]
    /\ deskFree
    /\ UNCHANGED <<peopleVars, enterable, ops>>

DeskFails(d) ==
    /\ desk[d].at # "free"
    /\ desk' = [desk EXCEPT ![d] = FreeDesk]
    /\ deskFree
    /\ UNCHANGED <<peopleVars, enterable, ops>>

DeskStep(d) ==
    \/ \E g \in Loops, p \in Folk, way \in {"invite", "weave", "launch"} : LookUp(d, g, p, way)
    \/ LaunchGoesOn(d) \/ RestoreAccount(d) \/ Join(d) \/ CreateGroup(d) \/ SendInviteEmail(d) \/ DeskFails(d)

VisitsNext ==
    \/ \E a \in Addresses : Navigate(a)
    \/ VisitStep \/ SignOut
    \/ \E g \in Loops : SwitchGroup(g) \/ UpdateGroup(g) \/ FinishSetup(g)
    \/ \E d \in Desks : DeskStep(d)

VisitsSpec == VisitsInit /\ [][VisitsNext]_visitVars

\* A browser follows a redirect and the server answers a request it has read.
VisitsFairSpec == VisitsSpec /\ WF_visitVars(VisitStep)

-----------------------------------------------------------------------------
\* The Loop remembered in the session or the account may have been archived, or
\* never have been this person's: a page of a Loop is only ever shown to
\* somebody who could enter that Loop at some moment of the request.
ShownOnlyWhereWelcome ==
    visit.at = "shown" /\ visit.path \in LoopPages => visit.loop \in enterable

\* When an admin's invitation or a keeper's is mailed, its recipient has an account
\* that can sign in and a membership that lets them into the Loop it names,
\* whichever step of an invitation failed before and however many raced.
InvitedAreMembers ==
    \A d \in Desks :
      desk[d].at = "mail" => account[desk[d].who] = "on" /\ Belongs(desk[d].who, desk[d].g)

\* No address redirects forever: the landing page, the setup wizard, the admin
\* gates, ?g= and the switch to an issue's Loop never send a browser in circles.
EveryVisitEnds == []<>(visit.at = "shown")
=============================================================================
