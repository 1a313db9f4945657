------------------------------- MODULE SignIn -------------------------------
(***************************************************************************)
(* Passwordless sign-in: login links (single use, half an hour), the links *)
(* inside the mails (email_cta, reusable for a week), sessions, and the    *)
(* daily clean-up.  A request is a sequence of store calls; between two of *)
(* them every other request, the clean-up and the clock may run, so each   *)
(* call that writes is a step of its own and what was read before it is    *)
(* kept in req.  Times are kept as "expired or not": ExpireLink and        *)
(* ExpireSession let the clock pass an expiry at any moment.               *)
(***************************************************************************)
EXTENDS Naturals, FiniteSets

CONSTANTS People,        \* accounts
          Reqs,          \* HTTP requests that can be in flight together
          MaxLinks,      \* bound: auth_tokens rows ever created
          MaxAttempts,   \* magic-link requests per address and hour; the code allows 3
          DevMode        \* config.DevMode: /dev/login is served

ASSUME SignInAssumption ==
    People # {} /\ IsFiniteSet(Reqs) /\ MaxLinks \in Nat /\ MaxAttempts \in Nat \ {0}

Links == 1..MaxLinks
NoLink == 0

VARIABLES token,      \* auth_tokens: row, type, user, expired, consumed
          session,    \* each person's cookie and what became of its sessions row
          attempts,   \* login_attempts of the last hour, per address
          active,     \* users.is_active
          req,        \* the requests in flight: next call, person, link read
          minted      \* history: sessions opened with each login link

signInVars == <<token, session, attempts, active, req, minted>>

Idle == [at |-> "idle", who |-> CHOOSE p \in People : TRUE, link |-> NoLink]
Steps == {"idle", "record", "create", "renew", "reissue", "consume", "mint"}

AuthToken == [row : {"none", "stored", "deleted"}, type : {"login", "email_cta"},
              user : People, expired : BOOLEAN, consumed : BOOLEAN]
InFlight == [at : Steps, who : People, link : Links \cup {NoLink}]

SignInTypeOK ==
    /\ token \in [Links -> AuthToken]
    /\ session \in [People -> {"no cookie", "stored", "expired", "deleted"}]
    /\ attempts \in [People -> Nat]
    /\ active \in [People -> BOOLEAN]
    /\ req \in [Reqs -> InFlight]
    /\ minted \in [Links -> Nat]

SignInInit ==
    /\ token = [l \in Links |-> [row |-> "none", type |-> "login", user |-> Idle.who,
                                 expired |-> FALSE, consumed |-> FALSE]]
    /\ session = [p \in People |-> "no cookie"]
    /\ attempts = [p \in People |-> 0]
    /\ active \in [People -> BOOLEAN]
    /\ req = [r \in Reqs |-> Idle]
    /\ minted = [l \in Links |-> 0]

At(r, step) == req[r].at = step
Goto(r, step) == req' = [req EXCEPT ![r].at = step]
Finish(r) == req' = [req EXCEPT ![r] = Idle]

\* Row ids are handed out in order.
NextLink(l) == token[l].row = "none" /\ \A k \in Links : k < l => token[k].row # "none"

CreateAuthToken(l, p, type) ==
    token' = [token EXCEPT ![l] = [row |-> "stored", type |-> type, user |-> p,
                                   expired |-> FALSE, consumed |-> FALSE]]

\* BUG: the row is read, not the result of the conditional update.
ConsumableTwice(l) == token[l].row = "stored"

\* The update that wins is the one that finds the row unconsumed.
Consumable(l) == token[l].row = "stored" /\ ~token[l].consumed
MarkConsumed(l) == token' = [token EXCEPT ![l].consumed = (token[l].row = "stored") \/ @]

HasValidSession(p) == session[p] = "stored" /\ active[p]

-----------------------------------------------------------------------------
\* BUG: one request more than the limit.
RequestOneMore(r, p) ==
    /\ At(r, "idle") /\ attempts[p] <= MaxAttempts
    /\ req' = [req EXCEPT ![r] = [at |-> "record", who |-> p, link |-> NoLink]]
    /\ UNCHANGED <<token, session, attempts, active, minted>>

\* requestMagicLink: count, record, look the account up and store a link.  An
\* unknown or deactivated address is answered like any other, without a link.
RequestMagicLink(r, p) ==
    /\ At(r, "idle") /\ attempts[p] < MaxAttempts
    /\ req' = [req EXCEPT ![r] = [at |-> "record", who |-> p, link |-> NoLink]]
    /\ UNCHANGED <<token, session, attempts, active, minted>>

RecordLoginAttempt(r) ==
    /\ At(r, "record")
    /\ attempts' = [attempts EXCEPT ![req[r].who] = @ + 1]
    /\ IF active[req[r].who] THEN Goto(r, "create") ELSE Finish(r)
    /\ UNCHANGED <<token, session, active, minted>>

CreateLoginLink(r) ==
    /\ At(r, "create") \/ At(r, "reissue")
    /\ \E l \in Links : NextLink(l) /\ CreateAuthToken(l, req[r].who, "login")
    /\ Finish(r)
    /\ UNCHANGED <<session, attempts, active, minted>>

\* mintEmailCTAToken, for the reminders, invites and publish mails.
MintEmailCTAToken(p) ==
    /\ \E l \in Links : NextLink(l) /\ CreateAuthToken(l, p, "email_cta")
    /\ UNCHANGED <<session, attempts, active, req, minted>>

Begin(r, l, step) ==
    /\ req' = [req EXCEPT ![r] = [at |-> step, who |-> token[l].user, link |-> l]]
    /\ UNCHANGED <<token, session, attempts, active, minted>>

\* handleVerifyToken up to its first write.  The early returns (unknown, used
\* or wrong kind of link) only redirect.  An expired link is renewed.
VerifyToken(r, l) ==
    /\ At(r, "idle") /\ Consumable(l) /\ token[l].type = "login"
    /\ Begin(r, l, IF token[l].expired THEN "renew" ELSE "consume")

\* A failure to consume the expired link is logged and the renewal goes on.
RenewExpired(r) ==
    /\ At(r, "renew") /\ Goto(r, "reissue")
    /\ MarkConsumed(req[r].link) \/ UNCHANGED token
    /\ UNCHANGED <<session, attempts, active, minted>>

\* handleAuthParam, for a visitor without a valid session: a mail's link goes
\* straight to the session, any other kind must first be consumed.
HandleAuthParam(r, l) ==
    /\ At(r, "idle") /\ token[l].row = "stored" /\ ~token[l].expired
    /\ ~HasValidSession(token[l].user)
    /\ \/ token[l].type = "email_cta" /\ Begin(r, l, "mint")
       \/ token[l].type # "email_cta" /\ ~token[l].consumed /\ Begin(r, l, "consume")

ConsumeAuthToken(r) ==
    /\ At(r, "consume")
    /\ IF Consumable(req[r].link)
         THEN MarkConsumed(req[r].link) /\ Goto(r, "mint")
         ELSE Finish(r) /\ UNCHANGED token
    /\ UNCHANGED <<session, attempts, active, minted>>

CreateSessionAndSetCookie(r) ==
    /\ At(r, "mint")
    /\ session' = [session EXCEPT ![req[r].who] = "stored"]
    /\ minted' = [l \in Links |-> IF l = req[r].link /\ token[l].type = "login"
                                    THEN minted[l] + 1 ELSE minted[l]]
    /\ Finish(r)
    /\ UNCHANGED <<token, attempts, active>>

DevLogin(r, p) ==
    /\ DevMode /\ At(r, "idle") /\ active[p]
    /\ req' = [req EXCEPT ![r] = [at |-> "mint", who |-> p, link |-> NoLink]]
    /\ UNCHANGED <<token, session, attempts, active, minted>>

\* A store error, the 30 second deadline or a crash ends a request anywhere.
RequestDies(r) ==
    /\ ~At(r, "idle") /\ Finish(r)
    /\ UNCHANGED <<token, session, attempts, active, minted>>

Logout(p) ==
    /\ HasValidSession(p)
    /\ session' = [session EXCEPT ![p] = "no cookie"]
    /\ UNCHANGED <<token, attempts, active, req, minted>>

\* authMiddleware drops a cookie whose session is gone, over or not usable.
DropStaleCookie(p) ==
    /\ session[p] # "no cookie" /\ ~HasValidSession(p)
    /\ session' = [session EXCEPT ![p] = "no cookie"]
    /\ UNCHANGED <<token, attempts, active, req, minted>>

-----------------------------------------------------------------------------
ExpireLink(l) ==
    /\ token[l].row = "stored" /\ ~token[l].expired
    /\ token' = [token EXCEPT ![l].expired = TRUE]
    /\ UNCHANGED <<session, attempts, active, req, minted>>

ExpireSession(p) ==
    /\ session[p] = "stored"
    /\ session' = [session EXCEPT ![p] = "expired"]
    /\ UNCHANGED <<token, attempts, active, req, minted>>

AttemptAges(p) ==
    /\ attempts[p] > 0
    /\ attempts' = [attempts EXCEPT ![p] = @ - 1]
    /\ UNCHANGED <<token, session, active, req, minted>>

Lapsed(t) == t.row = "stored" /\ (t.consumed \/ t.expired)

CleanupExpiredTokens ==
    /\ \E l \in Links : Lapsed(token[l])
    /\ token' = [l \in Links |-> IF Lapsed(token[l]) THEN [token[l] EXCEPT !.row = "deleted",
                                                                         !.consumed = TRUE]
                                                     ELSE token[l]]
    /\ UNCHANGED <<session, attempts, active, req, minted>>

CleanupExpiredSessions ==
    /\ \E p \in People : session[p] = "expired"
    /\ session' = [p \in People |-> IF session[p] = "expired" THEN "deleted" ELSE session[p]]
    /\ UNCHANGED <<token, attempts, active, req, minted>>

\* ReactivateUser, when someone is invited again.
ReactivateUser(p) ==
    /\ ~active[p]
    /\ active' = [active EXCEPT ![p] = TRUE]
    /\ UNCHANGED <<token, session, attempts, req, minted>>

RequestStep(r) ==
    \/ \E p \in People : RequestMagicLink(r, p) \/ DevLogin(r, p)
    \/ \E l \in Links : VerifyToken(r, l) \/ HandleAuthParam(r, l)
    \/ RecordLoginAttempt(r) \/ CreateLoginLink(r) \/ RenewExpired(r)
    \/ ConsumeAuthToken(r) \/ CreateSessionAndSetCookie(r) \/ RequestDies(r)

SignInNext ==
    \/ \E r \in Reqs : RequestStep(r)
    \/ \E p \in People : \/ MintEmailCTAToken(p) \/ Logout(p) \/ DropStaleCookie(p)
                         \/ AttemptAges(p) \/ ReactivateUser(p) \/ ExpireSession(p)
    \/ \E l \in Links : ExpireLink(l)
    \/ CleanupExpiredTokens \/ CleanupExpiredSessions

SignInSpec == SignInInit /\ [][SignInNext]_signInVars

-----------------------------------------------------------------------------
\* A login link as OneTimeLinks sees it: spent from the moment a request has
\* consumed it until that request has opened the session or died.
LinkState(l) ==
    CASE token[l].row = "none" \/ token[l].type # "login" -> "unsent"
      [] token[l].row # "none" /\ token[l].type = "login" /\ Consumable(l) -> "live"
      [] OTHER -> IF \E r \in Reqs : At(r, "mint") /\ req[r].link = l THEN "spent" ELSE "over"

Once == INSTANCE OneTimeLinks
          WITH link <- [l \in Links |-> LinkState(l)],
               opened <- minted

\* Opening a login link twice at once, reloading it, letting it expire or
\* having it cleaned up while a request holds it never opens a second session:
\* the requests, the race for consumed_at and the clean-up implement
\* OneTimeLinks ("redirect to login rather than minting a second session").
LinksUsedOnce == Once!OnceSpec

\* A link inside a mail works until it expires, however often it was opened
\* (mail scanners open it first), whatever the clean-up and other links do.
MailLinksOutliveClicks ==
    \A l \in Links : token[l].row # "none" /\ token[l].type = "email_cta" /\ ~token[l].expired
                     => token[l].row = "stored"

\* The hourly limit is counted before it is recorded, so requests in flight
\* together may pass it, but never by more than the others in flight.
AttemptsBounded ==
    \A p \in People : attempts[p] < MaxAttempts + Cardinality(Reqs)
=============================================================================
