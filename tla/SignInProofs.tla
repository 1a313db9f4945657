---------------------------- MODULE SignInProofs ----------------------------
(***************************************************************************)
(* Login links are one-time links, for any number of accounts, links and   *)
(* requests in flight: SignIn implements OneTimeLinks.                     *)
(***************************************************************************)
EXTENDS SignIn, FiniteSetTheorems, TLAPS

\* The request that spent a link holds it until the session is opened.
Held(l) == \E r \in Reqs : req[r].at = "mint" /\ req[r].link = l

\* What the requests in flight know of the link they carry: it exists, it is a
\* login link unless a mail's link went straight to the session, and a login
\* link at that point has been consumed.
Carries(r) ==
    /\ req[r].at \in {"renew", "consume"} => /\ req[r].link \in Links
                                            /\ token[req[r].link].type = "login"
    /\ req[r].link \in Links => token[req[r].link].row # "none"
    /\ req[r].at = "mint" /\ req[r].link \in Links /\ token[req[r].link].type = "login"
         => token[req[r].link].consumed

\* The conditional update has one winner.
OneHolder ==
    \A r, q \in Reqs :
      /\ req[r].at = "mint" /\ req[q].at = "mint" /\ req[r].link = req[q].link
      /\ req[r].link \in Links /\ token[req[r].link].type = "login"
      => r = q

LinkInv == /\ SignInTypeOK
           /\ \A r \in Reqs : Carries(r)
           /\ OneHolder

-----------------------------------------------------------------------------
\* What the writes to auth_tokens and the moves of a request change.
LEMMA IdleTyped == Idle \in InFlight /\ Idle.at = "idle" /\ Idle.link = NoLink
<1>1. Idle.who \in People
  BY SignInAssumption DEF Idle
<1> QED
  BY <1>1 DEF Idle, InFlight, Steps, NoLink

\* The conditional update of one link, and what it leaves alone.
LEMMA MarkConsumedFacts ==
    ASSUME token \in [Links -> AuthToken], NEW l \in Links, MarkConsumed(l)
    PROVE  /\ token' \in [Links -> AuthToken]
           /\ \A k \in Links : /\ k # l => token'[k] = token[k]
                               /\ token'[k].row = token[k].row
                               /\ token'[k].type = token[k].type
                               /\ token'[k].expired = token[k].expired
                               /\ token[k].consumed => token'[k].consumed
           /\ token[l].row = "stored" => token'[l].consumed
           /\ token[l].row # "stored" => token'[l].consumed = token[l].consumed
<1> DEFINE b == (token[l].row = "stored") \/ token[l].consumed
<1>1. b \in BOOLEAN
  BY DEF AuthToken
<1>2. token' = [token EXCEPT ![l] = [token[l] EXCEPT !.consumed = b]]
  BY Zenon DEF MarkConsumed
<1>3. b = TRUE <=> token[l].row = "stored" \/ token[l].consumed
  OBVIOUS
<1>4. token[l].row # "stored" => b = token[l].consumed
  BY DEF AuthToken
<1> HIDE DEF b
<1>5. token[l] \in AuthToken
  OBVIOUS
<1>6. [token[l] EXCEPT !.consumed = b] \in AuthToken
  BY <1>1, <1>5 DEF AuthToken
<1>7. token' \in [Links -> AuthToken]
  BY <1>2, <1>6
<1>8. \A k \in Links : k # l => token'[k] = token[k]
  BY <1>2
<1>9. token'[l] = [token[l] EXCEPT !.consumed = b]
  BY <1>2
<1>10. /\ token'[l].row = token[l].row
       /\ token'[l].type = token[l].type
       /\ token'[l].expired = token[l].expired
       /\ token'[l].consumed = b
  BY <1>9, <1>5 DEF AuthToken
<1> QED
  BY <1>3, <1>4, <1>7, <1>8, <1>10

\* A new row in auth_tokens leaves the other links alone.
LEMMA CreateFacts ==
    ASSUME token \in [Links -> AuthToken], NEW l \in Links, NEW p \in People,
           NEW type \in {"login", "email_cta"}, CreateAuthToken(l, p, type)
    PROVE  /\ token' \in [Links -> AuthToken]
           /\ \A k \in Links : k # l => token'[k] = token[k]
           /\ token'[l].row = "stored" /\ token'[l].type = type /\ ~token'[l].consumed
<1> DEFINE t == [row |-> "stored", type |-> type, user |-> p,
                 expired |-> FALSE, consumed |-> FALSE]
<1>1. t \in AuthToken
  BY DEF AuthToken
<1>2. token' = [token EXCEPT ![l] = t]
  BY DEF CreateAuthToken
<1>3. t.row = "stored" /\ t.type = type /\ ~t.consumed
  OBVIOUS
<1> HIDE DEF t
<1> QED
  BY <1>1, <1>2, <1>3

\* A request that moves on keeps its link and its person.
LEMMA GotoFacts ==
    ASSUME req \in [Reqs -> InFlight], NEW r \in Reqs, NEW step \in Steps, Goto(r, step)
    PROVE  /\ req' \in [Reqs -> InFlight]
           /\ req'[r].at = step /\ req'[r].link = req[r].link /\ req'[r].who = req[r].who
           /\ \A q \in Reqs : q # r => req'[q] = req[q]
<1>1. req[r] \in InFlight
  OBVIOUS
<1>2. req' = [req EXCEPT ![r] = [req[r] EXCEPT !.at = step]]
  BY Zenon DEF Goto
<1>3. [req[r] EXCEPT !.at = step] \in InFlight
  BY <1>1 DEF InFlight
<1>4. req'[r] = [req[r] EXCEPT !.at = step]
  BY <1>2
<1>5. req'[r].at = step /\ req'[r].link = req[r].link /\ req'[r].who = req[r].who
  BY <1>4, <1>1 DEF InFlight
<1> QED
  BY <1>2, <1>3, <1>5

\* A request that ends holds no link.
LEMMA FinishFacts ==
    ASSUME req \in [Reqs -> InFlight], NEW r \in Reqs, Finish(r)
    PROVE  /\ req' \in [Reqs -> InFlight]
           /\ req'[r].at = "idle" /\ req'[r].link = NoLink
           /\ \A q \in Reqs : q # r => req'[q] = req[q]
<1>1. req' = [req EXCEPT ![r] = Idle]
  BY DEF Finish
<1> QED
  BY <1>1, IdleTyped

\* A request that goes on holds the link it was given.
LEMMA StartFacts ==
    ASSUME req \in [Reqs -> InFlight], NEW r \in Reqs, NEW at \in Steps, NEW p \in People,
           NEW l \in Links \cup {NoLink},
           req' = [req EXCEPT ![r] = [at |-> at, who |-> p, link |-> l]]
    PROVE  /\ req' \in [Reqs -> InFlight]
           /\ req'[r].at = at /\ req'[r].link = l /\ req'[r].who = p
           /\ \A q \in Reqs : q # r => req'[q] = req[q]
<1>1. [at |-> at, who |-> p, link |-> l] \in InFlight
  BY DEF InFlight
<1> QED
  BY <1>1

-----------------------------------------------------------------------------
Sent(l) == token[l].row # "none" /\ token[l].type = "login"

\* LinkState in the words of Sent, Consumable and Held, before and after a step.
LEMMA LinkStates ==
    ASSUME NEW l \in Links
    PROVE  /\ ~Sent(l) => LinkState(l) = "unsent"
           /\ Sent(l) /\ Consumable(l) => LinkState(l) = "live"
           /\ Sent(l) /\ ~Consumable(l) /\ Held(l) => LinkState(l) = "spent"
           /\ Sent(l) /\ ~Consumable(l) /\ ~Held(l) => LinkState(l) = "over"
  BY DEF LinkState, Sent, Held, At

\* How the abstract state of a link follows from its row after a step.
LEMMA NextLinkStates ==
    ASSUME NEW l \in Links
    PROVE  /\ ~Sent(l)' => LinkState(l)' = "unsent"
           /\ Sent(l)' /\ Consumable(l)' => LinkState(l)' = "live"
           /\ Sent(l)' /\ ~Consumable(l)' /\ Held(l)' => LinkState(l)' = "spent"
           /\ Sent(l)' /\ ~Consumable(l)' /\ ~Held(l)' => LinkState(l)' = "over"
  BY DEF LinkState, Sent, Held, At

\* Rows are never unmade, keep their type, and stay consumed.
TokensAge ==
    \A k \in Links : token[k].row # "none" =>
      /\ token'[k].row # "none"
      /\ token'[k].type = token[k].type
      /\ token[k].consumed => token'[k].consumed

\* The invariant survives a step in which at most request r moved, and did not
\* become the second holder of a login link.
LEMMA InvariantKept ==
    ASSUME LinkInv, SignInTypeOK', TokensAge, NEW r,
           \A q \in Reqs : \/ req'[q] = req[q]
                           \/ /\ q = r /\ Carries(r)'
                              /\ req'[r].at = "mint" /\ req'[r].link \in Links
                                 /\ token'[req'[r].link].type = "login"
                                 => ~Held(req'[r].link)
    PROVE  LinkInv'
<1>1. ASSUME NEW q \in Reqs, req'[q] = req[q] PROVE Carries(q)'
  <2>1. Carries(q)
    BY DEF LinkInv
  <2>2. req[q].link \in Links => token[req[q].link].row # "none"
    BY <2>1 DEF Carries
  <2> QED
    BY <1>1, <2>1, <2>2 DEF TokensAge, Carries
<1>2. \A q \in Reqs : Carries(q)'
  BY <1>1
<1>3. OneHolder'
  <2> SUFFICES ASSUME NEW x \in Reqs, NEW y \in Reqs,
                      req'[x].at = "mint", req'[y].at = "mint",
                      req'[x].link = req'[y].link, req'[x].link \in Links,
                      token'[req'[x].link].type = "login"
               PROVE  x = y
    BY DEF OneHolder
  <2>1. CASE req'[x] = req[x] /\ req'[y] = req[y]
    <3>1. Carries(x)
      BY DEF LinkInv
    <3>2. token[req[x].link].type = "login"
      BY <2>1, <3>1 DEF Carries, TokensAge
    <3> QED
      BY <2>1, <3>2 DEF LinkInv, OneHolder
  <2>2. CASE req'[x] # req[x]
    <3>1. x = r /\ ~Held(req'[x].link)
      BY <2>2
    <3>2. req'[y] = req[y] => FALSE
      BY <3>1 DEF Held
    <3> QED
      BY <3>1, <3>2
  <2>3. CASE req'[y] # req[y]
    <3>1. y = r /\ ~Held(req'[y].link)
      BY <2>3
    <3>2. req'[x] = req[x] => FALSE
      BY <3>1 DEF Held
    <3> QED
      BY <3>1, <3>2
  <2> QED
    BY <2>1, <2>2, <2>3
<1> QED
  BY <1>2, <1>3 DEF LinkInv

\* A link that is still consumable is held by nobody.
LEMMA LiveNotHeld ==
    ASSUME LinkInv, NEW l \in Links, Sent(l), ~token[l].consumed
    PROVE  ~Held(l)
  BY DEF LinkInv, Carries, Held, Sent

\* A step that sends no link, makes none consumable again and gives none a
\* holder is a lapse of links, possibly of none.
LEMMA Lapses ==
    ASSUME LinkInv, minted' = minted,
           \A l \in Links : /\ Sent(l)' <=> Sent(l)
                            /\ Consumable(l)' => Consumable(l)
                            /\ Sent(l) /\ Held(l)' => Held(l)
    PROVE  Once!OnceNext
<1>1. ASSUME NEW l \in Links
      PROVE  \/ LinkState(l)' = LinkState(l)
             \/ LinkState(l) \in {"live", "spent"} /\ LinkState(l)' = "over"
  <2>1. Sent(l) /\ Consumable(l) => ~Held(l)
    BY LiveNotHeld DEF Consumable
  <2> QED
    BY <1>1, <2>1, LinkStates, NextLinkStates
<1>2. \A l \in Links : LinkState(l)' \in {"unsent", "live", "spent", "over"}
  BY NextLinkStates
<1>3. Once!Lapse
  BY <1>1, <1>2 DEF Once!Lapse
<1> QED
  BY <1>3 DEF Once!OnceNext

\* The steps of a request that write no token and open no session.
LEMMA RequestMoves ==
    ASSUME LinkInv, SignInTypeOK', token' = token, minted' = minted, NEW r \in Reqs,
           \A q \in Reqs : q # r => req'[q] = req[q],
           Carries(r)',
           req'[r].at = "mint" /\ req'[r].link \in Links => token[req'[r].link].type # "login"
    PROVE  LinkInv' /\ Once!OnceNext
<1>1. TokensAge
  BY DEF TokensAge
<1>2. LinkInv'
  BY <1>1, InvariantKept
<1>3. ASSUME NEW l \in Links, Sent(l), Held(l)' PROVE Held(l)
  <2>1. PICK q \in Reqs : req'[q].at = "mint" /\ req'[q].link = l
    BY <1>3 DEF Held
  <2>2. q # r
    BY <1>3, <2>1 DEF Sent
  <2> QED
    BY <2>1, <2>2 DEF Held
<1>4. \A l \in Links : (Sent(l)' <=> Sent(l)) /\ (Consumable(l)' => Consumable(l))
  BY DEF Sent, Consumable
<1>5. Once!OnceNext
  BY <1>3, <1>4, Lapses
<1> QED
  BY <1>2, <1>5

\* The steps that touch neither tokens nor requests.
LEMMA ElsewhereMoves ==
    ASSUME LinkInv, SignInTypeOK', token' = token, minted' = minted, req' = req
    PROVE  LinkInv' /\ Once!OnceNext
<1>1. TokensAge
  BY DEF TokensAge
<1>2. LinkInv'
  BY <1>1, InvariantKept
<1>3. \A l \in Links : /\ Sent(l)' <=> Sent(l)
                       /\ Consumable(l)' => Consumable(l)
                       /\ Sent(l) /\ Held(l)' => Held(l)
  BY DEF Sent, Consumable, Held
<1>4. Once!OnceNext
  BY <1>3, Lapses
<1> QED
  BY <1>2, <1>4

\* The requests that start, end or move on without a write to auth_tokens.
LEMMA StartSteps ==
    ASSUME LinkInv, NEW r \in Reqs,
           \/ \E p \in People : RequestMagicLink(r, p) \/ DevLogin(r, p)
           \/ \E l \in Links : VerifyToken(r, l) \/ HandleAuthParam(r, l)
    PROVE  LinkInv' /\ Once!OnceNext
<1>t. SignInTypeOK
  BY DEF LinkInv
<1>1. ASSUME NEW p \in People, RequestMagicLink(r, p) \/ DevLogin(r, p)
      PROVE  LinkInv' /\ Once!OnceNext
  <2>1. PICK at \in {"record", "mint"} :
          req' = [req EXCEPT ![r] = [at |-> at, who |-> p, link |-> NoLink]]
    BY <1>1 DEF RequestMagicLink, DevLogin
  <2>2. /\ req' \in [Reqs -> InFlight]
        /\ req'[r].at = at /\ req'[r].link = NoLink
        /\ \A q \in Reqs : q # r => req'[q] = req[q]
    BY <1>t, <2>1, StartFacts DEF SignInTypeOK, Steps
  <2>3. UNCHANGED <<token, session, attempts, active, minted>>
    BY <1>1 DEF RequestMagicLink, DevLogin
  <2>4. SignInTypeOK'
    BY <1>t, <2>2, <2>3 DEF SignInTypeOK
  <2>5. NoLink \notin Links
    BY SignInAssumption DEF NoLink, Links
  <2>6. Carries(r)'
    BY <2>2, <2>5 DEF Carries
  <2> QED
    BY <2>2, <2>3, <2>4, <2>5, <2>6, RequestMoves
<1>2. ASSUME NEW l \in Links, VerifyToken(r, l) \/ HandleAuthParam(r, l)
      PROVE  LinkInv' /\ Once!OnceNext
  <2>1. PICK at \in {"renew", "consume", "mint"} :
          /\ Begin(r, l, at)
          /\ token[l].row = "stored"
          /\ at = "mint" => token[l].type = "email_cta"
          /\ at # "mint" => token[l].type = "login"
    BY <1>2, <1>t DEF VerifyToken, HandleAuthParam, Consumable, SignInTypeOK, AuthToken
  <2>2. token[l].user \in People
    BY <1>t DEF SignInTypeOK, AuthToken
  <2>3. /\ req' \in [Reqs -> InFlight]
        /\ req'[r].at = at /\ req'[r].link = l
        /\ \A q \in Reqs : q # r => req'[q] = req[q]
    BY <1>t, <2>1, <2>2, StartFacts DEF SignInTypeOK, Steps, Begin
  <2>4. UNCHANGED <<token, session, attempts, active, minted>>
    BY <2>1 DEF Begin
  <2>5. SignInTypeOK'
    BY <1>t, <2>3, <2>4 DEF SignInTypeOK
  <2>6. Carries(r)'
    BY <2>1, <2>3, <2>4 DEF Carries
  <2>7. req'[r].at = "mint" => token[req'[r].link].type # "login"
    BY <2>1, <2>3
  <2> QED
    BY <2>3, <2>4, <2>5, <2>6, <2>7, RequestMoves
<1> QED
  BY <1>1, <1>2

\* A request that ends, having written a row of login_attempts or nothing.
LEMMA EndSteps ==
    ASSUME LinkInv, NEW r \in Reqs, RecordLoginAttempt(r) \/ RequestDies(r)
    PROVE  LinkInv' /\ Once!OnceNext
<1>t. SignInTypeOK
  BY DEF LinkInv
<1>0. req \in [Reqs -> InFlight] /\ req[r] \in InFlight
  BY <1>t DEF SignInTypeOK
<1>1. /\ req' \in [Reqs -> InFlight]
      /\ \A q \in Reqs : q # r => req'[q] = req[q]
      /\ \/ req'[r].at = "idle" /\ req'[r].link = NoLink
         \/ /\ req[r].at = "record" /\ req'[r].at = "create"
            /\ req'[r].link = req[r].link
  <2>1. CASE Finish(r)
    BY <1>0, <2>1, FinishFacts
  <2>2. CASE req[r].at = "record" /\ Goto(r, "create")
    BY <1>0, <2>2, GotoFacts DEF Steps
  <2> QED
    BY <2>1, <2>2 DEF RecordLoginAttempt, RequestDies, At
<1>2. UNCHANGED <<token, session, active, minted>>
  BY DEF RecordLoginAttempt, RequestDies
<1>3. attempts' \in [People -> Nat]
  <2>1. attempts \in [People -> Nat] /\ req[r].who \in People
    BY <1>0, <1>t DEF InFlight, SignInTypeOK
  <2>2. CASE RecordLoginAttempt(r)
    <3>1. attempts' = [attempts EXCEPT ![req[r].who] = @ + 1]
      BY <2>2 DEF RecordLoginAttempt
    <3> QED
      BY <2>1, <3>1
  <2>3. CASE RequestDies(r)
    BY <2>1, <2>3 DEF RequestDies
  <2> QED
    BY <2>2, <2>3
<1>4. SignInTypeOK'
  BY <1>t, <1>1, <1>2, <1>3 DEF SignInTypeOK
<1>5. NoLink \notin Links
  BY SignInAssumption DEF NoLink, Links
<1>6. Carries(r)
  BY DEF LinkInv
<1>7. Carries(r)'
  BY <1>1, <1>2, <1>5, <1>6 DEF Carries
<1> QED
  BY <1>1, <1>2, <1>4, <1>7, RequestMoves

\* Sessions, attempts and accounts that change on their own.
LEMMA OtherSteps ==
    ASSUME LinkInv,
           \/ \E p \in People : \/ Logout(p) \/ DropStaleCookie(p) \/ AttemptAges(p)
                                \/ ReactivateUser(p) \/ ExpireSession(p)
           \/ CleanupExpiredSessions
           \/ UNCHANGED signInVars
    PROVE  LinkInv' /\ Once!OnceNext
<1>t. SignInTypeOK
  BY DEF LinkInv
<1>1. token' = token /\ minted' = minted /\ req' = req
  BY DEF Logout, DropStaleCookie, AttemptAges, ReactivateUser, ExpireSession,
         CleanupExpiredSessions, signInVars
<1>2. session' \in [People -> {"no cookie", "stored", "expired", "deleted"}]
  BY <1>t DEF Logout, DropStaleCookie, AttemptAges, ReactivateUser, ExpireSession,
              CleanupExpiredSessions, signInVars, SignInTypeOK
<1>3. attempts' \in [People -> Nat]
  <2>1. attempts \in [People -> Nat]
    BY <1>t DEF SignInTypeOK
  <2>2. \/ attempts' = attempts
        \/ \E p \in People : attempts[p] > 0 /\ attempts' = [attempts EXCEPT ![p] = @ - 1]
    BY Zenon DEF Logout, DropStaleCookie, AttemptAges, ReactivateUser, ExpireSession,
                 CleanupExpiredSessions, signInVars
  <2> QED
    BY <2>1, <2>2
<1>4. active' \in [People -> BOOLEAN]
  <2>1. active \in [People -> BOOLEAN]
    BY <1>t DEF SignInTypeOK
  <2>2. \/ active' = active
        \/ \E p \in People : active' = [active EXCEPT ![p] = TRUE]
    BY Zenon DEF Logout, DropStaleCookie, AttemptAges, ReactivateUser, ExpireSession,
                 CleanupExpiredSessions, signInVars
  <2> QED
    BY <2>1, <2>2
<1>5. SignInTypeOK'
  BY <1>t, <1>1, <1>2, <1>3, <1>4 DEF SignInTypeOK
<1> QED
  BY <1>1, <1>5, ElsewhereMoves

-----------------------------------------------------------------------------
\* CreateAuthToken, by a mail or by a request for a login link.
LEMMA NewTokenAges ==
    ASSUME token \in [Links -> AuthToken], NEW l \in Links, NEW p \in People,
           NEW type \in {"login", "email_cta"}, NextLink(l), CreateAuthToken(l, p, type)
    PROVE  TokensAge
  BY CreateFacts DEF TokensAge, NextLink

\* A link minted for a mail is sent, and stays live until it is opened.
LEMMA MintStep ==
    ASSUME LinkInv, NEW p \in People, MintEmailCTAToken(p)
    PROVE  LinkInv' /\ Once!OnceNext
<1>t. SignInTypeOK /\ token \in [Links -> AuthToken]
  BY DEF LinkInv, SignInTypeOK
<1>1. PICK l \in Links : NextLink(l) /\ CreateAuthToken(l, p, "email_cta")
  BY DEF MintEmailCTAToken
<1>2. UNCHANGED <<session, attempts, active, req, minted>>
  BY DEF MintEmailCTAToken
<1>3. /\ token' \in [Links -> AuthToken]
      /\ \A k \in Links : k # l => token'[k] = token[k]
      /\ token'[l].type = "email_cta"
  BY <1>t, <1>1, CreateFacts
<1>4. TokensAge
  BY <1>t, <1>1, NewTokenAges
<1>5. SignInTypeOK'
  BY <1>t, <1>2, <1>3 DEF SignInTypeOK
<1>6. LinkInv'
  BY <1>2, <1>4, <1>5, InvariantKept
<1>7. token[l].row = "none"
  BY <1>1 DEF NextLink
<1>8. ASSUME NEW k \in Links
      PROVE  /\ Sent(k)' <=> Sent(k)
             /\ Sent(k) /\ Held(k)' => Held(k)
  BY <1>2, <1>3, <1>7 DEF Sent, Held
\* The new row is consumable, but it is no login link: LinkState is unchanged.
<1>9. ASSUME NEW k \in Links PROVE LinkState(k)' = LinkState(k)
  <2>1. CASE k = l
    BY <1>3, <1>7, <2>1, LinkStates, NextLinkStates DEF Sent
  <2>2. CASE k # l
    <3>1. (Sent(k)' <=> Sent(k)) /\ (Consumable(k)' <=> Consumable(k)) /\ (Held(k)' <=> Held(k))
      BY <1>2, <1>3, <2>2 DEF Sent, Consumable, Held
    <3> QED
      BY <3>1, LinkStates, NextLinkStates
  <2> QED
    BY <2>1, <2>2
<1>10. \A k \in Links : LinkState(k)' \in {"unsent", "live", "spent", "over"}
  BY NextLinkStates
<1>11. Once!Lapse
  BY <1>2, <1>9, <1>10 DEF Once!Lapse
<1> QED
  BY <1>6, <1>11 DEF Once!OnceNext

\* A login link that is created is sent, and stays live until it is used.
LEMMA CreateStep ==
    ASSUME LinkInv, NEW r \in Reqs, CreateLoginLink(r)
    PROVE  LinkInv' /\ Once!OnceNext
<1>t. SignInTypeOK /\ token \in [Links -> AuthToken] /\ req \in [Reqs -> InFlight]
  BY DEF LinkInv, SignInTypeOK
<1>0. req[r].who \in People /\ req[r].at # "mint"
  BY <1>t DEF InFlight, CreateLoginLink, At
<1>1. PICK l \in Links : NextLink(l) /\ CreateAuthToken(l, req[r].who, "login")
  BY DEF CreateLoginLink
<1>2. UNCHANGED <<session, attempts, active, minted>> /\ Finish(r)
  BY DEF CreateLoginLink
<1>3. /\ token' \in [Links -> AuthToken]
      /\ \A k \in Links : k # l => token'[k] = token[k]
      /\ token'[l].row = "stored" /\ token'[l].type = "login" /\ ~token'[l].consumed
  BY <1>t, <1>0, <1>1, CreateFacts
<1>4. /\ req' \in [Reqs -> InFlight]
      /\ req'[r].at = "idle" /\ req'[r].link = NoLink
      /\ \A q \in Reqs : q # r => req'[q] = req[q]
  BY <1>t, <1>2, FinishFacts
<1>5. TokensAge
  BY <1>t, <1>0, <1>1, NewTokenAges
<1>6. SignInTypeOK'
  BY <1>t, <1>2, <1>3, <1>4 DEF SignInTypeOK
<1>7. NoLink \notin Links
  BY SignInAssumption DEF NoLink, Links
<1>8. Carries(r)'
  BY <1>4, <1>7 DEF Carries
<1>9. LinkInv'
  BY <1>4, <1>5, <1>6, <1>8, InvariantKept
<1>10. token[l].row = "none"
  BY <1>1 DEF NextLink
<1>11. ASSUME NEW k \in Links, k # l PROVE LinkState(k)' = LinkState(k)
  <2>1. (Sent(k)' <=> Sent(k)) /\ (Consumable(k)' <=> Consumable(k)) /\ (Held(k)' <=> Held(k))
    BY <1>0, <1>3, <1>4, <1>11 DEF Sent, Consumable, Held
  <2> QED
    BY <2>1, LinkStates, NextLinkStates
<1>12. LinkState(l) = "unsent" /\ LinkState(l)' = "live"
  BY <1>3, <1>10, LinkStates, NextLinkStates DEF Sent, Consumable
<1>13. Once!Issue(l)
  BY <1>2, <1>11, <1>12 DEF Once!Issue
<1> QED
  BY <1>9, <1>13 DEF Once!OnceNext

\* The renewal of an expired link: consumed, or already consumed or deleted.
LEMMA RenewStep ==
    ASSUME LinkInv, NEW r \in Reqs, RenewExpired(r)
    PROVE  LinkInv' /\ Once!OnceNext
<1>t. SignInTypeOK /\ token \in [Links -> AuthToken] /\ req \in [Reqs -> InFlight]
  BY DEF LinkInv, SignInTypeOK
<1>c. Carries(r)
  BY DEF LinkInv
<1>0. req[r].at = "renew" /\ req[r].link \in Links
  BY <1>c DEF RenewExpired, At, Carries
<1>1. (MarkConsumed(req[r].link) \/ UNCHANGED token) /\ Goto(r, "reissue")
      /\ UNCHANGED <<session, attempts, active, minted>>
  BY DEF RenewExpired
<1>2. /\ token' \in [Links -> AuthToken]
      /\ \A k \in Links : /\ token'[k].row = token[k].row
                          /\ token'[k].type = token[k].type
                          /\ token[k].consumed => token'[k].consumed
  BY <1>t, <1>0, <1>1, MarkConsumedFacts
<1>3. /\ req' \in [Reqs -> InFlight]
      /\ req'[r].at = "reissue" /\ req'[r].link = req[r].link
      /\ \A q \in Reqs : q # r => req'[q] = req[q]
  BY <1>t, <1>1, GotoFacts DEF Steps
<1>4. TokensAge
  BY <1>2 DEF TokensAge
<1>5. SignInTypeOK'
  BY <1>t, <1>1, <1>2, <1>3 DEF SignInTypeOK
<1>6. Carries(r)'
  BY <1>0, <1>c, <1>2, <1>3 DEF Carries
<1>7. LinkInv'
  BY <1>3, <1>4, <1>5, <1>6, InvariantKept
<1>8. \A l \in Links : /\ Sent(l)' <=> Sent(l)
                       /\ Consumable(l)' => Consumable(l)
                       /\ Sent(l) /\ Held(l)' => Held(l)
  BY <1>2, <1>3 DEF Sent, Consumable, Held
<1>9. Once!OnceNext
  BY <1>1, <1>8, Lapses
<1> QED
  BY <1>7, <1>9

\* The race for consumed_at: the winner spends the link, a loser changes nothing.
LEMMA ConsumeStep ==
    ASSUME LinkInv, NEW r \in Reqs, ConsumeAuthToken(r)
    PROVE  LinkInv' /\ Once!OnceNext
<1>t. SignInTypeOK /\ token \in [Links -> AuthToken] /\ req \in [Reqs -> InFlight]
  BY DEF LinkInv, SignInTypeOK
<1>c. Carries(r)
  BY DEF LinkInv
<1>0. /\ req[r].at = "consume" /\ req[r].link \in Links
      /\ token[req[r].link].type = "login" /\ token[req[r].link].row # "none"
  BY <1>c DEF ConsumeAuthToken, At, Carries
<1>u. UNCHANGED <<session, attempts, active, minted>>
  BY DEF ConsumeAuthToken
<1>1. CASE ~Consumable(req[r].link)
  <2>1. Finish(r) /\ UNCHANGED token
    BY <1>1 DEF ConsumeAuthToken
  <2>2. /\ req' \in [Reqs -> InFlight]
        /\ req'[r].at = "idle" /\ req'[r].link = NoLink
        /\ \A q \in Reqs : q # r => req'[q] = req[q]
    BY <1>t, <2>1, FinishFacts
  <2>3. SignInTypeOK'
    BY <1>t, <1>u, <2>1, <2>2 DEF SignInTypeOK
  <2>4. NoLink \notin Links
    BY SignInAssumption DEF NoLink, Links
  <2>5. Carries(r)'
    BY <2>2, <2>4 DEF Carries
  <2> QED
    BY <1>u, <2>1, <2>2, <2>3, <2>5, RequestMoves
<1>2. CASE Consumable(req[r].link)
  <2>l. PICK l \in Links : l = req[r].link
    BY <1>0
  <2>0. Sent(l) /\ token[l].row = "stored" /\ ~token[l].consumed
    BY <1>0, <1>2, <2>l DEF Sent, Consumable
  <2>1. MarkConsumed(l) /\ Goto(r, "mint")
    BY <1>2, <2>l DEF ConsumeAuthToken
  <2>2. /\ token' \in [Links -> AuthToken]
        /\ \A k \in Links : /\ k # l => token'[k] = token[k]
                            /\ token'[k].row = token[k].row
                            /\ token'[k].type = token[k].type
                            /\ token[k].consumed => token'[k].consumed
        /\ token'[l].consumed
    BY <1>t, <2>0, <2>1, MarkConsumedFacts
  <2>3. /\ req' \in [Reqs -> InFlight]
        /\ req'[r].at = "mint" /\ req'[r].link = l
        /\ \A q \in Reqs : q # r => req'[q] = req[q]
    BY <1>t, <2>l, <2>1, GotoFacts DEF Steps
  <2>4. req[r].at # "mint"
    BY <1>0
  <2>5. ~Held(l)
    BY <2>0, LiveNotHeld
  <2>6. TokensAge
    BY <2>2 DEF TokensAge
  <2>7. SignInTypeOK'
    BY <1>t, <1>u, <2>2, <2>3 DEF SignInTypeOK
  <2>8. Carries(r)'
    BY <2>0, <2>2, <2>3 DEF Carries, Sent
  <2>9. LinkInv'
    BY <2>3, <2>5, <2>6, <2>7, <2>8, InvariantKept
  <2>10. ASSUME NEW k \in Links, k # l PROVE LinkState(k)' = LinkState(k)
    <3>1. (Sent(k)' <=> Sent(k)) /\ (Consumable(k)' <=> Consumable(k)) /\ (Held(k)' <=> Held(k))
      BY <2>2, <2>3, <2>4, <2>10 DEF Sent, Consumable, Held
    <3> QED
      BY <3>1, LinkStates, NextLinkStates
  <2>11. LinkState(l) = "live"
    BY <2>0, LinkStates DEF Consumable
  <2>12. LinkState(l)' = "spent"
    BY <2>0, <2>2, <2>3, NextLinkStates DEF Sent, Consumable, Held
  <2>13. Once!Spend(l)
    BY <1>u, <2>10, <2>11, <2>12 DEF Once!Spend
  <2> QED
    BY <2>0, <2>9, <2>13 DEF Once!OnceNext
<1> QED
  BY <1>1, <1>2

\* The session is opened by the one request that holds the link; a session for
\* a mail's link, or the development login, is nothing to OneTimeLinks.
LEMMA OpenStep ==
    ASSUME LinkInv, NEW r \in Reqs, CreateSessionAndSetCookie(r)
    PROVE  LinkInv' /\ Once!OnceNext
<1>t. SignInTypeOK /\ token \in [Links -> AuthToken] /\ req \in [Reqs -> InFlight]
  BY DEF LinkInv, SignInTypeOK
<1>c. Carries(r)
  BY DEF LinkInv
<1>0. req[r].at = "mint" /\ req[r].who \in People /\ req[r].link \in Links \cup {NoLink}
  BY <1>t DEF CreateSessionAndSetCookie, At, InFlight
<1>1. UNCHANGED <<token, attempts, active>> /\ Finish(r)
  BY DEF CreateSessionAndSetCookie
<1>2. /\ req' \in [Reqs -> InFlight]
      /\ req'[r].at = "idle" /\ req'[r].link = NoLink
      /\ \A q \in Reqs : q # r => req'[q] = req[q]
  BY <1>t, <1>1, FinishFacts
<1>3. SignInTypeOK'
  <2>1. session' \in [People -> {"no cookie", "stored", "expired", "deleted"}]
    BY <1>t, <1>0 DEF CreateSessionAndSetCookie, SignInTypeOK
  <2>2. minted' \in [Links -> Nat]
    <3>1. minted \in [Links -> Nat]
      BY <1>t DEF SignInTypeOK
    <3>2. minted' = [k \in Links |-> IF k = req[r].link /\ token[k].type = "login"
                                       THEN minted[k] + 1 ELSE minted[k]]
      BY DEF CreateSessionAndSetCookie
    <3> QED
      BY <3>1, <3>2
  <2> QED
    BY <1>t, <1>1, <1>2, <2>1, <2>2 DEF SignInTypeOK
<1>4. NoLink \notin Links
  BY SignInAssumption DEF NoLink, Links
<1>5. Carries(r)'
  BY <1>2, <1>4 DEF Carries
<1>6. TokensAge
  BY <1>1 DEF TokensAge
<1>7. LinkInv'
  BY <1>2, <1>3, <1>5, <1>6, InvariantKept
<1>8. CASE req[r].link \in Links /\ token[req[r].link].type = "login"
  <2>1. PICK l \in Links : l = req[r].link
    BY <1>8
  <2>2. Sent(l) /\ token[l].consumed /\ Held(l)
    BY <1>0, <1>8, <1>c, <2>1 DEF Carries, Sent, Held
  <2>3. LinkState(l) = "spent"
    BY <2>2, LinkStates DEF Consumable
  <2>4. ~Held(l)'
    <3>1. ASSUME NEW q \in Reqs, req'[q].at = "mint", req'[q].link = l PROVE FALSE
      <4>1. q # r /\ req[q].at = "mint" /\ req[q].link = req[r].link
        BY <1>2, <2>1, <3>1
      <4> QED
        BY <1>0, <1>8, <4>1 DEF LinkInv, OneHolder
    <3> QED
      BY <3>1 DEF Held
  <2>5. LinkState(l)' = "over"
    BY <1>1, <2>2, <2>4, NextLinkStates DEF Sent, Consumable
  <2>6. ASSUME NEW k \in Links, k # l PROVE LinkState(k)' = LinkState(k)
    <3>1. (Sent(k)' <=> Sent(k)) /\ (Consumable(k)' <=> Consumable(k)) /\ (Held(k)' <=> Held(k))
      BY <1>1, <1>2, <2>1, <2>6 DEF Sent, Consumable, Held
    <3> QED
      BY <3>1, LinkStates, NextLinkStates
  <2>7. minted' = [minted EXCEPT ![l] = @ + 1]
    <3>1. minted \in [Links -> Nat]
      BY <1>t DEF SignInTypeOK
    <3>2. minted' = [k \in Links |-> IF k = req[r].link /\ token[k].type = "login"
                                       THEN minted[k] + 1 ELSE minted[k]]
      BY DEF CreateSessionAndSetCookie
    <3> QED
      BY <1>8, <2>1, <3>1, <3>2
  <2>8. Once!OpenSession(l)
    BY <2>3, <2>5, <2>6, <2>7 DEF Once!OpenSession
  <2> QED
    BY <1>7, <2>8 DEF Once!OnceNext
<1>9. CASE ~(req[r].link \in Links /\ token[req[r].link].type = "login")
  <2>1. minted' = minted
    <3>1. minted \in [Links -> Nat]
      BY <1>t DEF SignInTypeOK
    <3>2. minted' = [k \in Links |-> IF k = req[r].link /\ token[k].type = "login"
                                       THEN minted[k] + 1 ELSE minted[k]]
      BY DEF CreateSessionAndSetCookie
    <3> QED
      BY <1>9, <3>1, <3>2
  <2>2. \A l \in Links : /\ Sent(l)' <=> Sent(l)
                         /\ Consumable(l)' => Consumable(l)
                         /\ Sent(l) /\ Held(l)' => Held(l)
    BY <1>1, <1>2 DEF Sent, Consumable, Held
  <2>3. Once!OnceNext
    BY <2>1, <2>2, Lapses
  <2> QED
    BY <1>7, <2>3
<1> QED
  BY <1>8, <1>9

\* Time passes, and the daily clean-up drops what is consumed or expired.
LEMMA AgeStep ==
    ASSUME LinkInv, (\E l \in Links : ExpireLink(l)) \/ CleanupExpiredTokens
    PROVE  LinkInv' /\ Once!OnceNext
<1>t. SignInTypeOK /\ token \in [Links -> AuthToken]
  BY DEF LinkInv, SignInTypeOK
<1>1. UNCHANGED <<session, attempts, active, req, minted>>
  BY DEF ExpireLink, CleanupExpiredTokens
<1>2. /\ token' \in [Links -> AuthToken]
      /\ \A k \in Links : /\ token'[k].type = token[k].type
                          /\ token'[k].row = "none" <=> token[k].row = "none"
                          /\ token[k].consumed => token'[k].consumed
                          /\ Consumable(k)' => Consumable(k)
  <2>1. ASSUME NEW l \in Links, ExpireLink(l)
        PROVE  /\ token' \in [Links -> AuthToken]
               /\ \A k \in Links : /\ token'[k].type = token[k].type
                                   /\ token'[k].row = token[k].row
                                   /\ token'[k].consumed = token[k].consumed
    <3>1. token[l] \in AuthToken
      BY <1>t
    <3>2. token' = [token EXCEPT ![l] = [token[l] EXCEPT !.expired = TRUE]]
      BY <2>1 DEF ExpireLink
    <3>3. [token[l] EXCEPT !.expired = TRUE] \in AuthToken
      BY <3>1 DEF AuthToken
    <3>4. token'[l] = [token[l] EXCEPT !.expired = TRUE]
      BY <3>2, <1>t
    <3>5. /\ token'[l].type = token[l].type /\ token'[l].row = token[l].row
          /\ token'[l].consumed = token[l].consumed
      BY <3>1, <3>4 DEF AuthToken
    <3> QED
      BY <1>t, <3>2, <3>3, <3>5
  <2>2. CASE CleanupExpiredTokens
    <3> DEFINE gone(k) == [token[k] EXCEPT !.row = "deleted", !.consumed = TRUE]
    <3>1. token' = [k \in Links |-> IF Lapsed(token[k]) THEN gone(k) ELSE token[k]]
      BY <2>2 DEF CleanupExpiredTokens
    <3>2. ASSUME NEW k \in Links
          PROVE  /\ gone(k) \in AuthToken
                 /\ gone(k).row = "deleted" /\ gone(k).type = token[k].type /\ gone(k).consumed
      <4>1. token[k] \in AuthToken
        BY <1>t
      <4>2. [token[k] EXCEPT !.row = "deleted"] \in AuthToken
        BY <4>1 DEF AuthToken
      <4> QED
        BY <4>1, <4>2 DEF AuthToken
    <3>3. \A k \in Links : Lapsed(token[k]) => token[k].row = "stored"
      BY DEF Lapsed
    <3> HIDE DEF gone
    <3>4. token' \in [Links -> AuthToken]
      BY <1>t, <3>1, <3>2
    <3>5. \A k \in Links : token'[k] = token[k] \/ (token'[k] = gone(k) /\ Lapsed(token[k]))
      BY <3>1
    <3>6. \A k \in Links : /\ token'[k].type = token[k].type
                           /\ token'[k].row = "none" <=> token[k].row = "none"
                           /\ token[k].consumed => token'[k].consumed
      BY <3>2, <3>3, <3>5
    <3>7. \A k \in Links : Consumable(k)' => Consumable(k)
      BY <3>2, <3>5 DEF Consumable
    <3> QED
      BY <3>4, <3>6, <3>7
  <2> QED
    BY <2>1, <2>2 DEF Consumable
<1>3. TokensAge
  BY <1>2 DEF TokensAge
<1>4. SignInTypeOK'
  BY <1>t, <1>1, <1>2 DEF SignInTypeOK
<1>5. LinkInv'
  BY <1>1, <1>3, <1>4, InvariantKept
<1>6. \A l \in Links : /\ Sent(l)' <=> Sent(l)
                       /\ Consumable(l)' => Consumable(l)
                       /\ Sent(l) /\ Held(l)' => Held(l)
  BY <1>1, <1>2 DEF Sent, Held
<1>7. Once!OnceNext
  BY <1>1, <1>6, Lapses
<1> QED
  BY <1>5, <1>7

-----------------------------------------------------------------------------
\* Every step keeps the invariant and is a step of the abstract one-time link.
LEMMA SignInStep == LinkInv /\ [SignInNext]_signInVars => LinkInv' /\ Once!OnceNext
  BY StartSteps, EndSteps, OtherSteps, MintStep, CreateStep, RenewStep, ConsumeStep,
     OpenStep, AgeStep DEF SignInNext, RequestStep

\* So does the start.
LEMMA SignInStart == SignInInit => LinkInv /\ Once!OnceInit
<1> SUFFICES ASSUME SignInInit PROVE LinkInv /\ Once!OnceInit
  OBVIOUS
<1>1. \A l \in Links : token[l].row = "none"
  BY DEF SignInInit
<1>2. \A r \in Reqs : req[r].at = "idle" /\ req[r].link = NoLink
  BY IdleTyped DEF SignInInit
<1>3. SignInTypeOK
  <2>1. Idle.who \in People
    BY SignInAssumption DEF Idle
  <2>2. token \in [Links -> AuthToken]
    BY <2>1 DEF SignInInit, AuthToken
  <2>3. req \in [Reqs -> InFlight]
    BY IdleTyped DEF SignInInit
  <2> QED
    BY <2>2, <2>3 DEF SignInInit, SignInTypeOK
<1>4. NoLink \notin Links
  BY SignInAssumption DEF NoLink, Links
<1>5. LinkInv
  BY <1>2, <1>3, <1>4 DEF LinkInv, Carries, OneHolder
<1>6. \A l \in Links : LinkState(l) = "unsent"
  BY <1>1, LinkStates DEF Sent
<1>7. Once!OnceInit
  BY <1>6 DEF Once!OnceInit, SignInInit
<1> QED
  BY <1>5, <1>7

\* Tokens, sessions, attempts and requests keep their types, every request
\* knows a true thing about its link, and a login link has at most one holder.
THEOREM SignInInvariant == SignInSpec => []LinkInv
<1> QED
  BY SignInStart, SignInStep, PTL DEF SignInSpec

\* The sign-in handlers implement one-time links: whatever requests race for a
\* link, and however it expires or is cleaned up under them, it opens at most
\* the one session of the request whose update found it unconsumed.
THEOREM LinksAreUsedOnce == SignInSpec => LinksUsedOnce
<1>1. LinkInv /\ [SignInNext]_signInVars => [Once!OnceNext]_(Once!onceVars)
  BY SignInStep
<1> QED
  BY <1>1, SignInStart, SignInInvariant, PTL DEF SignInSpec, LinksUsedOnce, Once!OnceSpec

-----------------------------------------------------------------------------
\* A mail's link: until its row is deleted it is unconsumed, and it is deleted
\* only after it has expired.
MailLinkKept(l) ==
    token[l].row # "none" /\ token[l].type = "email_cta" /\ ~token[l].expired
      => token[l].row = "stored" /\ ~token[l].consumed

MailInv == LinkInv /\ \A l \in Links : MailLinkKept(l)

\* Only login links are ever consumed, and the clean-up takes the consumed and
\* the expired ones.
LEMMA MailLinkStep ==
    ASSUME MailInv, [SignInNext]_signInVars, NEW l \in Links
    PROVE  MailLinkKept(l)'
<1>t. token \in [Links -> AuthToken] /\ req \in [Reqs -> InFlight]
  BY DEF MailInv, LinkInv, SignInTypeOK
<1>k. MailLinkKept(l)
  BY DEF MailInv
<1>1. ASSUME NEW k \in Links, NEW p \in People, NEW type \in {"login", "email_cta"},
             CreateAuthToken(k, p, type)
      PROVE  MailLinkKept(l)'
  BY <1>t, <1>k, <1>1, CreateFacts DEF MailLinkKept
<1>2. ASSUME NEW r \in Reqs, req[r].at \in {"renew", "consume"}, MarkConsumed(req[r].link)
      PROVE  MailLinkKept(l)'
  <2>1. req[r].link \in Links /\ token[req[r].link].type = "login"
    BY <1>2 DEF MailInv, LinkInv, Carries
  <2>2. /\ token'[l].type = token[l].type
        /\ l # req[r].link => token'[l] = token[l]
    BY <1>t, <1>2, <2>1, MarkConsumedFacts
  <2> QED
    BY <1>k, <2>1, <2>2 DEF MailLinkKept
<1>3. ASSUME NEW k \in Links, ExpireLink(k) PROVE MailLinkKept(l)'
  <2>1. token[k] \in AuthToken
    BY <1>t
  <2>2. token' = [token EXCEPT ![k] = [token[k] EXCEPT !.expired = TRUE]]
    BY <1>3 DEF ExpireLink
  <2>3. k = l => token'[l].expired
    <3>1. k = l => token'[l] = [token[l] EXCEPT !.expired = TRUE]
      BY <1>t, <2>2
    <3> QED
      BY <2>1, <3>1 DEF AuthToken
  <2>4. k # l => token'[l] = token[l]
    BY <1>t, <2>2
  <2> QED
    BY <1>k, <2>3, <2>4 DEF MailLinkKept
<1>4. CASE CleanupExpiredTokens
  <2>1. ~Lapsed(token[l]) => token'[l] = token[l]
    BY <1>4, <1>t DEF CleanupExpiredTokens
  <2>2. Lapsed(token[l]) => token'[l] = [token[l] EXCEPT !.row = "deleted", !.consumed = TRUE]
    BY <1>4, <1>t DEF CleanupExpiredTokens
  <2>3. token[l] \in AuthToken
    BY <1>t
  <2>4. Lapsed(token[l]) => /\ token'[l].type = token[l].type
                            /\ token'[l].expired = token[l].expired
    BY <2>2, <2>3 DEF AuthToken
  <2>5. Lapsed(token[l]) => token[l].type # "email_cta" \/ token[l].expired
    BY <1>k DEF MailLinkKept, Lapsed
  <2> QED
    BY <1>k, <2>1, <2>4, <2>5 DEF MailLinkKept
<1>5. CASE UNCHANGED token
  BY <1>5, <1>k DEF MailLinkKept
<1>6. ASSUME NEW r \in Reqs, CreateLoginLink(r) PROVE MailLinkKept(l)'
  <2>1. req[r].who \in People
    BY <1>t DEF InFlight
  <2> QED
    BY <1>1, <1>6, <2>1 DEF CreateLoginLink
<1>7. ASSUME NEW p \in People, MintEmailCTAToken(p) PROVE MailLinkKept(l)'
  BY <1>1, <1>7 DEF MintEmailCTAToken
<1>8. ASSUME NEW r \in Reqs, RenewExpired(r) PROVE MailLinkKept(l)'
  BY <1>2, <1>5, <1>8 DEF RenewExpired, At
<1>9. ASSUME NEW r \in Reqs, ConsumeAuthToken(r) PROVE MailLinkKept(l)'
  BY <1>2, <1>5, <1>9 DEF ConsumeAuthToken, At
<1>10. ASSUME NEW r \in Reqs, RequestStep(r) PROVE MailLinkKept(l)'
  BY <1>5, <1>6, <1>8, <1>9, <1>10
     DEF RequestStep, RequestMagicLink, DevLogin, VerifyToken, HandleAuthParam, Begin,
         RecordLoginAttempt, CreateSessionAndSetCookie, RequestDies
<1>11. CASE UNCHANGED signInVars
  BY <1>5, <1>11 DEF signInVars
<1> QED
  BY <1>3, <1>4, <1>5, <1>7, <1>10, <1>11
     DEF SignInNext, Logout, DropStaleCookie, AttemptAges, ReactivateUser, ExpireSession,
         CleanupExpiredSessions

\* A link inside a mail works until it expires, whatever is opened, consumed
\* or cleaned up around it.
THEOREM MailLinksKeepWorking == SignInSpec => []MailLinksOutliveClicks
<1>1. SignInInit => MailInv
  <2> SUFFICES ASSUME SignInInit PROVE MailInv
    OBVIOUS
  <2>1. \A l \in Links : token[l].row = "none"
    BY DEF SignInInit
  <2> QED
    BY <2>1, SignInStart DEF MailInv, MailLinkKept
<1>2. MailInv /\ [SignInNext]_signInVars => MailInv'
  BY MailLinkStep, SignInStep DEF MailInv
<1>3. MailInv => MailLinksOutliveClicks
  BY DEF MailInv, MailLinkKept, MailLinksOutliveClicks
<1> QED
  BY <1>1, <1>2, <1>3, PTL DEF SignInSpec

-----------------------------------------------------------------------------
\* The requests that have passed the limit for p and not yet recorded it.
Recorders(p) == {r \in Reqs : req[r].at = "record" /\ req[r].who = p}

WithinLimit(p) == attempts[p] + Cardinality(Recorders(p)) < MaxAttempts + Cardinality(Reqs)

LimitInv == LinkInv /\ \A p \in People : WithinLimit(p)

\* The requests that are about to record an attempt can be counted.
LEMMA RecordersFinite ==
    ASSUME NEW S \in SUBSET Reqs
    PROVE  /\ IsFiniteSet(S) /\ Cardinality(S) \in Nat
           /\ Cardinality(S) <= Cardinality(Reqs) /\ Cardinality(Reqs) \in Nat
  BY SignInAssumption, FS_Subset, FS_CardinalityType

\* No new attempt and no new request that is about to record one.
LEMMA LimitKept ==
    ASSUME NEW p \in People, WithinLimit(p), attempts[p] \in Nat, attempts'[p] \in Nat,
           attempts'[p] <= attempts[p], Recorders(p)' \subseteq Recorders(p)
    PROVE  WithinLimit(p)'
<1>1. Recorders(p) \in SUBSET Reqs /\ Recorders(p)' \in SUBSET Reqs
  BY DEF Recorders
<1>2. /\ IsFiniteSet(Recorders(p)) /\ Cardinality(Recorders(p)) \in Nat
      /\ Cardinality(Recorders(p)') \in Nat /\ Cardinality(Reqs) \in Nat
  BY <1>1, RecordersFinite
<1>3. Cardinality(Recorders(p)') <= Cardinality(Recorders(p))
  BY <1>2, FS_Subset
<1> QED
  BY <1>2, <1>3, SignInAssumption DEF WithinLimit

\* Every step keeps the attempts within the limit and the requests in flight.
LEMMA LimitStep ==
    ASSUME LimitInv, SignInNext, NEW p \in People, SignInTypeOK'
    PROVE  WithinLimit(p)'
<1>t. /\ req \in [Reqs -> InFlight] /\ req' \in [Reqs -> InFlight]
      /\ attempts \in [People -> Nat] /\ attempts' \in [People -> Nat]
      /\ attempts[p] \in Nat /\ attempts'[p] \in Nat
  BY DEF LimitInv, LinkInv, SignInTypeOK
<1>w. WithinLimit(p)
  BY DEF LimitInv
<1>1. ASSUME NEW r \in Reqs, NEW q \in People, RequestMagicLink(r, q) PROVE WithinLimit(p)'
  <2>1. attempts' = attempts
    BY <1>1 DEF RequestMagicLink
  <2>2. req' = [req EXCEPT ![r] = [at |-> "record", who |-> q, link |-> NoLink]]
    BY <1>1 DEF RequestMagicLink
  <2>3. CASE p = q
    <3>1. attempts[p] < MaxAttempts
      BY <1>1, <2>3 DEF RequestMagicLink
    <3>2. Recorders(p)' \in SUBSET Reqs
      BY DEF Recorders
    <3>3. /\ Cardinality(Recorders(p)') \in Nat /\ Cardinality(Reqs) \in Nat
          /\ Cardinality(Recorders(p)') <= Cardinality(Reqs)
      BY <3>2, RecordersFinite
    <3> QED
      BY <1>t, <2>1, <3>1, <3>3, SignInAssumption DEF WithinLimit
  <2>4. CASE p # q
    <3>1. Recorders(p)' \subseteq Recorders(p)
      BY <1>t, <2>2, <2>4 DEF Recorders
    <3> QED
      BY <1>t, <1>w, <2>1, <3>1, LimitKept
  <2> QED
    BY <2>3, <2>4
<1>2. ASSUME NEW r \in Reqs, RecordLoginAttempt(r) PROVE WithinLimit(p)'
  <2>0. req[r].at = "record" /\ req[r].who \in People
    BY <1>2, <1>t DEF RecordLoginAttempt, At, InFlight
  <2>1. attempts' = [attempts EXCEPT ![req[r].who] = @ + 1]
    BY <1>2 DEF RecordLoginAttempt
  <2>2. req'[r].at # "record" /\ \A q \in Reqs : q # r => req'[q] = req[q]
    <3>1. CASE Goto(r, "create")
      BY <1>t, <3>1, GotoFacts DEF Steps
    <3>2. CASE Finish(r)
      BY <1>t, <3>2, FinishFacts
    <3> QED
      BY <1>2, <3>1, <3>2 DEF RecordLoginAttempt
  <2>3. Recorders(p)' \subseteq Recorders(p) \ {r}
    BY <2>2 DEF Recorders
  <2>4. CASE p = req[r].who
    <3>1. Recorders(p) \in SUBSET Reqs /\ Recorders(p)' \in SUBSET Reqs /\ r \in Recorders(p)
      BY <2>0, <2>4 DEF Recorders
    <3>2. /\ IsFiniteSet(Recorders(p)) /\ Cardinality(Recorders(p)) \in Nat
          /\ Cardinality(Recorders(p)') \in Nat /\ Cardinality(Reqs) \in Nat
      BY <3>1, RecordersFinite
    <3>3. /\ IsFiniteSet(Recorders(p) \ {r})
          /\ Cardinality(Recorders(p) \ {r}) = Cardinality(Recorders(p)) - 1
      BY <3>1, <3>2, FS_RemoveElement
    <3>4. Cardinality(Recorders(p)') <= Cardinality(Recorders(p) \ {r})
      BY <2>3, <3>3, FS_Subset
    <3>5. attempts'[p] = attempts[p] + 1
      BY <1>t, <2>1, <2>4
    <3> QED
      BY <1>t, <1>w, <3>2, <3>3, <3>4, <3>5, SignInAssumption DEF WithinLimit
  <2>5. CASE p # req[r].who
    <3>1. attempts'[p] = attempts[p]
      BY <1>t, <2>1, <2>5
    <3> QED
      BY <1>t, <1>w, <2>3, <3>1, LimitKept
  <2> QED
    BY <2>4, <2>5
<1>3. ASSUME NEW r \in Reqs, req'[r].at # "record", attempts' = attempts,
             \A q \in Reqs : q # r => req'[q] = req[q]
      PROVE  WithinLimit(p)'
  <2>1. Recorders(p)' \subseteq Recorders(p)
    BY <1>3 DEF Recorders
  <2> QED
    BY <1>t, <1>w, <1>3, <2>1, LimitKept
<1>4. ASSUME NEW r \in Reqs, NEW q \in People, DevLogin(r, q) PROVE WithinLimit(p)'
  <2>1. req'[r].at # "record" /\ \A x \in Reqs : x # r => req'[x] = req[x]
    BY <1>t, <1>4 DEF DevLogin
  <2> QED
    BY <1>3, <1>4, <2>1 DEF DevLogin
<1>5. ASSUME NEW r \in Reqs, NEW l \in Links, VerifyToken(r, l) \/ HandleAuthParam(r, l)
      PROVE  WithinLimit(p)'
  <2>1. PICK at \in {"renew", "consume", "mint"} : Begin(r, l, at)
    BY <1>5 DEF VerifyToken, HandleAuthParam
  <2>2. req'[r].at # "record" /\ \A x \in Reqs : x # r => req'[x] = req[x]
    BY <1>t, <2>1 DEF Begin
  <2> QED
    BY <1>3, <2>1, <2>2 DEF Begin
<1>6. ASSUME NEW r \in Reqs,
             \/ CreateLoginLink(r) \/ RenewExpired(r) \/ ConsumeAuthToken(r)
             \/ CreateSessionAndSetCookie(r) \/ RequestDies(r)
      PROVE  WithinLimit(p)'
  <2>1. \/ Finish(r) \/ Goto(r, "reissue") \/ Goto(r, "mint")
    BY <1>6 DEF CreateLoginLink, RenewExpired, ConsumeAuthToken, CreateSessionAndSetCookie,
                RequestDies
  <2>2. req'[r].at # "record" /\ \A x \in Reqs : x # r => req'[x] = req[x]
    <3>1. CASE Goto(r, "reissue")
      BY <1>t, <3>1, GotoFacts DEF Steps
    <3>2. CASE Goto(r, "mint")
      BY <1>t, <3>2, GotoFacts DEF Steps
    <3>3. CASE Finish(r)
      BY <1>t, <3>3, FinishFacts
    <3> QED
      BY <2>1, <3>1, <3>2, <3>3
  <2>3. attempts' = attempts
    BY <1>6 DEF CreateLoginLink, RenewExpired, ConsumeAuthToken, CreateSessionAndSetCookie,
                RequestDies
  <2> QED
    BY <1>3, <2>2, <2>3
<1>7. ASSUME req' = req, attempts' = attempts PROVE WithinLimit(p)'
  BY <1>t, <1>w, <1>7, LimitKept DEF Recorders
<1>8. ASSUME NEW q \in People, AttemptAges(q) PROVE WithinLimit(p)'
  <2>1. attempts' = [attempts EXCEPT ![q] = @ - 1] /\ req' = req
    BY <1>8 DEF AttemptAges
  <2>2. attempts'[p] <= attempts[p]
    BY <1>t, <2>1
  <2> QED
    BY <1>t, <1>w, <2>1, <2>2, LimitKept DEF Recorders
<1>9. ASSUME NEW r \in Reqs, RequestStep(r) PROVE WithinLimit(p)'
  BY <1>1, <1>2, <1>4, <1>5, <1>6, <1>9 DEF RequestStep
<1> QED
  BY <1>7, <1>8, <1>9
     DEF SignInNext, MintEmailCTAToken, Logout, DropStaleCookie, ReactivateUser, ExpireSession,
         ExpireLink, CleanupExpiredTokens, CleanupExpiredSessions

\* The hourly limit on magic links is exceeded by less than the number of
\* requests that can be between the count and the record.
THEOREM AttemptsStayBounded == SignInSpec => []AttemptsBounded
<1>1. SignInInit => LimitInv
  <2> SUFFICES ASSUME SignInInit, NEW p \in People PROVE WithinLimit(p)
    BY SignInStart DEF LimitInv
  <2>1. \A r \in Reqs : req[r].at = "idle"
    BY IdleTyped DEF SignInInit
  <2>2. Recorders(p) = {}
    BY <2>1 DEF Recorders
  <2>3. attempts[p] = 0
    BY DEF SignInInit
  <2>4. Cardinality(Reqs) \in Nat
    BY RecordersFinite
  <2> QED
    BY <2>2, <2>3, <2>4, FS_EmptySet, SignInAssumption DEF WithinLimit
<1>2. LimitInv /\ [SignInNext]_signInVars => LimitInv'
  <2> SUFFICES ASSUME LimitInv, [SignInNext]_signInVars PROVE LimitInv'
    OBVIOUS
  <2>1. LinkInv' /\ SignInTypeOK'
    BY SignInStep DEF LimitInv, LinkInv
  <2>2. CASE SignInNext
    BY <2>1, <2>2, LimitStep DEF LimitInv
  <2>3. CASE UNCHANGED signInVars
    BY <2>1, <2>3 DEF LimitInv, WithinLimit, Recorders, signInVars
  <2> QED
    BY <2>2, <2>3
<1>3. LimitInv => AttemptsBounded
  <2> SUFFICES ASSUME LimitInv, NEW p \in People
               PROVE  attempts[p] < MaxAttempts + Cardinality(Reqs)
    BY DEF AttemptsBounded
  <2>1. attempts[p] \in Nat /\ WithinLimit(p)
    BY DEF LimitInv, LinkInv, SignInTypeOK
  <2>2. Recorders(p) \in SUBSET Reqs
    BY DEF Recorders
  <2>3. Cardinality(Recorders(p)) \in Nat /\ Cardinality(Reqs) \in Nat
    BY <2>2, RecordersFinite
  <2> QED
    BY <2>1, <2>3, SignInAssumption DEF WithinLimit
<1> QED
  BY <1>1, <1>2, <1>3, PTL DEF SignInSpec
=============================================================================
