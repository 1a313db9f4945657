---------------------------- MODULE OneTimeLinks ----------------------------
(***************************************************************************)
(* What a mailed login link promises, without saying how: a link is issued *)
(* once, can be spent once, and the one request that spent it may open one *)
(* session with it.  A link can also lapse unused, and a request that      *)
(* spent a link can die before it opens the session.                       *)
(***************************************************************************)
EXTENDS Naturals

CONSTANT Links

VARIABLES link,     \* what has become of each link
          opened    \* how many sessions each link has opened

onceVars == <<link, opened>>

OnceInit ==
    /\ link = [l \in Links |-> "unsent"]
    /\ opened = [l \in Links |-> 0]

Issue(l) ==
    /\ link[l] = "unsent"
    /\ link' = [link EXCEPT ![l] = "live"]
    /\ UNCHANGED opened

Spend(l) ==
    /\ link[l] = "live"
    /\ link' = [link EXCEPT ![l] = "spent"]
    /\ UNCHANGED opened

OpenSession(l) ==
    /\ link[l] = "spent"
    /\ link' = [link EXCEPT ![l] = "over"]
    /\ opened' = [opened EXCEPT ![l] = @ + 1]

\* Any number of links may lapse in one step: the daily clean-up drops them
\* together.
Lapse ==
    /\ link' \in [Links -> {"unsent", "live", "spent", "over"}]
    /\ \A l \in Links : link'[l] # link[l] => link[l] \in {"live", "spent"} /\ link'[l] = "over"
    /\ UNCHANGED opened

OnceNext == Lapse \/ \E l \in Links : Issue(l) \/ Spend(l) \/ OpenSession(l)

OnceSpec == OnceInit /\ [][OnceNext]_onceVars
=============================================================================
