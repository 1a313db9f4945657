-------------------------------- MODULE Jmap --------------------------------
(***************************************************************************)
(* The JMAP transport.  Sends share one cached session (API URL, account,  *)
(* identity and mailboxes), filled in two steps under a mutex by the first *)
(* send that finds it not ready, but read without the mutex, field after   *)
(* field, while a request is put together.  The provider may move (a new   *)
(* generation of URL, account and mailboxes), refuse a message or a token, *)
(* and lose a request or its answer.                                       *)
(***************************************************************************)
EXTENDS Naturals, Sequences

CONSTANTS Sends,        \* concurrent calls of send, one message each
          MaxMoves      \* bound: moves of the provider

ASSUME JmapAssumption == MaxMoves \in Nat

Epoch == 0..MaxMoves

\* What sendOnce and then api read of the cache, in this order: account and
\* mailboxes for Email/set, again for EmailSubmission/set, and the URL.
Reads == <<"account", "boxes", "account", "boxes", "url">>

VARIABLES provider,   \* the provider's generation
          cache,      \* the generation its fields are from; ready
          mutex,      \* the send inside ensureSession, if any
          sending,    \* per call: where it is, its first or second try, the answer
          request,    \* per call: what its current request has read so far
          delivered,  \* history: deliveries per message
          troubled    \* history: calls that met a refusal, or a lost request or answer

jmapVars == <<provider, cache, mutex, sending, request, delivered, troubled>>

\* ok: every method succeeded; gone: 401, 403, 404, 410 or accountNotFound;
\* refused: a SetError; lost: no answer, a 5xx, or one that cannot be decoded.
Reply == {"ok", "gone", "refused", "lost"}

Step == {"session", "fetch", "bootstrap", "read", "answer", "invalidate", "sent", "failed"}
Call == [at : Step, try : 1..2, outcome : Reply]
Session == [url : Epoch, account : Epoch, boxes : Epoch, ready : BOOLEAN]

JmapTypeOK ==
    /\ provider \in Epoch
    /\ cache \in Session
    /\ mutex \subseteq Sends
    /\ sending \in [Sends -> Call]
    /\ request \in [Sends -> Seq(Epoch)]
    /\ delivered \in [Sends -> Nat]
    /\ troubled \subseteq Sends

JmapInit ==
    /\ provider = 0
    /\ cache = [url |-> 0, account |-> 0, boxes |-> 0, ready |-> FALSE]
    /\ mutex = {}
    /\ sending = [s \in Sends |-> [at |-> "session", try |-> 1, outcome |-> "ok"]]
    /\ request = [s \in Sends |-> <<>>]
    /\ delivered = [s \in Sends |-> 0]
    /\ troubled = {}

Proceed(s, at) == sending' = [sending EXCEPT ![s].at = at]
Answer(s, o) == sending' = [sending EXCEPT ![s].at = "answer", ![s].outcome = o]
Hitch(s, o) == o \in {"lost", "gone"} /\ Answer(s, o) /\ troubled' = troubled \cup {s}

-----------------------------------------------------------------------------
\* ensureSession: nothing to do, or, holding the mutex, the session resource
\* and then the identity and the mailboxes.
EnsureSession(s) ==
    /\ sending[s].at = "session" /\ mutex = {}
    /\ IF cache.ready THEN Proceed(s, "read") /\ UNCHANGED mutex
       ELSE Proceed(s, "fetch") /\ mutex' = {s}
    /\ UNCHANGED <<provider, cache, request, delivered, troubled>>

FetchSession(s) ==
    /\ sending[s].at = "fetch"
    /\ \/ /\ cache' = [cache EXCEPT !.url = provider, !.account = provider]
          /\ Proceed(s, "bootstrap") /\ UNCHANGED <<mutex, troubled>>
       \/ \E o \in Reply : Hitch(s, o) /\ mutex' = {} /\ UNCHANGED cache
    /\ UNCHANGED <<provider, request, delivered>>

Bootstrap(s) ==
    /\ sending[s].at = "bootstrap"
    /\ mutex' = {}
    /\ \/ /\ cache.url = provider
          /\ cache' = [cache EXCEPT !.boxes = provider, !.ready = TRUE]
          /\ Proceed(s, "read") /\ UNCHANGED troubled
       \/ cache.url # provider /\ Answer(s, "gone") /\ UNCHANGED <<cache, troubled>>
       \/ \E o \in Reply : Hitch(s, o) /\ UNCHANGED cache
    /\ UNCHANGED <<provider, request, delivered>>

-----------------------------------------------------------------------------
\* The request is put together outside the mutex.
ReadCache(s) ==
    /\ sending[s].at = "read" /\ Len(request[s]) < Len(Reads)
    /\ request' = [request EXCEPT ![s] = Append(@, cache[Reads[Len(@) + 1]])]
    /\ UNCHANGED <<provider, cache, mutex, sending, delivered, troubled>>

\* The provider: an old URL or account is gone, an identifier of another
\* generation is refused like a bad recipient, with a SetError.
Verdict(r) == IF r[5] # provider \/ r[1] # provider THEN "gone"
              ELSE IF r # [i \in 1..5 |-> provider] THEN "refused" ELSE "ok"

PostRequest(s) ==
    /\ sending[s].at = "read" /\ Len(request[s]) = Len(Reads)
    /\ \/ /\ Answer(s, Verdict(request[s]))
          /\ delivered' = [delivered EXCEPT ![s] = @ + IF Verdict(request[s]) = "ok" THEN 1 ELSE 0]
          /\ UNCHANGED troubled
       \/ Hitch(s, "gone") /\ UNCHANGED delivered
       \/ /\ Hitch(s, "lost")
          /\ \/ UNCHANGED delivered
             \/ Verdict(request[s]) = "ok" /\ delivered' = [delivered EXCEPT ![s] = @ + 1]
       \/ /\ Verdict(request[s]) = "ok" /\ Answer(s, "refused")
          /\ troubled' = troubled \cup {s} /\ UNCHANGED delivered
    /\ UNCHANGED <<provider, cache, mutex, request>>

\* BUG: any failed attempt is tried again.
AnyFailure(o) == o # "ok"

SessionStale(o) == o = "gone"

\* send: the first attempt's error decides on a second one.
SendReturns(s) ==
    /\ sending[s].at = "answer"
    /\ Proceed(s, IF sending[s].outcome = "ok" THEN "sent"
                  ELSE IF sending[s].try = 1 /\ SessionStale(sending[s].outcome)
                         THEN "invalidate" ELSE "failed")
    /\ UNCHANGED <<provider, cache, mutex, request, delivered, troubled>>

\* BUG: the second attempt trusts the session that failed.
KeepSession == cache

DropSession == [cache EXCEPT !.ready = FALSE]

Invalidate(s) ==
    /\ sending[s].at = "invalidate" /\ mutex = {}
    /\ cache' = DropSession
    /\ sending' = [sending EXCEPT ![s].at = "session", ![s].try = 2]
    /\ request' = [request EXCEPT ![s] = <<>>]
    /\ UNCHANGED <<provider, mutex, delivered, troubled>>

ProviderMoves ==
    /\ provider < MaxMoves
    /\ provider' = provider + 1
    /\ UNCHANGED <<cache, mutex, sending, request, delivered, troubled>>

JmapNext ==
    \/ ProviderMoves
    \/ \E s \in Sends : \/ EnsureSession(s) \/ FetchSession(s) \/ Bootstrap(s) \/ ReadCache(s)
                        \/ PostRequest(s) \/ SendReturns(s) \/ Invalidate(s)

JmapSpec == JmapInit /\ [][JmapNext]_jmapVars

-----------------------------------------------------------------------------
\* A message is never delivered twice by one send, however its first attempt
\* failed, and is delivered when send returns no error.
DeliveredOnce ==
    \A s \in Sends : delivered[s] <= 1 /\ (sending[s].at = "sent" => delivered[s] = 1)

Mixed(r) == \E i, j \in DOMAIN r : r[i] # r[j]

\* A send survives a move of the provider: when nothing refused or lost its
\* calls it fails only if the one move happened to catch its request half read,
\* part from the old session and part from the one another send just cached.
OnlyMixedSendsFail ==
    \A s \in Sends :
      sending[s].at = "failed" /\ s \notin troubled /\ MaxMoves = 1 => Mixed(request[s])
=============================================================================
