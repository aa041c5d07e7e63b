----------------------------- MODULE TokenSource ------------------------------
(***************************************************************************)
(* One scope's access token, cached for every worker of a process          *)
(* (internal/msauth/msauth.go), and the sends that use it                  *)
(* (internal/mailer/graph.go, channel.go).                                 *)
(*                                                                         *)
(* The token, its expiry and retryAt are behind a mutex that is held for   *)
(* one look or one write only; the fetch is behind a channel of one. So    *)
(* between a caller's looks the token can be fetched, grow old and be      *)
(* dropped by a worker whose send was refused. A token is its number in    *)
(* the order they were issued; times are what is left of them, in ticks.   *)
(***************************************************************************)
EXTENDS Integers

CONSTANTS
  Senders,        \* the workers
  Lifetimes,      \* what expires_in may say
  RefreshBefore,  \* refreshBefore
  MinLeft,        \* minLeft
  Backoff,        \* refreshBackoff
  MaxTokens,      \* bound: tokens the endpoint issues
  Nobody          \* no caller fetches

ASSUME TokenAssumption ==
  /\ Lifetimes \subseteq Nat \ {0}
  /\ {RefreshBefore, MinLeft, Backoff, MaxTokens} \subseteq Nat
  /\ MinLeft < RefreshBefore                \* 30 s, 5 min
  /\ Nobody \notin Senders

NoToken == 0
Tokens == 1..MaxTokens

VARIABLES
  scope,    \* whose token it is: Graph's, or Exchange Online's
  cache,    \* token, and how long until it expires
  retry,    \* how long until retryAt
  fetching, \* who holds the channel
  asking,   \* by caller: where its Token call or its send is
  issued,   \* how many tokens the endpoint has issued
  refused,  \* the tokens the service has stopped taking
  dropped   \* history: the tokens Invalidate has been called for

tokenVars == <<scope, cache, retry, fetching, asking, issued, refused, dropped>>
world == <<issued, refused>>

Empty == [token |-> NoToken, left |-> 0]
AtRest == [at |-> "idle", token |-> NoToken, known |-> {}]

TokenTypeOK ==
  /\ scope \in {"graph", "exchange"}
  /\ cache \in [token: 0..issued, left: Nat]
  /\ retry \in 0..Backoff
  /\ fetching \in Senders \union {Nobody}
  /\ asking \in [Senders -> [at: {"idle", "asked", "waiting", "holding", "requesting", "failed", "has", "refused"},
                           token: 0..issued, known: SUBSET Tokens]]
  /\ \A c \in Senders : asking[c].at \in {"holding", "requesting", "failed"} <=> fetching = c
  /\ issued \in 0..MaxTokens
  /\ refused \subseteq 1..issued /\ dropped \subseteq 1..issued

TokenInit ==
  /\ scope \in {"graph", "exchange"}
  /\ cache = Empty /\ retry = 0 /\ fetching = Nobody
  /\ asking = [c \in Senders |-> AtRest]
  /\ issued = 0 /\ refused = {} /\ dropped = {}

Moves(c, at) == asking' = [asking EXCEPT ![c].at = at]
Gets(c, token) == asking' = [asking EXCEPT ![c].at = "has", ![c].token = token]
Ends(c) == asking' = [asking EXCEPT ![c] = AtRest]
Releases(c) == fetching' = Nobody

\* cached
Cached(left) == cache.token # NoToken /\ cache.left > left
\* fresh
Serves == Cached(RefreshBefore) \/ (retry > 0 /\ Cached(MinLeft))

-----------------------------------------------------------------------------
(* Token. *)

Ask(c) ==
  /\ asking[c].at = "idle"
  /\ asking' = [asking EXCEPT ![c] = [at |-> IF Serves THEN "has" ELSE "asked",
                                  token |-> IF Serves THEN cache.token ELSE NoToken,
                                  known |-> dropped]]
  /\ UNCHANGED <<scope, cache, retry, fetching, world, dropped>>

\* The channel is taken, or a token still good does not wait for the fetch.
TryFetching(c) ==
  /\ asking[c].at = "asked"
  /\ \/ fetching = Nobody /\ fetching' = c /\ Moves(c, "holding")
     \/ /\ fetching # Nobody /\ UNCHANGED fetching
        /\ IF Cached(MinLeft) THEN Gets(c, cache.token) ELSE Moves(c, "waiting")
  /\ UNCHANGED <<scope, cache, retry, world, dropped>>

Acquire(c) ==
  /\ asking[c].at = "waiting" /\ fetching = Nobody
  /\ fetching' = c /\ Moves(c, "holding")
  /\ UNCHANGED <<scope, cache, retry, world, dropped>>

\* The caller's context ends while it waits.
StopWaiting(c) ==
  /\ asking[c].at = "waiting"
  /\ Ends(c)
  /\ UNCHANGED <<scope, cache, retry, fetching, world, dropped>>

\* Another caller may have fetched it while this one waited.
LookAgain(c) ==
  /\ asking[c].at = "holding"
  /\ \/ Serves /\ Gets(c, cache.token) /\ Releases(c)
     \/ ~Serves /\ Moves(c, "requesting") /\ UNCHANGED fetching
  /\ UNCHANGED <<scope, cache, retry, world, dropped>>

\* fetch: the endpoint gives a new token, and it is cached.
Fetched(c) ==
  /\ asking[c].at = "requesting" /\ issued < MaxTokens
  /\ issued' = issued + 1
  /\ \E left \in Lifetimes : cache' = [token |-> issued + 1, left |-> left]
  /\ retry' = 0
  /\ Gets(c, issued + 1) /\ Releases(c)
  /\ UNCHANGED <<scope, refused, dropped>>

\* The fetch fails, or the caller's context ends: the cached token, while it is
\* good, serves.
FetchFailed(c) ==
  /\ asking[c].at = "requesting"
  /\ IF Cached(MinLeft)
       THEN asking' = [asking EXCEPT ![c].at = "failed", ![c].token = cache.token] /\ UNCHANGED fetching
       ELSE Ends(c) /\ Releases(c)
  /\ UNCHANGED <<scope, cache, retry, world, dropped>>

\* The endpoint is left alone until the backoff is over.
BackOff(c) ==
  /\ asking[c].at = "failed"
  /\ retry' = Backoff
  /\ Gets(c, asking[c].token) /\ Releases(c)
  /\ UNCHANGED <<scope, cache, world, dropped>>

-----------------------------------------------------------------------------
(* The send the token is for, and the world. *)

\* postSendMail: only a 401 drops the token, not a request that got no answer
\* nor any other refusal.
SendGraph(c) ==
  /\ scope = "graph" /\ asking[c].at = "has"
  /\ Ends(c) \/ (asking[c].token \in refused /\ Moves(c, "refused"))
  /\ UNCHANGED <<scope, cache, retry, fetching, world, dropped>>

\* sendXOAUTH2: a connection or STARTTLS that fails drops the token as a
\* failed AUTH does; a mail refused after it does not.
SendXOAUTH2(c) ==
  /\ scope = "exchange" /\ asking[c].at = "has"
  /\ (asking[c].token \notin refused /\ Ends(c)) \/ Moves(c, "refused")
  /\ UNCHANGED <<scope, cache, retry, fetching, world, dropped>>

\* Invalidate: only the token that was refused, if it is still the cached one.
Drops_WhileServes(token) == Serves /\ cache.token = token
Drops(token) == cache.token = token
Invalidate(c) ==
  /\ asking[c].at = "refused"
  /\ cache' = IF Drops(asking[c].token) THEN Empty ELSE cache
  /\ dropped' = dropped \union {asking[c].token}
  /\ Ends(c)
  /\ UNCHANGED <<scope, retry, fetching, world>>

\* The service stops taking every token issued so far.
Revoke ==
  /\ refused # 1..issued /\ refused' = 1..issued
  /\ UNCHANGED <<scope, cache, retry, fetching, asking, issued, dropped>>

Down(n) == IF n > 0 THEN n - 1 ELSE 0
TokenTick ==
  /\ cache.left + retry > 0
  /\ cache' = [cache EXCEPT !.left = Down(@)]
  /\ retry' = Down(retry)
  /\ UNCHANGED <<scope, fetching, asking, world, dropped>>

-----------------------------------------------------------------------------
TokenNext ==
  \/ \E c \in Senders :
       \/ Ask(c) \/ TryFetching(c) \/ Acquire(c) \/ StopWaiting(c) \/ LookAgain(c)
       \/ Fetched(c) \/ FetchFailed(c) \/ BackOff(c)
       \/ SendGraph(c) \/ SendXOAUTH2(c) \/ Invalidate(c)
  \/ Revoke
  \/ TokenTick

TokenSpec == TokenInit /\ [][TokenNext]_tokenVars

-----------------------------------------------------------------------------
\* A worker that asks after a token was dropped is never given that token: a
\* fetch that was under way, one that fails, or a look before the drop does
\* not bring it back (Invalidate: "the next Token fetches a new one").
RefusedNotHandedOut ==
  \A c \in Senders : asking[c].at = "has" => asking[c].token \notin asking[c].known
=============================================================================
