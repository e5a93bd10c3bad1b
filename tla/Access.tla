-------------------------------- MODULE Access --------------------------------
(***************************************************************************)
(* What a request of one client passes before a route handles it: the      *)
(* sliding window of syte/rate_limit.py, and then, in syte/auth.py, the    *)
(* lookup of its API token with a window of its own, or its operator       *)
(* session.  Windows and sessions live in the memory of the process.       *)
(*                                                                         *)
(* A deque of hits is the set of the requests it counts: hits are appended *)
(* in the order of time, so that the ones too old are at its left end.     *)
(***************************************************************************)
EXTENDS Integers, FiniteSets

CONSTANTS
    Requests,     \* requests of the client
    Kinds,        \* what they are: "page", "token", "session"
    Plain,        \* requests_per_minute (180), for pages
    Elevated,     \* elevated_requests_per_minute (2400), for the API
    TokenBudget,  \* rate_limit_per_minute of the token, between 1 and 1000
    Window,       \* length of both windows (60 s)
    TTL,          \* OPERATOR_SESSION_TTL_SECONDS
    Sessions,     \* operator sessions that can be created
    LastInstant   \* bound on the clock

ASSUME AccessAssumption ==
    /\ IsFiniteSet(Requests)
    /\ Kinds \subseteq {"page", "token", "session"}
    /\ Plain \in Nat /\ Elevated \in Nat /\ TokenBudget \in Nat
    /\ Window \in Nat /\ TTL \in Nat /\ LastInstant \in Nat

VARIABLES
    now,          \* time.monotonic(), time.time()
    asked,        \* each request: kind, session it names, where it is
    hits,         \* _hits[key]: the requests in the window of the middleware
    counted,      \* _token_request_windows[id]
    at,           \* when the middleware admitted each request
    countedAt,    \* when the window of the token did
    token,        \* the row of api_tokens: whether it exists
    session,      \* _operator_sessions: expires_at of each; 0 if it is not there
    login,        \* history: when each session was created; 0 if never, or if it
                  \* was revoked or lost
    granted       \* history: requests that were handled, with a valid credential or not

accessVars == <<now, asked, hits, counted, at, countedAt, token, session, login, granted>>

Instants == 0..LastInstant

AccessTypeOK ==
    /\ now \in 1..LastInstant + 1
    /\ asked \in [Requests -> [kind : {"page", "token", "session"}, session : Sessions,
                               pc : {"new", "lookup", "enforce", "done"}]]
    /\ hits \subseteq Requests
    /\ counted \subseteq Requests
    /\ at \in [Requests -> 0..LastInstant + 1]
    /\ countedAt \in [Requests -> 0..LastInstant + 1]
    /\ token \in BOOLEAN
    /\ session \in [Sessions -> 0..LastInstant + TTL + 1]
    /\ login \in [Sessions -> 0..LastInstant + 1]
    /\ granted \subseteq Requests \X BOOLEAN

AccessInit ==
    /\ now = 1
    /\ asked \in [Requests -> [kind : Kinds, session : Sessions, pc : {"new"}]]
    /\ hits = {} /\ counted = {}
    /\ at = [r \in Requests |-> 0]
    /\ countedAt = [r \in Requests |-> 0]
    /\ token = TRUE
    /\ session = [s \in Sessions |-> 0]
    /\ login = [s \in Sessions |-> 0]
    /\ granted = {}

-----------------------------------------------------------------------------
(* The two windows *)

LimitOf(r) == IF asked[r].kind = "page" THEN Plain ELSE Elevated

\* (mutant) hits are dropped one instant before they are a window old
RecentEarly(set, time) == {r \in set : time[r] > now - Window + 1}

\* Hits that are a window old, or older, are popped.
Recent(set, time) == {r \in set : time[r] > now - Window}

HasRoom(set, limit) == Cardinality(set) < limit

PcTo(r, pc) == asked' = [asked EXCEPT ![r].pc = pc]
Next2 == [page |-> "done", token |-> "lookup", session |-> "enforce"]

\* _allow: the lock is never contended, as nothing is awaited under it.
Allow(r) ==
    /\ asked[r].pc = "new"
    /\ LET recent == Recent(hits, at) IN
       \/ /\ HasRoom(recent, LimitOf(r))
          /\ hits' = recent \cup {r}
          /\ at' = [at EXCEPT ![r] = now]
          /\ PcTo(r, Next2[asked[r].kind])
       \/ /\ ~HasRoom(recent, LimitOf(r))
          /\ hits' = recent
          /\ PcTo(r, "done")
          /\ UNCHANGED at
    /\ UNCHANGED <<now, counted, countedAt, token, session, login, granted>>

\* get_api_token_by_hash
Lookup(r) ==
    /\ asked[r].pc = "lookup"
    /\ PcTo(r, IF token THEN "enforce" ELSE "done")
    /\ UNCHANGED <<now, hits, counted, at, countedAt, token, session, login, granted>>

\* _enforce_token_window, with the row that was read: the token may be gone.
EnforceToken(r) ==
    /\ asked[r].pc = "enforce" /\ asked[r].kind = "token"
    /\ LET recent == Recent(counted, countedAt) IN
       \/ /\ HasRoom(recent, TokenBudget)
          /\ counted' = recent \cup {r}
          /\ countedAt' = [countedAt EXCEPT ![r] = now]
       \/ /\ ~HasRoom(recent, TokenBudget)
          /\ counted' = recent
          /\ UNCHANGED countedAt
    /\ PcTo(r, "done")
    /\ UNCHANGED <<now, hits, at, token, session, login, granted>>

RevokeToken ==
    /\ token /\ token' = FALSE
    /\ UNCHANGED <<now, asked, hits, counted, at, countedAt, session, login, granted>>

-----------------------------------------------------------------------------
(* Operator sessions *)

Alive == {s \in Sessions : session[s] > now}

\* _prune_operator_sessions
Pruned == [s \in Sessions |-> IF s \in Alive THEN session[s] ELSE 0]

\* create_account_operator_session, create_bootstrap_operator_session: the id
\* is new.
CreateSession(s) ==
    /\ login[s] = 0 /\ session[s] = 0
    /\ session' = [Pruned EXCEPT ![s] = now + TTL]
    /\ login' = [login EXCEPT ![s] = now]
    /\ UNCHANGED <<now, asked, hits, counted, at, countedAt, token, granted>>

RevokeSession(s) ==
    /\ session[s] # 0
    /\ session' = [session EXCEPT ![s] = 0]
    /\ login' = [login EXCEPT ![s] = 0]
    /\ UNCHANGED <<now, asked, hits, counted, at, countedAt, token, granted>>

\* operator_session_status
VerifySession(r) ==
    /\ asked[r].pc = "enforce" /\ asked[r].kind = "session"
    /\ session' = Pruned
    /\ LET s == asked[r].session IN
       granted' = IF Pruned[s] # 0
                  THEN granted \cup {<<r, login[s] # 0 /\ now - login[s] < TTL>>} ELSE granted
    /\ PcTo(r, "done")
    /\ UNCHANGED <<now, hits, counted, at, countedAt, token, login>>

-----------------------------------------------------------------------------
ClockTick ==
    /\ now <= LastInstant
    /\ now' = now + 1
    /\ UNCHANGED <<asked, hits, counted, at, countedAt, token, session, login, granted>>

\* The process restarts: windows and sessions are gone, requests too.
AccessRestart ==
    /\ \E r \in Requests : asked[r].pc # "new"
    /\ hits' = {} /\ counted' = {}
    /\ at' = [r \in Requests |-> 0]
    /\ countedAt' = [r \in Requests |-> 0]
    /\ asked' = [r \in Requests |-> IF asked[r].pc = "new" THEN asked[r]
                                    ELSE [asked[r] EXCEPT !.pc = "done"]]
    /\ session' = [s \in Sessions |-> 0]
    /\ login' = [s \in Sessions |-> 0]
    /\ UNCHANGED <<now, token, granted>>

AccessQuiet == (\A r \in Requests : asked[r].pc = "done") /\ UNCHANGED accessVars

Handle(r) == Allow(r) \/ Lookup(r) \/ EnforceToken(r) \/ VerifySession(r)

AccessNext ==
    \/ \E r \in Requests : Handle(r)
    \/ \E s \in Sessions : CreateSession(s) \/ RevokeSession(s)
    \/ RevokeToken \/ ClockTick \/ AccessRestart \/ AccessQuiet

AccessSpec == AccessInit /\ [][AccessNext]_accessVars

-----------------------------------------------------------------------------
(* Properties *)

\* Requests admitted since the last restart that are less than a window old.
Fresh(time) == {r \in Requests : time[r] # 0 /\ time[r] > now - Window}

\* However pages and API calls of a client mix in one deque, wherever windows
\* begin and end, no window holds more admitted requests than their budget,
\* for pages alone and for all; nor does it hold more uses of a token.
WindowBounded ==
    /\ \A k \in {Plain, Elevated} : Cardinality({r \in Fresh(at) : LimitOf(r) <= k}) <= k
    /\ Cardinality(Fresh(countedAt)) <= TokenBudget

\* An operator request is granted only in the name of a session that was
\* created less than its lifetime ago, and neither revoked nor lost since.
SessionsExpire == \A g \in granted : g[2]

\* What a request is let through for, it is let through within its limits of
\* number and of time.
AccessSound == WindowBounded /\ SessionsExpire

=============================================================================
