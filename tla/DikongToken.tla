----------------------------- MODULE DikongToken -----------------------------
(***************************************************************************)
(* Calls of one DikongClient, which share a cached access token            *)
(* (InMemoryDikongTokenProvider) and a limit of concurrent requests.  The  *)
(* dikong server is external: it issues a token at every login, and may    *)
(* revoke all it has issued, be late, or fail.                             *)
(*                                                                         *)
(* All callers are tasks of one event loop; the steps below are what runs  *)
(* between two awaits.                                                     *)
(***************************************************************************)
EXTENDS Naturals, FiniteSets

CONSTANTS
  Callers,         \* calls of DikongClient._request, one each
  MaxRetries,      \* config.max_retries
  MaxConcurrency,  \* config.max_concurrency
  MaxFaults,       \* bound: requests and logins that fail
  MaxRevokes,      \* bound: times the server revokes its tokens
  MaxExpiries      \* bound: times the cached token outlives its time

NoToken  == 0
Nobody   == "nobody"
Attempts == MaxRetries + 1
Ended    == {"ok", "unauthorized", "error"}
Places   == Ended \cup {"start", "locking", "login", "ready", "sent", "dropping"}

ASSUME TokenAssumption ==
  /\ IsFiniteSet(Callers) /\ Nobody \notin Callers
  /\ {MaxRetries, MaxFaults, MaxRevokes, MaxExpiries} \subseteq Nat
  /\ MaxConcurrency \in Nat \ {0}

VARIABLES
  token,     \* the cached token, or NoToken
  expired,   \* the clock has passed _expires_at
  lock,      \* the caller that holds the provider's lock
  pc,        \* where each caller is
  mine,      \* the token it sends
  attempt,   \* its attempts so far
  refreshed, \* auth_refreshed: it has already dropped a rejected token
  issued,    \* tokens the server has issued: 1 .. issued
  valid,     \* those it accepts
  drops, expiries, revokes, faults  \* what has happened so far

vars == <<token, expired, lock, pc, mine, attempt, refreshed, issued, valid,
          drops, expiries, revokes, faults>>

Init ==
  /\ token = NoToken /\ expired = TRUE /\ lock = Nobody
  /\ pc = [c \in Callers |-> "start"]
  /\ mine = [c \in Callers |-> NoToken]
  /\ attempt = [c \in Callers |-> 1]
  /\ refreshed = [c \in Callers |-> FALSE]
  /\ issued = 0 /\ valid = {}
  /\ drops = 0 /\ expiries = 0 /\ revokes = 0 /\ faults = 0

Goto(c, place) == pc' = [pc EXCEPT ![c] = place]
Fault == faults < MaxFaults /\ faults' = faults + 1

provider == <<token, expired, lock>>
server   == <<issued, valid, revokes>>
call     == <<attempt, refreshed>>

-----------------------------------------------------------------------------
(* get_token *)

Fresh == token # NoToken /\ ~expired

\* A fresh token is taken without the lock.
GetToken(c) ==
  /\ pc[c] = "start"
  /\ IF Fresh THEN Goto(c, "ready") /\ mine' = [mine EXCEPT ![c] = token]
              ELSE Goto(c, "locking") /\ UNCHANGED mine
  /\ UNCHANGED <<provider, server, call, drops, expiries, faults>>

\* Mutant: no second look at the token under the lock.
LockForLoginAlways(c) ==
  /\ pc[c] = "locking" /\ lock = Nobody
  /\ lock' = c /\ Goto(c, "login")
  /\ UNCHANGED <<token, expired, server, call, mine, drops, expiries, faults>>

\* The lock is free: another caller may have logged in meanwhile.
LockForLogin(c) ==
  /\ pc[c] = "locking" /\ lock = Nobody
  /\ IF Fresh
       THEN /\ Goto(c, "ready") /\ mine' = [mine EXCEPT ![c] = token]
            /\ UNCHANGED lock
       ELSE /\ Goto(c, "login") /\ lock' = c
            /\ UNCHANGED mine
  /\ UNCHANGED <<token, expired, server, call, drops, expiries, faults>>

Login(c) ==
  /\ pc[c] = "login"
  /\ issued' = issued + 1
  /\ valid' = valid \cup {issued'}
  /\ token' = issued' /\ expired' = FALSE
  /\ mine' = [mine EXCEPT ![c] = token']
  /\ lock' = Nobody
  /\ Goto(c, "ready")
  /\ UNCHANGED <<call, revokes, drops, expiries, faults>>

\* Mutant: an exception leaves the lock taken.
LoginFailsLocked(c) ==
  /\ pc[c] = "login" /\ Fault
  /\ Goto(c, "unauthorized")
  /\ UNCHANGED <<provider, server, call, mine, drops, expiries>>

\* A failed login is fatal for the call, and the cache stays as it was.
LoginFails(c) ==
  /\ pc[c] = "login" /\ Fault
  /\ lock' = Nobody
  /\ Goto(c, "unauthorized")
  /\ UNCHANGED <<token, expired, server, call, mine, drops, expiries>>

-----------------------------------------------------------------------------
(* _request *)

\* The semaphore bounds the requests that are out.
Send(c) ==
  /\ pc[c] = "ready"
  /\ Cardinality({d \in Callers : pc[d] = "sent"}) < MaxConcurrency
  /\ Goto(c, "sent")
  /\ UNCHANGED <<provider, server, call, mine, drops, expiries, faults>>

Answered(c) ==
  /\ pc[c] = "sent" /\ mine[c] \in valid
  /\ Goto(c, "ok")
  /\ UNCHANGED <<provider, server, call, mine, drops, expiries, faults>>

Again(c, place) ==
  /\ attempt[c] < Attempts
  /\ attempt' = [attempt EXCEPT ![c] = @ + 1]
  /\ Goto(c, place)

\* A transport error or a retryable status: back off and start again, unless
\* this was the last attempt.  Any other failure ends the call at once.
RequestFails(c) ==
  /\ pc[c] = "sent" /\ Fault
  /\ \/ Again(c, "start")
     \/ Goto(c, "error") /\ UNCHANGED attempt
  /\ UNCHANGED <<provider, server, refreshed, mine, drops, expiries>>

\* Mutant: the rejected token is sent again.
RejectedKeepingToken(c) ==
  /\ pc[c] = "sent" /\ mine[c] \notin valid
  /\ \/ /\ ~refreshed[c] /\ Again(c, "start")
        /\ refreshed' = [refreshed EXCEPT ![c] = TRUE]
     \/ /\ refreshed[c] \/ attempt[c] = Attempts
        /\ Goto(c, "unauthorized") /\ UNCHANGED call
  /\ UNCHANGED <<provider, server, mine, drops, expiries, faults>>

\* Status or envelope code 401: drop the cached token once and start again.
Rejected(c) ==
  /\ pc[c] = "sent" /\ mine[c] \notin valid
  /\ \/ /\ ~refreshed[c] /\ Again(c, "dropping")
        /\ refreshed' = [refreshed EXCEPT ![c] = TRUE]
     \/ /\ refreshed[c] \/ attempt[c] = Attempts
        /\ Goto(c, "unauthorized") /\ UNCHANGED call
  /\ UNCHANGED <<provider, server, mine, drops, expiries, faults>>

\* invalidate: whatever token is cached by now is dropped.
Invalidate(c) ==
  /\ pc[c] = "dropping" /\ lock = Nobody
  /\ drops' = drops + (IF token # NoToken THEN 1 ELSE 0)
  /\ token' = NoToken /\ expired' = TRUE
  /\ Goto(c, "start")
  /\ UNCHANGED <<lock, server, call, mine, expiries, faults>>

-----------------------------------------------------------------------------
(* The clock and the server *)

Expire ==
  /\ Fresh /\ expiries < MaxExpiries
  /\ expired' = TRUE /\ expiries' = expiries + 1
  /\ UNCHANGED <<token, lock, pc, mine, call, server, drops, faults>>

Revoke ==
  /\ valid # {} /\ revokes < MaxRevokes
  /\ valid' = {} /\ revokes' = revokes + 1
  /\ UNCHANGED <<provider, pc, mine, call, issued, drops, expiries, faults>>

-----------------------------------------------------------------------------
Step(c) ==
  \/ GetToken(c) \/ LockForLogin(c) \/ Login(c) \/ LoginFails(c)
  \/ Send(c) \/ Answered(c) \/ RequestFails(c) \/ Rejected(c) \/ Invalidate(c)

Next == (\E c \in Callers : Step(c)) \/ Expire \/ Revoke

Spec == Init /\ [][Next]_vars

\* Every request is answered or times out, and a caller that waits for the lock
\* or the semaphore gets it when nobody else uses it.
FairSpec == Spec /\ \A c \in Callers : WF_vars(Step(c))

-----------------------------------------------------------------------------
(* Properties *)

\* Single flight: whatever number of calls need a token at once, there is one
\* login for it; another only for a token that expired or was dropped.
LoginsAccounted == issued <= 1 + expiries + drops

\* A token the server revoked once costs no call more than a retry: with an
\* attempt left to make, no call fails for want of authorisation.
RevokedOnceIsHealed ==
  revokes <= 1 /\ faults = 0 /\ MaxRetries > 0 =>
    \A c \in Callers : pc[c] # "unauthorized"

\* Every call ends, with a result or an error.
CallsEnd == \A c \in Callers : <>(pc[c] \in Ended)
=============================================================================
