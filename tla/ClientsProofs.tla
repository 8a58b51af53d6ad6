--------------------------- MODULE ClientsProofs ---------------------------
(***************************************************************************)
(* Proofs about what clients are told: that the token provider logs in     *)
(* once per need and heals a revoked token, that the task API answers from *)
(* what is stored, that the events of a subtask that an agent answers      *)
(* account for it, and that the history of a user's sessions is read       *)
(* whole, each for any number of clients, calls and failures.              *)
(***************************************************************************)
EXTENDS DikongToken, SessionDirectory, TaskApi, AgentAnswer, TLAPS, FiniteSetTheorems,
        SequenceTheorems, WellFoundedInduction

(***************************************************************************)
(* The token provider (DikongToken)                                        *)
(***************************************************************************)

\* What the argument needs to know of the types.
Counters ==
  /\ token \in Nat /\ issued \in Nat
  /\ drops \in Nat /\ expiries \in Nat
  /\ pc \in [Callers -> Places]

\* A caller that logs in holds the lock, and the cached token is of no use
\* until it is done: only a login brings a fresh one.
OneLogin == \A c \in Callers : pc[c] = "login" => lock = c /\ ~Fresh

\* Each login is paid for by an expiry, by a drop, or by the token in the cache.
\* LoginsAccounted alone is not inductive: it does not say that a call about
\* to log in finds the account in credit.
Account == issued <= expiries + drops + (IF Fresh THEN 1 ELSE 0)

LoginInv == Counters /\ OneLogin /\ Account

LEMMA LoginInvInit == Init => LoginInv
  BY DEF Init, LoginInv, Counters, OneLogin, Account, Fresh, NoToken, Places, Ended

\* The steps that leave the provider and the counters alone keep the invariant
\* when nobody starts to log in.
LEMMA QuietStep ==
  ASSUME LoginInv, NEW c \in Callers, NEW place \in Places, place # "login",
         Goto(c, place),
         UNCHANGED <<provider, issued, drops, expiries>>
  PROVE  LoginInv'
  BY DEF LoginInv, Counters, OneLogin, Account, Fresh, Goto, provider

LEMMA LoginInvStep == LoginInv /\ [Next]_vars => LoginInv'
<1> SUFFICES ASSUME LoginInv, [Next]_vars PROVE LoginInv'
  OBVIOUS
<1> USE DEF LoginInv, Places, Ended
<1>1. ASSUME NEW c \in Callers, GetToken(c) PROVE LoginInv'
  <2>1. Goto(c, "ready") \/ Goto(c, "locking")
    BY <1>1 DEF GetToken
  <2> QED BY <1>1, <2>1, QuietStep DEF GetToken, server
<1>2. ASSUME NEW c \in Callers, LockForLogin(c) PROVE LoginInv'
  <2>1. CASE Fresh
    BY <1>2, <2>1, QuietStep DEF LockForLogin, server, provider
  <2>2. CASE ~Fresh
    <3>1. Counters' /\ Account'
      BY <1>2, <2>2 DEF LockForLogin, Counters, Account, Fresh, Goto, server
    \* The lock was free, so nobody else was logging in.
    <3>2. \A d \in Callers : pc[d] # "login"
      BY <1>2, TokenAssumption DEF LockForLogin, OneLogin
    <3>3. OneLogin'
      BY <1>2, <2>2, <3>2 DEF LockForLogin, OneLogin, Counters, Fresh, Goto
    <3> QED BY <3>1, <3>3
  <2> QED BY <2>1, <2>2
<1>3. ASSUME NEW c \in Callers, Login(c) PROVE LoginInv'
  <2>1. ~Fresh /\ lock = c
    BY <1>3 DEF Login, OneLogin
  <2>2. Counters'
    BY <1>3 DEF Login, Counters, Goto
  <2>3. Fresh'
    BY <1>3 DEF Login, Counters, Fresh, NoToken
  <2>4. Account'
    BY <1>3, <2>1, <2>3 DEF Login, Counters, Account
  <2>5. \A d \in Callers : pc'[d] # "login"
    BY <1>3, <2>1 DEF Login, OneLogin, Counters, Goto
  <2> QED BY <2>2, <2>4, <2>5 DEF OneLogin
<1>4. ASSUME NEW c \in Callers, LoginFails(c) PROVE LoginInv'
  <2>1. lock = c
    BY <1>4 DEF LoginFails, OneLogin
  <2>2. Counters' /\ Account'
    BY <1>4 DEF LoginFails, Counters, Account, Fresh, Goto, server
  <2>3. \A d \in Callers : pc'[d] # "login"
    BY <1>4, <2>1 DEF LoginFails, OneLogin, Counters, Goto
  <2> QED BY <2>2, <2>3 DEF OneLogin
<1>5. ASSUME NEW c \in Callers, Send(c) PROVE LoginInv'
  BY <1>5, QuietStep DEF Send, server
<1>6. ASSUME NEW c \in Callers, Answered(c) PROVE LoginInv'
  BY <1>6, QuietStep DEF Answered, server
<1>7. ASSUME NEW c \in Callers, RequestFails(c) PROVE LoginInv'
  <2>1. Goto(c, "start") \/ Goto(c, "error")
    BY <1>7 DEF RequestFails, Again
  <2> QED BY <1>7, <2>1, QuietStep DEF RequestFails, server
<1>8. ASSUME NEW c \in Callers, Rejected(c) PROVE LoginInv'
  <2>1. Goto(c, "dropping") \/ Goto(c, "unauthorized")
    BY <1>8 DEF Rejected, Again
  <2> QED BY <1>8, <2>1, QuietStep DEF Rejected, server
<1>9. ASSUME NEW c \in Callers, Invalidate(c) PROVE LoginInv'
  <2>1. Counters' /\ ~Fresh'
    BY <1>9 DEF Invalidate, Counters, Fresh, Goto, NoToken, server
  <2>2. Account'
    <3>1. Fresh => token # NoToken
      BY DEF Fresh
    <3>2. issued' = issued /\ expiries' = expiries
      BY <1>9 DEF Invalidate, server
    <3> QED BY <1>9, <2>1, <3>1, <3>2 DEF Invalidate, Counters, Account
  <2>3. OneLogin'
    BY <1>9, <2>1 DEF Invalidate, OneLogin, Counters, Goto
  <2> QED BY <2>1, <2>2, <2>3
<1>10. ASSUME Expire PROVE LoginInv'
  BY <1>10 DEF Expire, Counters, OneLogin, Account, Fresh, server
<1>11. ASSUME Revoke PROVE LoginInv'
  BY <1>11 DEF Revoke, Counters, OneLogin, Account, Fresh, provider
<1>12. ASSUME UNCHANGED vars PROVE LoginInv'
  BY <1>12 DEF vars, Counters, OneLogin, Account, Fresh
<1> QED
  BY <1>1, <1>2, <1>3, <1>4, <1>5, <1>6, <1>7, <1>8, <1>9, <1>10, <1>11, <1>12
  DEF Next, Step

LEMMA LoginInvIsEnough == LoginInv => LoginsAccounted
  BY DEF LoginInv, Counters, Account, LoginsAccounted

\* Single flight, for every set of callers: the logins never exceed one plus
\* the tokens that expired or were dropped (get_token, _refresh_locked).
THEOREM LoginsAccountedHolds == Spec => []LoginsAccounted
<1>1. Init => LoginInv
  BY LoginInvInit
<1>2. LoginInv /\ [Next]_vars => LoginInv'
  BY LoginInvStep
<1>3. LoginInv => LoginsAccounted
  BY LoginInvIsEnough
<1> QED BY <1>1, <1>2, <1>3, PTL DEF Spec

-----------------------------------------------------------------------------
(* Healing: nothing of what the server revoked outlives the call that saw it
   rejected.                                                               *)

HealTypes ==
  /\ faults \in Nat /\ revokes \in Nat /\ issued \in Nat /\ token \in Nat
  /\ pc \in [Callers -> Places]
  /\ mine \in [Callers -> Nat]
  /\ attempt \in [Callers -> Nat]
  /\ refreshed \in [Callers -> BOOLEAN]

\* Without another failure, a call starts again only because it was rejected.
AttemptsPaid == \A c \in Callers : attempt[c] = IF refreshed[c] THEN 2 ELSE 1

\* The cached token and what is sent are of use, as far as a call c can rely on
\* it: before the revocation every call can, afterwards the ones that dropped
\* the rejected token.
CacheGood == token \in valid \cup {NoToken}

Relies(c) == revokes = 0 \/ refreshed[c]

ReliesRightly ==
  \A c \in Callers : Relies(c) =>
    /\ pc[c] \in {"start", "locking", "login"} => CacheGood
    /\ pc[c] \in {"ready", "sent"} => mine[c] \in valid

\* Only a revocation makes a call drop its token.
RejectedAfterRevoke ==
  revokes = 0 => CacheGood /\ \A c \in Callers : ~refreshed[c]

Unhurt == \A c \in Callers : pc[c] # "unauthorized"

Calm == revokes <= 1 /\ faults = 0

\* RevokedOnceIsHealed is not inductive: it does not say that what a call sends
\* after its drop is newer than the revocation.
HealInv ==
  /\ HealTypes
  /\ Calm => /\ AttemptsPaid /\ ReliesRightly /\ RejectedAfterRevoke
             /\ MaxRetries > 0 => Unhurt

LEMMA HealInvInit == Init => HealInv
  BY DEF Init, HealInv, HealTypes, Calm, AttemptsPaid, ReliesRightly, Relies,
         CacheGood, RejectedAfterRevoke, Unhurt, NoToken, Places, Ended

LEMMA HealTypesStep == HealTypes /\ [Next]_vars => HealTypes'
<1> SUFFICES ASSUME HealTypes, [Next]_vars PROVE HealTypes'
  OBVIOUS
<1> USE DEF HealTypes, Places, Ended, Goto, provider, server, call, NoToken
<1>1. ASSUME NEW c \in Callers, GetToken(c) \/ LockForLogin(c) PROVE HealTypes'
  BY <1>1 DEF GetToken, LockForLogin
<1>2. ASSUME NEW c \in Callers, Login(c) \/ LoginFails(c) PROVE HealTypes'
  BY <1>2 DEF Login, LoginFails, Fault
<1>3. ASSUME NEW c \in Callers, Send(c) \/ Answered(c) \/ Invalidate(c) PROVE HealTypes'
  BY <1>3 DEF Send, Answered, Invalidate
<1>4. ASSUME NEW c \in Callers, RequestFails(c) PROVE HealTypes'
  BY <1>4 DEF RequestFails, Again, Fault
<1>5. ASSUME NEW c \in Callers, Rejected(c) PROVE HealTypes'
  <2>1. CASE Again(c, "dropping") /\ refreshed' = [refreshed EXCEPT ![c] = TRUE]
    BY <1>5, <2>1 DEF Rejected, Again
  <2>2. CASE Goto(c, "unauthorized") /\ UNCHANGED call
    BY <1>5, <2>2 DEF Rejected
  <2> QED BY <1>5, <2>1, <2>2 DEF Rejected
<1>6. ASSUME Expire \/ Revoke PROVE HealTypes'
  BY <1>6 DEF Expire, Revoke
<1>7. ASSUME UNCHANGED vars PROVE HealTypes'
  BY <1>7 DEF vars
<1> QED BY <1>1, <1>2, <1>3, <1>4, <1>5, <1>6, <1>7 DEF Next, Step

LEMMA HealInvStep == HealInv /\ [Next]_vars => HealInv'
<1> SUFFICES ASSUME HealInv, [Next]_vars, Calm' PROVE
      /\ AttemptsPaid' /\ ReliesRightly' /\ RejectedAfterRevoke'
      /\ MaxRetries > 0 => Unhurt'
  BY HealTypesStep DEF HealInv
<1>1. HealTypes /\ HealTypes'
  BY HealTypesStep DEF HealInv
\* Faults and revocations are only ever added.
<1>2. Calm
  <2>1. CASE \E c \in Callers : LoginFails(c) \/ RequestFails(c)
    BY <1>1, <2>1 DEF Calm, HealTypes, LoginFails, RequestFails, Fault
  <2>2. CASE \E c \in Callers : \/ GetToken(c) \/ LockForLogin(c) \/ Login(c) \/ Send(c)
                             \/ Answered(c) \/ Rejected(c) \/ Invalidate(c)
    BY <2>2 DEF Calm, GetToken, LockForLogin, Login, Send, Answered, Rejected,
       Invalidate, server
  <2>3. CASE Expire \/ Revoke \/ UNCHANGED vars
    BY <1>1, <2>3 DEF Calm, HealTypes, Expire, Revoke, server, vars
  <2> QED BY <2>1, <2>2, <2>3 DEF Next, Step
<1>3. AttemptsPaid /\ ReliesRightly /\ RejectedAfterRevoke /\ (MaxRetries > 0 => Unhurt)
  BY <1>2 DEF HealInv
<1> USE <1>1 DEF HealTypes
<1> USE DEF AttemptsPaid, ReliesRightly, RejectedAfterRevoke, Unhurt, Relies,
            CacheGood, Goto, provider, server, call, NoToken
<1>4. ASSUME NEW c \in Callers, GetToken(c)
      PROVE AttemptsPaid' /\ ReliesRightly' /\ RejectedAfterRevoke' /\ (MaxRetries > 0 => Unhurt')
  BY <1>3, <1>4 DEF GetToken, Fresh
<1>5. ASSUME NEW c \in Callers, LockForLogin(c)
      PROVE AttemptsPaid' /\ ReliesRightly' /\ RejectedAfterRevoke' /\ (MaxRetries > 0 => Unhurt')
  BY <1>3, <1>5 DEF LockForLogin, Fresh
<1>6. ASSUME NEW c \in Callers, Login(c)
      PROVE AttemptsPaid' /\ ReliesRightly' /\ RejectedAfterRevoke' /\ (MaxRetries > 0 => Unhurt')
  BY <1>3, <1>6 DEF Login
<1>7. ASSUME NEW c \in Callers, LoginFails(c) \/ RequestFails(c) PROVE FALSE
  BY <1>7, <1>2 DEF LoginFails, RequestFails, Fault, Calm
<1>8. ASSUME NEW c \in Callers, Send(c) \/ Answered(c)
      PROVE AttemptsPaid' /\ ReliesRightly' /\ RejectedAfterRevoke' /\ (MaxRetries > 0 => Unhurt')
  BY <1>3, <1>8 DEF Send, Answered
<1>9. ASSUME NEW c \in Callers, Rejected(c)
      PROVE AttemptsPaid' /\ ReliesRightly' /\ RejectedAfterRevoke' /\ (MaxRetries > 0 => Unhurt')
  <2>1. pc[c] = "sent" /\ mine[c] \notin valid
    BY <1>9 DEF Rejected
  \* It did not rely on what it sent: it is not refreshed, and revokes # 0.
  <2>2. ~refreshed[c] /\ revokes # 0 /\ attempt[c] = 1
    BY <1>3, <2>1
  <2>3. CASE Again(c, "dropping") /\ refreshed' = [refreshed EXCEPT ![c] = TRUE]
    BY <1>3, <1>9, <2>2, <2>3 DEF Rejected, Again
  <2>4. CASE attempt[c] = Attempts /\ Goto(c, "unauthorized") /\ UNCHANGED call
    <3>1. MaxRetries = 0
      BY <2>2, <2>4, TokenAssumption DEF Attempts
    <3> QED BY <1>3, <1>9, <2>2, <2>4, <3>1 DEF Rejected
  <2> QED BY <1>9, <2>2, <2>3, <2>4 DEF Rejected
<1>10. ASSUME NEW c \in Callers, Invalidate(c)
      PROVE AttemptsPaid' /\ ReliesRightly' /\ RejectedAfterRevoke' /\ (MaxRetries > 0 => Unhurt')
  BY <1>3, <1>10 DEF Invalidate
<1>11. ASSUME Expire
      PROVE AttemptsPaid' /\ ReliesRightly' /\ RejectedAfterRevoke' /\ (MaxRetries > 0 => Unhurt')
  BY <1>3, <1>11 DEF Expire
<1>12. ASSUME Revoke
      PROVE AttemptsPaid' /\ ReliesRightly' /\ RejectedAfterRevoke' /\ (MaxRetries > 0 => Unhurt')
  <2>1. revokes = 0 /\ revokes' = 1
    BY <1>12, <1>2 DEF Revoke, Calm
  <2> QED BY <1>3, <1>12, <2>1 DEF Revoke
<1>13. ASSUME UNCHANGED vars
      PROVE AttemptsPaid' /\ ReliesRightly' /\ RejectedAfterRevoke' /\ (MaxRetries > 0 => Unhurt')
  BY <1>3, <1>13 DEF vars
<1> QED
  BY <1>4, <1>5, <1>6, <1>7, <1>8, <1>9, <1>10, <1>11, <1>12, <1>13 DEF Next, Step

\* A token that the server revokes once costs no call its answer, for every set
\* of callers and any number of retries but none (_request, invalidate).
THEOREM RevokedOnceIsHealedHolds == Spec => []RevokedOnceIsHealed
<1>1. Init => HealInv
  BY HealInvInit
<1>2. HealInv /\ [Next]_vars => HealInv'
  BY HealInvStep
<1>3. HealInv => RevokedOnceIsHealed
  BY DEF HealInv, RevokedOnceIsHealed, Calm, Unhurt
<1> QED BY <1>1, <1>2, <1>3, PTL DEF Spec

(***************************************************************************)
(* Numbers                                                                 *)
(***************************************************************************)

\* A set of natural numbers has a least element.
LEMMA LeastNatural ==
  ASSUME NEW T \in SUBSET Nat, T # {}
  PROVE  \E m \in T : \A k \in T : m <= k
<1> DEFINE R == {ss \in Nat \X Nat : ss[1] < ss[2]}
<1>1. IsWellFoundedOn(R, Nat)
  BY NatLessThanWellFounded DEF OpToRel
<1>2. \A x, y \in Nat : <<x, y>> \in R <=> x < y
  OBVIOUS
<1> HIDE DEF R
<1>3. PICK m \in T : \A y \in T : ~(<<y, m>> \in R)
  BY <1>1, WFMin
<1>4. \A y \in T : m <= y
  <2>1. \A y \in T : ~(y < m)
    BY <1>2, <1>3
  <2> QED BY <2>1
<1> QED BY <1>4

\* What holds 0 and, with a number, its successor, holds all of them.
LEMMA NaturalSet ==
  ASSUME NEW K, 0 \in K, \A n \in Nat : n \in K => n + 1 \in K
  PROVE  Nat \subseteq K
<1> SUFFICES ASSUME Nat \ K # {} PROVE FALSE
  OBVIOUS
<1>1. PICK m \in Nat \ K : \A k \in Nat \ K : m <= k
  <2>1. Nat \ K \in SUBSET Nat
    OBVIOUS
  <2> QED BY <2>1, LeastNatural
<1>2. m # 0 /\ m - 1 \in Nat
  BY <1>1
<1>3. m - 1 \in K
  BY <1>1, <1>2
<1>4. (m - 1) + 1 = m
  BY <1>1
<1> QED BY <1>1, <1>2, <1>3, <1>4

(***************************************************************************)
(* The places of a sequence that are picked (TaskApi)                      *)
(***************************************************************************)

\* Ranks are numbers up to the size of the set.
LEMMA RankType ==
  ASSUME NEW n \in Nat, NEW places \in SUBSET (1 .. n), NEW i \in Nat
  PROVE  /\ IsFiniteSet(places) /\ Cardinality(places) \in 0 .. n
         /\ Rank(places, i) \in 0 .. Cardinality(places)
<1>1. IsFiniteSet(1 .. n) /\ Cardinality(1 .. n) = n
  BY FS_Interval
<1>2. /\ IsFiniteSet(places) /\ Cardinality(places) \in Nat
      /\ Cardinality(places) <= n
  BY <1>1, FS_Subset, FS_CardinalityType
<1>3. {j \in places : j <= i} \in SUBSET places
  OBVIOUS
<1>4. Rank(places, i) \in Nat /\ Rank(places, i) <= Cardinality(places)
  BY <1>2, <1>3, FS_Subset, FS_CardinalityType DEF Rank
<1> QED BY <1>2, <1>4

\* A place behind all others is the last, and the others keep their ranks.
LEMMA RankOfNext ==
  ASSUME NEW n \in Nat, NEW places \in SUBSET (1 .. n)
  PROVE  LET more == places \cup {n + 1}
         IN /\ Cardinality(more) = Cardinality(places) + 1
            /\ Rank(more, n + 1) = Cardinality(places) + 1
            /\ \A i \in places : Rank(more, i) = Rank(places, i)
<1> DEFINE more == places \cup {n + 1}
<1>1. Cardinality(more) = Cardinality(places) + 1
  <2>1. IsFiniteSet(places) /\ n + 1 \notin places
    BY RankType
  <2> QED BY <2>1, FS_AddElement
<1>2. {j \in more : j <= n + 1} = more
  <2>1. \A j \in more : j <= n + 1
    OBVIOUS
  <2> HIDE DEF more
  <2> QED BY <2>1
<1>3. \A i \in places : {j \in more : j <= i} = {j \in places : j <= i}
  OBVIOUS
<1> QED BY <1>1, <1>2, <1>3 DEF Rank

\* There is a place of every rank.
RankedFully(n) ==
  \A places \in SUBSET (1 .. n) : \A k \in 1 .. Cardinality(places) :
    \E i \in places : Rank(places, i) = k

LEMMA PlaceOfRank == ASSUME NEW n \in Nat PROVE RankedFully(n)
<1> DEFINE K == {m \in Nat : RankedFully(m)}
<1>1. 0 \in K
  <2>1. \A places \in SUBSET (1 .. 0) : places = {}
    OBVIOUS
  <2> QED BY <2>1, FS_EmptySet DEF RankedFully
<1>2. ASSUME NEW m \in Nat, m \in K PROVE m + 1 \in K
  <2> SUFFICES ASSUME NEW places \in SUBSET (1 .. m + 1),
                      NEW k \in 1 .. Cardinality(places)
               PROVE  \E i \in places : Rank(places, i) = k
    BY DEF RankedFully
  <2>1. CASE m + 1 \notin places
    <3>1. places \in SUBSET (1 .. m)
      BY <2>1
    <3> QED BY <1>2, <3>1 DEF RankedFully
  <2>2. CASE m + 1 \in places
    <3> DEFINE fewer == places \ {m + 1}
    <3>1. fewer \in SUBSET (1 .. m) /\ places = fewer \cup {m + 1}
      BY <2>2
    <3> HIDE DEF fewer
    <3>2. /\ Cardinality(places) = Cardinality(fewer) + 1
          /\ Rank(places, m + 1) = Cardinality(fewer) + 1
          /\ \A i \in fewer : Rank(places, i) = Rank(fewer, i)
      BY <3>1, RankOfNext
    <3>3. Cardinality(fewer) \in Nat
      BY <3>1, RankType
    <3>4. CASE k = Cardinality(fewer) + 1
      BY <2>2, <3>2, <3>4
    <3>5. CASE k \in 1 .. Cardinality(fewer)
      <4>1. \E i \in fewer : Rank(fewer, i) = k
        BY <1>2, <3>1, <3>5 DEF RankedFully
      <4> QED BY <3>1, <3>2, <4>1
    <3> QED BY <3>2, <3>3, <3>4, <3>5
  <2> QED BY <2>1, <2>2
<1> HIDE DEF K
<1>3. Nat \subseteq K
  BY <1>1, <1>2, NaturalSet
<1> QED BY <1>3 DEF K

LEMMA PlaceOfIsThere ==
  ASSUME NEW n \in Nat, NEW places \in SUBSET (1 .. n), NEW k \in 1 .. Cardinality(places)
  PROVE  PlaceOf(places, k) \in places /\ Rank(places, PlaceOf(places, k)) = k
<1>1. \E i \in places : Rank(places, i) = k
  BY PlaceOfRank DEF RankedFully
<1> QED BY <1>1 DEF PlaceOf

\* What is picked is a sequence as long as there are places.
LEMMA PickedType ==
  ASSUME NEW S, NEW s \in Seq(S), NEW places \in SUBSET (1 .. Len(s))
  PROVE  Picked(s, places) \in Seq(S) /\ Len(Picked(s, places)) = Cardinality(places)
<1>1. Len(s) \in Nat
  OBVIOUS
<1>2. Cardinality(places) \in Nat
  BY <1>1, RankType
<1>3. \A k \in 1 .. Cardinality(places) : PlaceOf(places, k) \in 1 .. Len(s)
  BY <1>1, PlaceOfIsThere
<1>4. \A i \in 1 .. Len(s) : s[i] \in S
  OBVIOUS
<1>5. \A k \in 1 .. Cardinality(places) : s[PlaceOf(places, k)] \in S
  BY <1>3, <1>4
<1> QED BY <1>2, <1>5 DEF Picked

\* What is picked of a sequence stays when it grows.
LEMMA PickedPrefix ==
  ASSUME NEW S, NEW s \in Seq(S), NEW e \in S, NEW places \in SUBSET (1 .. Len(s))
  PROVE  Picked(Append(s, e), places) = Picked(s, places)
<1>1. \A i \in 1 .. Len(s) : Append(s, e)[i] = s[i]
  OBVIOUS
<1>2. Len(s) \in Nat
  OBVIOUS
<1>3. \A k \in 1 .. Cardinality(places) : PlaceOf(places, k) \in 1 .. Len(s)
  BY <1>2, PlaceOfIsThere
<1> QED BY <1>1, <1>3 DEF Picked

\* The place of a rank is the same when there is one more behind all others.
LEMMA PlaceOfNext ==
  ASSUME NEW n \in Nat, NEW places \in SUBSET (1 .. n)
  PROVE  LET more == places \cup {n + 1}
         IN /\ PlaceOf(more, Cardinality(places) + 1) = n + 1
            /\ \A k \in 1 .. Cardinality(places) : PlaceOf(more, k) = PlaceOf(places, k)
<1> DEFINE more == places \cup {n + 1}
           c == Cardinality(places)
<1>1. /\ c \in Nat
      /\ \A i \in places : Rank(places, i) \in 0 .. c
  BY RankType
<1>2. /\ Rank(more, n + 1) = c + 1
      /\ \A i \in places : Rank(more, i) = Rank(places, i)
  BY RankOfNext
<1>3. \A i : i \in more <=> i \in places \/ i = n + 1
  OBVIOUS
<1> HIDE DEF more, c
<1>4. ASSUME NEW k \in 1 .. c PROVE PlaceOf(more, k) = PlaceOf(places, k)
  <2>1. Rank(more, n + 1) # k
    BY <1>1, <1>2
  <2>2. \A i : (i \in more /\ Rank(more, i) = k) <=> (i \in places /\ Rank(places, i) = k)
    BY <1>2, <1>3, <2>1, Zenon
  <2> QED BY <2>2, Zenon DEF PlaceOf
<1>5. PlaceOf(more, c + 1) = n + 1
  <2>0. \A i \in places : Rank(more, i) # c + 1
    BY <1>1, <1>2
  <2>1. \A i : (i \in more /\ Rank(more, i) = c + 1) <=> i = n + 1
    BY <1>2, <1>3, <2>0, Zenon
  <2>2. \E i \in more : Rank(more, i) = c + 1
    BY <2>1
  <2> QED BY <2>1, <2>2, Zenon DEF PlaceOf
<1> QED BY <1>4, <1>5 DEF more, c

\* What is picked grows by what the sequence grows by.
LEMMA PickedNext ==
  ASSUME NEW S, NEW s \in Seq(S), NEW e \in S, NEW places \in SUBSET (1 .. Len(s))
  PROVE  Picked(Append(s, e), places \cup {Len(s) + 1}) = Append(Picked(s, places), e)
<1> DEFINE more == places \cup {Len(s) + 1}
           n == Cardinality(places)
           t == Append(s, e)
<1>1. Len(s) \in Nat /\ n \in Nat /\ Cardinality(more) = n + 1
  <2>1. Len(s) \in Nat
    OBVIOUS
  <2>2. Cardinality(places) \in Nat
    BY <2>1, RankType
  <2>3. Cardinality(places \cup {Len(s) + 1}) = Cardinality(places) + 1
    BY <2>1, RankOfNext
  <2> QED BY <2>1, <2>2, <2>3
<1>2. /\ PlaceOf(more, n + 1) = Len(s) + 1
      /\ \A k \in 1 .. n : PlaceOf(more, k) = PlaceOf(places, k)
  BY <1>1, PlaceOfNext
<1>3. /\ t \in Seq(S) /\ Len(t) = Len(s) + 1 /\ t[Len(s) + 1] = e
      /\ \A i \in 1 .. Len(s) : t[i] = s[i]
  BY AppendProperties
<1>4. more \in SUBSET (1 .. Len(t))
  <2>1. \A i \in more : i \in 1 .. Len(s) + 1
    BY <1>1
  <2> HIDE DEF more, t
  <2> QED BY <1>3, <2>1
<1>5. Picked(t, more) \in Seq(S) /\ Len(Picked(t, more)) = n + 1
  BY <1>1, <1>3, <1>4, PickedType
<1>6. Picked(s, places) \in Seq(S) /\ Len(Picked(s, places)) = n
  BY PickedType
<1>7. \A k \in 1 .. n : PlaceOf(places, k) \in 1 .. Len(s)
  BY <1>1, PlaceOfIsThere
<1> HIDE DEF more, n, t
<1>8. /\ Append(Picked(s, places), e) \in Seq(S)
      /\ Len(Append(Picked(s, places), e)) = n + 1
      /\ Append(Picked(s, places), e)[n + 1] = e
      /\ \A k \in 1 .. n : Append(Picked(s, places), e)[k] = Picked(s, places)[k]
  BY <1>6, AppendProperties
<1>9. \A k \in 1 .. n + 1 : Picked(t, more)[k] = Append(Picked(s, places), e)[k]
  <2> TAKE k \in 1 .. n + 1
  <2>1. CASE k = n + 1
    BY <1>1, <1>2, <1>3, <1>8, <2>1 DEF Picked
  <2>2. CASE k \in 1 .. n
    <3>1. Picked(t, more)[k] = t[PlaceOf(places, k)]
      BY <1>1, <1>2, <2>2 DEF Picked
    <3>2. Picked(s, places)[k] = s[PlaceOf(places, k)]
      BY <2>2 DEF Picked, n
    <3> QED BY <1>3, <1>7, <1>8, <2>2, <3>1, <3>2
  <2>3. k = n + 1 \/ k \in 1 .. n
    BY <1>1
  <2> QED BY <2>1, <2>2, <2>3
<1> QED BY <1>5, <1>8, <1>9, SeqEqual DEF t, more

\* Who picks everything gets the sequence.
LEMMA PickedAll ==
  ASSUME NEW S, NEW s \in Seq(S)
  PROVE  Picked(s, DOMAIN s) = s
<1> DEFINE all == 1 .. Len(s)
<1>1. Len(s) \in Nat /\ DOMAIN s = all
  OBVIOUS
<1>2. \A i \in all : Rank(all, i) = i
  <2> TAKE i \in all
  <2>1. {j \in all : j <= i} = 1 .. i
    BY <1>1
  <2>2. Cardinality(1 .. i) = i
    BY <1>1, FS_Interval
  <2> QED BY <2>1, <2>2 DEF Rank
<1>3. Cardinality(all) = Len(s)
  BY <1>1, FS_Interval
<1>4. \A k \in all : PlaceOf(all, k) = k
  BY <1>2 DEF PlaceOf
<1>5. Picked(s, all) = [k \in all |-> s[k]]
  BY <1>3, <1>4 DEF Picked
<1> QED BY <1>1, <1>5

(***************************************************************************)
(* The task API (TaskApi)                                                  *)
(***************************************************************************)

StoredArtifacts == [subtask : SubtaskIds \cup {"none"}, artifact : Artifacts]

ApiTypeOK ==
  /\ durable \in Stores
  /\ step \in [Runs -> -1 .. Published]
  /\ kept \in [Runs -> SUBSET Everything]
  /\ replayed \in [Runs -> Seq(Events)]
  /\ artifacts \in [Runs -> SUBSET StoredArtifacts]
  /\ happened \in [events : [Runs -> Seq(Events)], artifacts : [Runs -> SUBSET StoredArtifacts]]
  /\ restarted \in BOOLEAN

\* What is saved comes in order, and all of it before the run begins; a restart
\* leaves of it what is durable, and no submission goes on.
SavedInOrder(r) ==
  /\ ~restarted \/ Postgres =>
       \A i \in 1 .. 5 : \A j \in 1 .. i : Saves[i] \in kept[r] => Saves[j] \in kept[r]
  /\ ~restarted /\ step[r] >= 0 => \A i \in 1 .. 5 : Saves[i] \in kept[r] <=> i <= step[r]
  /\ restarted => step[r] \in {-1, 6} /\ kept[r] \subseteq durable
  /\ step[r] = 6 /\ ("replay" \in durable \/ ~restarted) => "replay" \in kept[r]

\* What is there is what happened, as far as it outlives a restart.
AsHappened(r) ==
  /\ ~restarted \/ "replay" \in durable => replayed[r] = happened.events[r]
  /\ ~restarted \/ "artifacts" \in durable => artifacts[r] = happened.artifacts[r]
  /\ step[r] # 6 => happened.events[r] = <<>> /\ happened.artifacts[r] = {}
  /\ Len(replayed[r]) <= MaxRecorded

\* The reader has read the entries up to his cursor.
ReaderInPlace ==
  \/ pageReader = NoReader
  \/ /\ pageReader.run \in Runs /\ pageReader.filter \in Filters
     /\ LET all == Filtered(pageReader.run, pageReader.filter)
        IN /\ pageReader.cursor \in 0 .. Len(all)
           /\ pageReader.got = SubSeq(all, 1, pageReader.cursor)

ApiInv ==
  /\ ApiTypeOK
  /\ \A r \in Runs : SavedInOrder(r) /\ AsHappened(r)
  /\ ReaderInPlace

LEMMA SavesAre ==
  /\ Len(Saves) = 5 /\ Published = 6 /\ DOMAIN Saves = 1 .. 5
  /\ Saves[1] = "session" /\ Saves[2] = "task" /\ Saves[3] = "attached"
  /\ Saves[4] = "run" /\ Saves[5] = "replay"
  /\ ToSet(Saves) = {"session", "task", "attached", "run", "replay"}
<1>1. /\ Len(Saves) = 5 /\ DOMAIN Saves = 1 .. 5
      /\ Saves[1] = "session" /\ Saves[2] = "task" /\ Saves[3] = "attached"
      /\ Saves[4] = "run" /\ Saves[5] = "replay"
  BY DEF Saves
<1>2. ToSet(Saves) = {"session", "task", "attached", "run", "replay"}
  <2>1. 1 .. 5 = {1, 2, 3, 4, 5}
    OBVIOUS
  <2> QED BY <1>1, <2>1 DEF ToSet
<1> QED BY <1>1, <1>2 DEF Published

\* Stores other than Postgres keep at most the replays and the artifacts.
LEMMA StoresAre ==
  ASSUME ApiTypeOK
  PROVE  /\ Everything = {"session", "task", "attached", "run", "replay", "subtasks", "artifacts"}
         /\ Postgres \/ durable \subseteq {"replay", "artifacts"}
  BY SavesAre DEF ApiTypeOK, Stores, Everything, Postgres

-----------------------------------------------------------------------------
(* Filters and pages *)

Passing(r, filter) == {i \in DOMAIN replayed[r] : Matches(replayed[r][i], filter)}

LEMMA FilteredType ==
  ASSUME ApiTypeOK, NEW r \in Runs, NEW filter
  PROVE  Filtered(r, filter) \in Seq(Events)
<1>1. replayed[r] \in Seq(Events)
  BY DEF ApiTypeOK
<1>2. Passing(r, filter) \in SUBSET (1 .. Len(replayed[r]))
  BY <1>1 DEF Passing
<1> QED BY <1>1, <1>2, PickedType DEF Filtered, Passing

\* Without a filter all entries pass.
LEMMA FilteredAll ==
  ASSUME ApiTypeOK, NEW r \in Runs
  PROVE  Filtered(r, NoFilter) = replayed[r]
<1>1. replayed[r] \in Seq(Events)
  BY DEF ApiTypeOK
<1>2. Passing(r, NoFilter) = DOMAIN replayed[r]
  BY DEF Passing, Matches, NoFilter
<1> QED BY <1>1, <1>2, PickedAll DEF Filtered, Passing

\* An entry that is recorded comes last among those that pass, or does not pass.
LEMMA FilteredGrows ==
  ASSUME ApiTypeOK, NEW r \in Runs, NEW e \in Events, NEW filter,
         replayed' = [replayed EXCEPT ![r] = Append(@, e)]
  PROVE  \/ Filtered(r, filter)' = Filtered(r, filter)
         \/ Filtered(r, filter)' = Append(Filtered(r, filter), e)
<1> DEFINE s == replayed[r]
           places == Passing(r, filter)
<1>1. s \in Seq(Events) /\ replayed'[r] = Append(s, e)
  BY DEF ApiTypeOK
<1>2. /\ DOMAIN Append(s, e) = (DOMAIN s) \cup {Len(s) + 1}
      /\ \A i \in DOMAIN s : Append(s, e)[i] = s[i]
      /\ Append(s, e)[Len(s) + 1] = e
      /\ DOMAIN s = 1 .. Len(s)
  <2>1. /\ Append(s, e) \in Seq(Events) /\ Len(Append(s, e)) = Len(s) + 1
        /\ \A i \in 1 .. Len(s) : Append(s, e)[i] = s[i]
        /\ Append(s, e)[Len(s) + 1] = e
    BY <1>1, AppendProperties
  <2>2. DOMAIN Append(s, e) = 1 .. Len(s) + 1 /\ DOMAIN s = 1 .. Len(s) /\ Len(s) \in Nat
    BY <1>1, <2>1
  <2>3. 1 .. Len(s) + 1 = (1 .. Len(s)) \cup {Len(s) + 1}
    BY <2>2
  <2> QED BY <2>1, <2>2, <2>3
<1>3. places \in SUBSET (1 .. Len(s))
  BY <1>2 DEF Passing
<1> DEFINE later == {i \in DOMAIN Append(s, e) : Matches(Append(s, e)[i], filter)}
<1>4. Filtered(r, filter)' = Picked(Append(s, e), later)
  BY <1>1 DEF Filtered
<1>5. Filtered(r, filter) = Picked(s, places)
  BY DEF Filtered, Passing
<1>6. CASE Matches(e, filter)
  <2>1. later = places \cup {Len(s) + 1}
    BY <1>2, <1>6 DEF Passing
  <2>2. Picked(Append(s, e), places \cup {Len(s) + 1}) = Append(Picked(s, places), e)
    BY <1>1, <1>3, PickedNext
  <2> HIDE DEF s, places, later
  <2> QED BY <1>4, <1>5, <2>1, <2>2
<1>7. CASE ~Matches(e, filter)
  <2>1. later = places
    BY <1>2, <1>7 DEF Passing
  <2>2. Picked(Append(s, e), places) = Picked(s, places)
    BY <1>1, <1>3, PickedPrefix
  <2> HIDE DEF s, places, later
  <2> QED BY <1>4, <1>5, <2>1, <2>2
<1> QED BY <1>6, <1>7

\* A page goes from its start to a place not behind the end.
LEMMA PageIs ==
  ASSUME NEW S, NEW entries \in Seq(S), NEW start \in 0 .. Len(entries), NEW limit \in Int
  PROVE  LET size == IF limit > 1 THEN limit ELSE 1
             end == IF start + size < Len(entries) THEN start + size ELSE Len(entries)
         IN /\ Page(entries, start, limit) = SubSeq(entries, start + 1, end)
            /\ end \in start .. Len(entries)
            /\ Len(Page(entries, start, limit)) = end - start
<1> DEFINE size == IF limit > 1 THEN limit ELSE 1
           end == IF start + size < Len(entries) THEN start + size ELSE Len(entries)
<1>1. Len(entries) \in Nat /\ size \in Nat /\ size >= 1
  OBVIOUS
<1>2. Min({Len(entries), start + size}) = end
  <2> HIDE DEF size
  <2>1. \A m, n \in Int : Min({m, n}) = IF n < m THEN n ELSE m
    BY DEF Min
  <2> QED BY <1>1, <2>1
<1>3. end \in start .. Len(entries)
  BY <1>1
<1>4. Page(entries, start, limit) = SubSeq(entries, start + 1, end)
  BY <1>2 DEF Page
<1> HIDE DEF end, size
<1>5. Len(SubSeq(entries, start + 1, end)) = end - start
  <2>1. \A i \in start + 1 .. end : entries[i] \in S
    BY <1>1, <1>3
  <2>2. Len(SubSeq(entries, start + 1, end)) =
          IF start + 1 <= end THEN end - (start + 1) + 1 ELSE 0
    BY <1>1, <1>3, <2>1, SubSeqProperties
  <2> QED BY <1>1, <1>3, <2>2
<1> QED BY <1>3, <1>4, <1>5 DEF end, size

-----------------------------------------------------------------------------
(* The steps *)

LEMMA ApiInvInit == ApiInit => ApiInv
<1> SUFFICES ASSUME ApiInit PROVE ApiInv
  OBVIOUS
<1>1. ApiTypeOK
  <2>1. step \in [Runs -> -1 .. Published]
    BY SavesAre DEF ApiInit
  <2>2. kept \in [Runs -> SUBSET Everything] /\ artifacts \in [Runs -> SUBSET StoredArtifacts]
    BY DEF ApiInit
  <2>3. replayed \in [Runs -> Seq(Events)]
    <3>1. <<>> \in Seq(Events)
      OBVIOUS
    <3> QED BY <3>1 DEF ApiInit
  <2> QED BY <2>1, <2>2, <2>3 DEF ApiInit, ApiTypeOK
<1>2. ASSUME NEW r \in Runs PROVE SavedInOrder(r) /\ AsHappened(r)
  <2>1. step[r] = 0 /\ kept[r] = {} /\ replayed[r] = <<>> /\ artifacts[r] = {}
    BY DEF ApiInit
  <2>2. happened.events[r] = <<>> /\ happened.artifacts[r] = {} /\ ~restarted
    BY DEF ApiInit
  <2>3. SavedInOrder(r)
    BY <2>1, <2>2 DEF SavedInOrder
  <2> QED BY <2>1, <2>2, <2>3, ApiAssumption DEF AsHappened
<1> QED BY <1>1, <1>2 DEF ApiInv, ReaderInPlace, ApiInit

\* What reading answers depends on the replay alone.
LEMMA ReaderStays ==
  ASSUME ReaderInPlace, UNCHANGED <<replayed, pageReader>>
  PROVE  ReaderInPlace'
  BY DEF ReaderInPlace, Filtered, Matches

LEMMA SubmitStep ==
  ASSUME ApiInv, NEW r \in Runs, Submit(r) PROVE ApiInv'
<1> USE DEF ApiInv
<1>1. step[r] \in 0 .. 5 /\ step' = [step EXCEPT ![r] = @ + 1] /\ step'[r] = step[r] + 1
  BY SavesAre DEF Submit, ApiTypeOK
<1>2. UNCHANGED <<durable, replayed, artifacts, happened, restarted, pageReader>> /\ ~restarted
  BY <1>1 DEF Submit, SavedInOrder
<1>3. \/ step'[r] = 6 /\ kept' = kept
      \/ step'[r] \in 1 .. 5 /\ kept' = [kept EXCEPT ![r] = @ \cup {Saves[step'[r]]}]
  BY <1>1, SavesAre DEF Submit
<1>4. ApiTypeOK'
  <2>1. step' \in [Runs -> -1 .. Published]
    BY <1>1, SavesAre DEF ApiTypeOK
  <2>2. \A i \in 1 .. 5 : Saves[i] \in Everything
    BY SavesAre DEF Everything
  <2>3. kept' \in [Runs -> SUBSET Everything]
    <3>1. kept \in [Runs -> SUBSET Everything]
      BY DEF ApiTypeOK
    <3>2. CASE step'[r] \in 1 .. 5 /\ kept' = [kept EXCEPT ![r] = @ \cup {Saves[step'[r]]}]
      <4>1. Saves[step'[r]] \in Everything
        BY <2>2, <3>2
      <4> QED BY <3>1, <3>2, <4>1
    <3> QED BY <1>3, <3>1, <3>2
  <2> QED BY <1>2, <2>1, <2>3 DEF ApiTypeOK
<1>5. ASSUME NEW q \in Runs PROVE SavedInOrder(q)' /\ AsHappened(q)'
  <2>1. CASE q # r
    <3>1. step'[q] = step[q] /\ kept'[q] = kept[q]
      BY <1>1, <1>3, <2>1 DEF ApiTypeOK
    <3>2. Postgres' = Postgres
      BY <1>2 DEF Postgres
    <3> QED BY <1>2, <3>1, <3>2 DEF SavedInOrder, AsHappened
  <2>2. CASE q = r
    <3>1. AsHappened(q)'
      BY <1>1, <1>2, <2>2 DEF AsHappened
    <3>2. \A i \in 1 .. 5 : Saves[i] \in kept'[r] <=> i <= step'[r]
      <4>1. \A i \in 1 .. 5 : Saves[i] \in kept[r] <=> i <= step[r]
        BY <1>1, <1>2 DEF SavedInOrder
      <4>2. CASE step'[r] = 6 /\ kept' = kept
        BY <1>1, <4>1, <4>2
      <4>3. CASE step'[r] \in 1 .. 5 /\ kept' = [kept EXCEPT ![r] = @ \cup {Saves[step'[r]]}]
        <5>1. kept'[r] = kept[r] \cup {Saves[step'[r]]}
          BY <4>3 DEF ApiTypeOK
        <5>2. \A i, j \in 1 .. 5 : Saves[i] = Saves[j] => i = j
          BY SavesAre
        <5> QED BY <1>1, <4>1, <4>3, <5>1, <5>2
      <4> QED BY <1>3, <4>2, <4>3
    <3>3. step'[r] = 6 => "replay" \in kept'[r]
      BY <3>2, SavesAre
    <3> QED BY <1>1, <1>2, <2>2, <3>1, <3>2, <3>3 DEF SavedInOrder
  <2> QED BY <2>1, <2>2
<1> QED BY <1>2, <1>4, <1>5, ReaderStays

LEMMA SubmitRaisesStep ==
  ASSUME ApiInv, NEW r \in Runs, SubmitRaises(r) PROVE ApiInv'
<1> USE DEF ApiInv
<1>1. step[r] \in 0 .. 4 /\ step' = [step EXCEPT ![r] = -1]
  BY SavesAre DEF SubmitRaises
<1>2. UNCHANGED <<durable, kept, replayed, artifacts, happened, restarted, pageReader>>
  BY DEF SubmitRaises
<1>3. ApiTypeOK'
  BY <1>1, <1>2, SavesAre DEF ApiTypeOK
<1>4. ASSUME NEW q \in Runs PROVE SavedInOrder(q)' /\ AsHappened(q)'
  <2>1. step'[q] = (IF q = r THEN -1 ELSE step[q])
    BY <1>1 DEF ApiTypeOK
  <2>2. Postgres' = Postgres
    BY <1>2 DEF Postgres
  <2>3. AsHappened(q)'
    BY <1>1, <1>2, <2>1 DEF AsHappened
  <2>4. SavedInOrder(q)'
    BY <1>1, <1>2, <2>1, <2>2 DEF SavedInOrder
  <2> QED BY <2>3, <2>4
<1> QED BY <1>2, <1>3, <1>4, ReaderStays

LEMMA StoreSubtasksStep ==
  ASSUME ApiInv, NEW r \in Runs, StoreSubtasks(r) PROVE ApiInv'
<1> USE DEF ApiInv
<1>1. kept' = [kept EXCEPT ![r] = @ \cup {"subtasks"}] /\ ~restarted
  BY DEF StoreSubtasks, Running
<1>2. UNCHANGED <<durable, step, replayed, artifacts, happened, restarted, pageReader>>
  BY DEF StoreSubtasks
<1>3. ApiTypeOK'
  BY <1>1, <1>2 DEF ApiTypeOK, Everything
<1>4. ASSUME NEW q \in Runs PROVE SavedInOrder(q)' /\ AsHappened(q)'
  <2>1. \A i \in 1 .. 5 : Saves[i] \in kept'[q] <=> Saves[i] \in kept[q]
    BY <1>1, SavesAre DEF ApiTypeOK
  <2>2. "replay" \in kept'[q] <=> "replay" \in kept[q]
    BY <1>1 DEF ApiTypeOK
  <2>3. SavedInOrder(q)'
    BY <1>1, <1>2, <2>1, <2>2 DEF SavedInOrder, Postgres
  <2>4. AsHappened(q)'
    BY <1>2 DEF AsHappened
  <2> QED BY <2>3, <2>4
<1> QED BY <1>2, <1>3, <1>4, ReaderStays

\* The reader of the run keeps his place in a longer list.
LEMMA ReaderKeepsPlace ==
  ASSUME ApiInv, NEW r \in Runs, NEW e \in Events,
         replayed' = [replayed EXCEPT ![r] = Append(@, e)], pageReader' = pageReader
  PROVE  ReaderInPlace'
<1> USE DEF ApiInv
<1> SUFFICES ASSUME pageReader # NoReader PROVE ReaderInPlace'
  BY DEF ReaderInPlace
<1> DEFINE q == pageReader.run
           all == Filtered(q, pageReader.filter)
           n == pageReader.cursor
<1>1. /\ q \in Runs /\ pageReader.filter \in Filters
      /\ n \in 0 .. Len(all) /\ pageReader.got = SubSeq(all, 1, n)
  BY DEF ReaderInPlace
<1>2. all \in Seq(Events)
  BY <1>1, FilteredType
<1>3. all' = all \/ all' = Append(all, e)
  <2>1. CASE q = r
    BY <1>1, <2>1, FilteredGrows
  <2>2. CASE q # r
    <3>1. replayed'[q] = replayed[q]
      BY <1>1, <2>2 DEF ApiTypeOK
    <3> QED BY <3>1 DEF Filtered, Matches
  <2> QED BY <2>1, <2>2
<1>4. CASE all' = all
  BY <1>1, <1>4 DEF ReaderInPlace
<1>5. CASE all' = Append(all, e)
  <2> HIDE DEF all
  <2>1. Len(Append(all, e)) = Len(all) + 1 /\ n \in 0 .. Len(Append(all, e))
    BY <1>1, <1>2
  <2>2. SubSeq(Append(all, e), 1, n) = SubSeq(all, 1, n)
    BY <1>1, <1>2
  <2> QED BY <1>1, <1>5, <2>1, <2>2 DEF ReaderInPlace, all
<1> QED BY <1>3, <1>4, <1>5

LEMMA RecordEventStep ==
  ASSUME ApiInv, NEW r \in Runs, NEW e \in Events, RecordEvent(r, e) PROVE ApiInv'
<1> USE DEF ApiInv
<1>1. /\ replayed' = [replayed EXCEPT ![r] = Append(@, e)]
      /\ happened' = [happened EXCEPT !.events = replayed']
      /\ UNCHANGED <<durable, step, kept, artifacts, restarted, pageReader>>
      /\ step[r] = 6 /\ ~restarted /\ Len(replayed[r]) < MaxRecorded
  BY SavesAre DEF RecordEvent, Running
<1>2. replayed' \in [Runs -> Seq(Events)]
  BY <1>1 DEF ApiTypeOK
<1>3. ApiTypeOK'
  BY <1>1, <1>2 DEF ApiTypeOK
<1>4. ASSUME NEW q \in Runs PROVE SavedInOrder(q)' /\ AsHappened(q)'
  <2>1. SavedInOrder(q)'
    BY <1>1 DEF SavedInOrder, Postgres
  <2>2. happened'.events = replayed' /\ happened'.artifacts = happened.artifacts
    BY <1>1 DEF ApiTypeOK
  <2>3. Len(replayed'[q]) <= MaxRecorded
    <3>1. CASE q = r
      <4>1. replayed[r] \in Seq(Events) /\ replayed'[r] = Append(replayed[r], e)
        BY <1>1 DEF ApiTypeOK
      <4>2. Len(Append(replayed[r], e)) = Len(replayed[r]) + 1 /\ Len(replayed[r]) \in Nat
        BY <4>1
      <4> QED BY <1>1, <3>1, <4>1, <4>2, ApiAssumption
    <3>2. CASE q # r
      BY <1>1, <3>2 DEF ApiTypeOK, AsHappened
    <3> QED BY <3>1, <3>2
  <2>4. step[q] # 6 => replayed'[q] = replayed[q]
    BY <1>1 DEF ApiTypeOK
  <2>5. replayed[q] = happened.events[q]
    BY <1>1 DEF AsHappened
  <2>6. AsHappened(q)'
    BY <1>1, <2>2, <2>3, <2>4, <2>5 DEF AsHappened
  <2> QED BY <2>1, <2>6
<1> QED BY <1>1, <1>3, <1>4, ReaderKeepsPlace

LEMMA CreateArtifactStep ==
  ASSUME ApiInv, NEW r \in Runs, NEW s \in SubtaskIds \cup {"none"}, NEW a \in Artifacts,
         CreateArtifact(r, s, a)
  PROVE  ApiInv'
<1> USE DEF ApiInv
<1>1. /\ artifacts' = [artifacts EXCEPT ![r] = @ \cup {[subtask |-> s, artifact |-> a]}]
      /\ happened' = [happened EXCEPT !.artifacts = artifacts']
      /\ UNCHANGED <<durable, step, kept, replayed, restarted, pageReader>>
      /\ step[r] = 6 /\ ~restarted
  BY SavesAre DEF CreateArtifact, Running
<1>2. artifacts' \in [Runs -> SUBSET StoredArtifacts]
  BY <1>1 DEF ApiTypeOK, StoredArtifacts
<1>3. ApiTypeOK'
  BY <1>1, <1>2 DEF ApiTypeOK
<1>4. ASSUME NEW q \in Runs PROVE SavedInOrder(q)' /\ AsHappened(q)'
  <2>1. SavedInOrder(q)'
    BY <1>1 DEF SavedInOrder, Postgres
  <2>2. happened'.artifacts = artifacts' /\ happened'.events = happened.events
    BY <1>1 DEF ApiTypeOK
  <2>3. step[q] # 6 => artifacts'[q] = artifacts[q]
    BY <1>1 DEF ApiTypeOK
  <2>4. artifacts[q] = happened.artifacts[q]
    BY <1>1 DEF AsHappened
  <2>5. AsHappened(q)'
    BY <1>1, <2>2, <2>3, <2>4 DEF AsHappened
  <2> QED BY <2>1, <2>5
<1> QED BY <1>1, <1>3, <1>4, ReaderStays

LEMMA RestartApiStep ==
  ASSUME ApiInv, RestartApi PROVE ApiInv'
<1> USE DEF ApiInv
<1>1. /\ ~restarted /\ restarted' = TRUE /\ UNCHANGED <<durable, happened>>
      /\ kept' = [r \in Runs |-> kept[r] \cap durable]
      /\ replayed' = [r \in Runs |-> IF "replay" \in durable THEN replayed[r] ELSE <<>>]
      /\ artifacts' = [r \in Runs |-> IF "artifacts" \in durable THEN artifacts[r] ELSE {}]
      /\ step' = [r \in Runs |-> IF step[r] = 6 THEN 6 ELSE -1]
      /\ pageReader' = IF "replay" \in durable THEN pageReader ELSE NoReader
  BY SavesAre DEF RestartApi
<1>2. ApiTypeOK'
  BY <1>1, SavesAre DEF ApiTypeOK
<1>3. ASSUME NEW q \in Runs PROVE SavedInOrder(q)' /\ AsHappened(q)'
  <2>1. step'[q] = (IF step[q] = 6 THEN 6 ELSE -1) /\ kept'[q] = kept[q] \cap durable
    BY <1>1
  <2>2. Postgres' => kept'[q] = kept[q]
    BY <1>1, <2>1 DEF Postgres, ApiTypeOK
  <2>3. SavedInOrder(q)'
    BY <1>1, <2>1, <2>2 DEF SavedInOrder, Postgres
  <2>4. Len(replayed'[q]) <= MaxRecorded
    BY <1>1, ApiAssumption DEF AsHappened
  <2>5. AsHappened(q)'
    BY <1>1, <2>1, <2>4 DEF AsHappened
  <2> QED BY <2>3, <2>5
<1>4. ReaderInPlace'
  <2>1. CASE "replay" \in durable
    <3>1. replayed' = replayed
      BY <1>1, <2>1 DEF ApiTypeOK
    <3> QED BY <1>1, <2>1, <3>1, ReaderStays
  <2>2. CASE "replay" \notin durable
    BY <1>1, <2>2 DEF ReaderInPlace
  <2> QED BY <2>1, <2>2
<1> QED BY <1>2, <1>3, <1>4

\* A page that brings the reader forward goes on where he is.
LEMMA ReadEventsStep ==
  ASSUME ApiInv, NEW r \in Runs, NEW filter \in Filters, ReadEvents(r, filter) PROVE ApiInv'
<1> USE DEF ApiInv
<1> DEFINE all == Filtered(r, filter)
           n == pageReader.cursor
           answer == GetEvents(r, filter, n, ApiPageLimit)
<1>1. /\ UNCHANGED <<durable, step, kept, replayed, artifacts, happened, restarted>>
      /\ answer.body.next > n /\ answer.status = 200
      /\ pageReader' = [run |-> r, filter |-> filter, cursor |-> answer.body.next,
                        got |-> pageReader.got \o answer.body.events]
  BY DEF ReadEvents
<1>2. all \in Seq(Events)
  BY FilteredType
<1>3. n \in 0 .. Len(all) /\ pageReader.got = SubSeq(all, 1, n)
  <2>1. CASE pageReader = NoReader
    <3>1. n = 0 /\ pageReader.got = <<>>
      BY <2>1 DEF NoReader
    <3> QED BY <1>2, <3>1
  <2>2. CASE pageReader # NoReader
    <3>1. pageReader.run # "none"
      BY <2>2, ApiAssumption DEF ReaderInPlace
    <3>2. pageReader.run = r /\ pageReader.filter = filter
      BY <3>1 DEF ReadEvents
    <3> QED BY <2>2, <3>2 DEF ReaderInPlace
  <2> QED BY <2>1, <2>2
<1>4. answer = Found(EventPage(r, filter, n, ApiPageLimit))
  <2>1. CASE "replay" \in kept[r]
    BY <1>1, <2>1 DEF GetEvents, NotFound
  <2>2. CASE "replay" \notin kept[r]
    <3>1. answer = Found([events |-> <<>>, next |-> n])
      BY <1>1, <2>2 DEF GetEvents, NotFound
    <3> QED BY <1>1, <1>3, <3>1 DEF Found
  <2> QED BY <2>1, <2>2
<1> DEFINE page == Page(all, n, ApiPageLimit)
<1>5. answer.body.events = page /\ answer.body.next = n + Len(page)
  <2>1. (IF n > 0 THEN n ELSE 0) = n
    BY <1>3
  <2>2. EventPage(r, filter, n, ApiPageLimit) = [events |-> page, next |-> n + Len(page)]
    BY <2>1 DEF EventPage
  <2> QED BY <1>4, <2>2 DEF Found
<1> HIDE DEF all, answer
<1>6. PICK end \in n .. Len(all) : page = SubSeq(all, n + 1, end) /\ Len(page) = end - n
  BY <1>2, <1>3, PageIs, ApiAssumption
<1>7. SubSeq(all, 1, n) \o SubSeq(all, n + 1, end) = SubSeq(all, 1, end)
  <2>1. Len(all) \in Nat /\ n \in 1 - 1 .. Len(all) /\ 1 \in 1 .. Len(all) + 1
    BY <1>2, <1>3
  <2> QED BY <1>2, <1>6, <2>1, ConcatAdjacentSubSeq
<1>8. n + Len(page) = end
  BY <1>2, <1>3, <1>6
<1>9. pageReader' = [run |-> r, filter |-> filter, cursor |-> end, got |-> SubSeq(all, 1, end)]
  BY <1>1, <1>3, <1>5, <1>6, <1>7, <1>8
<1>10. all' = all
  BY <1>1 DEF all, Filtered, Matches
<1>11. ReaderInPlace'
  BY <1>2, <1>3, <1>6, <1>9, <1>10 DEF ReaderInPlace, all
<1>12. ApiTypeOK' /\ \A q \in Runs : SavedInOrder(q)' /\ AsHappened(q)'
  BY <1>1 DEF ApiTypeOK, SavedInOrder, AsHappened, Postgres
<1> QED BY <1>11, <1>12

LEMMA ApiInvStep == ApiInv /\ [ApiNext]_apiVars => ApiInv'
<1> SUFFICES ASSUME ApiInv, [ApiNext]_apiVars PROVE ApiInv'
  OBVIOUS
<1>1. CASE UNCHANGED apiVars
  <2>1. UNCHANGED <<durable, step, kept, replayed, artifacts, happened, restarted, pageReader>>
    BY <1>1 DEF apiVars
  <2>2. ReaderInPlace'
    BY <2>1, ReaderStays DEF ApiInv
  <2> QED BY <2>1, <2>2 DEF ApiInv, ApiTypeOK, SavedInOrder, AsHappened, Postgres
<1> QED BY <1>1, SubmitStep, SubmitRaisesStep, StoreSubtasksStep, RecordEventStep,
          CreateArtifactStep, RestartApiStep, ReadEventsStep DEF ApiNext

-----------------------------------------------------------------------------
(* What the invariant says to a client *)

LEMMA NothingDanglesFollows == ApiInv => NothingDangles
<1> SUFFICES ASSUME ApiInv, NEW r \in Runs
             PROVE /\ ~restarted \/ Postgres =>
                        \A i \in DOMAIN Saves : \A j \in 1 .. i :
                          Saves[i] \in kept[r] => Saves[j] \in kept[r]
                   /\ Running(r) => ToSet(Saves) \subseteq kept[r]
                   /\ step[r] # Published =>
                        happened.events[r] = <<>> /\ happened.artifacts[r] = {}
  BY DEF NothingDangles
<1>1. SavedInOrder(r) /\ AsHappened(r)
  BY DEF ApiInv
<1>2. Running(r) => \A i \in 1 .. 5 : Saves[i] \in kept[r]
  BY <1>1, SavesAre DEF Running, SavedInOrder
<1>3. Running(r) => ToSet(Saves) \subseteq kept[r]
  BY <1>2 , SavesAre
<1> QED BY <1>1, <1>3, SavesAre DEF SavedInOrder, AsHappened

LEMMA EventsReadOnceFollows == ApiInv => EventsReadOnce
<1> SUFFICES ASSUME ApiInv, pageReader.run # "none"
             PROVE LET all == Filtered(pageReader.run, pageReader.filter)
                   IN /\ pageReader.cursor <= Len(all)
                      /\ pageReader.got = SubSeq(all, 1, pageReader.cursor)
  BY DEF EventsReadOnce
<1>1. pageReader # NoReader
  BY DEF NoReader
<1>2. pageReader.run \in Runs
  BY <1>1 DEF ApiInv, ReaderInPlace
<1>3. Filtered(pageReader.run, pageReader.filter) \in Seq(Events)
  BY <1>2, FilteredType DEF ApiInv
<1> QED BY <1>1, <1>3 DEF ApiInv, ReaderInPlace

\* A run whose replay is there has all its events on one page that is long
\* enough, and those of a subtask that has any.
LEMMA EventsAreFound ==
  ASSUME ApiInv, NEW r \in Runs, step[r] = 6, "replay" \in durable \/ ~restarted
  PROVE  /\ GetEvents(r, NoFilter, 0, MaxRecorded) =
              Found([events |-> happened.events[r], next |-> Len(happened.events[r])])
         /\ \A e \in ToSet(happened.events[r]) : e.subtask \in SubtaskIds =>
              GetEvents(r, [NoFilter EXCEPT !.subtask = e.subtask], 0, 1).status = 200
<1> USE DEF ApiInv
<1> DEFINE s == replayed[r]
<1>1. "replay" \in kept[r] /\ s = happened.events[r] /\ Len(s) <= MaxRecorded
  BY DEF SavedInOrder, AsHappened
<1>2. s \in Seq(Events) /\ Len(s) \in Nat /\ MaxRecorded \in Nat
  BY ApiAssumption DEF ApiTypeOK
<1>3. Filtered(r, NoFilter) = s
  BY FilteredAll
<1> HIDE DEF s
<1>4. Page(s, 0, MaxRecorded) = s
  <2> DEFINE size == IF MaxRecorded > 1 THEN MaxRecorded ELSE 1
             end == IF 0 + size < Len(s) THEN 0 + size ELSE Len(s)
  <2>1. Page(s, 0, MaxRecorded) = SubSeq(s, 0 + 1, end)
    <3>1. 0 \in 0 .. Len(s) /\ MaxRecorded \in Int
      BY <1>2
    <3> QED BY <1>2, <3>1, PageIs
  <2>2. end = Len(s)
    BY <1>1, <1>2
  <2>3. SubSeq(s, 1, Len(s)) = s
    BY <1>2, SubSeqFull
  <2> HIDE DEF end
  <2> QED BY <2>1, <2>2, <2>3
<1>5. EventPage(r, NoFilter, 0, MaxRecorded) = [events |-> s, next |-> Len(s)]
  BY <1>2, <1>3, <1>4 DEF EventPage
<1>6. GetEvents(r, NoFilter, 0, MaxRecorded) = Found([events |-> s, next |-> Len(s)])
  BY <1>1, <1>5 DEF GetEvents, NoFilter
<1>7. ASSUME NEW e \in ToSet(s)
      PROVE  GetEvents(r, [NoFilter EXCEPT !.subtask = e.subtask], 0, 1).status = 200
  BY <1>1, <1>7 DEF GetEvents, NoFilter, Found, s
<1> QED BY <1>1, <1>6, <1>7

\* An artifact that outlives a restart is listed and has its content.
LEMMA ArtifactsAreFound ==
  ASSUME ApiInv, NEW r \in Runs, "artifacts" \in durable \/ ~restarted,
         NEW a \in happened.artifacts[r]
  PROVE  /\ a.subtask \in SubtaskIds => a \in GetArtifacts(r, a.subtask).body
         /\ LET there == ReadContent(FALSE, a.artifact)
            IN \/ Download(r, a) = (IF there = "none" THEN NotFound ELSE Found(there))
               \/ Postgres /\ a.artifact.payload = "" /\ a.artifact.content = "none"
<1> USE DEF ApiInv
<1>1. a \in artifacts[r] /\ a \in StoredArtifacts
  BY DEF AsHappened, ApiTypeOK
<1>2. a \in OfSubtask(r, a.subtask)
  BY <1>1 DEF OfSubtask
<1>3. a \in GetArtifacts(r, a.subtask).body
  BY <1>2 DEF GetArtifacts, Found
<1>4. a.artifact.payload = "" => a.artifact.content \in {"", "none"}
  <2>1. a.artifact \in Artifacts
    BY <1>1 DEF StoredArtifacts
  <2>2. \/ a.artifact \in {FileArtifact(TRUE, "bytes"), FileArtifact(FALSE, "bytes")}
        \/ a.artifact \in {FileArtifact(TRUE, ""), FileArtifact(FALSE, "")}
        \/ a.artifact = [of |-> "summary", payload |-> "none", content |-> "none"]
        \/ a.artifact = [of |-> "stdout", payload |-> "none", content |-> "text"]
        \/ a.artifact = [of |-> "skill file", payload |-> "bytes", content |-> "text"]
        \/ a.artifact = [of |-> "trace", payload |-> "none", content |-> "none"]
    BY <2>1, Zenon DEF Artifacts
  <2>3. ASSUME a.artifact \in {FileArtifact(TRUE, "bytes"), FileArtifact(FALSE, "bytes")}
        PROVE  a.artifact.payload # ""
    <3>1. \A isText : FileArtifact(isText, "bytes").payload = "bytes"
      BY DEF FileArtifact
    <3> QED BY <2>3, <3>1
  <2>4. ASSUME a.artifact \in {FileArtifact(TRUE, ""), FileArtifact(FALSE, "")}
        PROVE  a.artifact.content \in {"", "none"}
    <3>1. \A isText : FileArtifact(isText, "").content = IF ~isText THEN "none" ELSE ""
      BY DEF FileArtifact
    <3> QED BY <2>4, <3>1
  <2>5. ASSUME \E of \in {"summary", "stdout", "skill file", "trace"},
                  payload \in {"none", "bytes"}, content \in {"none", "text"} :
                  a.artifact = [of |-> of, payload |-> payload, content |-> content]
        PROVE  a.artifact.payload # ""
    <3>1. PICK of \in {"summary", "stdout", "skill file", "trace"},
                  payload \in {"none", "bytes"}, content \in {"none", "text"} :
                  a.artifact = [of |-> of, payload |-> payload, content |-> content]
      BY <2>5
    <3>2. [of |-> of, payload |-> payload, content |-> content].payload = payload
      OBVIOUS
    <3>3. a.artifact.payload = payload
      BY <3>1, <3>2, Zenon
    <3> QED BY <3>3
  <2>6. a.artifact.payload # "" \/ a.artifact.content \in {"", "none"}
    BY <2>2, <2>3, <2>4, <2>5, Zenon
  <2> QED BY <2>6
<1>5. \/ Download(r, a) = (IF ReadContent(FALSE, a.artifact) = "none" THEN NotFound
                           ELSE Found(ReadContent(FALSE, a.artifact)))
      \/ Postgres /\ a.artifact.payload = "" /\ a.artifact.content = "none"
  BY <1>1, <1>4 DEF Download, ReadContent
<1> QED BY <1>3, <1>5

LEMMA ReadableAfterRestartFollows == ApiInv => ReadableAfterRestart
<1> SUFFICES ASSUME ApiInv, NEW r \in Runs
             PROVE /\ restarted /\ "replay" \notin durable =>
                        GetEvents(r, NoFilter, 0, 1) = NotFound
                   /\ restarted /\ ~Postgres => TaskDetail(r) = NotFound /\ RunDetail(r) = NotFound
                   /\ [task |-> r, run |-> TRUE] \in ListTasks <=> RunDetail(r) # NotFound
  BY EventsAreFound, ArtifactsAreFound, SavesAre DEF ReadableAfterRestart
<1>1. SavedInOrder(r)
  BY DEF ApiInv
<1>2. /\ Everything = {"session", "task", "attached", "run", "replay", "subtasks", "artifacts"}
      /\ Postgres \/ durable \subseteq {"replay", "artifacts"}
  BY StoresAre DEF ApiInv
<1>3. restarted /\ ~Postgres => "task" \notin kept[r] /\ "run" \notin kept[r]
  BY <1>1, <1>2 DEF SavedInOrder
<1>4. restarted /\ "replay" \notin durable => "replay" \notin kept[r] /\ ~Postgres
  BY <1>1, <1>2 DEF SavedInOrder, Postgres
<1>5. "run" \in kept[r] => "task" \in kept[r]
  BY <1>1, <1>3, SavesAre DEF SavedInOrder
<1>6. [task |-> r, run |-> TRUE] \in ListTasks <=> "task" \in kept[r] /\ "run" \in kept[r]
  <2>1. ASSUME NEW q \in Runs, [task |-> r, run |-> TRUE] = [task |-> q, run |-> "run" \in kept[q]]
        PROVE  q = r /\ "run" \in kept[q]
    BY <2>1
  <2> QED BY <2>1 DEF ListTasks
<1>7. RunDetail(r) # NotFound <=> "run" \in kept[r]
  BY DEF RunDetail, NotFound, Found
<1> QED BY <1>3, <1>4, <1>5, <1>6, <1>7 DEF GetEvents, TaskDetail, RunDetail

\* What a client of the task API is told, for any runs, filters, page sizes and
\* repositories, and whatever write of a submission fails (submit_task,
\* build_run_events_response, build_subtask_events_response, the repositories).
THEOREM ApiIsTrueHolds == ApiSpec => []ApiIsTrue
<1>1. ApiInit => ApiInv
  BY ApiInvInit
<1>2. ApiInv /\ [ApiNext]_apiVars => ApiInv'
  BY ApiInvStep
<1>3. ApiInv => ApiIsTrue
  BY NothingDanglesFollows, EventsReadOnceFollows, ReadableAfterRestartFollows DEF ApiIsTrue
<1> QED BY <1>1, <1>2, <1>3, PTL DEF ApiSpec

(***************************************************************************)
(* The answer of an agent (AgentAnswer)                                    *)
(***************************************************************************)

Tellers == Calling \cup {"policy", "runtime", "skill", "validation", "subtask", "execution",
                         "artifact"}
Whats == Ending \cup {"started", "denied", "selected", "executed", "fallback", "created",
                      "terminal", "succeeded", "running"}
AnswerEvents == [of : Tellers, what : Whats]

-----------------------------------------------------------------------------
(* Reading the events *)

\* The function that InProgress reads by, up to an event.
Reads(open, s, n) ==
  open = [k \in 0 .. n |-> IF k = 0 THEN <<>> ELSE ReadOn(open[k - 1], s[k])]

LEMMA ReadsToTheEnd == ASSUME NEW s, NEW n \in Nat PROVE \E open : Reads(open, s, n)
<1> DEFINE K == {k \in Nat : \E open : Reads(open, s, k)}
<1>1. 0 \in K
  <2>1. [k \in 0 .. 0 |-> <<>>] =
          [k \in 0 .. 0 |-> IF k = 0 THEN <<>> ELSE ReadOn([j \in 0 .. 0 |-> <<>>][k - 1], s[k])]
    OBVIOUS
  <2> QED BY <2>1 DEF Reads
<1>2. ASSUME NEW m \in Nat, m \in K PROVE m + 1 \in K
  <2>1. PICK open : open = [k \in 0 .. m |-> IF k = 0 THEN <<>> ELSE ReadOn(open[k - 1], s[k])]
    BY <1>2 DEF Reads
  <2> DEFINE more == [k \in 0 .. m + 1 |-> IF k = m + 1 THEN ReadOn(open[m], s[k]) ELSE open[k]]
  <2>2. \A k \in 0 .. m : more[k] = open[k]
    OBVIOUS
  <2>3. \A k \in 0 .. m + 1 :
          more[k] = IF k = 0 THEN <<>> ELSE ReadOn(more[k - 1], s[k])
    <3> TAKE k \in 0 .. m + 1
    <3>1. CASE k = m + 1
      BY <2>2, <3>1
    <3>2. CASE k \in 0 .. m
      <4>1. open[k] = IF k = 0 THEN <<>> ELSE ReadOn(open[k - 1], s[k])
        BY <2>1, <3>2
      <4>2. k # 0 => k - 1 \in 0 .. m
        BY <3>2
      <4> HIDE DEF more
      <4> QED BY <2>2, <3>2, <4>1, <4>2
    <3>3. k = m + 1 \/ k \in 0 .. m
      OBVIOUS
    <3> QED BY <3>1, <3>2, <3>3
  <2>4. more = [k \in 0 .. m + 1 |-> more[k]]
    OBVIOUS
  <2> HIDE DEF more
  <2>5. more = [k \in 0 .. m + 1 |-> IF k = 0 THEN <<>> ELSE ReadOn(more[k - 1], s[k])]
    BY <2>3, <2>4
  <2> QED BY <2>5 DEF Reads
<1> HIDE DEF K
<1>3. Nat \subseteq K
  BY <1>1, <1>2, NaturalSet
<1> QED BY <1>3 DEF K

LEMMA InProgressReads ==
  ASSUME NEW S, NEW s \in Seq(S)
  PROVE  \E open : Reads(open, s, Len(s)) /\ InProgress(s) = open[Len(s)]
<1>1. \E open : Reads(open, s, Len(s))
  <2>1. Len(s) \in Nat
    OBVIOUS
  <2> QED BY <2>1, ReadsToTheEnd
<1> DEFINE chosen == CHOOSE open : Reads(open, s, Len(s))
<1>2. Reads(chosen, s, Len(s))
  BY <1>1
<1>3. InProgress(s) = chosen[Len(s)]
  BY DEF InProgress, Reads
<1> HIDE DEF chosen
<1> QED BY <1>2, <1>3

LEMMA InProgressNone == InProgress(<<>>) = <<>>
<1>1. PICK open : Reads(open, <<>>, 0) /\ InProgress(<<>>) = open[0]
  <2>1. <<>> \in Seq({}) /\ Len(<<>>) = 0
    OBVIOUS
  <2> QED BY <2>1, InProgressReads
<1> QED BY <1>1 DEF Reads

LEMMA InProgressNext ==
  ASSUME NEW S, NEW s \in Seq(S), NEW e \in S
  PROVE  InProgress(Append(s, e)) = ReadOn(InProgress(s), e)
<1>1. /\ Append(s, e) \in Seq(S) /\ Len(Append(s, e)) = Len(s) + 1 /\ Len(s) \in Nat
      /\ \A k \in 1 .. Len(s) : s[k] = Append(s, e)[k]
      /\ Append(s, e)[Len(s) + 1] = e
  BY AppendProperties
<1>2. PICK f : Reads(f, s, Len(s)) /\ InProgress(s) = f[Len(s)]
  BY InProgressReads
<1>3. PICK g : Reads(g, Append(s, e), Len(s) + 1) /\ InProgress(Append(s, e)) = g[Len(s) + 1]
  BY <1>1, InProgressReads
<1>4. f[Len(s)] = g[Len(s)]
  <2> DEFINE t == Append(s, e)
             n == Len(s)
             K == {k \in Nat : k <= n => f[k] = g[k]}
  <2>1. /\ n \in Nat /\ Reads(f, s, n) /\ Reads(g, t, n + 1)
        /\ \A k \in 1 .. n : s[k] = t[k]
    BY <1>1, <1>2, <1>3
  <2> HIDE DEF t, n
  <2>2. 0 \in K
    BY <2>1 DEF Reads
  <2>3. ASSUME NEW k \in Nat, k \in K PROVE k + 1 \in K
    <3> SUFFICES ASSUME k + 1 <= n PROVE f[k + 1] = g[k + 1]
      OBVIOUS
    <3>1. f[k + 1] = ReadOn(f[(k + 1) - 1], s[k + 1])
      BY <2>1 DEF Reads
    <3>2. g[k + 1] = ReadOn(g[(k + 1) - 1], t[k + 1])
      BY <2>1 DEF Reads
    <3>3. (k + 1) - 1 = k /\ f[k] = g[k] /\ s[k + 1] = t[k + 1]
      BY <2>1, <2>3
    <3> QED BY <3>1, <3>2, <3>3
  <2> HIDE DEF K
  <2>4. Nat \subseteq K
    BY <2>2, <2>3, NaturalSet
  <2>5. n \in K
    BY <2>1, <2>4
  <2> QED BY <2>1, <2>5 DEF K, n
<1>5. g[Len(s) + 1] = ReadOn(g[Len(s)], Append(s, e)[Len(s) + 1])
  <2>1. Len(s) + 1 \in 0 .. Len(s) + 1 /\ Len(s) + 1 # 0 /\ (Len(s) + 1) - 1 = Len(s)
    BY <1>1
  <2> QED BY <1>3, <2>1 DEF Reads
<1> QED BY <1>1, <1>2, <1>3, <1>4, <1>5

-----------------------------------------------------------------------------
(* What is told by the events *)

Count(s, T) == Cardinality({i \in DOMAIN s : s[i] \in T})
Starts == {e \in AnswerEvents : e.of \in Calling /\ e.what = "started"}
Ends == {e \in AnswerEvents : e.of \in Calling /\ e.what \in Ending}
Terminal == Event("subtask", "terminal")

\* Calls that have started and not ended.
Balance(s) == Count(s, Starts) - Count(s, Ends)

LEMMA CountNext ==
  ASSUME NEW S, NEW s \in Seq(S), NEW e \in S, NEW T
  PROVE  /\ Count(s, T) \in Nat
         /\ Count(Append(s, e), T) = Count(s, T) + (IF e \in T THEN 1 ELSE 0)
<1> DEFINE places == {i \in DOMAIN s : s[i] \in T}
           later == {i \in DOMAIN Append(s, e) : Append(s, e)[i] \in T}
<1>1. /\ Len(s) \in Nat /\ DOMAIN s = 1 .. Len(s) /\ Append(s, e) \in Seq(S)
      /\ DOMAIN Append(s, e) = 1 .. Len(s) + 1
      /\ \A i \in 1 .. Len(s) : Append(s, e)[i] = s[i]
      /\ Append(s, e)[Len(s) + 1] = e
  BY AppendProperties
<1>2. IsFiniteSet(places) /\ Cardinality(places) \in Nat
  <2>1. places \in SUBSET (1 .. Len(s)) /\ IsFiniteSet(1 .. Len(s))
    BY <1>1, FS_Interval
  <2> QED BY <2>1, FS_Subset, FS_CardinalityType
<1>3. Len(s) + 1 \notin places
  BY <1>1
<1>4. CASE e \in T
  <2>1. later = places \cup {Len(s) + 1}
    BY <1>1, <1>4
  <2>2. Cardinality(places \cup {Len(s) + 1}) = Cardinality(places) + 1
    BY <1>2, <1>3, FS_AddElement
  <2> QED BY <1>2, <1>4, <2>1, <2>2 DEF Count
<1>5. CASE e \notin T
  <2>1. later = places
    BY <1>1, <1>5
  <2>2. Count(s, T) = Cardinality(places) /\ Count(Append(s, e), T) = Cardinality(later)
    BY DEF Count
  <2> HIDE DEF places, later
  <2> QED BY <1>2, <1>5, <2>1, <2>2
<1> QED BY <1>4, <1>5

LEMMA ToldNext ==
  ASSUME NEW S, NEW s \in Seq(S), NEW e \in S
  PROVE  ToSet(Append(s, e)) = ToSet(s) \cup {e}
<1>1. /\ Len(s) \in Nat /\ DOMAIN s = 1 .. Len(s) /\ Append(s, e) \in Seq(S)
      /\ DOMAIN Append(s, e) = 1 .. Len(s) + 1
      /\ \A i \in 1 .. Len(s) : Append(s, e)[i] = s[i]
      /\ Append(s, e)[Len(s) + 1] = e
  BY AppendProperties
<1>2. 1 .. Len(s) + 1 = (1 .. Len(s)) \cup {Len(s) + 1}
  BY <1>1
<1>3. {Append(s, e)[i] : i \in 1 .. Len(s)} = {s[i] : i \in 1 .. Len(s)}
  BY <1>1
<1> QED BY <1>1, <1>2, <1>3 DEF ToSet

Quiet(e) == e.of \notin Calling

\* One event more, as each of the properties reads it.
LEMMA ReadNext ==
  ASSUME NEW s \in Seq(AnswerEvents), NEW e \in AnswerEvents
  PROVE  /\ Append(s, e) \in Seq(AnswerEvents)
         /\ Balance(s) \in Int
         /\ ToSet(Append(s, e)) = ToSet(s) \cup {e}
         /\ InProgress(Append(s, e)) = ReadOn(InProgress(s), e)
         /\ Quiet(e) => /\ Balance(Append(s, e)) = Balance(s)
                        /\ InProgress(Append(s, e)) = InProgress(s)
         /\ e \in Starts => Balance(Append(s, e)) = Balance(s) + 1
         /\ e \in Ends => Balance(Append(s, e)) = Balance(s) - 1
         /\ e # Terminal => Count(Append(s, e), {Terminal}) = Count(s, {Terminal})
         /\ e = Terminal => Count(Append(s, e), {Terminal}) = Count(s, {Terminal}) + 1
<1>1. Append(s, e) \in Seq(AnswerEvents)
  OBVIOUS
<1>2. /\ Count(s, Starts) \in Nat /\ Count(s, Ends) \in Nat /\ Count(s, {Terminal}) \in Nat
      /\ Count(Append(s, e), Starts) = Count(s, Starts) + (IF e \in Starts THEN 1 ELSE 0)
      /\ Count(Append(s, e), Ends) = Count(s, Ends) + (IF e \in Ends THEN 1 ELSE 0)
      /\ Count(Append(s, e), {Terminal}) =
           Count(s, {Terminal}) + (IF e \in {Terminal} THEN 1 ELSE 0)
  BY CountNext
<1>3. (Quiet(e) => e \notin Starts /\ e \notin Ends) /\ ~(e \in Starts /\ e \in Ends)
  BY DEF Quiet, Starts, Ends, Ending
<1>4. InProgress(Append(s, e)) = ReadOn(InProgress(s), e)
  BY InProgressNext
<1>5. Quiet(e) => InProgress(Append(s, e)) = InProgress(s)
  BY <1>4 DEF Quiet, ReadOn
<1>6. ToSet(Append(s, e)) = ToSet(s) \cup {e}
  BY ToldNext
<1> QED BY <1>1, <1>2, <1>3, <1>4, <1>5, <1>6 DEF Balance

\* Events that are no calls tell nothing of the calls.
QuietUpTo(s, events, n) ==
  LET t == s \o SubSeq(events, 1, n)
  IN /\ t \in Seq(AnswerEvents)
     /\ Balance(t) = Balance(s) /\ InProgress(t) = InProgress(s)
     /\ ToSet(t) = ToSet(s) \cup {events[i] : i \in 1 .. n}
     /\ (\A i \in 1 .. n : events[i] # Terminal) => Count(t, {Terminal}) = Count(s, {Terminal})

LEMMA QuietTells ==
  ASSUME NEW s \in Seq(AnswerEvents), NEW events \in Seq(AnswerEvents),
         \A i \in 1 .. Len(events) : Quiet(events[i]),
         NEW n \in 0 .. Len(events)
  PROVE  QuietUpTo(s, events, n)
<1> DEFINE K == {k \in Nat : k <= Len(events) => QuietUpTo(s, events, k)}
<1>0. Len(events) \in Nat
  OBVIOUS
<1>1. 0 \in K
  <2>1. SubSeq(events, 1, 0) = <<>> /\ s \o <<>> = s
    OBVIOUS
  <2>2. {events[i] : i \in 1 .. 0} = {}
    OBVIOUS
  <2>3. ToSet(s) = ToSet(s) \cup {}
    OBVIOUS
  <2> QED BY <2>1, <2>2, <2>3 DEF QuietUpTo
<1>2. ASSUME NEW k \in Nat, k \in K PROVE k + 1 \in K
  <2> SUFFICES ASSUME k + 1 <= Len(events) PROVE QuietUpTo(s, events, k + 1)
    OBVIOUS
  <2> DEFINE t == s \o SubSeq(events, 1, k)
             e == events[k + 1]
  <2>1. QuietUpTo(s, events, k)
    BY <1>0, <1>2
  <2>2. e \in AnswerEvents /\ Quiet(e)
    BY <1>0
  <2>3. s \o SubSeq(events, 1, k + 1) = Append(t, e)
    <3>1. SubSeq(events, 1, k + 1) = Append(SubSeq(events, 1, k), e)
      BY <1>0
    <3>2. SubSeq(events, 1, k) \in Seq(AnswerEvents)
      BY <1>0
    <3> HIDE DEF e
    <3> QED BY <2>2, <3>1, <3>2
  <2>4. t \in Seq(AnswerEvents)
    BY <2>1 DEF QuietUpTo
  <2>5. {events[i] : i \in 1 .. k + 1} = {events[i] : i \in 1 .. k} \cup {e}
    <3>1. 1 .. k + 1 = (1 .. k) \cup {k + 1}
      OBVIOUS
    <3> QED BY <3>1
  <2>6. (\A i \in 1 .. k + 1 : events[i] # Terminal) =>
           e # Terminal /\ \A i \in 1 .. k : events[i] # Terminal
    OBVIOUS
  <2>7. /\ Append(t, e) \in Seq(AnswerEvents)
        /\ ToSet(Append(t, e)) = ToSet(t) \cup {e}
        /\ Balance(Append(t, e)) = Balance(t)
        /\ InProgress(Append(t, e)) = InProgress(t)
        /\ e # Terminal => Count(Append(t, e), {Terminal}) = Count(t, {Terminal})
    BY <2>2, <2>4, ReadNext
  <2>8. /\ Balance(t) = Balance(s) /\ InProgress(t) = InProgress(s)
        /\ ToSet(t) = ToSet(s) \cup {events[i] : i \in 1 .. k}
        /\ (\A i \in 1 .. k : events[i] # Terminal) => Count(t, {Terminal}) = Count(s, {Terminal})
    BY <2>1 DEF QuietUpTo
  <2> HIDE DEF t, e
  <2> QED BY <2>3, <2>5, <2>6, <2>7, <2>8 DEF QuietUpTo
<1> HIDE DEF K
<1>3. Nat \subseteq K
  BY <1>1, <1>2, NaturalSet
<1>4. n \in K
  BY <1>0, <1>3
<1> QED BY <1>0, <1>4 DEF K

-----------------------------------------------------------------------------
(* Publishing *)

\* What is told is these events, or a subscriber raised and some may be missing.
Tells(events) ==
  /\ published' \in Seq(AnswerEvents) /\ breaks' \in Nat /\ raising' \in BOOLEAN
  /\ ToSet(published) \subseteq ToSet(published')
  /\ ToSet(published') \subseteq ToSet(published) \cup ToSet(events)
  /\ \/ breaks' = breaks /\ ToSet(events) \subseteq ToSet(published')
     \/ breaks' = breaks + 1 /\ raising' = TRUE
  /\ Terminal \notin ToSet(events) =>
       Count(published', {Terminal}) = Count(published, {Terminal})

LEMMA PublishCases ==
  ASSUME NEW s \in Seq(AnswerEvents), published = s, NEW events \in Seq(AnswerEvents), NEW raises,
         Publish(events, raises)
  PROVE  \E n \in 0 .. Len(events) :
           /\ published' = s \o SubSeq(events, 1, n)
           /\ \/ n = Len(events) /\ breaks' = breaks /\ raising' = raises
              \/ breaks' = breaks + 1 /\ raising' = TRUE
<1>1. SubSeq(events, 1, Len(events)) = events /\ Len(events) \in 0 .. Len(events)
  OBVIOUS
<1>2. CASE published' = published \o events /\ raising' = raises /\ UNCHANGED breaks
  BY <1>1, <1>2
<1>3. CASE /\ breaks' = breaks + 1 /\ raising' = TRUE
           /\ \E n \in 0 .. Len(events) : published' = published \o SubSeq(events, 1, n)
  BY <1>3
<1> QED BY <1>2, <1>3 DEF Publish

LEMMA QuietPublish ==
  ASSUME published \in Seq(AnswerEvents), breaks \in Nat, NEW raises \in BOOLEAN,
         NEW events \in Seq(AnswerEvents), \A i \in 1 .. Len(events) : Quiet(events[i]),
         Publish(events, raises)
  PROVE  /\ Tells(events)
         /\ Balance(published') = Balance(published)
         /\ InProgress(published') = InProgress(published)
         /\ breaks' = breaks => raising' = raises
<1>1. PICK n \in 0 .. Len(events) :
           /\ published' = published \o SubSeq(events, 1, n)
           /\ \/ n = Len(events) /\ breaks' = breaks /\ raising' = raises
              \/ breaks' = breaks + 1 /\ raising' = TRUE
  BY PublishCases
<1>2. QuietUpTo(published, events, n)
  BY QuietTells
<1>3. /\ published' \in Seq(AnswerEvents)
      /\ Balance(published') = Balance(published)
      /\ InProgress(published') = InProgress(published)
      /\ ToSet(published') = ToSet(published) \cup {events[i] : i \in 1 .. n}
      /\ (\A i \in 1 .. n : events[i] # Terminal) =>
           Count(published', {Terminal}) = Count(published, {Terminal})
  BY <1>1, <1>2 DEF QuietUpTo
<1>4. /\ ToSet(events) = {events[i] : i \in 1 .. Len(events)} /\ Len(events) \in Nat
      /\ {events[i] : i \in 1 .. n} \subseteq ToSet(events)
  BY DEF ToSet
<1>5. Terminal \notin ToSet(events) => \A i \in 1 .. n : events[i] # Terminal
  BY <1>4
<1>6. breaks' \in Nat /\ (breaks' = breaks => raising' = raises) /\ raising' \in BOOLEAN
  <2>1. breaks + 1 # breaks /\ breaks + 1 \in Nat
    OBVIOUS
  <2>2. raising' \in BOOLEAN
    BY <1>1, Zenon
  <2>3. breaks' \in Nat
    BY <1>1, <2>1, Zenon
  <2>4. breaks' = breaks => raising' = raises
    BY <1>1, <2>1, Zenon
  <2> QED BY <2>2, <2>3, <2>4
<1>7. \/ breaks' = breaks /\ ToSet(events) \subseteq ToSet(published')
      \/ breaks' = breaks + 1 /\ raising' = TRUE
  BY <1>1, <1>3, <1>4
<1>8. Tells(events)
  BY <1>3, <1>4, <1>5, <1>6, <1>7 DEF Tells
<1> QED BY <1>3, <1>6, <1>8

\* A call starts or ends, and perhaps something else is told behind it.
LEMMA CallPublish ==
  ASSUME published \in Seq(AnswerEvents), breaks \in Nat, NEW raises \in BOOLEAN,
         NEW a \in Starts \cup Ends,
         NEW events \in Seq(AnswerEvents), \A i \in 1 .. Len(events) : Quiet(events[i]),
         Publish(<<a>> \o events, raises)
  PROVE  LET change == IF a \in Starts THEN 1 ELSE -1
         IN /\ Tells(<<a>> \o events)
            /\ Balance(published) \in Int
            /\ \/ /\ breaks' = breaks /\ raising' = raises
                  /\ Balance(published') = Balance(published) + change
                  /\ InProgress(published') = ReadOn(InProgress(published), a)
               \/ /\ breaks' = breaks + 1 /\ raising' = TRUE
                  /\ Balance(published') \in {Balance(published), Balance(published) + change}
<1> DEFINE change == IF a \in Starts THEN 1 ELSE -1
           all == <<a>> \o events
           s == published
           t == Append(published, a)
<1>1. a \in AnswerEvents /\ a # Terminal
  BY DEF Starts, Ends, Terminal, Event, Calling
<1>2. /\ all \in Seq(AnswerEvents) /\ Len(all) = Len(events) + 1 /\ Len(events) \in Nat
      /\ all[1] = a /\ \A i \in 1 .. Len(events) : all[i + 1] = events[i]
  BY <1>1
<1>3. PICK n \in 0 .. Len(all) :
           /\ published' = s \o SubSeq(all, 1, n)
           /\ \/ n = Len(all) /\ breaks' = breaks /\ raising' = raises
              \/ breaks' = breaks + 1 /\ raising' = TRUE
  BY <1>2, PublishCases
<1>4. ToSet(all) = {a} \cup ToSet(events)
  <2>1. 1 .. Len(events) + 1 = {1} \cup {i + 1 : i \in 1 .. Len(events)}
    <3>1. \A j \in 1 .. Len(events) + 1 : j = 1 \/ (j - 1 \in 1 .. Len(events) /\ j = (j - 1) + 1)
      BY <1>2
    <3>2. \A i \in 1 .. Len(events) : i + 1 \in 1 .. Len(events) + 1
      BY <1>2
    <3>3. 1 \in 1 .. Len(events) + 1
      BY <1>2
    <3> QED BY <3>1, <3>2, <3>3
  <2>2. DOMAIN all = 1 .. Len(events) + 1 /\ DOMAIN events = 1 .. Len(events)
    BY <1>2
  <2> HIDE DEF all
  <2>3. \A x : x \in ToSet(all) <=> \E j \in 1 .. Len(events) + 1 : x = all[j]
    BY <2>2 DEF ToSet
  <2>4. \A x : x \in ToSet(events) <=> \E i \in 1 .. Len(events) : x = events[i]
    BY <2>2 DEF ToSet
  <2>5. \A x : (\E j \in 1 .. Len(events) + 1 : x = all[j]) <=>
                 x = a \/ \E i \in 1 .. Len(events) : x = events[i]
    BY <1>2, <2>1
  <2> QED BY <2>3, <2>4, <2>5
<1>5. Balance(s) \in Int
  BY <1>1, ReadNext
<1>6. /\ t \in Seq(AnswerEvents)
      /\ ToSet(t) = ToSet(s) \cup {a}
      /\ InProgress(t) = ReadOn(InProgress(s), a)
      /\ Balance(t) = Balance(s) + change
      /\ Count(t, {Terminal}) = Count(s, {Terminal})
  BY <1>1, ReadNext
<1>7. CASE n = 0
  <2>1. SubSeq(all, 1, 0) = <<>> /\ s \o <<>> = s
    BY <1>2
  <2>2. published' = published
    BY <1>3, <1>7, <2>1
  <2>3. breaks' = breaks + 1 /\ raising' = TRUE
    BY <1>2, <1>3, <1>7
  <2> QED BY <1>5, <2>2, <2>3 DEF Tells
<1>8. CASE n \in 1 .. Len(all)
  <2> DEFINE m == n - 1
  <2>1. m \in 0 .. Len(events) /\ n = m + 1
    BY <1>2, <1>8
  <2> HIDE DEF m
  <2>2. SubSeq(all, 1, n) = <<a>> \o SubSeq(events, 1, m)
    <3>1. SubSeq(events, 1, m) \in Seq(AnswerEvents) /\ Len(SubSeq(events, 1, m)) = m
      BY <1>2, <2>1
    <3>2. \A i \in 1 .. m : SubSeq(events, 1, m)[i] = events[i]
      BY <1>2, <2>1
    <3>3. /\ SubSeq(all, 1, n) \in Seq(AnswerEvents) /\ Len(SubSeq(all, 1, n)) = m + 1
          /\ \A i \in 1 .. m + 1 : SubSeq(all, 1, n)[i] = all[i]
      <4> HIDE DEF all
      <4> QED BY <1>2, <2>1
    <3> DEFINE u == SubSeq(events, 1, m)
    <3>4. /\ <<a>> \o u \in Seq(AnswerEvents) /\ Len(<<a>> \o u) = m + 1
          /\ (<<a>> \o u)[1] = a /\ \A i \in 1 .. m : (<<a>> \o u)[i + 1] = u[i]
      <4> HIDE DEF u
      <4>1. u \in Seq(AnswerEvents) /\ Len(u) = m /\ m \in Nat
        BY <2>1, <3>1 DEF u
      <4> QED BY <1>1, <4>1
    <3>5. \A i \in 1 .. m + 1 : SubSeq(all, 1, n)[i] = (<<a>> \o u)[i]
      <4> TAKE i \in 1 .. m + 1
      <4>1. CASE i = 1
        BY <1>2, <2>1, <3>3, <3>4, <4>1
      <4>2. CASE i # 1
        <5> DEFINE j == i - 1
        <5>1. j \in 1 .. m /\ i = j + 1 /\ j \in 1 .. Len(events)
          BY <1>2, <2>1, <4>2
        <5> HIDE DEF j, all, u
        <5>2. u[j] = events[j]
          BY <3>2, <5>1 DEF u
        <5> QED BY <1>2, <3>3, <3>4, <5>1, <5>2
      <4> QED BY <4>1, <4>2
    <3> HIDE DEF all, u
    <3>6. SubSeq(all, 1, n) = <<a>> \o u
      BY <3>3, <3>4, <3>5, SeqEqual
    <3> QED BY <3>6 DEF u
  <2>3. s \o (<<a>> \o SubSeq(events, 1, m)) = t \o SubSeq(events, 1, m)
    <3> DEFINE u == SubSeq(events, 1, m)
    <3>1. u \in Seq(AnswerEvents)
      BY <1>2, <2>1
    <3> HIDE DEF u
    <3>2. s \o (<<a>> \o u) = Append(s, a) \o u
      BY <1>1, <3>1
    <3> QED BY <3>2 DEF u
  <2>4. published' = t \o SubSeq(events, 1, m)
    BY <1>3, <2>2, <2>3
  <2>5. QuietUpTo(t, events, m)
    BY <1>6, <2>1, QuietTells
  <2> HIDE DEF t, all, change
  <2>6. /\ published' \in Seq(AnswerEvents)
        /\ Balance(published') = Balance(t) /\ InProgress(published') = InProgress(t)
        /\ ToSet(published') = ToSet(t) \cup {events[i] : i \in 1 .. m}
        /\ (\A i \in 1 .. m : events[i] # Terminal) =>
              Count(published', {Terminal}) = Count(t, {Terminal})
    BY <2>4, <2>5 DEF QuietUpTo
  <2>7. /\ ToSet(events) = {events[i] : i \in 1 .. Len(events)}
        /\ {events[i] : i \in 1 .. m} \subseteq ToSet(events)
    BY <2>1 DEF ToSet
  <2>8. Terminal \notin ToSet(all) => \A i \in 1 .. m : events[i] # Terminal
    BY <1>4, <2>7
  <2>9. n = Len(all) => m = Len(events)
    BY <1>2, <2>1
  <2>10. Tells(all)
    <3>1. breaks' \in Nat /\ raising' \in BOOLEAN
      <4>1. breaks + 1 \in Nat
        OBVIOUS
      <4>2. breaks' \in Nat
        BY <1>3, <4>1, Zenon
      <4>3. raising' \in BOOLEAN
        BY <1>3, Zenon
      <4> QED BY <4>2, <4>3
    <3>2. \/ breaks' = breaks /\ ToSet(all) \subseteq ToSet(published')
          \/ breaks' = breaks + 1 /\ raising' = TRUE
      BY <1>3, <1>4, <1>6, <2>6, <2>7, <2>9
    <3>3. ToSet(published') \subseteq ToSet(published) \cup ToSet(all)
      BY <1>4, <1>6, <2>6, <2>7
    <3>4. ToSet(published) \subseteq ToSet(published')
      BY <1>6, <2>6
    <3> QED BY <1>6, <2>6, <2>8, <3>1, <3>2, <3>3, <3>4 DEF Tells
  <2> QED BY <1>3, <1>5, <1>6, <2>6, <2>10 DEF all, change
<1>9. n = 0 \/ n \in 1 .. Len(all)
  BY <1>2
<1> QED BY <1>7, <1>8, <1>9

-----------------------------------------------------------------------------
(* The invariant *)

AnswerPcs == {"idle", "preparing", "prompting", "asking", "judging", "keeping",
              "remembering", "telling", "told", "ended"}
Turns == [pc : AnswerPcs, kind : {"verify", "review", "render"},
          memory : BOOLEAN, selected : SUBSET OwnTools, artifacts : BOOLEAN,
          sound : BOOLEAN, called : BOOLEAN, answered : BOOLEAN, forced : Forced,
          by : {"none", "agent", "rules", "template"}, good : BOOLEAN,
          status : {"running", "failed", "succeeded"}, remembered : BOOLEAN]
AllTools == AgentTools \cup OwnTools \cup {"none"}
FrameSet == [of : Calling, tool : AllTools]

AnswerTypeOK ==
  /\ turn \in Turns
  /\ frames \in Seq(FrameSet)
  /\ raising \in BOOLEAN
  /\ published \in Seq(AnswerEvents)
  /\ breaks \in Nat

\* EventsTellCalls, with what is counted named.
Opened(f) == [i \in DOMAIN f |-> f[i].of]
CallsAreTold ==
  /\ breaks = 0 => InProgress(published) = Opened(frames)
  /\ Balance(published) <= Len(frames) + breaks

\* Which calls are in progress where: in the middle of the turn the step of the
\* agent, its reply, and what the reply calls; else a tool of the handler.
FramesFit ==
  /\ turn.pc = "judging" => \A i \in 1 .. Len(frames) :
       /\ i = 1 => frames[i].of = "step"
       /\ i = 2 => frames[i].of = "reply"
       /\ i > 2 => frames[i].of \in {"llm", "acting", "tool"}
  /\ turn.pc # "judging" /\ frames # <<>> =>
       Len(frames) = 1 /\ frames[1].of = "tool" /\ turn.pc \in {"prompting", "telling"}

Early == {"idle", "preparing", "prompting", "asking"}
EndedWell == Heard("step", "completed") /\ ~Heard("step", "failed")

\* An answer comes from a step that ended well: once there is one nothing in the
\* reply fails any more, and a step that does not end well takes it back.
AnswerIsTheAgents ==
  /\ turn.pc \in Early => ~turn.answered /\ ~Heard("step", "failed")
  /\ turn.pc = "judging" /\ frames # <<>> =>
       ~Heard("step", "failed") /\ (turn.answered => Len(frames) = 1 /\ ~raising)
  /\ turn.answered /\ frames = <<>> => EndedWell
  /\ turn.answered /\ turn.pc # "judging" => EndedWell
  /\ turn.by = "agent" => turn.answered
  /\ turn.pc \in Early \cup {"judging"} => turn.by = "none"

Grounds == "artifact_read" \in turn.selected /\ Heard("tool", "completed")

\* A validator does not get past its artifacts unless it was allowed to read
\* them and has, and its verdict is told when it is made.
VerdictHasGrounds ==
  turn.kind # "render" =>
    /\ turn.pc = "prompting" /\ frames # <<>> => "artifact_read" \in turn.selected
    /\ turn.pc = "prompting" /\ frames = <<>> /\ ~raising => Grounds
    /\ turn.pc \in {"asking", "judging", "keeping", "remembering", "telling", "told"} => Grounds
    /\ turn.by # "none" => Grounds
    /\ turn.by = "rules" /\ turn.good => ByRules
    /\ turn.by = "none" => ~Heard("validation", "completed")
    /\ breaks = 0 => (Heard("validation", "completed") <=> turn.by = "agent")

\* The summary is written after the status is known, which only an exception
\* changes, and that only when a publication broke.
MemoryHasGrounds ==
  /\ turn.pc = "telling" /\ frames # <<>> =>
       turn.memory /\ "memory_write" \in turn.selected /\ turn.status = "succeeded"
  /\ turn.remembered => turn.memory /\ "memory_write" \in turn.selected
  /\ turn.remembered => turn.pc \in {"telling", "told", "ended"}
  /\ turn.remembered /\ turn.pc # "ended" => turn.status = "succeeded"
  /\ turn.pc \notin {"told", "ended"} => Count(published, {Terminal}) = 0
  /\ breaks = 0 /\ turn.pc = "told" => ~raising
  /\ breaks = 0 /\ turn.pc = "ended" => ~turn.remembered
  /\ breaks = 0 /\ turn.pc \in {"told", "ended"} =>
       /\ Heard("subtask", turn.status)
       /\ Count(published, {Terminal}) = 1

AnswerInv ==
  /\ AnswerTypeOK /\ CallsAreTold /\ FramesFit
  /\ AnswerIsTheAgents /\ VerdictHasGrounds /\ MemoryHasGrounds

-----------------------------------------------------------------------------
(* Frames *)

LEMMA EventIs ==
  /\ \A of, what, of2, what2 : Event(of, what) = Event(of2, what2) <=> of = of2 /\ what = what2
  /\ \A of \in Tellers, what \in Whats : Event(of, what) \in AnswerEvents
  /\ \A of, what : Event(of, what).of = of /\ Event(of, what).what = what
  BY DEF Event, AnswerEvents

LEMMA OpenedType ==
  ASSUME NEW f \in Seq(FrameSet)
  PROVE  /\ Opened(f) \in Seq(Calling) /\ Len(Opened(f)) = Len(f)
         /\ \A i \in 1 .. Len(f) : Opened(f)[i] = f[i].of
<1>1. \A i \in 1 .. Len(f) : f[i] \in FrameSet
  OBVIOUS
<1>2. \A i \in 1 .. Len(f) : f[i].of \in Calling
  BY <1>1 DEF FrameSet
<1>3. Opened(f) = [i \in 1 .. Len(f) |-> f[i].of] /\ Len(f) \in Nat
  BY DEF Opened
<1> QED BY <1>2, <1>3

LEMMA FrontIs ==
  ASSUME NEW S, NEW s \in Seq(S), s # <<>>
  PROVE  /\ Front(s) \in Seq(S) /\ Len(Front(s)) = Len(s) - 1 /\ Len(s) \in Nat \ {0}
         /\ \A i \in 1 .. Len(s) - 1 : Front(s)[i] = s[i]
<1>1. Len(s) \in Nat \ {0}
  BY EmptySeq
<1>2. \A i \in 1 .. Len(s) - 1 : s[i] \in S
  BY <1>1
<1> DEFINE n == Len(s) - 1
<1>3. n \in Nat /\ Front(s) = SubSeq(s, 1, n)
  BY <1>1 DEF Front
<1> HIDE DEF n
<1>4. \A i \in 1 .. n : s[i] \in S
  BY <1>2 DEF n
<1>5. /\ SubSeq(s, 1, n) \in Seq(S)
      /\ Len(SubSeq(s, 1, n)) = IF 1 <= n THEN n - 1 + 1 ELSE 0
      /\ \A i \in 1 .. n - 1 + 1 : SubSeq(s, 1, n)[i] = s[1 + i - 1]
  BY <1>3, <1>4, SubSeqProperties
<1>6. /\ Len(SubSeq(s, 1, n)) = n
      /\ \A i \in 1 .. n : SubSeq(s, 1, n)[i] = s[i]
  BY <1>3, <1>5
<1> QED BY <1>1, <1>3, <1>5, <1>6 DEF n

LEMMA FramePushed ==
  ASSUME NEW f \in Seq(FrameSet), NEW x \in FrameSet
  PROVE  /\ Append(f, x) \in Seq(FrameSet) /\ Len(Append(f, x)) = Len(f) + 1
         /\ Append(f, x) # <<>> /\ Last(Append(f, x)) = x
         /\ Append(f, x)[Len(f) + 1] = x
         /\ \A i \in 1 .. Len(f) : Append(f, x)[i] = f[i]
         /\ Opened(Append(f, x)) = Append(Opened(f), x.of)
<1>1. /\ Append(f, x) \in Seq(FrameSet) /\ Len(Append(f, x)) = Len(f) + 1 /\ Len(f) \in Nat
      /\ Append(f, x)[Len(f) + 1] = x
      /\ \A i \in 1 .. Len(f) : Append(f, x)[i] = f[i]
  BY AppendProperties
<1>2. Last(Append(f, x)) = x /\ Append(f, x) # <<>>
  BY <1>1 DEF Last
<1>3. /\ Opened(f) \in Seq(Calling) /\ Len(Opened(f)) = Len(f)
      /\ \A i \in 1 .. Len(f) : Opened(f)[i] = f[i].of
  BY OpenedType
<1>4. /\ Opened(Append(f, x)) \in Seq(Calling) /\ Len(Opened(Append(f, x))) = Len(f) + 1
      /\ \A i \in 1 .. Len(f) + 1 : Opened(Append(f, x))[i] = Append(f, x)[i].of
  <2> DEFINE g == Append(f, x)
  <2>1. g \in Seq(FrameSet) /\ Len(g) = Len(f) + 1
    BY <1>1
  <2> HIDE DEF g
  <2>2. /\ Opened(g) \in Seq(Calling) /\ Len(Opened(g)) = Len(f) + 1
        /\ \A i \in 1 .. Len(f) + 1 : Opened(g)[i] = g[i].of
    BY <1>1, <2>1, OpenedType
  <2> QED BY <2>2 DEF g
<1>5. x.of \in Calling
  BY DEF FrameSet
<1>6. /\ Append(Opened(f), x.of) \in Seq(Calling) /\ Len(Append(Opened(f), x.of)) = Len(f) + 1
      /\ Append(Opened(f), x.of)[Len(f) + 1] = x.of
      /\ \A i \in 1 .. Len(f) : Append(Opened(f), x.of)[i] = f[i].of
  BY <1>3, <1>5, AppendProperties
<1>7. \A i \in 1 .. Len(f) + 1 : Opened(Append(f, x))[i] = Append(Opened(f), x.of)[i]
  <2> TAKE i \in 1 .. Len(f) + 1
  <2>1. CASE i = Len(f) + 1
    BY <1>1, <1>4, <1>6, <2>1
  <2>2. CASE i \in 1 .. Len(f)
    BY <1>1, <1>4, <1>6, <2>2
  <2>3. i = Len(f) + 1 \/ i \in 1 .. Len(f)
    BY <1>1
  <2> QED BY <2>1, <2>2, <2>3
<1>8. Opened(Append(f, x)) = Append(Opened(f), x.of)
  BY <1>4, <1>6, <1>7, SeqEqual
<1> QED BY <1>1, <1>2, <1>8

LEMMA FramePopped ==
  ASSUME NEW f \in Seq(FrameSet), f # <<>>
  PROVE  /\ Front(f) \in Seq(FrameSet) /\ Len(Front(f)) = Len(f) - 1 /\ Len(f) \in Nat \ {0}
         /\ \A i \in 1 .. Len(f) - 1 : Front(f)[i] = f[i]
         /\ Last(f) = f[Len(f)] /\ Last(f) \in FrameSet
         /\ Opened(f) # <<>> /\ Last(Opened(f)) = Last(f).of
         /\ Opened(Front(f)) = Front(Opened(f))
<1>1. Len(f) \in Nat \ {0}
  BY EmptySeq
<1>2. /\ Front(f) \in Seq(FrameSet) /\ Len(Front(f)) = Len(f) - 1
      /\ \A i \in 1 .. Len(f) - 1 : Front(f)[i] = f[i]
  BY FrontIs
<1>3. Last(f) = f[Len(f)] /\ Last(f) \in FrameSet
  BY <1>1 DEF Last
<1>4. /\ Opened(f) \in Seq(Calling) /\ Len(Opened(f)) = Len(f)
      /\ \A i \in 1 .. Len(f) : Opened(f)[i] = f[i].of
  BY OpenedType
<1>5. Opened(f) # <<>> /\ Last(Opened(f)) = Last(f).of
  BY <1>1, <1>3, <1>4 DEF Last
<1>6. /\ Front(Opened(f)) \in Seq(Calling) /\ Len(Front(Opened(f))) = Len(f) - 1
      /\ \A i \in 1 .. Len(f) - 1 : Front(Opened(f))[i] = f[i].of
  <2> DEFINE g == Opened(f)
  <2>1. g \in Seq(Calling) /\ Len(g) = Len(f) /\ \A i \in 1 .. Len(f) : g[i] = f[i].of
    BY <1>4
  <2> HIDE DEF g
  <2>2. /\ Front(g) \in Seq(Calling) /\ Len(Front(g)) = Len(f) - 1
        /\ \A i \in 1 .. Len(f) - 1 : Front(g)[i] = f[i].of
    <3>1. g # <<>>
      BY <1>1, <2>1, EmptySeq
    <3> QED BY <1>1, <2>1, <3>1, FrontIs
  <2> QED BY <2>2 DEF g
<1>7. /\ Opened(Front(f)) \in Seq(Calling) /\ Len(Opened(Front(f))) = Len(f) - 1
      /\ \A i \in 1 .. Len(f) - 1 : Opened(Front(f))[i] = f[i].of
  <2> DEFINE g == Front(f)
  <2>1. g \in Seq(FrameSet) /\ Len(g) = Len(f) - 1 /\ \A i \in 1 .. Len(f) - 1 : g[i] = f[i]
    BY <1>2
  <2> HIDE DEF g
  <2>2. /\ Opened(g) \in Seq(Calling) /\ Len(Opened(g)) = Len(g)
        /\ \A i \in 1 .. Len(g) : Opened(g)[i] = g[i].of
    BY <2>1, OpenedType
  <2> QED BY <1>1, <2>1, <2>2 DEF g
<1>8. Opened(Front(f)) = Front(Opened(f))
  <2>1. \A i \in 1 .. Len(f) - 1 : Opened(Front(f))[i] = Front(Opened(f))[i]
    BY <1>6, <1>7
  <2> QED BY <1>6, <1>7, <2>1, SeqEqual
<1> QED BY <1>1, <1>2, <1>3, <1>5, <1>8

-----------------------------------------------------------------------------
(* What starts and ends is told *)

LEMMA CallEvent ==
  ASSUME NEW of \in Calling
  PROVE  /\ Event(of, "started") \in Starts /\ Event(of, "started") \notin Ends
         /\ Event(of, "completed") \in Ends /\ Event(of, "completed") \notin Starts
         /\ Event(of, "failed") \in Ends /\ Event(of, "failed") \notin Starts
<1>1. of \in Tellers /\ {"started", "completed", "failed"} \subseteq Whats
  BY DEF Tellers, Whats, Ending
<1> QED BY <1>1, EventIs DEF Starts, Ends, Ending

\* Sequences of quiet events, as the actions publish them.
LEMMA QuietSeqs ==
  ASSUME NEW a \in AnswerEvents, NEW b \in AnswerEvents, NEW c \in AnswerEvents,
         Quiet(a), Quiet(b), Quiet(c)
  PROVE  /\ <<>> \in Seq(AnswerEvents) /\ \A i \in 1 .. Len(<<>>) : Quiet(<<>>[i])
         /\ ToSet(<<>>) = {}
         /\ <<a>> \in Seq(AnswerEvents) /\ \A i \in 1 .. Len(<<a>>) : Quiet(<<a>>[i])
         /\ ToSet(<<a>>) = {a}
         /\ <<a, b>> \in Seq(AnswerEvents) /\ \A i \in 1 .. Len(<<a, b>>) : Quiet(<<a, b>>[i])
         /\ ToSet(<<a, b>>) = {a, b}
         /\ <<a, b, c>> \in Seq(AnswerEvents)
         /\ \A i \in 1 .. Len(<<a, b, c>>) : Quiet(<<a, b, c>>[i])
         /\ ToSet(<<a, b, c>>) = {a, b, c}
<1>1. <<>> \in Seq(AnswerEvents) /\ (\A i \in 1 .. Len(<<>>) : Quiet(<<>>[i])) /\ ToSet(<<>>) = {}
  BY DEF ToSet
<1>2. <<a>> \in Seq(AnswerEvents) /\ (\A i \in 1 .. Len(<<a>>) : Quiet(<<a>>[i]))
  OBVIOUS
<1>3. <<a, b>> \in Seq(AnswerEvents) /\ (\A i \in 1 .. Len(<<a, b>>) : Quiet(<<a, b>>[i]))
  OBVIOUS
<1>4. /\ <<a, b, c>> \in Seq(AnswerEvents)
      /\ \A i \in 1 .. Len(<<a, b, c>>) : Quiet(<<a, b, c>>[i])
  OBVIOUS
<1>5. ToSet(<<a>>) = {a}
  <2>1. DOMAIN <<a>> = {1} /\ <<a>>[1] = a
    OBVIOUS
  <2> QED BY <2>1 DEF ToSet
<1>6. ToSet(<<a, b>>) = {a, b}
  <2>1. DOMAIN <<a, b>> = {1, 2} /\ <<a, b>>[1] = a /\ <<a, b>>[2] = b
    OBVIOUS
  <2> QED BY <2>1 DEF ToSet
<1>7. ToSet(<<a, b, c>>) = {a, b, c}
  <2>1. /\ DOMAIN <<a, b, c>> = {1, 2, 3} /\ <<a, b, c>>[1] = a
        /\ <<a, b, c>>[2] = b /\ <<a, b, c>>[3] = c
    OBVIOUS
  <2> QED BY <2>1 DEF ToSet
<1> QED BY <1>1, <1>2, <1>3, <1>4, <1>5, <1>6, <1>7

\* What is quiet leaves the account of the calls as it is.
LEMMA QuietKeeps ==
  ASSUME AnswerTypeOK, CallsAreTold, NEW raises \in BOOLEAN,
         NEW events \in Seq(AnswerEvents), \A i \in 1 .. Len(events) : Quiet(events[i]),
         Publish(events, raises), UNCHANGED frames
  PROVE  /\ Tells(events) /\ CallsAreTold'
         /\ breaks' = breaks => raising' = raises
<1>1. /\ Tells(events)
      /\ Balance(published') = Balance(published)
      /\ InProgress(published') = InProgress(published)
      /\ breaks' = breaks => raising' = raises
  BY QuietPublish DEF AnswerTypeOK
<1>2. breaks' \in Nat /\ breaks \in Nat /\ (breaks' = breaks \/ breaks' = breaks + 1)
  BY <1>1 DEF Tells, AnswerTypeOK
<1>3. Len(frames) \in Nat
  BY DEF AnswerTypeOK
<1>4. Balance(published) \in Int
  <2>1. Event("policy", "denied") \in AnswerEvents
    BY EventIs DEF Tellers, Whats
  <2> QED BY <2>1, ReadNext DEF AnswerTypeOK
<1>5. breaks' = 0 => breaks = 0
  BY <1>2
<1>6. (breaks = 0 => InProgress(published) = Opened(frames))'
  BY <1>1, <1>5 DEF CallsAreTold
<1>7. (Balance(published) <= Len(frames) + breaks)'
  BY <1>1, <1>2, <1>3, <1>4 DEF CallsAreTold
<1> QED BY <1>1, <1>6, <1>7 DEF CallsAreTold

LEMMA OpenTells ==
  ASSUME AnswerTypeOK, CallsAreTold, NEW of \in Calling, NEW tool \in AllTools,
         NEW events \in Seq(AnswerEvents), \A i \in 1 .. Len(events) : Quiet(events[i]),
         Open(of, tool, events)
  PROVE  /\ Tells(<<Event(of, "started")>> \o events) /\ CallsAreTold'
         /\ \/ raising' = FALSE /\ frames' = Append(frames, Frame(of, tool))
            \/ raising' = TRUE /\ breaks' = breaks + 1 /\ frames' = frames
<1> DEFINE a == Event(of, "started")
           f == Append(frames, Frame(of, tool))
<1>1. a \in Starts /\ a \notin Ends /\ a.of = of /\ a.what = "started"
  BY CallEvent, EventIs
<1>2. /\ Tells(<<a>> \o events)
      /\ Balance(published) \in Int
      /\ \/ /\ breaks' = breaks /\ raising' = FALSE
            /\ Balance(published') = Balance(published) + 1
            /\ InProgress(published') = ReadOn(InProgress(published), a)
         \/ /\ breaks' = breaks + 1 /\ raising' = TRUE
            /\ Balance(published') \in {Balance(published), Balance(published) + 1}
  <2>1. Publish(<<a>> \o events, FALSE)
    BY DEF Open
  <2>2. a \in Starts \cup Ends /\ FALSE \in BOOLEAN
    BY <1>1
  <2> HIDE DEF a
  <2> QED BY <1>1, <2>1, <2>2, CallPublish DEF AnswerTypeOK
<1>3. Frame(of, tool) \in FrameSet /\ Frame(of, tool).of = of
  BY DEF Frame, FrameSet
<1>4. Len(f) = Len(frames) + 1 /\ Len(frames) \in Nat /\ Opened(f) = Append(Opened(frames), of)
  BY <1>3, FramePushed DEF AnswerTypeOK
<1>5. frames' = IF raising' THEN frames ELSE f
  BY DEF Open
<1> HIDE DEF a, f
<1>6. CASE /\ breaks' = breaks /\ raising' = FALSE
           /\ Balance(published') = Balance(published) + 1
           /\ InProgress(published') = ReadOn(InProgress(published), a)
  <2>1. frames' = f
    BY <1>5, <1>6
  <2>2. breaks' = 0 => InProgress(published') = Opened(frames')
    BY <1>1, <1>4, <1>6, <2>1 DEF CallsAreTold, ReadOn
  <2>3. Balance(published') <= Len(frames') + breaks'
    BY <1>2, <1>4, <1>6, <2>1 DEF CallsAreTold, AnswerTypeOK
  <2> QED BY <1>2, <1>6, <2>1, <2>2, <2>3 DEF CallsAreTold, a, f
<1>7. CASE /\ breaks' = breaks + 1 /\ raising' = TRUE
           /\ Balance(published') \in {Balance(published), Balance(published) + 1}
  <2>1. frames' = frames
    BY <1>5, <1>7
  <2>2. breaks' # 0
    BY <1>7 DEF AnswerTypeOK
  <2>3. Balance(published') <= Len(frames') + breaks'
    BY <1>2, <1>4, <1>7, <2>1 DEF CallsAreTold, AnswerTypeOK
  <2> QED BY <1>2, <1>7, <2>1, <2>2, <2>3 DEF CallsAreTold, a
<1> QED BY <1>2, <1>6, <1>7

\* The innermost call ends one way or the other.
LEMMA EndTells ==
  ASSUME AnswerTypeOK, CallsAreTold, frames # <<>>, NEW what \in Ending, NEW raises \in BOOLEAN,
         NEW events \in Seq(AnswerEvents), \A i \in 1 .. Len(events) : Quiet(events[i]),
         Publish(<<Event(Last(frames).of, what)>> \o events, raises),
         \/ frames' = Front(frames)
         \/ frames' = frames /\ breaks' = breaks + 1
  PROVE  /\ Tells(<<Event(Last(frames).of, what)>> \o events) /\ CallsAreTold'
         /\ \/ raising' = raises /\ breaks' = breaks
            \/ raising' = TRUE /\ breaks' = breaks + 1
<1> DEFINE of == Last(frames).of
           a == Event(of, what)
<1>1. /\ Len(Front(frames)) = Len(frames) - 1 /\ Len(frames) \in Nat \ {0}
      /\ of \in Calling
      /\ Opened(frames) # <<>> /\ Last(Opened(frames)) = of
      /\ Opened(Front(frames)) = Front(Opened(frames))
  BY FramePopped DEF AnswerTypeOK, FrameSet
<1> HIDE DEF of
<1>2. a \in Ends /\ a \notin Starts /\ a.of = of /\ a.what = what /\ what # "started"
  BY <1>1, CallEvent, EventIs DEF Ending
<1> HIDE DEF a
<1>3. /\ Tells(<<a>> \o events)
      /\ Balance(published) \in Int
      /\ \/ /\ breaks' = breaks /\ raising' = raises
            /\ Balance(published') = Balance(published) + (-1)
            /\ InProgress(published') = ReadOn(InProgress(published), a)
         \/ /\ breaks' = breaks + 1 /\ raising' = TRUE
            /\ Balance(published') \in {Balance(published), Balance(published) + (-1)}
  <2>1. Publish(<<a>> \o events, raises)
    BY DEF a, of
  <2>2. a \in Starts \cup Ends
    BY <1>2
  <2> QED BY <1>2, <2>1, <2>2, CallPublish DEF AnswerTypeOK
<1>4. ReadOn(Opened(frames), a) = Opened(Front(frames))
  BY <1>1, <1>2 DEF ReadOn
<1>5. CASE /\ breaks' = breaks /\ raising' = raises
           /\ Balance(published') = Balance(published) + (-1)
           /\ InProgress(published') = ReadOn(InProgress(published), a)
  <2>1. frames' = Front(frames)
    BY <1>5 DEF AnswerTypeOK
  <2>2. breaks' = 0 => InProgress(published') = Opened(frames')
    BY <1>4, <1>5, <2>1 DEF CallsAreTold
  <2>3. Balance(published') <= Len(frames') + breaks'
    BY <1>1, <1>3, <1>5, <2>1 DEF CallsAreTold, AnswerTypeOK
  <2> QED BY <1>3, <1>5, <2>2, <2>3 DEF CallsAreTold, a, of
<1>6. CASE /\ breaks' = breaks + 1 /\ raising' = TRUE
           /\ Balance(published') \in {Balance(published), Balance(published) + (-1)}
  <2>1. Len(frames') \in {Len(frames), Len(frames) - 1}
    BY <1>1
  <2>2. breaks' # 0
    BY <1>6 DEF AnswerTypeOK
  <2>3. Balance(published') <= Len(frames') + breaks'
    BY <1>1, <1>3, <1>6, <2>1 DEF CallsAreTold, AnswerTypeOK
  <2> QED BY <1>3, <1>6, <2>2, <2>3 DEF CallsAreTold, a, of
<1> QED BY <1>3, <1>5, <1>6

LEMMA CloseTells ==
  ASSUME AnswerTypeOK, CallsAreTold, frames # <<>>,
         NEW events \in Seq(AnswerEvents), \A i \in 1 .. Len(events) : Quiet(events[i]),
         Close(events)
  PROVE  /\ Tells(<<Event(Last(frames).of, "completed")>> \o events) /\ CallsAreTold'
         /\ \/ raising' = FALSE /\ breaks' = breaks /\ frames' = Front(frames)
            \/ /\ raising' = TRUE /\ breaks' = breaks + 1
               /\ frames' = IF Inside("step") THEN frames ELSE Front(frames)
<1> DEFINE all == <<Event(Last(frames).of, "completed")>> \o events
<1>1. Publish(all, FALSE) /\ frames' = IF raising' /\ Inside("step") THEN frames ELSE Front(frames)
  BY DEF Close
<1>2. \/ raising' = FALSE /\ breaks' = breaks
      \/ raising' = TRUE /\ breaks' = breaks + 1
  <2> HIDE DEF all
  <2> QED BY <1>1 DEF Publish
<1>3. \/ frames' = Front(frames)
      \/ frames' = frames /\ breaks' = breaks + 1
  BY <1>1, <1>2
<1>4. Tells(all) /\ CallsAreTold'
  <2>1. "completed" \in Ending /\ FALSE \in BOOLEAN
    BY DEF Ending
  <2> QED BY <1>1, <1>3, <2>1, EndTells
<1> QED BY <1>1, <1>2, <1>4

LEMMA RaisesTells ==
  ASSUME AnswerTypeOK, CallsAreTold, Raises
  PROVE  CallsAreTold'
  BY DEF Raises, CallsAreTold

\* _run_tool begins, or it raises before there is anything in progress.
LEMMA RunToolTells ==
  ASSUME AnswerTypeOK, CallsAreTold, NEW tool \in AllTools, RunTool(tool)
  PROVE  /\ Tells(<<Event("policy", "denied")>>) \/ Tells(<<Event("tool", "started")>>)
         /\ CallsAreTold'
         /\ \/ /\ raising' = FALSE /\ frames' = Append(frames, Frame("tool", tool))
               /\ tool \notin OwnTools \ turn.selected
            \/ raising' = TRUE /\ frames' = frames
<1>1. CASE tool \in OwnTools \ turn.selected
  <2>1. Publish(<<Event("policy", "denied")>>, TRUE) /\ UNCHANGED frames
    BY <1>1 DEF RunTool
  <2>2. Event("policy", "denied") \in AnswerEvents /\ Quiet(Event("policy", "denied"))
    BY EventIs DEF Quiet, Tellers, Whats, Calling
  <2> DEFINE a == Event("policy", "denied")
  <2>3. a \in AnswerEvents /\ Quiet(a) /\ Publish(<<a>>, TRUE) /\ TRUE \in BOOLEAN
    BY <2>1, <2>2
  <2> HIDE DEF a
  <2>4. Tells(<<a>>) /\ CallsAreTold'
    BY <2>1, <2>3, QuietSeqs, QuietKeeps
  <2>5. raising' = TRUE
    BY <2>1 DEF Publish
  <2> QED BY <2>1, <2>4, <2>5 DEF a
<1>2. CASE tool \notin OwnTools \ turn.selected
  <2>1. Open("tool", tool, <<>>)
    BY <1>2 DEF RunTool
  <2>2. "tool" \in Calling /\ <<>> \in Seq(AnswerEvents) /\ \A i \in 1 .. Len(<<>>) : Quiet(<<>>[i])
    BY DEF Calling
  <2>3. /\ Tells(<<Event("tool", "started")>> \o <<>>) /\ CallsAreTold'
        /\ \/ raising' = FALSE /\ frames' = Append(frames, Frame("tool", tool))
           \/ raising' = TRUE /\ breaks' = breaks + 1 /\ frames' = frames
    BY <2>1, <2>2, OpenTells
  <2>4. <<Event("tool", "started")>> \o <<>> = <<Event("tool", "started")>>
    BY EventIs
  <2> QED BY <1>2, <2>3, <2>4
<1> QED BY <1>1, <1>2

-----------------------------------------------------------------------------
(* The steps of the agent *)

\* Where the innermost call is tells what it is.
LEMMA Innermost ==
  ASSUME AnswerTypeOK, FramesFit, frames # <<>>
  PROVE  /\ Len(frames) \in Nat \ {0} /\ Last(frames).of \in Calling
         /\ turn.pc = "judging" =>
              /\ Last(frames).of = "step" <=> Len(frames) = 1
              /\ Last(frames).of = "reply" <=> Len(frames) = 2
              /\ Last(frames).of \in {"llm", "acting", "tool"} <=> Len(frames) > 2
         /\ turn.pc # "judging" => /\ Len(frames) = 1 /\ Last(frames).of = "tool"
                                   /\ turn.pc \in {"prompting", "telling"}
<1>1. /\ Len(frames) \in Nat \ {0} /\ Last(frames) = frames[Len(frames)]
      /\ Last(frames) \in FrameSet
  BY FramePopped DEF AnswerTypeOK
<1>2. Last(frames).of \in Calling
  BY <1>1 DEF FrameSet
<1>3. Len(frames) \in 1 .. Len(frames)
  BY <1>1
<1>4. CASE turn.pc = "judging"
  <2>1. /\ Len(frames) = 1 => Last(frames).of = "step"
        /\ Len(frames) = 2 => Last(frames).of = "reply"
        /\ Len(frames) > 2 => Last(frames).of \in {"llm", "acting", "tool"}
    BY <1>1, <1>3, <1>4 DEF FramesFit
  <2>2. Len(frames) = 1 \/ Len(frames) = 2 \/ Len(frames) > 2
    <3>1. \A n \in Nat \ {0} : n = 1 \/ n = 2 \/ n > 2
      OBVIOUS
    <3> QED BY <1>1, <3>1
  <2>3. CASE Len(frames) = 1
    BY <1>1, <1>2, <1>4, <2>1, <2>3
  <2>4. CASE Len(frames) = 2
    BY <1>1, <1>2, <1>4, <2>1, <2>4
  <2>5. CASE Len(frames) > 2
    BY <1>1, <1>2, <1>4, <2>1, <2>5
  <2> QED BY <2>2, <2>3, <2>4, <2>5
<1>5. CASE turn.pc # "judging"
  BY <1>1, <1>2, <1>5 DEF FramesFit
<1> QED BY <1>4, <1>5

\* What of the turn the agent cannot reach.
SameTurn ==
  /\ turn' \in Turns
  /\ turn'.pc = turn.pc /\ turn'.kind = turn.kind /\ turn'.memory = turn.memory
  /\ turn'.selected = turn.selected /\ turn'.artifacts = turn.artifacts
  /\ turn'.sound = turn.sound /\ turn'.forced = turn.forced
  /\ turn'.by = turn.by /\ turn'.good = turn.good
  /\ turn'.status = turn.status

LEMMA SameTurnIs ==
  ASSUME AnswerTypeOK, NEW x \in BOOLEAN,
         \/ turn' = turn \/ turn' = [turn EXCEPT !.called = x]
         \/ turn' = [turn EXCEPT !.answered = x] \/ turn' = [turn EXCEPT !.remembered = x]
  PROVE  /\ SameTurn
         /\ turn'.answered = turn.answered \/ turn' = [turn EXCEPT !.answered = x]
         /\ turn'.remembered = turn.remembered \/ turn' = [turn EXCEPT !.remembered = x]
  BY DEF AnswerTypeOK, Turns, SameTurn

LEMMA AgentKeeps ==
  ASSUME AnswerInv, turn.pc = "judging", frames # <<>>,
         SameTurn, turn'.remembered = turn.remembered,
         NEW events, Tells(events),
         Terminal \notin ToSet(events), Event("validation", "completed") \notin ToSet(events),
         frames' \in Seq(FrameSet), CallsAreTold', FramesFit',
         frames' # <<>> => Event("step", "failed") \notin ToSet(events),
         turn'.answered /\ frames' # <<>> => Len(frames') = 1 /\ ~raising',
         turn'.answered /\ frames' = <<>> => EndedWell'
  PROVE  AnswerInv'
<1>1. AnswerTypeOK'
  BY DEF SameTurn, Tells, AnswerTypeOK
<1>2. /\ \A e : e \in ToSet(published) => e \in ToSet(published')
      /\ \A e : e \in ToSet(published') => e \in ToSet(published) \/ e \in ToSet(events)
      /\ breaks' = 0 => breaks = 0
      /\ Count(published', {Terminal}) = Count(published, {Terminal})
  BY DEF Tells, AnswerInv, AnswerTypeOK
<1>3. turn.by = "none" /\ turn'.by = "none" /\ turn'.pc = "judging"
  BY DEF AnswerInv, AnswerIsTheAgents, SameTurn
<1>4. AnswerIsTheAgents'
  BY <1>2, <1>3 DEF AnswerInv, AnswerIsTheAgents, Heard, Early, EndedWell
<1>5. VerdictHasGrounds'
  BY <1>2, <1>3 DEF AnswerInv, VerdictHasGrounds, Heard, Grounds, SameTurn
<1>6. MemoryHasGrounds'
  BY <1>2, <1>3 DEF AnswerInv, MemoryHasGrounds, SameTurn
<1> QED BY <1>1, <1>4, <1>5, <1>6 DEF AnswerInv

LEMMA PushFits ==
  ASSUME AnswerTypeOK, FramesFit, turn.pc = "judging", turn'.pc = "judging",
         NEW x \in FrameSet, frames' = Append(frames, x),
         Len(frames) = 0 => x.of = "step", Len(frames) = 1 => x.of = "reply",
         Len(frames) > 1 => x.of \in {"llm", "acting", "tool"}
  PROVE  FramesFit' /\ frames' \in Seq(FrameSet) /\ frames' # <<>> /\ Len(frames') = Len(frames) + 1
<1>1. /\ frames' \in Seq(FrameSet) /\ Len(frames') = Len(frames) + 1 /\ frames' # <<>>
      /\ frames'[Len(frames) + 1] = x /\ \A i \in 1 .. Len(frames) : frames'[i] = frames[i]
      /\ Len(frames) \in Nat
  BY FramePushed DEF AnswerTypeOK
<1>2. \A i \in 1 .. Len(frames') :
       /\ i = 1 => frames'[i].of = "step"
       /\ i = 2 => frames'[i].of = "reply"
       /\ i > 2 => frames'[i].of \in {"llm", "acting", "tool"}
  <2> TAKE i \in 1 .. Len(frames')
  <2>1. CASE i = Len(frames) + 1
    <3>1. frames'[i] = x
      BY <1>1, <2>1
    <3>2. (i = 1 <=> Len(frames) = 0) /\ (i = 2 <=> Len(frames) = 1) /\ (i > 2 <=> Len(frames) > 1)
      <4>1. \A n \in Nat : /\ (n + 1 = 1 <=> n = 0) /\ (n + 1 = 2 <=> n = 1)
                           /\ (n + 1 > 2 <=> n > 1)
        OBVIOUS
      <4> QED BY <1>1, <2>1, <4>1
    <3> QED BY <3>1, <3>2
  <2>2. CASE i \in 1 .. Len(frames)
    BY <1>1, <2>2 DEF FramesFit
  <2>3. i = Len(frames) + 1 \/ i \in 1 .. Len(frames)
    BY <1>1
  <2> QED BY <2>1, <2>2, <2>3
<1> QED BY <1>1, <1>2 DEF FramesFit

LEMMA PopFits ==
  ASSUME AnswerTypeOK, FramesFit, frames # <<>>, turn'.pc = turn.pc, frames' = Front(frames)
  PROVE  /\ FramesFit' /\ frames' \in Seq(FrameSet) /\ Len(frames') = Len(frames) - 1
         /\ frames' = <<>> <=> Len(frames) = 1
<1>1. /\ frames' \in Seq(FrameSet) /\ Len(frames') = Len(frames) - 1
      /\ Len(frames) \in Nat \ {0}
      /\ \A i \in 1 .. Len(frames) - 1 : frames'[i] = frames[i]
  BY FramePopped DEF AnswerTypeOK
<1>2. frames' = <<>> <=> Len(frames) = 1
  BY <1>1, EmptySeq
<1>3. CASE turn.pc = "judging"
  <2>1. \A i \in 1 .. Len(frames') : i \in 1 .. Len(frames) /\ frames'[i] = frames[i]
    BY <1>1
  <2> QED BY <1>1, <1>2, <1>3, <2>1 DEF FramesFit
<1>4. CASE turn.pc # "judging"
  BY <1>1, <1>2, <1>4 DEF FramesFit
<1> QED BY <1>1, <1>2, <1>3, <1>4

\* Events of calls other than the end of the step are not in the way.
LEMMA Asides ==
  /\ \A of \in Calling : \A what :
       Event(of, what) # Terminal /\ Event(of, what) # Event("validation", "completed")
  /\ \A of \in {"policy", "runtime", "skill"} : \A what :
       /\ Event(of, what) # Terminal /\ Event(of, what) # Event("validation", "completed")
       /\ Event(of, what) # Event("step", "failed") /\ Event(of, what) # Event("step", "completed")
  /\ \A of, what : what # "failed" \/ of # "step" => Event(of, what) # Event("step", "failed")
  BY EventIs DEF Terminal, Calling

LEMMA ToldFirst ==
  ASSUME NEW a \in AnswerEvents, NEW b \in AnswerEvents
  PROVE  /\ ToSet(<<a>> \o <<>>) = {a} /\ <<a>> \o <<>> = <<a>>
         /\ ToSet(<<a>> \o <<b>>) = {a, b}
<1>1. <<a>> \o <<>> = <<a>> /\ <<a>> \o <<b>> = <<a, b>>
  <2>1. <<a>> \o <<>> = <<a>>
    OBVIOUS
  <2>2. /\ <<a>> \o <<b>> \in Seq(AnswerEvents) /\ Len(<<a>> \o <<b>>) = 2
        /\ (<<a>> \o <<b>>)[1] = a /\ (<<a>> \o <<b>>)[2] = b
    OBVIOUS
  <2>3. <<a, b>> \in Seq(AnswerEvents) /\ Len(<<a, b>>) = 2 /\ <<a, b>>[1] = a /\ <<a, b>>[2] = b
    OBVIOUS
  <2> DEFINE u == <<a>> \o <<b>>
             v == <<a, b>>
  <2> HIDE DEF u, v
  <2>4. \A i \in 1 .. Len(u) : u[i] = v[i]
    <3>1. \A i \in 1 .. 2 : i = 1 \/ i = 2
      OBVIOUS
    <3> QED BY <2>2, <2>3, <3>1 DEF u, v
  <2>5. u = v
    BY <2>2, <2>3, <2>4, SeqEqual DEF u, v
  <2> QED BY <2>1, <2>5 DEF u, v
<1>2. ToSet(<<a>>) = {a}
  <2>1. DOMAIN <<a>> = {1} /\ <<a>>[1] = a
    OBVIOUS
  <2> QED BY <2>1 DEF ToSet
<1>3. ToSet(<<a, b>>) = {a, b}
  <2>1. DOMAIN <<a, b>> = {1, 2} /\ <<a, b>>[1] = a /\ <<a, b>>[2] = b
    OBVIOUS
  <2> QED BY <2>1 DEF ToSet
<1> QED BY <1>1, <1>2, <1>3

LEMMA NothingTold ==
  ASSUME AnswerTypeOK, UNCHANGED <<published, breaks>>, raising' \in BOOLEAN
  PROVE  Tells(<<>>) /\ ToSet(<<>>) = {} /\ (CallsAreTold /\ UNCHANGED frames => CallsAreTold')
<1>1. ToSet(<<>>) = {}
  BY DEF ToSet
<1>2. Tells(<<>>)
  BY <1>1 DEF AnswerTypeOK, Tells
<1> QED BY <1>1, <1>2 DEF CallsAreTold

LEMMA AgentRaises ==
  ASSUME AnswerInv, turn.pc = "judging", frames # <<>>, SameTurn,
         turn'.remembered = turn.remembered, ~turn'.answered, Raises
  PROVE  AnswerInv'
<1>0. AnswerTypeOK /\ CallsAreTold /\ FramesFit
  BY DEF AnswerInv
<1>1. Tells(<<>>) /\ ToSet(<<>>) = {} /\ CallsAreTold'
  BY <1>0, NothingTold DEF Raises
<1>2. FramesFit' /\ frames' \in Seq(FrameSet)
  BY <1>0 DEF Raises, FramesFit, AnswerTypeOK, SameTurn
<1> QED BY <1>1, <1>2, AgentKeeps

LEMMA AgentDenied ==
  ASSUME AnswerInv, turn.pc = "judging", frames # <<>>, SameTurn,
         turn'.remembered = turn.remembered, ~turn'.answered,
         Publish(<<Event("policy", "denied")>>, TRUE), UNCHANGED frames
  PROVE  AnswerInv'
<1>0. AnswerTypeOK /\ CallsAreTold /\ FramesFit
  BY DEF AnswerInv
<1> DEFINE a == Event("policy", "denied")
<1>1. /\ a \in AnswerEvents /\ Quiet(a) /\ a # Terminal
      /\ a # Event("validation", "completed") /\ a # Event("step", "failed")
  BY EventIs DEF Tellers, Whats, Quiet, Calling, Terminal
<1>2. Publish(<<a>>, TRUE) /\ TRUE \in BOOLEAN
  OBVIOUS
<1> HIDE DEF a
<1>3. Tells(<<a>>) /\ ToSet(<<a>>) = {a} /\ CallsAreTold'
  BY <1>0, <1>1, <1>2, QuietSeqs, QuietKeeps
<1>4. FramesFit' /\ frames' \in Seq(FrameSet)
  BY <1>0 DEF FramesFit, AnswerTypeOK, SameTurn
<1> QED BY <1>1, <1>3, <1>4, AgentKeeps

LEMMA AgentOpens ==
  ASSUME AnswerInv, turn.pc = "judging", frames # <<>>, SameTurn,
         turn'.remembered = turn.remembered, ~turn'.answered,
         NEW of \in {"reply", "llm", "acting", "tool"}, NEW tool \in AllTools,
         of = "reply" <=> Len(frames) = 1,
         NEW events \in {<<>>, <<Event("runtime", "selected")>>}, Open(of, tool, events)
  PROVE  AnswerInv'
<1>0. AnswerTypeOK /\ CallsAreTold /\ FramesFit /\ Len(frames) \in Nat \ {0}
  BY EmptySeq DEF AnswerInv, AnswerTypeOK
<1> DEFINE a == Event(of, "started")
           b == Event("runtime", "selected")
           x == Frame(of, tool)
<1>1. /\ a \in AnswerEvents /\ b \in AnswerEvents /\ Quiet(b) /\ of \in Calling
      /\ x \in FrameSet /\ x.of = of
  BY EventIs DEF Tellers, Whats, Calling, Quiet, Frame, FrameSet
<1>2. /\ Terminal \notin {a, b} /\ Event("validation", "completed") \notin {a, b}
      /\ Event("step", "failed") \notin {a, b}
  BY <1>1, Asides
<1>3. events = <<>> \/ events = <<b>>
  OBVIOUS
<1> HIDE DEF b, x
<1>4. events \in Seq(AnswerEvents) /\ \A i \in 1 .. Len(events) : Quiet(events[i])
  BY <1>1, <1>3, QuietSeqs
<1>5. /\ Tells(<<a>> \o events) /\ CallsAreTold'
      /\ \/ raising' = FALSE /\ frames' = Append(frames, x)
         \/ raising' = TRUE /\ breaks' = breaks + 1 /\ frames' = frames
  BY <1>0, <1>1, <1>4, OpenTells DEF x
<1> HIDE DEF a
<1>6. ToSet(<<a>> \o events) \subseteq {a, b}
  BY <1>1, <1>3, ToldFirst
<1>7. FramesFit' /\ frames' \in Seq(FrameSet) /\ frames' # <<>>
  <2>1. CASE frames' = frames
    BY <1>0, <2>1 DEF FramesFit, AnswerTypeOK, SameTurn
  <2>2. CASE frames' = Append(frames, x)
    <3>0. Len(frames) > 1 => Len(frames) # 1
      <4>1. \A n \in Nat : n > 1 => n # 1
        OBVIOUS
      <4> QED BY <1>0, <4>1
    <3>1. /\ turn'.pc = "judging" /\ Len(frames) # 0 /\ (Len(frames) = 1 => x.of = "reply")
          /\ Len(frames) > 1 => x.of \in {"llm", "acting", "tool"}
      <4>1. turn'.pc = "judging" /\ Len(frames) # 0
        BY <1>0 DEF SameTurn
      <4>2. Len(frames) = 1 => x.of = "reply"
        BY <1>1
      <4>3. Len(frames) > 1 => x.of \in {"llm", "acting", "tool"}
        BY <1>1, <3>0
      <4> QED BY <4>1, <4>2, <4>3
    <3> QED BY <1>0, <1>1, <2>2, <3>1, PushFits
  <2> QED BY <1>5, <2>1, <2>2
<1>8. /\ Terminal \notin ToSet(<<a>> \o events)
      /\ Event("validation", "completed") \notin ToSet(<<a>> \o events)
      /\ Event("step", "failed") \notin ToSet(<<a>> \o events)
  BY <1>2, <1>6
<1> QED BY <1>5, <1>7, <1>8, AgentKeeps

LEMMA AgentCloses ==
  ASSUME AnswerInv, turn.pc = "judging", frames # <<>>, SameTurn,
         turn'.remembered = turn.remembered,
         Last(frames).of # "step", turn'.answered => ~raising' /\ Len(frames) = 2,
         NEW events \in {<<>>, <<Event("skill", "executed")>>}, Close(events)
  PROVE  AnswerInv'
<1>0. AnswerTypeOK /\ CallsAreTold /\ FramesFit
  BY DEF AnswerInv
<1> DEFINE of == Last(frames).of
           a == Event(of, "completed")
           b == Event("skill", "executed")
<1>1. of \in Calling /\ Len(frames) \in Nat \ {0} /\ Len(frames) # 1
  BY <1>0, Innermost
<1> HIDE DEF of
<1>2. a \in AnswerEvents /\ b \in AnswerEvents /\ Quiet(b)
  BY <1>1, EventIs DEF Tellers, Whats, Calling, Quiet, Ending
<1>3. /\ Terminal \notin {a, b} /\ Event("validation", "completed") \notin {a, b}
      /\ Event("step", "failed") \notin {a, b}
  BY <1>1, Asides
<1>4. events = <<>> \/ events = <<b>>
  OBVIOUS
<1> HIDE DEF b
<1>5. events \in Seq(AnswerEvents) /\ \A i \in 1 .. Len(events) : Quiet(events[i])
  BY <1>2, <1>4, QuietSeqs
<1>6. /\ Tells(<<a>> \o events) /\ CallsAreTold'
      /\ frames' = Front(frames)
  BY <1>0, <1>5, CloseTells DEF of, Inside
<1> HIDE DEF a
<1>7. ToSet(<<a>> \o events) \subseteq {a, b}
  BY <1>2, <1>4, ToldFirst
<1>8. /\ FramesFit' /\ frames' \in Seq(FrameSet) /\ frames' # <<>>
      /\ Len(frames') = Len(frames) - 1
  BY <1>0, <1>1, <1>6, PopFits DEF SameTurn
<1>9. /\ Terminal \notin ToSet(<<a>> \o events)
      /\ Event("validation", "completed") \notin ToSet(<<a>> \o events)
      /\ Event("step", "failed") \notin ToSet(<<a>> \o events)
  BY <1>3, <1>7
<1>10. turn'.answered => Len(frames') = 1 /\ ~raising'
  BY <1>8
<1> QED BY <1>6, <1>8, <1>9, <1>10, AgentKeeps

\* Inside of a reply nothing is answered yet.
LEMMA InReply ==
  ASSUME AnswerInv, frames # <<>>, Last(frames).of \in {"reply", "llm", "acting"}
  PROVE  /\ turn.pc = "judging" /\ ~turn.answered /\ Len(frames) \in Nat /\ Len(frames) > 1
         /\ Last(frames).of = "reply" => Len(frames) = 2
         /\ Last(frames).tool \in AllTools
<1>1. /\ Len(frames) \in Nat \ {0} /\ turn.pc = "judging"
      /\ Last(frames).of = "reply" <=> Len(frames) = 2
      /\ Last(frames).of = "step" <=> Len(frames) = 1
  BY Innermost DEF AnswerInv
<1>2. ~turn.answered
  BY <1>1 DEF AnswerInv, AnswerIsTheAgents
<1>3. Last(frames).tool \in AllTools
  BY FramePopped DEF AnswerInv, AnswerTypeOK, FrameSet
<1>4. Len(frames) # 1
  BY <1>1
<1>5. Len(frames) > 1
  <2>1. \A n \in Nat \ {0} : n # 1 => n > 1
    OBVIOUS
  <2> QED BY <1>1, <1>4, <2>1
<1> QED BY <1>1, <1>2, <1>3, <1>5

LEMMA StartReplyStep == ASSUME AnswerInv, StartReply PROVE AnswerInv'
<1>1. /\ frames # <<>> /\ Last(frames).of = "step" /\ ~turn.answered
      /\ Raises \/ Open("reply", "none", <<Event("runtime", "selected")>>)
      /\ turn' = turn
  BY DEF StartReply, Inside
<1>2. turn.pc = "judging" /\ Len(frames) = 1
  BY <1>1, Innermost DEF AnswerInv
<1>3. SameTurn /\ turn'.remembered = turn.remembered /\ ~turn'.answered
  BY <1>1, SameTurnIs DEF AnswerInv
<1>4. CASE Raises
  BY <1>1, <1>2, <1>3, <1>4, AgentRaises
<1>5. CASE Open("reply", "none", <<Event("runtime", "selected")>>)
  <2>1. "none" \in AllTools
    BY DEF AllTools
  <2> QED BY <1>1, <1>2, <1>3, <1>5, <2>1, AgentOpens
<1> QED BY <1>1, <1>4, <1>5

LEMMA AskModelStep == ASSUME AnswerInv, AskModel PROVE AnswerInv'
<1>1. /\ frames # <<>> /\ Last(frames).of = "reply"
      /\ Open("llm", "none", <<>>) /\ turn' = turn /\ "none" \in AllTools
  BY DEF AskModel, Inside, AllTools
<1>2. turn.pc = "judging" /\ Len(frames) = 2 /\ ~turn.answered
  BY <1>1, InReply
<1>3. SameTurn /\ turn'.remembered = turn.remembered /\ ~turn'.answered
  BY <1>1, <1>2, SameTurnIs DEF AnswerInv
<1> QED BY <1>1, <1>2, <1>3, AgentOpens

LEMMA ModelEndsStep == ASSUME AnswerInv, ModelEnds PROVE AnswerInv'
<1>1. /\ frames # <<>> /\ Last(frames).of = "llm" /\ turn' = turn
      /\ Close(<<>>) \/ Raises
  BY DEF ModelEnds, Inside
<1>2. turn.pc = "judging" /\ ~turn.answered
  BY <1>1, InReply
<1>3. SameTurn /\ turn'.remembered = turn.remembered /\ ~turn'.answered
  BY <1>1, <1>2, SameTurnIs DEF AnswerInv
<1>4. CASE Close(<<>>)
  BY <1>1, <1>2, <1>3, <1>4, AgentCloses
<1>5. CASE Raises
  BY <1>1, <1>2, <1>3, <1>5, AgentRaises
<1> QED BY <1>1, <1>4, <1>5

LEMMA ActStep == ASSUME AnswerInv, Act PROVE AnswerInv'
<1>1. /\ frames # <<>> /\ Last(frames).of = "reply" /\ turn' = [turn EXCEPT !.called = FALSE]
      /\ \E tool \in AllTools : Open("acting", tool, <<>>)
  BY DEF Act, Inside, AllTools
<1>2. turn.pc = "judging" /\ Len(frames) = 2 /\ ~turn.answered
  BY <1>1, InReply
<1>3. SameTurn /\ turn'.remembered = turn.remembered /\ turn'.answered = turn.answered
  BY <1>1 DEF AnswerInv, AnswerTypeOK, Turns, SameTurn
<1> QED BY <1>1, <1>2, <1>3, AgentOpens

LEMMA CallToolStep == ASSUME AnswerInv, CallTool PROVE AnswerInv'
<1>1. /\ frames # <<>> /\ Last(frames).of = "acting" /\ turn' = [turn EXCEPT !.called = TRUE]
      /\ \/ RunTool(Last(frames).tool)
         \/ Raises
         \/ Publish(<<Event("policy", "denied")>>, TRUE) /\ UNCHANGED frames
  BY DEF CallTool, Inside
<1>2. /\ turn.pc = "judging" /\ Len(frames) \in Nat /\ Len(frames) > 1 /\ ~turn.answered
      /\ Last(frames).tool \in AllTools
  BY <1>1, InReply
<1>3. SameTurn /\ turn'.remembered = turn.remembered /\ turn'.answered = turn.answered
  BY <1>1 DEF AnswerInv, AnswerTypeOK, Turns, SameTurn
<1>4. CASE RunTool(Last(frames).tool)
  <2>1. \/ Publish(<<Event("policy", "denied")>>, TRUE) /\ UNCHANGED frames
        \/ Open("tool", Last(frames).tool, <<>>)
    BY <1>4 DEF RunTool
  <2>2. CASE Open("tool", Last(frames).tool, <<>>)
    <3>1. Len(frames) # 1
      <4>1. \A n \in Nat : n > 1 => n # 1
        OBVIOUS
      <4> QED BY <1>2, <4>1
    <3> QED BY <1>1, <1>2, <1>3, <2>2, <3>1, AgentOpens
  <2> QED BY <1>1, <1>2, <1>3, <2>1, <2>2, AgentDenied
<1>5. CASE Raises
  BY <1>1, <1>2, <1>3, <1>5, AgentRaises
<1>6. CASE Publish(<<Event("policy", "denied")>>, TRUE) /\ UNCHANGED frames
  BY <1>1, <1>2, <1>3, <1>6, AgentDenied
<1> QED BY <1>1, <1>4, <1>5, <1>6

LEMMA ErrorIsAnsweredStep == ASSUME AnswerInv, ErrorIsAnswered PROVE AnswerInv'
<1>1. /\ frames # <<>> /\ Last(frames).of = "acting"
      /\ raising' = FALSE /\ UNCHANGED <<turn, frames, published, breaks>>
  BY DEF ErrorIsAnswered, Inside
<1>2. turn.pc = "judging" /\ ~turn.answered
  BY <1>1, InReply
<1>3. SameTurn /\ turn'.remembered = turn.remembered /\ ~turn'.answered
  BY <1>1, <1>2, SameTurnIs DEF AnswerInv
<1>4. Tells(<<>>) /\ ToSet(<<>>) = {} /\ CallsAreTold'
  BY <1>1, NothingTold DEF AnswerInv
<1>5. FramesFit' /\ frames' \in Seq(FrameSet)
  BY <1>1 DEF AnswerInv, FramesFit, AnswerTypeOK
<1> QED BY <1>1, <1>2, <1>3, <1>4, <1>5, AgentKeeps

LEMMA ActingEndsStep == ASSUME AnswerInv, ActingEnds PROVE AnswerInv'
<1>1. /\ frames # <<>> /\ Last(frames).of = "acting" /\ turn' = turn
      /\ \E events \in {<<>>, <<Event("skill", "executed")>>} : Close(events)
  BY DEF ActingEnds, Inside
<1>2. turn.pc = "judging" /\ ~turn.answered
  BY <1>1, InReply
<1>3. SameTurn /\ turn'.remembered = turn.remembered /\ ~turn'.answered
  BY <1>1, <1>2, SameTurnIs DEF AnswerInv
<1> QED BY <1>1, <1>2, <1>3, AgentCloses

LEMMA ReplyEndsStep == ASSUME AnswerInv, ReplyEnds PROVE AnswerInv'
<1>1. /\ frames # <<>> /\ Last(frames).of = "reply"
      /\ \/ Close(<<>>) /\ turn' = [turn EXCEPT !.answered = ~raising']
         \/ Raises /\ turn' = turn
  BY DEF ReplyEnds, Inside
<1>2. turn.pc = "judging" /\ Len(frames) = 2 /\ ~turn.answered
  BY <1>1, InReply
<1>3. CASE Close(<<>>) /\ turn' = [turn EXCEPT !.answered = ~raising']
  <2>1. SameTurn /\ turn'.remembered = turn.remembered /\ turn'.answered = ~raising'
    BY <1>3 DEF AnswerInv, AnswerTypeOK, Turns, SameTurn
  <2> QED BY <1>1, <1>2, <1>3, <2>1, AgentCloses
<1>4. CASE Raises /\ turn' = turn
  <2>1. SameTurn /\ turn'.remembered = turn.remembered /\ ~turn'.answered
    BY <1>2, <1>4, SameTurnIs DEF AnswerInv
  <2> QED BY <1>1, <1>2, <1>4, <2>1, AgentRaises
<1> QED BY <1>1, <1>3, <1>4

LEMMA StepEndsStep == ASSUME AnswerInv, StepEnds PROVE AnswerInv'
<1>0. AnswerTypeOK /\ CallsAreTold /\ FramesFit
  BY DEF AnswerInv
<1>1. /\ frames # <<>> /\ Last(frames).of = "step" /\ Inside("step") /\ turn.answered
      /\ Close(<<>>) /\ turn' = [turn EXCEPT !.answered = ~raising']
  BY DEF StepEnds, Inside
<1>2. turn.pc = "judging" /\ Len(frames) = 1
  BY <1>0, <1>1, Innermost
<1> DEFINE a == Event("step", "completed")
<1>3. SameTurn /\ turn'.remembered = turn.remembered /\ turn'.answered = ~raising'
  BY <1>0, <1>1 DEF AnswerTypeOK, Turns, SameTurn
<1>4. /\ a \in AnswerEvents /\ a # Terminal /\ a # Event("validation", "completed")
      /\ a # Event("step", "failed")
  BY EventIs DEF Tellers, Whats, Calling, Ending, Terminal
<1>5. <<>> \in Seq(AnswerEvents) /\ \A i \in 1 .. Len(<<>>) : Quiet(<<>>[i])
  BY <1>4, EventIs DEF Quiet
<1>6. /\ Tells(<<a>> \o <<>>) /\ CallsAreTold'
      /\ \/ raising' = FALSE /\ breaks' = breaks /\ frames' = Front(frames)
         \/ raising' = TRUE /\ breaks' = breaks + 1 /\ frames' = frames
  BY <1>0, <1>1, <1>5, CloseTells
<1> HIDE DEF a
<1>7. ToSet(<<a>> \o <<>>) = {a}
  BY <1>4, ToldFirst
<1>8. ~Heard("step", "failed")
  BY <1>1, <1>2 DEF AnswerInv, AnswerIsTheAgents
<1>9. CASE raising' = TRUE /\ frames' = frames
  <2>1. FramesFit' /\ frames' \in Seq(FrameSet)
    BY <1>0, <1>3, <1>9 DEF FramesFit, AnswerTypeOK, SameTurn
  <2> QED BY <1>1, <1>2, <1>3, <1>4, <1>6, <1>7, <1>9, <2>1, AgentKeeps
<1>10. CASE raising' = FALSE /\ breaks' = breaks /\ frames' = Front(frames)
  <2>1. FramesFit' /\ frames' \in Seq(FrameSet) /\ frames' = <<>>
    BY <1>0, <1>1, <1>2, <1>3, <1>10, PopFits DEF SameTurn
  <2>2. ToSet(<<a>> \o <<>>) \subseteq ToSet(published')
    BY <1>6, <1>10 DEF Tells, AnswerTypeOK
  <2>3. ToSet(published') \subseteq ToSet(published) \cup ToSet(<<a>> \o <<>>)
    BY <1>6 DEF Tells
  <2>4. EndedWell'
    BY <1>4, <1>7, <1>8, <2>2, <2>3 DEF EndedWell, Heard, a
  <2> QED BY <1>1, <1>2, <1>3, <1>4, <1>6, <1>7, <2>1, <2>4, AgentKeeps
<1> QED BY <1>6, <1>9, <1>10

-----------------------------------------------------------------------------
(* The steps of the handler *)

\* What was told stays told, and nothing is told but these events.
Hears(events) ==
  /\ \A of, what : Heard(of, what) => Heard(of, what)'
  /\ \A of, what : Heard(of, what)' => Heard(of, what) \/ Event(of, what) \in ToSet(events)
  /\ breaks' = breaks => \A of, what : Event(of, what) \in ToSet(events) => Heard(of, what)'
  /\ breaks' = 0 => breaks = 0 /\ breaks' = breaks
  /\ breaks' # breaks => raising' = TRUE

LEMMA TellsIs == ASSUME AnswerTypeOK, NEW events, Tells(events) PROVE Hears(events)
<1>0. breaks' = breaks \/ (breaks' = breaks + 1 /\ raising' = TRUE)
  BY Zenon DEF Tells
<1>1. /\ breaks \in Nat /\ breaks' \in Nat /\ breaks # breaks + 1
      /\ breaks' = 0 => breaks = 0 /\ breaks' = breaks
      /\ breaks' # breaks => raising' = TRUE
  BY <1>0 DEF AnswerTypeOK, Tells
<1>2. /\ \A e : e \in ToSet(published) => e \in ToSet(published')
      /\ \A e : e \in ToSet(published') => e \in ToSet(published) \/ e \in ToSet(events)
      /\ breaks' = breaks => \A e : e \in ToSet(events) => e \in ToSet(published')
  BY <1>1 DEF Tells
<1> QED BY <1>1, <1>2 DEF Hears, Heard

\* The step of the agent is before or behind what the handler does elsewhere.
LEMMA StepUntouched ==
  ASSUME AnswerIsTheAgents, NEW events, Hears(events),
         Event("step", "failed") \notin ToSet(events),
         turn'.answered = turn.answered, turn'.by = turn.by,
         turn.pc # "judging", turn'.pc # "judging", turn'.pc \in Early => turn.pc \in Early
  PROVE  AnswerIsTheAgents'
<1>1. Heard("step", "failed")' => Heard("step", "failed")
  BY DEF Hears
<1>2. Heard("step", "completed") => Heard("step", "completed")'
  BY DEF Hears
<1>3. EndedWell => EndedWell'
  BY <1>1, <1>2 DEF EndedWell
<1> QED BY <1>1, <1>3 DEF AnswerIsTheAgents, Early

LEMMA EventsAre ==
  /\ \A of \in Tellers \ Calling, what \in Whats :
       Event(of, what) \in AnswerEvents /\ Quiet(Event(of, what))
  /\ \A of, what, of2, what2 : of # of2 \/ what # what2 => Event(of, what) # Event(of2, what2)
  /\ Terminal = Event("subtask", "terminal")
  /\ {"policy", "runtime", "skill", "validation", "subtask", "execution", "artifact"}
        \subseteq Tellers \ Calling
  /\ {"completed", "failed", "started", "denied", "selected", "executed", "fallback", "created",
      "terminal", "succeeded", "running"} \subseteq Whats
  BY EventIs DEF Quiet, Terminal, Tellers, Whats, Calling, Ending

\* One event of the handler's own, after which it may raise.
LEMMA HandlerSays ==
  ASSUME AnswerTypeOK, CallsAreTold, NEW of \in Tellers \ Calling, NEW what \in Whats,
         NEW raises \in BOOLEAN, Publish(<<Event(of, what)>>, raises), UNCHANGED frames
  PROVE  /\ CallsAreTold' /\ Hears(<<Event(of, what)>>)
         /\ ToSet(<<Event(of, what)>>) = {Event(of, what)}
         /\ published' \in Seq(AnswerEvents) /\ breaks' \in Nat /\ raising' \in BOOLEAN
         /\ breaks' = breaks => raising' = raises
         /\ what # "terminal" \/ of # "subtask" =>
              Count(published', {Terminal}) = Count(published, {Terminal})
<1> DEFINE a == Event(of, what)
<1>1. /\ a \in AnswerEvents /\ Quiet(a)
      /\ what # "terminal" \/ of # "subtask" => a # Terminal
  BY EventsAre
<1>2. Publish(<<a>>, raises)
  OBVIOUS
<1> HIDE DEF a
<1>3. /\ Tells(<<a>>) /\ CallsAreTold' /\ ToSet(<<a>>) = {a}
      /\ breaks' = breaks => raising' = raises
  BY <1>1, <1>2, QuietSeqs, QuietKeeps
<1>4. /\ published' \in Seq(AnswerEvents) /\ breaks' \in Nat /\ raising' \in BOOLEAN
      /\ Terminal \notin ToSet(<<a>>) =>
           Count(published', {Terminal}) = Count(published, {Terminal})
  BY <1>3 DEF Tells
<1> QED BY <1>1, <1>3, <1>4, TellsIs DEF a

\* One event of the handler's own.
LEMMA HandlerTells ==
  ASSUME AnswerTypeOK, CallsAreTold, NEW of \in Tellers \ Calling, NEW what \in Whats,
         Publish(<<Event(of, what)>>, FALSE), UNCHANGED frames
  PROVE  /\ CallsAreTold' /\ Hears(<<Event(of, what)>>)
         /\ ToSet(<<Event(of, what)>>) = {Event(of, what)}
         /\ published' \in Seq(AnswerEvents) /\ breaks' \in Nat /\ raising' \in BOOLEAN
         /\ breaks' = breaks => raising' = FALSE
         /\ what # "terminal" \/ of # "subtask" =>
              Count(published', {Terminal}) = Count(published, {Terminal})
  BY HandlerSays, FALSE \in BOOLEAN

LEMMA NothingHeard ==
  ASSUME AnswerTypeOK, UNCHANGED <<published, breaks>>, raising' \in BOOLEAN
  PROVE  Hears(<<>>) /\ ToSet(<<>>) = {}
  BY NothingTold, TellsIs

\* Moving on, with nothing in progress.
LEMMA NoFrames ==
  ASSUME frames = <<>>, UNCHANGED frames
  PROVE  FramesFit' /\ Len(frames) = 0 /\ Len(frames') = 0 /\ frames' = <<>>
  BY DEF FramesFit

\* The turn is elsewhere and else the same.
SameBut(later, before, place) ==
  /\ later.pc = place /\ later.kind = before.kind /\ later.memory = before.memory
  /\ later.selected = before.selected /\ later.artifacts = before.artifacts
  /\ later.sound = before.sound /\ later.forced = before.forced
  /\ later.answered = before.answered /\ later.by = before.by
  /\ later.good = before.good /\ later.status = before.status /\ later.remembered = before.remembered

LEMMA StartTurnStep == ASSUME AnswerInv, StartTurn PROVE AnswerInv'
<1>0. AnswerTypeOK /\ CallsAreTold /\ FramesFit
  BY DEF AnswerInv
<1>1. /\ turn.pc = "idle" /\ frames = <<>> /\ ~raising /\ UNCHANGED frames
      /\ Publish(<<Event("subtask", "started")>>, FALSE)
      /\ turn' = [turn EXCEPT !.pc = "preparing"]
  BY DEF StartTurn, Handling, Goes
<1>2. /\ CallsAreTold' /\ Hears(<<Event("subtask", "started")>>)
      /\ ToSet(<<Event("subtask", "started")>>) = {Event("subtask", "started")}
      /\ published' \in Seq(AnswerEvents) /\ breaks' \in Nat /\ raising' \in BOOLEAN
      /\ Count(published', {Terminal}) = Count(published, {Terminal})
  BY <1>0, <1>1, EventsAre, HandlerTells
<1>3. AnswerTypeOK'
  BY <1>0, <1>1, <1>2 DEF AnswerTypeOK, Turns, AnswerPcs
<1>4. FramesFit' /\ frames' = <<>>
  BY <1>1, NoFrames
<1>5. SameBut(turn', turn, "preparing")
  BY <1>0, <1>1 DEF AnswerTypeOK, Turns, SameBut
<1>6. AnswerIsTheAgents'
  BY <1>1, <1>2, <1>5, EventsAre, StepUntouched DEF AnswerInv, SameBut, Early
<1>7. VerdictHasGrounds'
  BY <1>1, <1>2, <1>5, EventsAre DEF AnswerInv, VerdictHasGrounds, Hears, SameBut, Grounds, ByRules, IsForced
<1>8. MemoryHasGrounds'
  BY <1>1, <1>2, <1>5 DEF AnswerInv, MemoryHasGrounds, SameBut
<1> QED BY <1>2, <1>3, <1>4, <1>6, <1>7, <1>8 DEF AnswerInv

LEMMA RefuseStep == ASSUME AnswerInv, Refuse PROVE AnswerInv'
<1>0. AnswerTypeOK /\ CallsAreTold /\ FramesFit
  BY DEF AnswerInv
<1>1. /\ turn.pc = "preparing" /\ frames = <<>> /\ UNCHANGED <<turn, frames, published, breaks>>
      /\ raising' = TRUE
  BY DEF Refuse, Handling, Raises
<1>2. Hears(<<>>) /\ ToSet(<<>>) = {} /\ CallsAreTold'
  BY <1>0, <1>1, NothingHeard, NothingTold
<1>3. AnswerTypeOK' /\ FramesFit'
  BY <1>0, <1>1, NoFrames DEF AnswerTypeOK
<1>4. AnswerIsTheAgents'
  BY <1>1, <1>2, StepUntouched DEF AnswerInv
<1>5. VerdictHasGrounds' /\ MemoryHasGrounds'
  BY <1>1, <1>2 DEF AnswerInv, VerdictHasGrounds, MemoryHasGrounds, Hears, Grounds, ByRules, IsForced
<1> QED BY <1>2, <1>3, <1>4, <1>5 DEF AnswerInv

\* _run_tool called by the handler.
LEMMA HandlerRunsTool ==
  ASSUME AnswerInv, frames = <<>>, turn'.pc \in {"prompting", "telling"},
         NEW tool \in OwnTools, RunTool(tool)
  PROVE  /\ CallsAreTold' /\ FramesFit' /\ frames' \in Seq(FrameSet)
         /\ \E events : /\ Hears(events)
                       /\ Event("step", "failed") \notin ToSet(events)
                       /\ Event("validation", "completed") \notin ToSet(events)
         /\ Count(published', {Terminal}) = Count(published, {Terminal})
         /\ published' \in Seq(AnswerEvents) /\ breaks' \in Nat /\ raising' \in BOOLEAN
         /\ \/ raising' = FALSE /\ frames' # <<>> /\ tool \in turn.selected
            \/ raising' = TRUE /\ frames' = <<>>
<1>0. AnswerTypeOK /\ CallsAreTold /\ FramesFit /\ tool \in AllTools
  BY DEF AnswerInv, AllTools
<1> DEFINE a == Event("policy", "denied")
           b == Event("tool", "started")
           x == Frame("tool", tool)
<1>1. /\ a \in AnswerEvents /\ b \in AnswerEvents
      /\ Event("step", "failed") \notin {a, b} /\ Event("validation", "completed") \notin {a, b}
      /\ Terminal \notin {a, b} /\ x \in FrameSet /\ x.of = "tool"
  BY <1>0, EventIs DEF Tellers, Whats, Calling, Terminal, Frame, FrameSet
<1> HIDE DEF a, b, x
<1>2. /\ Tells(<<a>>) \/ Tells(<<b>>)
      /\ CallsAreTold'
      /\ \/ /\ raising' = FALSE /\ frames' = Append(frames, x)
            /\ tool \notin OwnTools \ turn.selected
         \/ raising' = TRUE /\ frames' = frames
  BY <1>0, RunToolTells DEF a, b, x
<1>3. PICK e \in {a, b} : Tells(<<e>>)
  BY <1>2
<1>4. ToSet(<<e>>) = {e} /\ <<e>> \o <<>> = <<e>>
  BY <1>1, ToldFirst
<1>5. /\ Hears(<<e>>)
      /\ Event("step", "failed") \notin ToSet(<<e>>)
      /\ Event("validation", "completed") \notin ToSet(<<e>>)
      /\ Terminal \notin ToSet(<<e>>)
  BY <1>0, <1>1, <1>3, <1>4, TellsIs
<1>6. /\ published' \in Seq(AnswerEvents) /\ breaks' \in Nat /\ raising' \in BOOLEAN
      /\ Count(published', {Terminal}) = Count(published, {Terminal})
  BY <1>3, <1>5 DEF Tells
<1>7. CASE raising' = TRUE /\ frames' = frames
  <2>1. FramesFit' /\ frames' \in Seq(FrameSet) /\ frames' = <<>>
    BY <1>0, <1>7, NoFrames DEF AnswerTypeOK
  <2> QED BY <1>2, <1>5, <1>6, <1>7, <2>1
<1>8. CASE /\ raising' = FALSE /\ frames' = Append(frames, x)
           /\ tool \notin OwnTools \ turn.selected
  <2>1. /\ frames' \in Seq(FrameSet) /\ Len(frames') = 1 /\ frames' # <<>> /\ frames'[1] = x
    <3>1. Len(frames) = 0
      OBVIOUS
    <3> QED BY <1>0, <1>1, <1>8, <3>1, FramePushed DEF AnswerTypeOK
  <2>2. FramesFit'
    BY <1>1, <2>1 DEF FramesFit
  <2> QED BY <1>2, <1>5, <1>6, <1>8, <2>1, <2>2
<1> QED BY <1>2, <1>7, <1>8

LEMMA PrepareStep == ASSUME AnswerInv, Prepare PROVE AnswerInv'
<1>0. AnswerTypeOK /\ CallsAreTold /\ FramesFit
  BY DEF AnswerInv
<1>1. /\ turn.pc = "preparing" /\ frames = <<>> /\ ~raising
      /\ turn' = [turn EXCEPT !.pc = "prompting"]
  BY DEF Prepare, Handling, Goes
<1>2. SameBut(turn', turn, "prompting") /\ turn' \in Turns
  BY <1>0, <1>1 DEF AnswerTypeOK, Turns, SameBut, AnswerPcs
<1>3. CASE \E tool \in {"artifact_read", "memory_lookup"} :
             RunTool(tool) /\ (turn.kind # "render" => tool = "artifact_read")
  <2>1. PICK tool \in {"artifact_read", "memory_lookup"} :
             RunTool(tool) /\ (turn.kind # "render" => tool = "artifact_read")
    BY <1>3
  <2>2. tool \in OwnTools /\ turn'.pc \in {"prompting", "telling"}
    BY <1>2 DEF OwnTools, SameBut
  <2>3. /\ CallsAreTold' /\ FramesFit' /\ frames' \in Seq(FrameSet)
        /\ Count(published', {Terminal}) = Count(published, {Terminal})
        /\ published' \in Seq(AnswerEvents) /\ breaks' \in Nat /\ raising' \in BOOLEAN
        /\ \/ raising' = FALSE /\ frames' # <<>> /\ tool \in turn.selected
           \/ raising' = TRUE /\ frames' = <<>>
    BY <1>1, <2>1, <2>2, HandlerRunsTool
  <2>4. PICK events : /\ Hears(events)
                      /\ Event("step", "failed") \notin ToSet(events)
                      /\ Event("validation", "completed") \notin ToSet(events)
    BY <1>1, <2>1, <2>2, HandlerRunsTool
  <2>5. AnswerTypeOK'
    BY <1>2, <2>3 DEF AnswerTypeOK
  <2>6. AnswerIsTheAgents'
    BY <1>1, <1>2, <2>4, StepUntouched DEF AnswerInv, SameBut, Early
  <2>7. VerdictHasGrounds'
    BY <1>1, <1>2, <2>1, <2>3, <2>4
       DEF AnswerInv, VerdictHasGrounds, Hears, SameBut, Grounds, ByRules, IsForced
  <2>8. MemoryHasGrounds'
    BY <1>1, <1>2, <2>3 DEF AnswerInv, MemoryHasGrounds, SameBut
  <2> QED BY <2>3, <2>5, <2>6, <2>7, <2>8 DEF AnswerInv
<1>4. CASE turn.kind = "render" /\ UNCHANGED <<frames, raising, published, breaks>>
  <2>1. Hears(<<>>) /\ ToSet(<<>>) = {} /\ CallsAreTold'
    BY <1>0, <1>4, NothingHeard, NothingTold DEF AnswerTypeOK
  <2>2. AnswerTypeOK' /\ FramesFit'
    BY <1>0, <1>1, <1>2, <1>4, NoFrames DEF AnswerTypeOK
  <2>3. AnswerIsTheAgents'
    BY <1>1, <1>2, <2>1, StepUntouched DEF AnswerInv, SameBut, Early
  <2>4. VerdictHasGrounds'
    BY <1>2, <1>4 DEF VerdictHasGrounds, SameBut
  <2>5. MemoryHasGrounds'
    BY <1>1, <1>2, <1>4 DEF AnswerInv, MemoryHasGrounds, SameBut
  <2> QED BY <2>1, <2>2, <2>3, <2>4, <2>5 DEF AnswerInv
<1> QED BY <1>3, <1>4 DEF Prepare

LEMMA PromptStep == ASSUME AnswerInv, Prompt PROVE AnswerInv'
<1>0. AnswerTypeOK /\ CallsAreTold /\ FramesFit
  BY DEF AnswerInv
<1>1. /\ turn.pc = "prompting" /\ frames = <<>> /\ ~raising /\ UNCHANGED frames
      /\ \/ turn.kind = "render" /\ UNCHANGED <<raising, published, breaks>>
         \/ Publish(<<Event("validation", "started")>>, FALSE)
      /\ turn' = [turn EXCEPT !.pc = "asking"]
  BY DEF Prompt, Handling, Goes
<1>2. SameBut(turn', turn, "asking") /\ turn' \in Turns
  BY <1>0, <1>1 DEF AnswerTypeOK, Turns, SameBut, AnswerPcs
<1>3. FramesFit' /\ frames' = <<>>
  BY <1>1, NoFrames
<1>4. /\ CallsAreTold'
      /\ \E events : /\ Hears(events)
                    /\ Event("step", "failed") \notin ToSet(events)
                    /\ Event("validation", "completed") \notin ToSet(events)
      /\ published' \in Seq(AnswerEvents) /\ breaks' \in Nat /\ raising' \in BOOLEAN
      /\ Count(published', {Terminal}) = Count(published, {Terminal})
  <2>1. CASE UNCHANGED <<raising, published, breaks>>
    BY <1>0, <1>1, <2>1, NothingHeard, NothingTold DEF AnswerTypeOK
  <2>2. CASE Publish(<<Event("validation", "started")>>, FALSE)
    <3> DEFINE a == Event("validation", "started")
    <3>1. /\ CallsAreTold' /\ Hears(<<a>>) /\ ToSet(<<a>>) = {a}
          /\ published' \in Seq(AnswerEvents) /\ breaks' \in Nat /\ raising' \in BOOLEAN
          /\ Count(published', {Terminal}) = Count(published, {Terminal})
      BY <1>0, <1>1, <2>2, EventsAre, HandlerTells
    <3>2. Event("step", "failed") # a /\ Event("validation", "completed") # a
      BY EventsAre
    <3> HIDE DEF a
    <3> QED BY <3>1, <3>2
  <2> QED BY <1>1, <2>1, <2>2
<1>5. PICK events : /\ Hears(events)
                    /\ Event("step", "failed") \notin ToSet(events)
                    /\ Event("validation", "completed") \notin ToSet(events)
  BY <1>4
<1>6. AnswerTypeOK'
  BY <1>0, <1>1, <1>2, <1>4 DEF AnswerTypeOK
<1>7. AnswerIsTheAgents'
  BY <1>1, <1>2, <1>5, StepUntouched DEF AnswerInv, SameBut, Early
<1>8. VerdictHasGrounds'
  BY <1>1, <1>2, <1>3, <1>5 DEF AnswerInv, VerdictHasGrounds, Hears, SameBut, Grounds, ByRules, IsForced
<1>9. MemoryHasGrounds'
  BY <1>1, <1>2, <1>4 DEF AnswerInv, MemoryHasGrounds, SameBut
<1> QED BY <1>3, <1>4, <1>6, <1>7, <1>8, <1>9 DEF AnswerInv

LEMMA AskAgentStep == ASSUME AnswerInv, AskAgent PROVE AnswerInv'
<1>0. AnswerTypeOK /\ CallsAreTold /\ FramesFit
  BY DEF AnswerInv
<1>1. /\ turn.pc = "asking" /\ frames = <<>> /\ ~raising
      /\ Open("step", "none", <<>>)
      /\ turn' = [turn EXCEPT !.pc = "judging"]
  BY DEF AskAgent, Handling, Goes
<1>2. SameBut(turn', turn, "judging") /\ turn' \in Turns
  BY <1>0, <1>1 DEF AnswerTypeOK, Turns, SameBut, AnswerPcs
<1> DEFINE a == Event("step", "started")
           x == Frame("step", "none")
<1>3. /\ a \in AnswerEvents /\ a # Terminal /\ Event("step", "failed") # a
      /\ Event("validation", "completed") # a
      /\ "step" \in Calling /\ "none" \in AllTools /\ x \in FrameSet /\ x.of = "step"
      /\ <<>> \in Seq(AnswerEvents) /\ \A i \in 1 .. Len(<<>>) : Quiet(<<>>[i])
  BY EventIs DEF Tellers, Whats, Calling, Terminal, AllTools, Frame, FrameSet
<1> HIDE DEF x
<1>4. /\ Tells(<<a>> \o <<>>) /\ CallsAreTold'
      /\ \/ frames' = Append(frames, x)
         \/ frames' = frames
  BY <1>0, <1>1, <1>3, OpenTells DEF x
<1> HIDE DEF a
<1>5. ToSet(<<a>> \o <<>>) = {a} /\ Hears(<<a>> \o <<>>)
  BY <1>0, <1>3, <1>4, ToldFirst, TellsIs
<1>6. FramesFit' /\ frames' \in Seq(FrameSet)
  <2>1. CASE frames' = frames
    BY <1>0, <1>1, <2>1, NoFrames DEF AnswerTypeOK
  <2>2. CASE frames' = Append(frames, x)
    <3>1. frames' \in Seq(FrameSet) /\ Len(frames') = 1 /\ frames'[1] = x /\ frames' # <<>>
      <4>1. Len(frames) = 0
        BY <1>1
      <4> QED BY <1>0, <1>3, <2>2, <4>1, FramePushed DEF AnswerTypeOK
    <3>2. \A i \in 1 .. Len(frames') : i = 1
      BY <3>1
    <3>3. frames' # <<>> /\ turn'.pc = "judging"
      BY <1>2, <3>1 DEF SameBut
    <3> QED BY <1>3, <3>1, <3>2, <3>3 DEF FramesFit
  <2> QED BY <1>4, <2>1, <2>2
<1>7. AnswerTypeOK'
  BY <1>2, <1>4, <1>6 DEF AnswerTypeOK, Tells
<1>8. /\ Heard("step", "failed")' => Heard("step", "failed")
      /\ Heard("validation", "completed")' => Heard("validation", "completed")
      /\ Heard("tool", "completed") => Heard("tool", "completed")'
      /\ breaks' = 0 => breaks = 0
  BY <1>3, <1>5 DEF Hears
<1>9. AnswerIsTheAgents'
  BY <1>1, <1>2, <1>8 DEF AnswerInv, AnswerIsTheAgents, SameBut, Early, EndedWell
<1>10. VerdictHasGrounds'
  BY <1>1, <1>2, <1>8
     DEF AnswerInv, VerdictHasGrounds, AnswerIsTheAgents, SameBut, Grounds, Early
<1>11. MemoryHasGrounds'
  <2>1. Count(published', {Terminal}) = Count(published, {Terminal})
    BY <1>3, <1>4, <1>5 DEF Tells
  <2> QED BY <1>1, <1>2, <2>1 DEF AnswerInv, MemoryHasGrounds, SameBut
<1> QED BY <1>4, <1>6, <1>7, <1>9, <1>10, <1>11 DEF AnswerInv

\* An answer that is there when the agent is done is that of a step that ended
\* well.
LEMMA AnsweredWell ==
  ASSUME AnswerIsTheAgents, NEW events, Hears(events),
         Event("step", "failed") \notin ToSet(events),
         turn.pc = "judging", frames = <<>>, frames' = <<>>,
         turn'.answered = turn.answered, turn'.pc \notin Early \cup {"judging"},
         turn'.by = "agent" => turn.answered
  PROVE  AnswerIsTheAgents'
<1>1. Heard("step", "failed")' => Heard("step", "failed")
  BY DEF Hears
<1>2. Heard("step", "completed") => Heard("step", "completed")'
  BY DEF Hears
<1>3. EndedWell => EndedWell'
  BY <1>1, <1>2 DEF EndedWell
<1> QED BY <1>3 DEF AnswerIsTheAgents, Early

LEMMA JudgeAnswerStep == ASSUME AnswerInv, JudgeAnswer PROVE AnswerInv'
<1>0. AnswerTypeOK /\ CallsAreTold /\ FramesFit
  BY DEF AnswerInv
<1>1. /\ turn.pc = "judging" /\ frames = <<>> /\ ~raising /\ turn.kind # "render"
      /\ UNCHANGED frames
  BY DEF JudgeAnswer, Handling
<1>2. PICK reply \in Replies :
        /\ turn.answered \/ reply = "nothing"
        /\ turn' = [turn EXCEPT !.pc = "keeping",
                     !.by = IF VerdictIn(reply) # "none" THEN "agent"
                            ELSE IF Undecided THEN "none" ELSE "rules",
                     !.good = IF VerdictIn(reply) = "none" THEN ByRules
                                                           ELSE VerdictIn(reply) = "good"]
        /\ Publish(<<Event("validation", IF VerdictIn(reply) = "none" THEN "fallback"
                                                                    ELSE "completed")>>,
                   VerdictIn(reply) = "none" /\ Undecided)
  BY DEF JudgeAnswer, Replies
<1> DEFINE verdict == VerdictIn(reply)
           raises == verdict = "none" /\ Undecided
           by == IF verdict # "none" THEN "agent" ELSE IF Undecided THEN "none" ELSE "rules"
           what == IF verdict = "none" THEN "fallback" ELSE "completed"
           good == IF verdict = "none" THEN ByRules ELSE verdict = "good"
<1>3. verdict # "none" => turn.answered
  BY <1>2 DEF VerdictIn
<1>4. ByRules \in BOOLEAN /\ good \in BOOLEAN
  BY <1>0 DEF ByRules, AnswerTypeOK, Turns
<1>16. /\ raises \in BOOLEAN /\ by \in {"none", "agent", "rules"}
       /\ (by = "agent" <=> verdict # "none")
  BY DEF Undecided
<1> HIDE DEF verdict, good, by, raises
<1>5. /\ turn' \in Turns
      /\ turn'.pc = "keeping" /\ turn'.kind = turn.kind /\ turn'.memory = turn.memory
      /\ turn'.selected = turn.selected /\ turn'.artifacts = turn.artifacts
      /\ turn'.sound = turn.sound /\ turn'.answered = turn.answered
      /\ turn'.by = by /\ turn'.good = good /\ turn'.forced = turn.forced
      /\ turn'.status = turn.status /\ turn'.remembered = turn.remembered
  <2>1. turn' = [turn EXCEPT !.pc = "keeping", !.by = by, !.good = good]
    BY <1>2 DEF verdict, good, by
  <2> QED BY <1>0, <1>4, <1>16, <2>1 DEF AnswerTypeOK, Turns, AnswerPcs
<1>6. what \in Whats /\ "validation" \in Tellers \ Calling /\ what # "terminal"
  BY EventsAre
<1>7. Publish(<<Event("validation", what)>>, raises)
  BY <1>2 DEF verdict, raises
<1> HIDE DEF what
<1> DEFINE a == Event("validation", what)
<1>8. /\ CallsAreTold' /\ Hears(<<a>>) /\ ToSet(<<a>>) = {a}
      /\ published' \in Seq(AnswerEvents) /\ breaks' \in Nat /\ raising' \in BOOLEAN
      /\ Count(published', {Terminal}) = Count(published, {Terminal})
  BY <1>0, <1>1, <1>6, <1>7, <1>16, HandlerSays
<1>9. Event("step", "failed") # a
  BY EventsAre
<1>10. Event("validation", "completed") = a <=> verdict # "none"
  BY EventIs DEF what
<1> HIDE DEF a
<1>11. FramesFit' /\ frames' = <<>>
  BY <1>1, NoFrames
<1>12. AnswerTypeOK'
  BY <1>0, <1>1, <1>5, <1>8 DEF AnswerTypeOK
<1>13. AnswerIsTheAgents'
  <2>1. turn'.pc \notin Early \cup {"judging"}
    BY <1>5 DEF Early
  <2>2. turn'.by = "agent" => turn.answered
    BY <1>3, <1>5, <1>16
  <2>3. Event("step", "failed") \notin ToSet(<<a>>)
    BY <1>8, <1>9
  <2> QED BY <1>1, <1>5, <1>8, <1>11, <2>1, <2>2, <2>3, AnsweredWell DEF AnswerInv
<1>14. VerdictHasGrounds'
  <2>1. Grounds
    BY <1>1 DEF AnswerInv, VerdictHasGrounds
  <2>2. Grounds'
    BY <1>5, <1>8, <2>1 DEF Grounds, Hears
  <2>3. turn'.by = "rules" /\ turn'.good => ByRules'
    BY <1>5, <1>16 DEF ByRules, IsForced, good
  <2>4. ~Heard("validation", "completed")
    BY <1>1 DEF AnswerInv, VerdictHasGrounds, AnswerIsTheAgents
  <2>5. breaks' = 0 => (Heard("validation", "completed")' <=> verdict # "none")
    <3> SUFFICES ASSUME breaks' = 0
                 PROVE  Heard("validation", "completed")' <=> verdict # "none"
      OBVIOUS
    <3>1. verdict # "none" => Heard("validation", "completed")'
      BY <1>8, <1>10 DEF Hears
    <3>2. Heard("validation", "completed")' => verdict # "none"
      BY <1>8, <1>10, <2>4 DEF Hears
    <3> QED BY <3>1, <3>2
  <2>6. (turn'.by = "agent" <=> verdict # "none") /\ turn'.pc = "keeping"
    BY <1>5, <1>16
  <2>7. turn'.by = "none" => ~Heard("validation", "completed")'
    BY <1>8, <1>10, <2>4, <2>6 DEF Hears
  <2> QED BY <2>2, <2>3, <2>5, <2>6, <2>7 DEF VerdictHasGrounds
<1>15. MemoryHasGrounds'
  BY <1>1, <1>5, <1>8 DEF AnswerInv, MemoryHasGrounds
<1> QED BY <1>8, <1>11, <1>12, <1>13, <1>14, <1>15 DEF AnswerInv

LEMMA RenderStep == ASSUME AnswerInv, Render PROVE AnswerInv'
<1>0. AnswerTypeOK /\ CallsAreTold /\ FramesFit
  BY DEF AnswerInv
<1>1. /\ turn.pc = "judging" /\ frames = <<>> /\ turn.kind = "render"
      /\ turn' = [turn EXCEPT !.pc = "keeping", !.good = TRUE,
                              !.by = IF turn.answered THEN "agent" ELSE "template"]
      /\ UNCHANGED <<frames, raising, published, breaks>>
  BY DEF Render, Handling
<1>2. /\ turn' \in Turns /\ turn'.pc = "keeping" /\ turn'.kind = "render"
      /\ turn'.answered = turn.answered /\ turn'.by # "none"
      /\ turn'.by = "agent" => turn.answered
      /\ turn'.remembered = turn.remembered /\ turn'.memory = turn.memory
      /\ turn'.selected = turn.selected
  BY <1>0, <1>1 DEF AnswerTypeOK, Turns, AnswerPcs
<1>3. Hears(<<>>) /\ ToSet(<<>>) = {} /\ CallsAreTold'
  BY <1>0, <1>1, NothingHeard, NothingTold DEF AnswerTypeOK
<1>4. AnswerTypeOK' /\ FramesFit' /\ frames' = <<>>
  BY <1>0, <1>1, <1>2, NoFrames DEF AnswerTypeOK
<1>5. AnswerIsTheAgents'
  <2>1. turn'.pc \notin Early \cup {"judging"}
    BY <1>2 DEF Early
  <2> QED BY <1>1, <1>2, <1>3, <1>4, <2>1, AnsweredWell DEF AnswerInv
<1>6. VerdictHasGrounds'
  BY <1>2 DEF VerdictHasGrounds
<1>7. MemoryHasGrounds'
  BY <1>1, <1>2 DEF AnswerInv, MemoryHasGrounds
<1> QED BY <1>3, <1>4, <1>5, <1>6, <1>7 DEF AnswerInv

LEMMA KeepStep == ASSUME AnswerInv, Keep PROVE AnswerInv'
<1>0. AnswerTypeOK /\ CallsAreTold /\ FramesFit
  BY DEF AnswerInv
<1>1. /\ turn.pc = "keeping" /\ frames = <<>> /\ UNCHANGED frames
      /\ turn' = [turn EXCEPT !.pc = "remembering",
                    !.status = IF turn.kind = "verify" /\ ~turn.good
                                 THEN "failed" ELSE "succeeded"]
      /\ \/ Publish(<<Event("artifact", "created")>>, FALSE)
         \/ Raises
  BY DEF Keep, Handling, Raises
<1>2. /\ turn' \in Turns /\ turn'.pc = "remembering" /\ turn'.kind = turn.kind
      /\ turn'.memory = turn.memory /\ turn'.selected = turn.selected
      /\ turn'.artifacts = turn.artifacts /\ turn'.sound = turn.sound /\ turn'.forced = turn.forced
      /\ turn'.answered = turn.answered /\ turn'.by = turn.by /\ turn'.good = turn.good
      /\ turn'.status \in {"failed", "succeeded"} /\ turn'.remembered = turn.remembered
  BY <1>0, <1>1 DEF AnswerTypeOK, Turns, AnswerPcs
<1>3. FramesFit' /\ frames' = <<>>
  BY <1>1, NoFrames
<1>4. /\ CallsAreTold'
      /\ \E events : /\ Hears(events)
                    /\ Event("step", "failed") \notin ToSet(events)
                    /\ Event("validation", "completed") \notin ToSet(events)
      /\ published' \in Seq(AnswerEvents) /\ breaks' \in Nat /\ raising' \in BOOLEAN
      /\ Count(published', {Terminal}) = Count(published, {Terminal})
  <2>1. CASE Raises
    <3>1. UNCHANGED <<published, breaks, frames>> /\ raising' \in BOOLEAN
      BY <2>1 DEF Raises
    <3> QED BY <1>0, <3>1, NothingHeard, NothingTold DEF AnswerTypeOK
  <2>2. CASE Publish(<<Event("artifact", "created")>>, FALSE)
    <3> DEFINE a == Event("artifact", "created")
    <3>1. /\ CallsAreTold' /\ Hears(<<a>>) /\ ToSet(<<a>>) = {a}
          /\ published' \in Seq(AnswerEvents) /\ breaks' \in Nat /\ raising' \in BOOLEAN
          /\ Count(published', {Terminal}) = Count(published, {Terminal})
      BY <1>0, <1>1, <2>2, EventsAre, HandlerTells
    <3>2. Event("step", "failed") # a /\ Event("validation", "completed") # a
      BY EventsAre
    <3> HIDE DEF a
    <3> QED BY <3>1, <3>2
  <2> QED BY <1>1, <2>1, <2>2
<1>5. PICK events : /\ Hears(events)
                    /\ Event("step", "failed") \notin ToSet(events)
                    /\ Event("validation", "completed") \notin ToSet(events)
  BY <1>4
<1>6. AnswerTypeOK'
  BY <1>0, <1>1, <1>2, <1>4 DEF AnswerTypeOK
<1>7. AnswerIsTheAgents'
  BY <1>1, <1>2, <1>5, StepUntouched DEF AnswerInv, Early
<1>8. VerdictHasGrounds'
  BY <1>1, <1>2, <1>5 DEF AnswerInv, VerdictHasGrounds, Hears, Grounds, ByRules, IsForced
<1>9. MemoryHasGrounds'
  BY <1>1, <1>2, <1>3, <1>4 DEF AnswerInv, MemoryHasGrounds
<1> QED BY <1>3, <1>4, <1>6, <1>7, <1>8, <1>9 DEF AnswerInv

LEMMA RememberStep == ASSUME AnswerInv, Remember PROVE AnswerInv'
<1>0. AnswerTypeOK /\ CallsAreTold /\ FramesFit
  BY DEF AnswerInv
<1>1. /\ turn.pc = "remembering" /\ frames = <<>> /\ ~raising
      /\ turn' = [turn EXCEPT !.pc = "telling"]
      /\ \/ turn.memory /\ turn.status = "succeeded" /\ RunTool("memory_write")
         \/ UNCHANGED <<frames, raising, published, breaks>>
  BY DEF Remember, Handling, Goes
<1>2. SameBut(turn', turn, "telling") /\ turn' \in Turns
  BY <1>0, <1>1 DEF AnswerTypeOK, Turns, SameBut, AnswerPcs
<1>3. CASE turn.memory /\ turn.status = "succeeded" /\ RunTool("memory_write")
  <2>1. "memory_write" \in OwnTools /\ turn'.pc \in {"prompting", "telling"}
    BY <1>2 DEF OwnTools, SameBut
  <2>2. /\ CallsAreTold' /\ FramesFit' /\ frames' \in Seq(FrameSet)
        /\ Count(published', {Terminal}) = Count(published, {Terminal})
        /\ published' \in Seq(AnswerEvents) /\ breaks' \in Nat /\ raising' \in BOOLEAN
        /\ \/ raising' = FALSE /\ frames' # <<>> /\ "memory_write" \in turn.selected
           \/ raising' = TRUE /\ frames' = <<>>
    BY <1>1, <1>3, <2>1, HandlerRunsTool
  <2>3. PICK events : /\ Hears(events)
                      /\ Event("step", "failed") \notin ToSet(events)
                      /\ Event("validation", "completed") \notin ToSet(events)
    BY <1>1, <1>3, <2>1, HandlerRunsTool
  <2>4. AnswerTypeOK'
    BY <1>2, <2>2 DEF AnswerTypeOK
  <2>5. AnswerIsTheAgents'
    BY <1>1, <1>2, <2>3, StepUntouched DEF AnswerInv, SameBut, Early
  <2>6. VerdictHasGrounds'
    BY <1>1, <1>2, <2>3 DEF AnswerInv, VerdictHasGrounds, Hears, SameBut, Grounds, ByRules, IsForced
  <2>7. MemoryHasGrounds'
    BY <1>1, <1>2, <1>3, <2>2 DEF AnswerInv, MemoryHasGrounds, SameBut
  <2> QED BY <2>2, <2>4, <2>5, <2>6, <2>7 DEF AnswerInv
<1>4. CASE UNCHANGED <<frames, raising, published, breaks>>
  <2>1. Hears(<<>>) /\ ToSet(<<>>) = {} /\ CallsAreTold'
    BY <1>0, <1>4, NothingHeard, NothingTold DEF AnswerTypeOK
  <2>2. AnswerTypeOK' /\ FramesFit' /\ frames' = <<>>
    BY <1>0, <1>1, <1>2, <1>4, NoFrames DEF AnswerTypeOK
  <2>3. AnswerIsTheAgents'
    BY <1>1, <1>2, <2>1, StepUntouched DEF AnswerInv, SameBut, Early
  <2>4. VerdictHasGrounds'
    BY <1>1, <1>2, <2>1 DEF AnswerInv, VerdictHasGrounds, Hears, SameBut, Grounds, ByRules, IsForced
  <2>5. MemoryHasGrounds'
    BY <1>1, <1>2, <1>4, <2>2 DEF AnswerInv, MemoryHasGrounds, SameBut
  <2> QED BY <2>1, <2>2, <2>3, <2>4, <2>5 DEF AnswerInv
<1> QED BY <1>1, <1>3, <1>4

\* What the handler tells at the end: the last of it ends the subtask.
LEMMA EndIsTold ==
  ASSUME AnswerTypeOK, CallsAreTold, UNCHANGED frames, NEW events \in Seq(AnswerEvents),
         \A i \in 1 .. Len(events) : Quiet(events[i]) /\ events[i] # Terminal,
         Publish(Append(events, Terminal), FALSE)
  PROVE  /\ CallsAreTold' /\ Tells(Append(events, Terminal)) /\ Hears(Append(events, Terminal))
         /\ ToSet(Append(events, Terminal)) = ToSet(events) \cup {Terminal}
         /\ published' \in Seq(AnswerEvents) /\ breaks' \in Nat /\ raising' \in BOOLEAN
         /\ breaks' = breaks =>
              /\ raising' = FALSE
              /\ Count(published', {Terminal}) = Count(published, {Terminal}) + 1
<1> DEFINE all == Append(events, Terminal)
<1>1. Terminal \in AnswerEvents /\ Quiet(Terminal) /\ FALSE \in BOOLEAN
  BY EventsAre
<1>2. ToSet(all) = ToSet(events) \cup {Terminal}
  BY <1>1, ToldNext
<1>3. /\ all \in Seq(AnswerEvents) /\ Len(all) = Len(events) + 1 /\ Len(events) \in Nat
      /\ all[Len(events) + 1] = Terminal /\ \A i \in 1 .. Len(events) : all[i] = events[i]
  BY <1>1, AppendProperties
<1>4. \A i \in 1 .. Len(all) : Quiet(all[i])
  <2> TAKE i \in 1 .. Len(all)
  <2>1. i = Len(events) + 1 \/ i \in 1 .. Len(events)
    BY <1>3
  <2> QED BY <1>1, <1>3, <2>1
<1>5. Publish(all, FALSE)
  OBVIOUS
<1> HIDE DEF all
<1>6. Tells(all) /\ CallsAreTold' /\ (breaks' = breaks => raising' = FALSE)
  BY <1>1, <1>3, <1>4, <1>5, QuietKeeps
<1>7. Hears(all) /\ published' \in Seq(AnswerEvents) /\ breaks' \in Nat /\ raising' \in BOOLEAN
  BY <1>6, TellsIs DEF Tells
<1>8. ASSUME breaks' = breaks
      PROVE  Count(published', {Terminal}) = Count(published, {Terminal}) + 1
  <2>1. published' = published \o all
    <3>1. breaks # breaks + 1
      BY DEF AnswerTypeOK
    <3> QED BY <1>5, <1>8, <3>1 DEF Publish
  <2>2. /\ published \o events = published \o SubSeq(events, 1, Len(events))
        /\ Len(events) \in 0 .. Len(events)
    BY <1>3
  <2>3. QuietUpTo(published, events, Len(events))
    BY <2>2, QuietTells DEF AnswerTypeOK
  <2>4. /\ published \o events \in Seq(AnswerEvents)
        /\ Count(published \o events, {Terminal}) = Count(published, {Terminal})
    BY <2>2, <2>3 DEF QuietUpTo
  <2>5. published \o all = Append(published \o events, Terminal)
    BY <1>1 DEF AnswerTypeOK, all
  <2> QED BY <1>1, <2>1, <2>4, <2>5, ReadNext
<1> QED BY <1>2, <1>6, <1>7, <1>8 DEF all

LEMMA TellStep == ASSUME AnswerInv, Tell PROVE AnswerInv'
<1>0. AnswerTypeOK /\ CallsAreTold /\ FramesFit
  BY DEF AnswerInv
<1> DEFINE a == Event("subtask", turn.status)
<1>1. /\ turn.pc = "telling" /\ frames = <<>> /\ ~raising /\ UNCHANGED frames
      /\ Publish(<<a, Terminal>>, FALSE)
      /\ turn' = [turn EXCEPT !.pc = "told"]
  BY DEF Tell, Handling, Goes, Terminal
<1>2. SameBut(turn', turn, "told") /\ turn' \in Turns
  BY <1>0, <1>1 DEF AnswerTypeOK, Turns, SameBut, AnswerPcs
<1>3. /\ a \in AnswerEvents /\ Quiet(a) /\ a # Terminal
      /\ Event("step", "failed") \notin {a, Terminal}
      /\ Event("validation", "completed") \notin {a, Terminal}
  <2>1. turn.status \in {"running", "failed", "succeeded"}
    BY <1>0 DEF AnswerTypeOK, Turns
  <2>2. turn.status \in Whats /\ turn.status # "terminal" /\ "subtask" \in Tellers \ Calling
    BY <2>1, EventsAre
  <2> QED BY <2>2, EventsAre
<1> HIDE DEF a
<1>4. /\ <<a>> \in Seq(AnswerEvents) /\ ToSet(<<a>>) = {a}
      /\ \A i \in 1 .. Len(<<a>>) : Quiet(<<a>>[i]) /\ <<a>>[i] # Terminal
      /\ <<a, Terminal>> = Append(<<a>>, Terminal)
  <2>1. <<a>> \in Seq(AnswerEvents) /\ ToSet(<<a>>) = {a}
    BY <1>3, QuietSeqs
  <2>2. Len(<<a>>) = 1 /\ <<a>>[1] = a
    OBVIOUS
  <2>3. \A i \in 1 .. Len(<<a>>) : Quiet(<<a>>[i]) /\ <<a>>[i] # Terminal
    BY <1>3, <2>2
  <2>4. <<a, Terminal>> = Append(<<a>>, Terminal)
    OBVIOUS
  <2> QED BY <2>1, <2>3, <2>4
<1> DEFINE all == Append(<<a>>, Terminal)
<1>5. /\ CallsAreTold' /\ Hears(all) /\ ToSet(all) = {a, Terminal}
      /\ published' \in Seq(AnswerEvents) /\ breaks' \in Nat /\ raising' \in BOOLEAN
      /\ breaks' = breaks =>
           /\ raising' = FALSE
           /\ Count(published', {Terminal}) = Count(published, {Terminal}) + 1
  <2>1. Publish(Append(<<a>>, Terminal), FALSE) /\ UNCHANGED frames
    BY <1>1, <1>4
  <2>2. /\ CallsAreTold' /\ Hears(Append(<<a>>, Terminal))
        /\ ToSet(Append(<<a>>, Terminal)) = ToSet(<<a>>) \cup {Terminal}
        /\ published' \in Seq(AnswerEvents) /\ breaks' \in Nat /\ raising' \in BOOLEAN
        /\ breaks' = breaks =>
             /\ raising' = FALSE
             /\ Count(published', {Terminal}) = Count(published, {Terminal}) + 1
    BY <1>0, <1>4, <2>1, EndIsTold
  <2> QED BY <1>4, <2>2
<1> HIDE DEF all
<1>6. AnswerTypeOK' /\ FramesFit' /\ frames' = <<>>
  BY <1>0, <1>1, <1>2, <1>5, NoFrames DEF AnswerTypeOK
<1>7. AnswerIsTheAgents'
  BY <1>1, <1>2, <1>3, <1>5, StepUntouched DEF AnswerInv, SameBut, Early
<1>8. VerdictHasGrounds'
  BY <1>1, <1>2, <1>3, <1>5 DEF AnswerInv, VerdictHasGrounds, Hears, SameBut, Grounds, ByRules, IsForced
<1>9. MemoryHasGrounds'
  <2>1. ASSUME breaks' = 0
        PROVE  ~raising' /\ Heard("subtask", turn.status)' /\ Count(published', {Terminal}) = 1
    <3>1. breaks' = breaks
      BY <1>5, <2>1 DEF Hears
    <3>2. Count(published, {Terminal}) = 0
      BY <1>1 DEF AnswerInv, MemoryHasGrounds
    <3>3. Heard("subtask", turn.status)'
      <4>1. a \in ToSet(all)
        BY <1>5
      <4> QED BY <1>2, <1>5, <3>1, <4>1 DEF Hears, a, SameBut
    <3> QED BY <1>5, <3>1, <3>2, <3>3
  <2> QED BY <1>1, <1>2, <1>6, <2>1 DEF AnswerInv, MemoryHasGrounds, SameBut
<1> QED BY <1>5, <1>6, <1>7, <1>8, <1>9 DEF AnswerInv

LEMMA SwallowStep == ASSUME AnswerInv, Swallow PROVE AnswerInv'
<1>0. AnswerTypeOK /\ CallsAreTold /\ FramesFit
  BY DEF AnswerInv
<1>1. /\ frames = <<>> /\ raising' = FALSE /\ UNCHANGED <<turn, frames, published, breaks>>
      /\ \/ turn.pc = "prompting" /\ turn.kind = "render"
         \/ turn.pc = "telling"
  BY DEF Swallow
<1>2. Hears(<<>>) /\ ToSet(<<>>) = {} /\ CallsAreTold'
  BY <1>0, <1>1, NothingHeard, NothingTold
<1>3. AnswerTypeOK' /\ FramesFit'
  BY <1>0, <1>1, NoFrames DEF AnswerTypeOK
<1>4. AnswerIsTheAgents'
  BY <1>1, <1>2, StepUntouched DEF AnswerInv
<1>5. VerdictHasGrounds' /\ MemoryHasGrounds'
  BY <1>1, <1>2 DEF AnswerInv, VerdictHasGrounds, MemoryHasGrounds, Hears, Heard, Grounds, ByRules, IsForced
<1> QED BY <1>2, <1>3, <1>4, <1>5 DEF AnswerInv

LEMMA FailStep == ASSUME AnswerInv, Fail PROVE AnswerInv'
<1>0. AnswerTypeOK /\ CallsAreTold /\ FramesFit
  BY DEF AnswerInv
<1> DEFINE a == Event("execution", "failed")
           b == Event("subtask", "failed")
<1>1. /\ turn.pc \notin {"telling", "ended"} /\ raising /\ frames = <<>> /\ UNCHANGED frames
      /\ Publish(<<a, b, Terminal>>, FALSE)
      /\ turn' = [turn EXCEPT !.pc = "ended", !.status = "failed"]
  BY DEF Fail, Terminal
<1>2. /\ turn' \in Turns /\ turn'.pc = "ended" /\ turn'.status = "failed"
      /\ turn'.kind = turn.kind /\ turn'.memory = turn.memory /\ turn'.selected = turn.selected
      /\ turn'.artifacts = turn.artifacts /\ turn'.sound = turn.sound /\ turn'.forced = turn.forced
      /\ turn'.answered = turn.answered /\ turn'.by = turn.by /\ turn'.good = turn.good
      /\ turn'.remembered = turn.remembered
  BY <1>0, <1>1 DEF AnswerTypeOK, Turns, AnswerPcs
<1>3. /\ a \in AnswerEvents /\ Quiet(a) /\ a # Terminal
      /\ b \in AnswerEvents /\ Quiet(b) /\ b # Terminal
      /\ Event("step", "failed") \notin {a, b, Terminal}
      /\ Event("validation", "completed") \notin {a, b, Terminal}
  BY EventsAre
<1> HIDE DEF a, b
<1>4. /\ <<a, b>> \in Seq(AnswerEvents) /\ ToSet(<<a, b>>) = {a, b}
      /\ \A i \in 1 .. Len(<<a, b>>) : Quiet(<<a, b>>[i]) /\ <<a, b>>[i] # Terminal
      /\ <<a, b, Terminal>> = Append(<<a, b>>, Terminal)
  <2>1. <<a, b>> \in Seq(AnswerEvents) /\ ToSet(<<a, b>>) = {a, b}
    BY <1>3, QuietSeqs
  <2>2. Len(<<a, b>>) = 2 /\ <<a, b>>[1] = a /\ <<a, b>>[2] = b
    OBVIOUS
  <2>3. \A i \in 1 .. Len(<<a, b>>) : Quiet(<<a, b>>[i]) /\ <<a, b>>[i] # Terminal
    BY <1>3, <2>2
  <2>4. <<a, b, Terminal>> = Append(<<a, b>>, Terminal)
    OBVIOUS
  <2> QED BY <2>1, <2>3, <2>4
<1> DEFINE all == Append(<<a, b>>, Terminal)
<1>5. /\ CallsAreTold' /\ Hears(all) /\ ToSet(all) = {a, b, Terminal}
      /\ published' \in Seq(AnswerEvents) /\ breaks' \in Nat /\ raising' \in BOOLEAN
      /\ breaks' = breaks => Count(published', {Terminal}) = Count(published, {Terminal}) + 1
  <2>1. Publish(Append(<<a, b>>, Terminal), FALSE) /\ UNCHANGED frames
    BY <1>1, <1>4
  <2>2. /\ CallsAreTold' /\ Hears(Append(<<a, b>>, Terminal))
        /\ ToSet(Append(<<a, b>>, Terminal)) = ToSet(<<a, b>>) \cup {Terminal}
        /\ published' \in Seq(AnswerEvents) /\ breaks' \in Nat /\ raising' \in BOOLEAN
        /\ breaks' = breaks => Count(published', {Terminal}) = Count(published, {Terminal}) + 1
    BY <1>0, <1>4, <2>1, EndIsTold
  <2> QED BY <1>4, <2>2
<1> HIDE DEF all
<1>6. AnswerTypeOK' /\ FramesFit' /\ frames' = <<>>
  BY <1>0, <1>1, <1>2, <1>5, NoFrames DEF AnswerTypeOK
<1>7. AnswerIsTheAgents'
  <2>1. turn'.pc \notin Early \cup {"judging"} /\ Event("step", "failed") \notin ToSet(all)
    BY <1>2, <1>3, <1>5 DEF Early
  <2>2. turn'.by = "agent" => turn.answered
    BY <1>2 DEF AnswerInv, AnswerIsTheAgents
  <2>3. CASE turn.pc = "judging"
    BY <1>1, <1>2, <1>5, <1>6, <2>1, <2>2, <2>3, AnsweredWell DEF AnswerInv
  <2>4. CASE turn.pc # "judging"
    BY <1>2, <1>5, <2>1, <2>4, StepUntouched DEF AnswerInv
  <2> QED BY <2>3, <2>4
<1>8. VerdictHasGrounds'
  BY <1>2, <1>3, <1>5 DEF AnswerInv, VerdictHasGrounds, Hears, Grounds, ByRules, IsForced
<1>9. MemoryHasGrounds'
  <2>1. ASSUME breaks' = 0
        PROVE  /\ Heard("subtask", "failed")' /\ Count(published', {Terminal}) = 1
               /\ ~turn.remembered
    <3>1. breaks' = breaks /\ breaks = 0
      BY <1>5, <2>1 DEF Hears
    <3>2. turn.pc # "told"
      BY <1>1, <3>1 DEF AnswerInv, MemoryHasGrounds
    <3>3. Count(published, {Terminal}) = 0 /\ ~turn.remembered
      BY <1>1, <3>2 DEF AnswerInv, MemoryHasGrounds
    <3>4. Heard("subtask", "failed")'
      BY <1>5, <3>1 DEF Hears, b
    <3> QED BY <1>5, <3>1, <3>3, <3>4
  <2> QED BY <1>2, <1>6, <2>1 DEF AnswerInv, MemoryHasGrounds
<1> QED BY <1>5, <1>6, <1>7, <1>8, <1>9 DEF AnswerInv

\* A tool that the handler uses itself is in progress.
LEMMA HandlersTool ==
  ASSUME AnswerInv, frames # <<>>, turn.pc # "judging"
  PROVE  /\ Last(frames).of = "tool" /\ ~Inside("step") /\ Len(frames) = 1
         /\ turn.pc \in {"prompting", "telling"}
  BY Innermost DEF AnswerInv, Inside

LEMMA ToolEndsStep == ASSUME AnswerInv, ToolEnds PROVE AnswerInv'
<1>0. AnswerTypeOK /\ CallsAreTold /\ FramesFit
  BY DEF AnswerInv
<1>1. /\ frames # <<>> /\ Last(frames).of = "tool"
      /\ \/ Close(<<>>) /\ turn' = [turn EXCEPT !.remembered = @ \/ turn.pc = "telling"]
         \/ Raises /\ turn' = turn
  BY DEF ToolEnds, Inside
<1>2. CASE turn.pc = "judging"
  <2>1. ~turn.answered
    <3>1. Len(frames) # 1
      BY <1>0, <1>1, <1>2, Innermost
    <3> QED BY <1>1, <1>2, <3>1 DEF AnswerInv, AnswerIsTheAgents
  <2>2. CASE Close(<<>>) /\ turn' = [turn EXCEPT !.remembered = @ \/ turn.pc = "telling"]
    <3>1. SameTurn /\ turn'.remembered = turn.remembered /\ turn'.answered = turn.answered
      BY <1>0, <1>2, <2>2 DEF AnswerTypeOK, Turns, SameTurn
    <3> QED BY <1>1, <1>2, <2>1, <2>2, <3>1, AgentCloses
  <2>3. CASE Raises /\ turn' = turn
    <3>1. SameTurn /\ turn'.remembered = turn.remembered /\ ~turn'.answered
      BY <1>0, <2>1, <2>3 DEF AnswerTypeOK, SameTurn
    <3> QED BY <1>1, <1>2, <2>3, <3>1, AgentRaises
  <2> QED BY <1>1, <2>2, <2>3
<1>3. CASE turn.pc # "judging" /\ Close(<<>>)
            /\ turn' = [turn EXCEPT !.remembered = @ \/ turn.pc = "telling"]
  <2>1. ~Inside("step") /\ Len(frames) = 1 /\ turn.pc \in {"prompting", "telling"}
    BY <1>1, <1>3, HandlersTool
  <2> DEFINE later == turn.remembered \/ turn.pc = "telling"
  <2>2. /\ turn' \in Turns /\ turn'.pc = turn.pc /\ turn'.status = turn.status
        /\ turn'.kind = turn.kind /\ turn'.memory = turn.memory /\ turn'.selected = turn.selected
        /\ turn'.artifacts = turn.artifacts /\ turn'.sound = turn.sound /\ turn'.forced = turn.forced
        /\ turn'.answered = turn.answered /\ turn'.by = turn.by /\ turn'.good = turn.good
        /\ turn'.remembered <=> later
    BY <1>0, <1>3 DEF AnswerTypeOK, Turns
  <2> DEFINE a == Event("tool", "completed")
  <2>3. /\ a \in AnswerEvents /\ a # Terminal
        /\ a # Event("validation", "completed") /\ a # Event("step", "failed")
    BY EventIs DEF Tellers, Whats, Calling, Ending, Terminal
  <2>4. <<>> \in Seq(AnswerEvents) /\ \A i \in 1 .. Len(<<>>) : Quiet(<<>>[i])
    OBVIOUS
  <2>5. /\ Tells(<<a>> \o <<>>) /\ CallsAreTold' /\ frames' = Front(frames)
        /\ \/ raising' = FALSE /\ breaks' = breaks
           \/ raising' = TRUE /\ breaks' = breaks + 1
    <3>1. Close(<<>>) /\ Event(Last(frames).of, "completed") = a
      BY <1>1, <1>3
    <3> HIDE DEF a
    <3> QED BY <1>0, <1>1, <2>1, <2>4, <3>1, CloseTells
  <2> HIDE DEF a, later
  <2>6. ToSet(<<a>> \o <<>>) = {a} /\ <<a>> \o <<>> = <<a>>
    BY <2>3, ToldFirst
  <2>7. Hears(<<a>>) /\ ToSet(<<a>>) = {a}
    BY <1>0, <2>5, <2>6, TellsIs
  <2>8. /\ published' \in Seq(AnswerEvents) /\ breaks' \in Nat /\ raising' \in BOOLEAN
        /\ Count(published', {Terminal}) = Count(published, {Terminal})
    BY <2>3, <2>5, <2>6 DEF Tells
  <2>9. FramesFit' /\ frames' \in Seq(FrameSet) /\ frames' = <<>>
    BY <1>0, <1>1, <2>1, <2>2, <2>5, PopFits
  <2>10. AnswerTypeOK'
    BY <2>2, <2>8, <2>9 DEF AnswerTypeOK
  <2>11. AnswerIsTheAgents'
    BY <1>3, <2>2, <2>3, <2>7, StepUntouched DEF AnswerInv
  <2>12. VerdictHasGrounds'
    <3>1. ~raising' => Heard("tool", "completed")'
      <4>1. raising' = FALSE => breaks' = breaks
        BY <2>5
      <4> QED BY <2>7, <2>8, <4>1 DEF Hears, a
    <3> QED BY <1>1, <2>2, <2>3, <2>7, <3>1
            DEF AnswerInv, VerdictHasGrounds, Hears, Grounds, ByRules, IsForced
  <2>13. MemoryHasGrounds'
    BY <1>1, <2>1, <2>2, <2>8, <2>9 DEF AnswerInv, MemoryHasGrounds, later
  <2> QED BY <2>5, <2>9, <2>10, <2>11, <2>12, <2>13 DEF AnswerInv
<1>4. CASE turn.pc # "judging" /\ Raises /\ turn' = turn
  <2>1. turn.pc \in {"prompting", "telling"}
    BY <1>1, <1>4, HandlersTool
  <2>2. raising' = TRUE /\ UNCHANGED <<turn, frames, published, breaks>>
    BY <1>4 DEF Raises
  <2>3. Hears(<<>>) /\ ToSet(<<>>) = {} /\ CallsAreTold'
    BY <1>0, <2>2, NothingHeard, NothingTold
  <2>4. AnswerTypeOK' /\ FramesFit'
    BY <1>0, <2>2 DEF AnswerTypeOK, FramesFit
  <2>5. AnswerIsTheAgents'
    BY <1>4, <2>2, <2>3, StepUntouched DEF AnswerInv
  <2>6. VerdictHasGrounds' /\ MemoryHasGrounds'
    BY <2>1, <2>2, <2>3
       DEF AnswerInv, VerdictHasGrounds, MemoryHasGrounds, Hears, Heard, Grounds, ByRules, IsForced
  <2> QED BY <2>3, <2>4, <2>5, <2>6 DEF AnswerInv
<1> QED BY <1>1, <1>2, <1>3, <1>4

LEMMA UnwindStep == ASSUME AnswerInv, Unwind PROVE AnswerInv'
<1>0. AnswerTypeOK /\ CallsAreTold /\ FramesFit
  BY DEF AnswerInv
<1> DEFINE of == Last(frames).of
           a == Event(of, "failed")
           b == Event("artifact", "created")
<1>1. raising /\ frames # <<>> /\ frames' = Front(frames) /\ turn' = turn
  BY DEF Unwind
<1>9. PICK stored \in {<<>>, <<b>>} : Publish(<<a>> \o stored, ~Inside("step"))
  BY DEF Unwind
<1>2. /\ of \in Calling /\ Len(frames) \in Nat \ {0}
      /\ turn.pc = "judging" => (of = "step" <=> Len(frames) = 1)
  BY <1>0, <1>1, Innermost
<1>3. a \in AnswerEvents /\ a # Terminal /\ a # Event("validation", "completed")
  BY <1>2, Asides, EventIs DEF Tellers, Whats, Ending
<1>10. /\ b \in AnswerEvents /\ Quiet(b)
       /\ b # Terminal /\ b # Event("validation", "completed") /\ b # Event("step", "failed")
  BY EventsAre
<1> DEFINE all == <<a>> \o stored
<1>4. /\ stored \in Seq(AnswerEvents) /\ \A i \in 1 .. Len(stored) : Quiet(stored[i])
      /\ ToSet(all) \subseteq {a, b}
  <2> HIDE DEF a, b
  <2>1. stored \in Seq(AnswerEvents) /\ \A i \in 1 .. Len(stored) : Quiet(stored[i])
    BY <1>9, <1>10, QuietSeqs
  <2>2. ToSet(all) \subseteq {a, b}
    BY <1>3, <1>9, <1>10, ToldFirst
  <2> QED BY <2>1, <2>2
<1>5. /\ Tells(all) /\ CallsAreTold'
      /\ raising' = ~Inside("step") \/ raising' = TRUE
  <2>1. (~Inside("step")) \in BOOLEAN /\ "failed" \in Ending
    BY DEF Ending, Inside
  <2> DEFINE raises == ~Inside("step")
  <2>2. Publish(<<a>> \o stored, raises) /\ raises \in BOOLEAN
    BY <1>9, <2>1
  <2> HIDE DEF raises
  <2>3. /\ Tells(<<a>> \o stored) /\ CallsAreTold'
        /\ raising' = raises \/ raising' = TRUE
    BY <1>0, <1>1, <1>4, <2>1, <2>2, EndTells
  <2> QED BY <1>4, <2>3 DEF raises
<1>6. /\ FramesFit' /\ frames' \in Seq(FrameSet) /\ (frames' = <<>> <=> Len(frames) = 1)
  BY <1>0, <1>1, PopFits
<1>7. CASE turn.pc = "judging"
  <2>1. ~turn.answered
    BY <1>1, <1>7 DEF AnswerInv, AnswerIsTheAgents
  <2>2. SameTurn /\ turn'.remembered = turn.remembered /\ ~turn'.answered
    BY <1>0, <1>1, <2>1 DEF AnswerTypeOK, SameTurn
  <2>3. frames' # <<>> => Event("step", "failed") # a
    BY <1>2, <1>6, <1>7, EventIs
  <2>4. frames' # <<>> => Event("step", "failed") \notin ToSet(all)
    BY <1>4, <1>10, <2>3
  <2>5. Terminal \notin ToSet(all) /\ Event("validation", "completed") \notin ToSet(all)
    BY <1>3, <1>4, <1>10
  <2> HIDE DEF all
  <2> QED BY <1>1, <1>5, <1>6, <1>7, <2>2, <2>4, <2>5, AgentKeeps
<1>8. CASE turn.pc # "judging"
  <2>1. /\ ~Inside("step") /\ Len(frames) = 1 /\ turn.pc \in {"prompting", "telling"}
        /\ of = "tool"
    BY <1>1, <1>8, HandlersTool
  <2>2. raising' = TRUE /\ frames' = <<>>
    BY <1>5, <1>6, <2>1
  <2>3. Event("step", "failed") # a
    BY <2>1, EventIs
  <2>9. /\ Terminal \notin ToSet(all) /\ Event("validation", "completed") \notin ToSet(all)
        /\ Event("step", "failed") \notin ToSet(all)
    BY <1>3, <1>4, <1>10, <2>3
  <2> HIDE DEF a, b, of, all
  <2>4. Hears(all)
    BY <1>0, <1>5, TellsIs
  <2>5. /\ published' \in Seq(AnswerEvents) /\ breaks' \in Nat
        /\ Count(published', {Terminal}) = Count(published, {Terminal})
    BY <1>5, <2>9 DEF Tells
  <2>6. AnswerTypeOK'
    BY <1>0, <1>1, <1>6, <2>2, <2>5 DEF AnswerTypeOK
  <2>7. AnswerIsTheAgents'
    BY <1>1, <1>8, <2>2, <2>4, <2>9, StepUntouched DEF AnswerInv
  <2>8. VerdictHasGrounds'
    BY <1>1, <2>2, <2>4, <2>9 DEF AnswerInv, VerdictHasGrounds, Hears, Grounds, ByRules, IsForced
  <2>10. MemoryHasGrounds'
    BY <1>1, <2>1, <2>2, <2>5 DEF AnswerInv, MemoryHasGrounds
  <2> QED BY <1>5, <1>6, <2>6, <2>7, <2>8, <2>10 DEF AnswerInv
<1> QED BY <1>7, <1>8

-----------------------------------------------------------------------------
(* The invariant and the property *)

LEMMA AnswerInitHolds == AnswerInit => AnswerInv
<1> SUFFICES ASSUME AnswerInit PROVE AnswerInv
  OBVIOUS
<1>1. /\ turn \in Turns /\ turn.pc = "idle" /\ ~turn.answered /\ turn.by = "none"
      /\ ~turn.good /\ ~turn.remembered
  BY DEF AnswerInit, Turns, AnswerPcs
<1>2. frames = <<>> /\ raising = FALSE /\ published = <<>> /\ breaks = 0
  BY DEF AnswerInit
<1>3. /\ <<>> \in Seq(FrameSet) /\ <<>> \in Seq(AnswerEvents) /\ Len(<<>>) = 0
      /\ Opened(<<>>) = <<>> /\ ToSet(<<>>) = {}
  BY DEF Opened, ToSet
<1>4. \A T : Count(<<>>, T) = 0
  <2> TAKE T
  <2>1. {i \in DOMAIN <<>> : <<>>[i] \in T} = {}
    OBVIOUS
  <2> QED BY <2>1, FS_EmptySet DEF Count
<1>5. AnswerTypeOK
  BY <1>1, <1>2, <1>3 DEF AnswerTypeOK
<1>6. CallsAreTold
  <2>1. Balance(<<>>) = 0
    BY <1>4 DEF Balance
  <2> QED BY <1>2, <1>3, <2>1, InProgressNone DEF CallsAreTold
<1>7. FramesFit
  BY <1>1, <1>2, <1>3 DEF FramesFit
<1>8. \A of, what : ~Heard(of, what)
  BY <1>2, <1>3 DEF Heard
<1>9. AnswerIsTheAgents /\ VerdictHasGrounds
  BY <1>1, <1>2, <1>8 DEF AnswerIsTheAgents, VerdictHasGrounds, Early
<1>10. MemoryHasGrounds
  BY <1>1, <1>2, <1>4 DEF MemoryHasGrounds
<1> QED BY <1>5, <1>6, <1>7, <1>9, <1>10 DEF AnswerInv

LEMMA AnswerNextKeeps == AnswerInv /\ [AnswerNext]_answerVars => AnswerInv'
<1> SUFFICES ASSUME AnswerInv, [AnswerNext]_answerVars PROVE AnswerInv'
  OBVIOUS
<1>1. CASE StartTurn
  BY <1>1, StartTurnStep
<1>2. CASE Refuse
  BY <1>2, RefuseStep
<1>3. CASE Prepare
  BY <1>3, PrepareStep
<1>4. CASE Prompt
  BY <1>4, PromptStep
<1>5. CASE AskAgent
  BY <1>5, AskAgentStep
<1>6. CASE JudgeAnswer
  BY <1>6, JudgeAnswerStep
<1>7. CASE Render
  BY <1>7, RenderStep
<1>8. CASE Keep
  BY <1>8, KeepStep
<1>9. CASE Remember
  BY <1>9, RememberStep
<1>10. CASE Tell
  BY <1>10, TellStep
<1>11. CASE Swallow
  BY <1>11, SwallowStep
<1>12. CASE Fail
  BY <1>12, FailStep
<1>13. CASE StartReply
  BY <1>13, StartReplyStep
<1>14. CASE AskModel
  BY <1>14, AskModelStep
<1>15. CASE ModelEnds
  BY <1>15, ModelEndsStep
<1>16. CASE Act
  BY <1>16, ActStep
<1>17. CASE CallTool
  BY <1>17, CallToolStep
<1>18. CASE ToolEnds
  BY <1>18, ToolEndsStep
<1>19. CASE ErrorIsAnswered
  BY <1>19, ErrorIsAnsweredStep
<1>20. CASE ActingEnds
  BY <1>20, ActingEndsStep
<1>21. CASE ReplyEnds
  BY <1>21, ReplyEndsStep
<1>22. CASE StepEnds
  BY <1>22, StepEndsStep
<1>23. CASE Unwind
  BY <1>23, UnwindStep
<1>24. CASE UNCHANGED answerVars
  BY <1>24 DEF answerVars, AnswerInv, AnswerTypeOK, CallsAreTold, FramesFit, AnswerIsTheAgents,
               VerdictHasGrounds, MemoryHasGrounds, EndedWell, Heard, Grounds, ByRules, IsForced
<1> QED BY <1>1, <1>2, <1>3, <1>4, <1>5, <1>6, <1>7, <1>8, <1>9, <1>10, <1>11, <1>12, <1>13,
           <1>14, <1>15, <1>16, <1>17, <1>18, <1>19, <1>20, <1>21, <1>22, <1>23, <1>24
        DEF AnswerNext

LEMMA InvIsAccounted == AnswerInv => AnswerIsAccounted
<1> SUFFICES ASSUME AnswerInv PROVE AnswerIsAccounted
  OBVIOUS
<1>1. \A i \in DOMAIN published : published[i] \in AnswerEvents
  BY DEF AnswerInv, AnswerTypeOK
<1>2. EventsTellCalls
  <2>1. EventsOf({"started"}) = {i \in DOMAIN published : published[i] \in Starts}
    BY <1>1 DEF EventsOf, Starts
  <2>2. EventsOf(Ending) = {i \in DOMAIN published : published[i] \in Ends}
    BY <1>1 DEF EventsOf, Ends
  <2>3. Cardinality(EventsOf({"started"})) - Cardinality(EventsOf(Ending)) = Balance(published)
    BY <2>1, <2>2 DEF Balance, Count
  <2> QED BY <2>3 DEF AnswerInv, CallsAreTold, EventsTellCalls, Opened
<1>3. VerdictIsGrounded
  <2>1. turn.by = "agent" => Heard("step", "completed") /\ ~Heard("step", "failed")
    BY DEF AnswerInv, AnswerIsTheAgents, EndedWell
  <2>2. ASSUME turn.kind # "render", turn.by # "none" PROVE Grounds
    BY <2>2 DEF AnswerInv, VerdictHasGrounds
  <2>3. ASSUME turn.kind # "render", turn.by = "rules", turn.good
        PROVE  \/ turn.kind = "review" /\ turn.forced = "accept"
               \/ turn.sound /\ (turn.artifacts \/ turn.kind = "review")
    <3>1. turn.kind \in {"verify", "review"}
      BY <2>3 DEF AnswerInv, AnswerTypeOK, Turns
    <3> QED BY <2>3, <3>1 DEF AnswerInv, VerdictHasGrounds, ByRules, IsForced
  <2>4. ASSUME turn.kind # "render", breaks = 0
        PROVE  Heard("validation", "completed") = (turn.by = "agent")
    <3>1. Heard("validation", "completed") <=> turn.by = "agent"
      BY <2>4 DEF AnswerInv, VerdictHasGrounds
    <3> QED BY <3>1 DEF Heard
  <2> QED BY <2>1, <2>2, <2>3, <2>4 DEF VerdictIsGrounded, Grounds
<1>4. MemoryIsTrue
  <2>1. {i \in DOMAIN published : published[i] = Event("subtask", "terminal")} =
          {i \in DOMAIN published : published[i] \in {Terminal}}
    BY DEF Terminal
  <2>2. Cardinality({i \in DOMAIN published : published[i] = Event("subtask", "terminal")}) =
          Count(published, {Terminal})
    BY <2>1 DEF Count
  <2> QED BY <2>2 DEF AnswerInv, MemoryHasGrounds, MemoryIsTrue
<1> QED BY <1>2, <1>3, <1>4 DEF AnswerIsAccounted

\* Whatever fails on the way of a subtask that an agent answers, and however
\* often the agent calls its model and its tools, the events tell which calls are
\* in progress, a verdict has its grounds, and what is remembered is true
\* (OmniAgentRunner.run, AuditedOpenAIChatModel, _run_tool, and the handlers of
\* validations and of agents' subtasks).
THEOREM AnswerIsAccountedHolds == AnswerSpec => []AnswerIsAccounted
<1>1. AnswerInit => AnswerInv
  BY AnswerInitHolds
<1>2. AnswerInv /\ [AnswerNext]_answerVars => AnswerInv'
  BY AnswerNextKeeps
<1>3. AnswerInv => AnswerIsAccounted
  BY InvIsAccounted
<1> QED BY <1>1, <1>2, <1>3, PTL DEF AnswerSpec

(***************************************************************************)
(* The directory of sessions (SessionDirectory)                            *)
(***************************************************************************)
\* The times at which what is there of a session was changed.
Marks(s) == {r.updated : r \in {cache[s], rows[s]} \ {Absent}}

WalkTypeOK ==
  walk \in [pc : {"idle", "reading", "done"}, after : Nat, cursor : Mine \cup {NoSession},
            seen : Seq(Mine), touched : SUBSET Sessions, strayed : BOOLEAN]
BatchTypeOK ==
  batch \in [pc : {"idle", "collected", "deleted", "done"}, before : Nat,
             ids : SUBSET Mine, touched : SUBSET Sessions]

\* No time is that of two sessions, and a record is no older than its row.
Clocked ==
  /\ now \in Nat
  /\ \A s \in Sessions : Marks(s) \subseteq 1 .. now
  /\ \A s, t \in Sessions : s # t => Marks(s) \cap Marks(t) = {}
  /\ \A s \in Sessions : Cached(s) /\ Stored(s) => rows[s].updated <= cache[s].updated

\* All undisturbed sessions that pass and are as new as this have been seen, in
\* order, and no other.
ReadTo(time) ==
  /\ \A s \in Undisturbed :
       s \in ToSet(walk.seen) <=> RecordOf(s).matches /\ RecordOf(s).updated >= time
  /\ \A i, j \in DOMAIN walk.seen :
       i < j /\ {walk.seen[i], walk.seen[j]} \subseteq Undisturbed =>
         RecordOf(walk.seen[i]).updated > RecordOf(walk.seen[j]).updated

WalkInv ==
  /\ walk.pc = "idle" => walk.cursor = NoSession /\ walk.seen = <<>>
  /\ walk.pc = "reading" /\ ~walk.strayed =>
       /\ walk.cursor \in Mine /\ Present(walk.cursor)
       /\ InStep(walk.cursor) => ReadTo(RecordOf(walk.cursor).updated)
  /\ walk.pc = "done" /\ ~walk.strayed => walk.cursor = NoSession /\ ReadTo(0)

GhostsAreKnown ==
  /\ \A s \in Sessions : Cached(s) /\ Stored(s) /\ ~cache[s].rebuilt =>
       cache[s].created = rows[s].created
  /\ \A s \in Sessions : Cached(s) /\ ~Stored(s) =>
       \/ s \in lost \cup batch.touched \/ cache[s].rebuilt
       \/ batch.pc = "deleted" /\ s \in batch.ids
  /\ batch.pc = "idle" => batch.touched = {}
  /\ batch.pc = "collected" =>
       \A s \in Mine \ batch.touched :
         Cached(s) /\ cache[s].created < batch.before => s \in batch.ids

DirectoryInv ==
  DirectoryTypeOK /\ WalkTypeOK /\ BatchTypeOK /\ Clocked /\ WalkInv /\ GhostsAreKnown

\* Entries of a page can be put in order.
Entries(S) ==
  /\ IsFiniteSet(S) /\ \A e \in S : e.updated \in Nat
  /\ \A d, e \in S : d.updated = e.updated => d = e

LEMMA NewerCount ==
  ASSUME NEW S, IsFiniteSet(S), NEW k
  PROVE  /\ IsFiniteSet({e \in S : e.updated > k})
         /\ Cardinality({e \in S : e.updated > k}) \in Nat
         /\ Cardinality(S) \in Nat
         /\ Cardinality({e \in S : e.updated > k}) <= Cardinality(S)
<1>1. {e \in S : e.updated > k} \in SUBSET S
  OBVIOUS
<1> QED BY <1>1, FS_Subset, FS_CardinalityType

\* Who is newer has fewer that are newer.
LEMMA NewerHasFewer ==
  ASSUME NEW S, Entries(S), NEW d \in S, NEW e \in S
  PROVE  /\ Newer(e, S) \in Nat /\ Newer(d, S) \in Nat /\ Newer(e, S) < Cardinality(S)
         /\ Cardinality(S) \in Nat
         /\ d.updated > e.updated => Newer(d, S) < Newer(e, S)
         /\ Newer(d, S) < Newer(e, S) => d.updated > e.updated
         /\ Newer(d, S) = Newer(e, S) => d = e
<1>0. /\ IsFiniteSet(S) /\ \A x \in S : x.updated \in Nat
      /\ \A x, y \in S : x.updated = y.updated => x = y
  BY DEF Entries
<1> DEFINE Over(x) == {y \in S : y.updated > x.updated}
<1>1. \A x \in S : /\ IsFiniteSet(Over(x)) /\ Cardinality(Over(x)) \in Nat
                   /\ Cardinality(S) \in Nat /\ Cardinality(Over(x)) <= Cardinality(S)
                   /\ Newer(x, S) = Cardinality(Over(x))
  BY <1>0, NewerCount DEF Newer
<1>2. \A x \in S : Newer(x, S) < Cardinality(S)
  <2> TAKE x \in S
  <2>1. Over(x) \in SUBSET S /\ x \notin Over(x)
    BY <1>0
  <2>2. Over(x) # S
    BY <2>1
  <2>3. Cardinality(Over(x)) # Cardinality(S)
    BY <1>0, <2>1, <2>2, FS_Subset
  <2> QED BY <1>1, <2>3
<1>3. \A x, y \in S : x.updated > y.updated => Newer(x, S) < Newer(y, S)
  <2> TAKE x, y \in S
  <2> HAVE x.updated > y.updated
  <2>1. Over(x) \in SUBSET Over(y)
    BY <1>0
  <2>2. x \in Over(y) /\ x \notin Over(x)
    BY <1>0
  <2>3. Over(x) # Over(y)
    BY <2>2
  <2> HIDE DEF Over
  <2>4. Cardinality(Over(x)) <= Cardinality(Over(y)) /\ Cardinality(Over(x)) # Cardinality(Over(y))
    BY <1>1, <2>1, <2>3, FS_Subset
  <2> QED BY <1>1, <2>4
<1> HIDE DEF Over
<1>4. Newer(e, S) \in Nat /\ Newer(d, S) \in Nat
  BY <1>1
<1>5. d.updated > e.updated \/ e.updated > d.updated \/ d = e
  BY <1>0
<1>6. Newer(d, S) < Newer(e, S) => d.updated > e.updated
  BY <1>3, <1>4, <1>5
<1>7. Newer(d, S) = Newer(e, S) => d = e
  BY <1>3, <1>4, <1>5
<1> QED BY <1>1, <1>2, <1>3, <1>4, <1>6, <1>7

\* Every rank is taken.
LEMMA EveryRank ==
  ASSUME NEW S, Entries(S), NEW n \in Nat, n < Cardinality(S)
  PROVE  \E e \in S : Newer(e, S) = n
<1> DEFINE N == Cardinality(S)
           f == [e \in S |-> Newer(e, S)]
<1>1. N \in Nat /\ IsFiniteSet(S)
  BY FS_CardinalityType DEF Entries
<1>2. /\ \A e \in S : Newer(e, S) \in 0 .. N - 1
      /\ \A d, e \in S : Newer(d, S) = Newer(e, S) => d = e
  BY <1>1, NewerHasFewer
<1>3. f \in Injection(S, 0 .. N - 1)
  <2>1. f \in [S -> 0 .. N - 1] /\ \A d, e \in S : f[d] = f[e] => d = e
    BY <1>2
  <2> HIDE DEF f
  <2> QED BY <2>1 DEF Injection, IsInjective
<1>4. IsFiniteSet(0 .. N - 1) /\ Cardinality(0 .. N - 1) = N
  <2>1. 0 \in Int /\ N - 1 \in Int
    BY <1>1
  <2>2. /\ IsFiniteSet(0 .. N - 1)
        /\ Cardinality(0 .. N - 1) = IF 0 > N - 1 THEN 0 ELSE (N - 1) - 0 + 1
    BY <2>1, FS_Interval
  <2> HIDE DEF N
  <2> QED BY <1>1, <2>2
<1> HIDE DEF f
<1>5. f \in Surjection(S, 0 .. N - 1)
  BY <1>3, <1>4, FS_Injection
<1>6. n \in 0 .. N - 1
  BY <1>1
<1>7. \E e \in S : f[e] = n
  BY <1>5, <1>6 DEF Surjection
<1> QED BY <1>7 DEF f

\* The newest n: as many as there are, and all newer than what n are newer than.
LEMMA NewestAre ==
  ASSUME NEW S, Entries(S), NEW n \in Nat
  PROVE  /\ Newest(S, n) \subseteq S /\ Entries(Newest(S, n))
         /\ Cardinality(S) <= n => Newest(S, n) = S
         /\ Cardinality(S) >= n => Cardinality(Newest(S, n)) >= n
         /\ \A k \in Nat : Cardinality({e \in S : e.updated > k}) >= n =>
              \A e \in Newest(S, n) : e.updated > k
<1>0. /\ IsFiniteSet(S) /\ (\A x \in S : x.updated \in Nat) /\ Cardinality(S) \in Nat
  BY FS_CardinalityType DEF Entries
<1>1. Newest(S, n) \subseteq S
  BY DEF Newest
<1>2. Entries(Newest(S, n))
  BY <1>1, FS_Subset DEF Entries
<1>3. Cardinality(S) <= n => Newest(S, n) = S
  BY <1>0, NewerHasFewer DEF Newest
<1>4. ASSUME Cardinality(S) >= n PROVE Cardinality(Newest(S, n)) >= n
  <2> DEFINE at(i) == CHOOSE e \in S : Newer(e, S) = i - 1
             g == [i \in 1 .. n |-> at(i)]
  <2>1. \A i \in 1 .. n : at(i) \in S /\ Newer(at(i), S) = i - 1
    <3> TAKE i \in 1 .. n
    <3>1. i - 1 \in Nat /\ i - 1 < Cardinality(S)
      BY <1>0, <1>4
    <3>2. \E e \in S : Newer(e, S) = i - 1
      BY <3>1, EveryRank
    <3> QED BY <3>2
  <2> HIDE DEF at
  <2>2. \A i \in 1 .. n : at(i) \in Newest(S, n)
    BY <2>1 DEF Newest
  <2>3. g \in [1 .. n -> Newest(S, n)] /\ \A i, j \in 1 .. n : g[i] = g[j] => i = j
    <3>1. \A i, j \in 1 .. n : at(i) = at(j) => i = j
      <4> TAKE i, j \in 1 .. n
      <4> HAVE at(i) = at(j)
      <4>1. i - 1 = j - 1
        BY <2>1
      <4> QED BY <4>1
    <3> QED BY <2>2, <3>1
  <2> HIDE DEF g
  <2>4. g \in Injection(1 .. n, Newest(S, n))
    BY <2>3 DEF Injection, IsInjective
  <2>5. IsFiniteSet(Newest(S, n)) /\ Cardinality(Newest(S, n)) \in Nat
    BY <1>0, <1>1, FS_Subset, FS_CardinalityType
  <2>6. Cardinality(1 .. n) <= Cardinality(Newest(S, n))
    BY <2>4, <2>5, FS_Injection
  <2>7. Cardinality(1 .. n) = n
    <3>1. Cardinality(1 .. n) = IF 1 > n THEN 0 ELSE n - 1 + 1
      BY FS_Interval
    <3> QED BY <3>1
  <2> QED BY <2>5, <2>6, <2>7
<1>5. ASSUME NEW k \in Nat, Cardinality({e \in S : e.updated > k}) >= n, NEW x \in Newest(S, n)
      PROVE  x.updated > k
  <2> SUFFICES ASSUME x.updated <= k PROVE FALSE
    BY <1>0, <1>1
  <2> DEFINE A == {e \in S : e.updated > k}
             B == {e \in S : e.updated > x.updated}
  <2>1. A \in SUBSET B
    BY <1>0, <1>1
  <2>2. IsFiniteSet(B) /\ Cardinality(B) \in Nat /\ Cardinality(A) \in Nat
    BY <1>0, NewerCount
  <2>3. Cardinality(A) <= Cardinality(B)
    BY <2>1, <2>2, FS_Subset
  <2>4. Cardinality(B) < n
    BY DEF Newest, Newer
  <2> HIDE DEF A, B
  <2>5. Cardinality(A) >= n
    BY <1>5 DEF A
  <2> QED BY <2>2, <2>3, <2>4, <2>5
<1> QED BY <1>1, <1>2, <1>3, <1>4, <1>5

\* In order: each once, the newest first.
LEMMA NewestFirstIs ==
  ASSUME NEW S, Entries(S)
  PROVE  LET page == NewestFirst(S) IN
         /\ page \in Seq(S) /\ Len(page) = Cardinality(S) /\ Cardinality(S) \in Nat
         /\ DOMAIN page = 1 .. Cardinality(S)
         /\ \A e \in S : \E i \in 1 .. Cardinality(S) : page[i] = e
         /\ \A i, j \in 1 .. Cardinality(S) : i < j => page[i].updated > page[j].updated
<1> DEFINE N == Cardinality(S)
           at(i) == CHOOSE e \in S : Newer(e, S) = i - 1
           page == [i \in 1 .. N |-> at(i)]
<1>0. N \in Nat
  BY FS_CardinalityType DEF Entries
<1>1. \A i \in 1 .. N : at(i) \in S /\ Newer(at(i), S) = i - 1
  <2> TAKE i \in 1 .. N
  <2>1. i - 1 \in Nat /\ i - 1 < N
    BY <1>0
  <2>2. \E e \in S : Newer(e, S) = i - 1
    BY <2>1, EveryRank
  <2> QED BY <2>2
<1> HIDE DEF at
<1>2. page \in Seq(S) /\ Len(page) = N /\ DOMAIN page = 1 .. N
  <2>1. page \in [1 .. N -> S]
    BY <1>1
  <2> HIDE DEF page
  <2>2. page \in Seq(S)
    BY <1>0, <2>1
  <2> QED BY <1>0, <2>1, <2>2
<1>3. \A e \in S : \E i \in 1 .. N : page[i] = e
  <2> TAKE e \in S
  <2>1. Newer(e, S) \in Nat /\ Newer(e, S) < N
    BY NewerHasFewer
  <2>2. PICK i \in 1 .. N : Newer(e, S) = i - 1
    <3>1. Newer(e, S) + 1 \in 1 .. N /\ Newer(e, S) = (Newer(e, S) + 1) - 1
      BY <1>0, <2>1
    <3> QED BY <3>1
  <2>3. at(i) = e
    BY <1>1, <2>2, NewerHasFewer
  <2> QED BY <2>3
<1>4. \A i, j \in 1 .. N : i < j => page[i].updated > page[j].updated
  <2> TAKE i, j \in 1 .. N
  <2> HAVE i < j
  <2>1. Newer(at(i), S) < Newer(at(j), S)
    BY <1>0, <1>1
  <2>2. at(i).updated > at(j).updated
    BY <1>1, <2>1, NewerHasFewer
  <2> QED BY <2>2
<1>5. NewestFirst(S) = page
  BY DEF NewestFirst, at
<1> HIDE DEF page
<1> QED BY <1>0, <1>2, <1>3, <1>4, <1>5

-----------------------------------------------------------------------------
(* A page *)

\* What a page is taken from: from memory, and the rest from the store.
InStore(cursor) == ListSessionsForUser(cursor, PageSize + 1)
Rest(cursor, after) ==
  {e \in InStore(cursor) : \A l \in LiveSessions(cursor, after) : l.id # e.id}
OnOffer(cursor, after) == LiveSessions(cursor, after) \cup Rest(cursor, after)

\* The rows that the store chooses from.
RowsBefore(cursor) ==
  {s \in Mine : /\ Stored(s) /\ rows[s].matches
                /\ cursor # NoSession =>
                     cursor \in Mine /\ Stored(cursor) /\ rows[s].updated < rows[cursor].updated}
RowsOf(T) == {[id |-> s, updated |-> rows[s].updated] : s \in T}

Cursors == Mine \cup {NoSession}
Sound(cursor) == cursor # NoSession => Present(cursor) /\ InStep(cursor)
Below(time, cursor) == cursor # NoSession => time < RecordOf(cursor).updated

LEMMA InStoreIs ==
  ASSUME NEW cursor
  PROVE  InStore(cursor) = Newest(RowsOf(RowsBefore(cursor)), PageSize + 1)
  BY DEF InStore, ListSessionsForUser, RowsOf, RowsBefore

\* What is there of a session.
LEMMA ThereIs ==
  ASSUME DirectoryTypeOK, Clocked, NEW s \in Mine
  PROVE  /\ s \in Sessions /\ cache[s] \in Record /\ rows[s] \in Record
         /\ Cached(s) => cache[s].updated \in Marks(s) /\ cache[s].updated \in Nat \ {0}
         /\ Stored(s) => rows[s].updated \in Marks(s) /\ rows[s].updated \in Nat \ {0}
         /\ Cached(s) /\ Stored(s) => rows[s].updated <= cache[s].updated
         /\ InStep(s) /\ Present(s) =>
              /\ Stored(s) /\ rows[s].matches = RecordOf(s).matches
              /\ rows[s].updated = RecordOf(s).updated
              /\ Cached(s) => /\ cache[s].updated = RecordOf(s).updated
                              /\ cache[s].matches = RecordOf(s).matches
<1>1. s \in Sessions
  BY DEF Sessions
<1>2. cache[s] \in Record /\ rows[s] \in Record
  BY <1>1 DEF DirectoryTypeOK
<1>3. Marks(s) \subseteq 1 .. now /\ now \in Nat
  BY <1>1 DEF Clocked
<1>4. /\ Cached(s) => cache[s].updated \in Marks(s)
      /\ Stored(s) => rows[s].updated \in Marks(s)
  BY DEF Marks, Cached, Stored
<1>5. Cached(s) /\ Stored(s) => rows[s].updated <= cache[s].updated
  BY <1>1 DEF Clocked
<1>6. InStep(s) /\ Present(s) =>
        /\ Stored(s) /\ rows[s].matches = RecordOf(s).matches
        /\ rows[s].updated = RecordOf(s).updated
        /\ Cached(s) => /\ cache[s].updated = RecordOf(s).updated
                        /\ cache[s].matches = RecordOf(s).matches
  BY DEF InStep, Present, RecordOf
<1> QED BY <1>1, <1>2, <1>3, <1>4, <1>5, <1>6

\* Entries of rows.
LEMMA RowsAre ==
  ASSUME DirectoryTypeOK, Clocked, NEW T \in SUBSET {s \in Mine : Stored(s)}
  PROVE  /\ Entries(RowsOf(T))
         /\ \A e \in RowsOf(T) : e.id \in T /\ e.updated = rows[e.id].updated
         /\ \A d, e \in RowsOf(T) : d.id = e.id => d = e
<1>1. \A e \in RowsOf(T) :
        e.id \in T /\ e.updated = rows[e.id].updated /\ e = [id |-> e.id, updated |-> e.updated]
  BY DEF RowsOf
<1>2. \A d, e \in RowsOf(T) : d.id = e.id => d = e
  BY <1>1
<1>3. \A s \in T : s \in Sessions /\ rows[s].updated \in Marks(s) /\ rows[s].updated \in Nat
  BY ThereIs
<1>4. \A d, e \in RowsOf(T) : d.updated = e.updated => d = e
  BY <1>1, <1>2, <1>3 DEF Clocked
<1>5. IsFiniteSet(RowsOf(T))
  <2> DEFINE f == [e \in RowsOf(T) |-> e.id]
  <2>1. f \in [RowsOf(T) -> T] /\ \A d, e \in RowsOf(T) : f[d] = f[e] => d = e
    BY <1>1, <1>2
  <2> HIDE DEF f
  <2>2. f \in Injection(RowsOf(T), T)
    BY <2>1 DEF Injection, IsInjective
  <2>3. IsFiniteSet(T)
    <3>1. T \in SUBSET Sessions /\ IsFiniteSet(Sessions)
      BY DirectoryAssumption DEF Sessions
    <3> QED BY <3>1, FS_Subset
  <2> QED BY <2>2, <2>3, FS_Injection
<1> QED BY <1>1, <1>2, <1>3, <1>4, <1>5 DEF Entries

LEMMA LiveAre ==
  ASSUME DirectoryTypeOK, Clocked, NEW cursor \in Cursors, NEW after
  PROVE  \A e \in LiveSessions(cursor, after) :
           /\ e.id \in Mine /\ Cached(e.id) /\ e.updated = cache[e.id].updated
           /\ e = [id |-> e.id, updated |-> e.updated]
           /\ cache[e.id].matches
           /\ Sound(cursor) => Below(e.updated, cursor)
<1> TAKE e \in LiveSessions(cursor, after)
<1>1. PICK s \in Mine : /\ e = [id |-> s, updated |-> cache[s].updated]
                        /\ Cached(s) /\ cache[s].matches /\ BeforeCursor(cache[s], cursor)
  BY DEF LiveSessions
<1>2. Sound(cursor) => Below(e.updated, cursor)
  <2> SUFFICES ASSUME cursor # NoSession, Present(cursor), InStep(cursor)
               PROVE  cache[s].updated < RecordOf(cursor).updated
    BY <1>1 DEF Sound, Below
  <2>1. cursor \in Mine
    BY DEF Cursors
  <2>2. CASE Cached(cursor)
    BY <1>1, <2>1, <2>2 DEF BeforeCursor, RecordOf
  <2>3. CASE ~Cached(cursor)
    BY <1>1, <2>1, <2>3 DEF BeforeCursor, RecordOf, Present
  <2> QED BY <2>2, <2>3
<1> QED BY <1>1, <1>2

LEMMA RestAre ==
  ASSUME DirectoryTypeOK, Clocked, NEW cursor \in Cursors, NEW after
  PROVE  /\ Entries(RowsOf(RowsBefore(cursor))) /\ PageSize \in Nat \ {0}
         /\ InStore(cursor) \subseteq RowsOf(RowsBefore(cursor))
         /\ Rest(cursor, after) \subseteq InStore(cursor)
         /\ \A e \in InStore(cursor) :
              /\ e.id \in Mine /\ Stored(e.id) /\ e.updated = rows[e.id].updated
              /\ e = [id |-> e.id, updated |-> e.updated]
              /\ rows[e.id].matches
              /\ Sound(cursor) => Below(e.updated, cursor)
<1>1. PageSize \in Nat \ {0}
  BY DirectoryAssumption
<1>2. RowsBefore(cursor) \in SUBSET {s \in Mine : Stored(s)}
  BY DEF RowsBefore
<1>3. Entries(RowsOf(RowsBefore(cursor)))
  BY <1>2, RowsAre
<1>4. InStore(cursor) \subseteq RowsOf(RowsBefore(cursor))
  BY <1>1, <1>3, InStoreIs, NewestAre
<1>5. Rest(cursor, after) \subseteq InStore(cursor)
  BY DEF Rest
<1>6. ASSUME NEW e \in InStore(cursor)
      PROVE  /\ e.id \in Mine /\ Stored(e.id) /\ e.updated = rows[e.id].updated
             /\ e = [id |-> e.id, updated |-> e.updated]
             /\ rows[e.id].matches
             /\ Sound(cursor) => Below(e.updated, cursor)
  <2>1. PICK s \in RowsBefore(cursor) : e = [id |-> s, updated |-> rows[s].updated]
    BY <1>4 DEF RowsOf
  <2>2. Sound(cursor) => Below(e.updated, cursor)
    <3> SUFFICES ASSUME cursor # NoSession, Present(cursor), InStep(cursor)
                 PROVE  rows[s].updated < RecordOf(cursor).updated
      BY <2>1 DEF Sound, Below
    <3>1. cursor \in Mine /\ rows[s].updated < rows[cursor].updated
      BY DEF Cursors, RowsBefore
    <3>2. rows[cursor].updated = RecordOf(cursor).updated
      BY <3>1, ThereIs
    <3> QED BY <3>1, <3>2
  <2> QED BY <2>1, <2>2 DEF RowsBefore
<1> QED BY <1>1, <1>3, <1>4, <1>5, <1>6

\* What is on offer for a page.
LEMMA OfferIs ==
  ASSUME DirectoryTypeOK, Clocked, NEW cursor \in Cursors, NEW after
  PROVE  /\ Entries(OnOffer(cursor, after))
         /\ \A d, e \in OnOffer(cursor, after) : d.id = e.id => d = e
         /\ \A e \in OnOffer(cursor, after) :
              /\ e.id \in Mine /\ Present(e.id) /\ e.updated \in Nat \ {0}
              /\ InStep(e.id) => e.updated = RecordOf(e.id).updated /\ RecordOf(e.id).matches
              /\ Sound(cursor) => Below(e.updated, cursor)
<1> DEFINE U == OnOffer(cursor, after)
           L == LiveSessions(cursor, after)
           R == Rest(cursor, after)
<1>1. /\ \A e \in L : /\ e.id \in Mine /\ Cached(e.id) /\ e.updated = cache[e.id].updated
                      /\ e = [id |-> e.id, updated |-> e.updated]
                      /\ cache[e.id].matches
                      /\ Sound(cursor) => Below(e.updated, cursor)
      /\ \A e \in R : /\ e.id \in Mine /\ Stored(e.id) /\ e.updated = rows[e.id].updated
                      /\ e = [id |-> e.id, updated |-> e.updated]
                      /\ rows[e.id].matches
                      /\ Sound(cursor) => Below(e.updated, cursor)
                      /\ \A l \in L : l.id # e.id
      /\ U = L \cup R
  BY LiveAre, RestAre DEF OnOffer, Rest
<1> HIDE DEF U, L, R
<1>2. \A d, e \in U : d.id = e.id => d = e
  BY <1>1
<1>3. ASSUME NEW e \in U
      PROVE  /\ e.id \in Mine /\ Present(e.id) /\ e.updated \in Marks(e.id)
             /\ e.updated \in Nat \ {0}
             /\ InStep(e.id) => e.updated = RecordOf(e.id).updated /\ RecordOf(e.id).matches
             /\ Sound(cursor) => Below(e.updated, cursor)
  <2>1. e.id \in Mine
    BY <1>1
  <2>2. CASE e \in L
    BY <1>1, <2>1, <2>2, ThereIs DEF Present, RecordOf
  <2>3. CASE e \in R
    BY <1>1, <2>1, <2>3, ThereIs DEF Present
  <2> QED BY <1>1, <2>2, <2>3
<1>4. \A d, e \in U : d.updated = e.updated => d = e
  <2> TAKE d, e \in U
  <2> HAVE d.updated = e.updated
  <2>1. d.id \in Sessions /\ e.id \in Sessions
    BY <1>3 DEF Sessions
  <2>2. Marks(d.id) \cap Marks(e.id) # {}
    BY <1>3
  <2>3. d.id = e.id
    BY <2>1, <2>2 DEF Clocked
  <2> QED BY <1>2, <2>3
<1>5. IsFiniteSet(U)
  <2> DEFINE f == [e \in U |-> e.id]
  <2>1. f \in [U -> Mine] /\ \A d, e \in U : f[d] = f[e] => d = e
    BY <1>2, <1>3
  <2> HIDE DEF f
  <2>2. f \in Injection(U, Mine)
    BY <2>1 DEF Injection, IsInjective
  <2>3. IsFiniteSet(Mine)
    <3>1. Mine \in SUBSET Sessions /\ IsFiniteSet(Sessions)
      BY DirectoryAssumption DEF Sessions
    <3> QED BY <3>1, FS_Subset
  <2> QED BY <2>2, <2>3, FS_Injection
<1> QED BY <1>2, <1>3, <1>4, <1>5 DEF Entries, U

\* An undisturbed session that passes and is below the cursor is on offer, or so
\* many newer ones are that it has no place on the page.
LEMMA OfferedOrBehind ==
  ASSUME DirectoryTypeOK, Clocked, NEW cursor \in Cursors, Sound(cursor), NEW after,
         NEW s \in Mine, InStep(s), Present(s), RecordOf(s).matches,
         Below(RecordOf(s).updated, cursor)
  PROVE  LET U == OnOffer(cursor, after)
             time == RecordOf(s).updated
         IN \/ \E e \in U : e.id = s /\ e.updated = time
            \/ Cardinality({e \in U : e.updated > time}) >= PageSize + 1
<1> DEFINE U == OnOffer(cursor, after)
           L == LiveSessions(cursor, after)
           R == RowsOf(RowsBefore(cursor))
           I == InStore(cursor)
           time == RecordOf(s).updated
           x == [id |-> s, updated |-> time]
<1>1. /\ Stored(s) /\ rows[s].matches /\ rows[s].updated = time /\ time \in Nat
      /\ Cached(s) => cache[s].updated = time
  BY ThereIs
<1>2. x \in R
  <2>1. s \in RowsBefore(cursor)
    <3>1. cursor # NoSession => cursor \in Mine /\ Stored(cursor)
                                /\ rows[cursor].updated = RecordOf(cursor).updated
      BY ThereIs DEF Cursors, Sound
    <3> QED BY <1>1, <3>1 DEF RowsBefore, Below
  <2> QED BY <1>1, <2>1 DEF RowsOf
<1>3. /\ Entries(R) /\ PageSize \in Nat \ {0} /\ I \subseteq R
      /\ \A e \in I : /\ e.id \in Mine /\ Stored(e.id) /\ e.updated = rows[e.id].updated
                      /\ e = [id |-> e.id, updated |-> e.updated]
  BY RestAre
<1>4. /\ Entries(U) /\ \A d, e \in U : d.id = e.id => d = e
  BY OfferIs
<1>5. \A e \in L : e.id \in Mine /\ Cached(e.id) /\ e.updated = cache[e.id].updated
  BY LiveAre
<1>6. /\ U = L \cup {e \in I : \A l \in L : l.id # e.id}
      /\ I = Newest(R, PageSize + 1)
  BY InStoreIs DEF OnOffer, Rest
<1>7. CASE x \in I
  <2>1. CASE \A l \in L : l.id # s
    BY <1>6, <1>7, <2>1
  <2>2. CASE \E l \in L : l.id = s
    BY <1>1, <1>5, <1>6, <2>2
  <2> QED BY <2>1, <2>2
<1>8. CASE x \notin I
  <2> DEFINE n == PageSize + 1
             N == {e \in U : e.updated > time}
  <2>1. n \in Nat /\ IsFiniteSet(U)
    BY <1>3, <1>4 DEF Entries
  <2> HIDE DEF n, U, L, R, I, time
  <2>2. /\ Newer(x, R) >= n /\ Newer(x, R) \in Nat
        /\ Newer(x, R) < Cardinality(R) /\ Cardinality(R) \in Nat
    <3>1. Newer(x, R) \in Nat /\ Newer(x, R) < Cardinality(R) /\ Cardinality(R) \in Nat
      BY <1>2, <1>3, NewerHasFewer
    <3>2. ~(Newer(x, R) < n)
      BY <1>2, <1>6, <1>8 DEF Newest, n
    <3> QED BY <2>1, <3>1, <3>2
  <2>3. \A e \in I : e.updated > time
    <3> TAKE e \in I
    <3>1. Newer(e, R) < Newer(x, R)
      <4>1. e \in R /\ Newer(e, R) < n
        BY <1>3, <1>6 DEF Newest, n
      <4>2. Newer(e, R) \in Nat
        BY <1>2, <1>3, <4>1, NewerHasFewer
      <4> QED BY <2>1, <2>2, <4>1, <4>2
    <3>2. e.updated > x.updated
      BY <1>2, <1>3, <3>1, NewerHasFewer
    <3> QED BY <3>2
  <2>4. Cardinality(I) >= n
    BY <1>3, <1>6, <2>1, <2>2, NewestAre DEF n
  <2>5. \A e \in I : \E u \in N : u.id = e.id
    <3> TAKE e \in I
    <3>1. CASE \A l \in L : l.id # e.id
      BY <1>6, <2>3, <3>1
    <3>2. CASE \E l \in L : l.id = e.id
      <4>1. PICK l \in L : l.id = e.id
        BY <3>2
      <4>2. /\ Cached(e.id) /\ Stored(e.id) /\ l.updated = cache[e.id].updated
            /\ e.updated = rows[e.id].updated /\ e.id \in Mine
        BY <1>3, <1>5, <4>1
      <4>3. /\ rows[e.id].updated <= cache[e.id].updated
            /\ rows[e.id].updated \in Nat /\ cache[e.id].updated \in Nat
        BY <4>2, ThereIs
      <4>4. l.updated > time
        BY <1>1, <2>3, <4>2, <4>3 DEF time
      <4> QED BY <1>6, <4>1, <4>4
    <3> QED BY <3>1, <3>2
  <2> DEFINE h == [e \in I |-> CHOOSE u \in N : u.id = e.id]
  <2>6. /\ h \in [I -> N] /\ \A e \in I : h[e].id = e.id
    BY <2>5
  <2> HIDE DEF h
  <2>7. \A d, e \in I : h[d] = h[e] => d = e
    <3> TAKE d, e \in I
    <3> HAVE h[d] = h[e]
    <3>1. d.id = e.id
      BY <2>6
    <3> QED BY <1>3, <3>1
  <2>8. h \in Injection(I, N)
    BY <2>6, <2>7 DEF Injection, IsInjective
  <2>9. IsFiniteSet(N) /\ Cardinality(N) \in Nat
    BY <2>1, NewerCount
  <2>10. Cardinality(I) <= Cardinality(N) /\ Cardinality(I) \in Nat
    BY <2>8, <2>9, FS_Injection, FS_CardinalityType
  <2>11. Cardinality(N) >= n
    BY <2>1, <2>4, <2>9, <2>10
  <2> QED BY <2>11 DEF n, U, time
<1> QED BY <1>7, <1>8

\* A page and its cursor.
LEMMA HistoryPageIs ==
  ASSUME DirectoryTypeOK, Clocked, NEW cursor \in Cursors, NEW after
  PROVE  LET U == OnOffer(cursor, after)
             page == ListUserSessions(cursor, after)
             n == Len(page.items)
         IN /\ n \in Nat /\ DOMAIN page.items = 1 .. n
            /\ \A i \in 1 .. n : page.items[i] \in U
            /\ \A i, j \in 1 .. n : i < j => page.items[i].updated > page.items[j].updated
            /\ \A e \in Newest(U, PageSize) : \E i \in 1 .. n : page.items[i] = e
            /\ page.next = NoSession => Cardinality(U) <= PageSize /\ Newest(U, PageSize) = U
            /\ page.next # NoSession =>
                 /\ n > 0 /\ page.items[n].id = page.next /\ page.items[n] \in Newest(U, PageSize)
                 /\ page.next \in Mine /\ Present(page.next)
                 /\ InStep(page.next) => page.items[n].updated = RecordOf(page.next).updated
<1> DEFINE U == OnOffer(cursor, after)
           P == Newest(U, PageSize)
           items == NewestFirst(P)
           next == IF Cardinality(U) > PageSize THEN Last(items).id ELSE NoSession
           n == Len(items)
<1>1. ListUserSessions(cursor, after) = [items |-> items, next |-> next]
  BY DEF ListUserSessions, OnOffer, Rest, InStore
<1>2. PageSize \in Nat \ {0} /\ NoSession \notin Mine
  BY DirectoryAssumption DEF Sessions
<1>3. /\ Entries(U)
      /\ \A e \in U : /\ e.id \in Mine /\ Present(e.id)
                      /\ InStep(e.id) => e.updated = RecordOf(e.id).updated
  BY OfferIs
<1> HIDE DEF U
<1>4. /\ P \subseteq U /\ Entries(P) /\ Cardinality(U) \in Nat
      /\ Cardinality(U) <= PageSize => P = U
      /\ Cardinality(U) >= PageSize => Cardinality(P) >= PageSize
  BY <1>2, <1>3, NewestAre, FS_CardinalityType DEF Entries
<1> HIDE DEF P
<1>5. /\ items \in Seq(P) /\ n = Cardinality(P) /\ n \in Nat /\ DOMAIN items = 1 .. n
      /\ \A e \in P : \E i \in 1 .. n : items[i] = e
      /\ \A i, j \in 1 .. n : i < j => items[i].updated > items[j].updated
  BY <1>4, NewestFirstIs
<1>6. \A i \in 1 .. n : items[i] \in P
  BY <1>5
<1> HIDE DEF items
<1>7. CASE Cardinality(U) > PageSize
  <2>1. n > 0 /\ n \in 1 .. n /\ Last(items) = items[n]
    BY <1>2, <1>4, <1>5, <1>7 DEF Last
  <2>2. next = items[n].id /\ items[n] \in P
    BY <1>6, <1>7, <2>1
  <2>3. next \in Mine /\ next # NoSession
    BY <1>2, <1>3, <1>4, <2>2
  <2> HIDE DEF n
  <2> QED BY <1>1, <1>3, <1>4, <1>5, <1>6, <2>1, <2>2, <2>3 DEF U, P, n
<1>8. CASE ~(Cardinality(U) > PageSize)
  <2>1. next = NoSession /\ Cardinality(U) <= PageSize
    BY <1>2, <1>4, <1>8
  <2> HIDE DEF n, next
  <2> QED BY <1>1, <1>4, <1>5, <1>6, <2>1 DEF U, P, n
<1> QED BY <1>7, <1>8

\* Whom the page tells of, up to the next cursor or all of them.
LEMMA PageTells ==
  ASSUME DirectoryTypeOK, Clocked, NEW cursor \in Cursors, Sound(cursor), NEW after,
         NEW s \in Mine, InStep(s), Present(s)
  PROVE  LET page == ListUserSessions(cursor, after)
             told == \E i \in 1 .. Len(page.items) : page.items[i].id = s
             due == RecordOf(s).matches /\ Below(RecordOf(s).updated, cursor)
         IN /\ page.next = NoSession => (told <=> due)
            /\ page.next # NoSession /\ InStep(page.next) =>
                 (told <=> due /\ RecordOf(s).updated >= RecordOf(page.next).updated)
<1> DEFINE U == OnOffer(cursor, after)
           page == ListUserSessions(cursor, after)
           n == Len(page.items)
           told == \E i \in 1 .. n : page.items[i].id = s
           time == RecordOf(s).updated
           due == RecordOf(s).matches /\ Below(time, cursor)
           P == Newest(U, PageSize)
<1>1. /\ n \in Nat
      /\ \A i \in 1 .. n : page.items[i] \in U
      /\ \A i, j \in 1 .. n : i < j => page.items[i].updated > page.items[j].updated
      /\ \A e \in P : \E i \in 1 .. n : page.items[i] = e
      /\ page.next = NoSession => Cardinality(U) <= PageSize /\ P = U
      /\ page.next # NoSession =>
           /\ n > 0 /\ page.items[n] \in P
           /\ InStep(page.next) => page.items[n].updated = RecordOf(page.next).updated
  BY HistoryPageIs
<1>2. /\ Entries(U)
      /\ \A e \in U : /\ e.updated \in Nat
                      /\ e.id = s => e.updated = time /\ RecordOf(s).matches
                      /\ Below(e.updated, cursor)
  BY OfferIs
<1>3. due => \/ \E e \in U : e.id = s /\ e.updated = time
             \/ Cardinality({e \in U : e.updated > time}) >= PageSize + 1
  BY OfferedOrBehind
<1>4. PageSize \in Nat \ {0} /\ time \in Nat
  BY ThereIs, DirectoryAssumption
<1>5. told => due
  BY <1>1, <1>2
<1>6. Cardinality({e \in U : e.updated > time}) \in Nat /\ Cardinality(U) \in Nat
      /\ Cardinality({e \in U : e.updated > time}) <= Cardinality(U)
  BY <1>2, NewerCount DEF Entries
<1> HIDE DEF U, page, n, time, P
<1>7. ASSUME page.next = NoSession, due PROVE told
  <2>1. ~(Cardinality({e \in U : e.updated > time}) >= PageSize + 1)
    BY <1>1, <1>4, <1>6, <1>7
  <2>2. \E e \in P : e.id = s
    BY <1>1, <1>3, <1>7, <2>1
  <2> QED BY <1>1, <2>2
<1>8. ASSUME page.next # NoSession, told PROVE time >= page.items[n].updated
  <2>1. PICK i \in 1 .. n : page.items[i].id = s
    BY <1>8
  <2>2. page.items[i].updated = time /\ page.items[n].updated \in Nat /\ n \in 1 .. n
    BY <1>1, <1>2, <1>8, <2>1
  <2>3. i < n \/ i = n
    BY <1>1
  <2>4. i < n => page.items[i].updated > page.items[n].updated
    BY <1>1, <2>2
  <2> QED BY <1>4, <2>2, <2>3, <2>4
<1>9. ASSUME page.next # NoSession, due, ~told PROVE ~(time >= page.items[n].updated)
  <2>1. Cardinality({e \in U : e.updated > time}) >= PageSize
    <3>1. CASE \E e \in U : e.id = s /\ e.updated = time
      <4>1. PICK e \in U : e.id = s /\ e.updated = time
        BY <3>1
      <4>2. e \notin P
        BY <1>1, <1>9, <4>1
      <4>3. ~(Newer(e, U) < PageSize)
        BY <4>1, <4>2 DEF P, Newest
      <4>4. Newer(e, U) = Cardinality({d \in U : d.updated > time})
        BY <4>1 DEF Newer
      <4> QED BY <1>4, <1>6, <4>3, <4>4
    <3>2. CASE Cardinality({e \in U : e.updated > time}) >= PageSize + 1
      BY <1>4, <1>6, <3>2
    <3> QED BY <1>3, <1>9, <3>1, <3>2
  <2>2. \A e \in P : e.updated > time
    BY <1>2, <1>4, <2>1, NewestAre DEF P
  <2>3. page.items[n].updated > time /\ page.items[n].updated \in Nat
    <3>1. page.items[n] \in P /\ n \in 1 .. n
      BY <1>1, <1>9
    <3> QED BY <1>1, <1>2, <2>2, <3>1
  <2> QED BY <1>4, <2>3
<1>10. page.next = NoSession => (told <=> due)
  BY <1>5, <1>7
<1>11. page.next # NoSession /\ InStep(page.next) =>
         (told <=> due /\ time >= RecordOf(page.next).updated)
  BY <1>1, <1>5, <1>8, <1>9
<1> QED BY <1>10, <1>11 DEF page, n, time

\* More is seen.
LEMMA SeenMore ==
  ASSUME NEW seen \in Seq(Mine), NEW ids \in Seq(Mine)
  PROVE  /\ seen \o ids \in Seq(Mine)
         /\ ToSet(seen \o ids) = ToSet(seen) \cup ToSet(ids)
         /\ DOMAIN (seen \o ids) = 1 .. Len(seen) + Len(ids)
         /\ Len(seen) \in Nat /\ Len(ids) \in Nat
         /\ \A i \in 1 .. Len(seen) + Len(ids) :
              (seen \o ids)[i] = IF i <= Len(seen) THEN seen[i] ELSE ids[i - Len(seen)]
<1>1. /\ seen \o ids \in Seq(Mine) /\ Len(seen \o ids) = Len(seen) + Len(ids)
      /\ \A i \in 1 .. Len(seen) + Len(ids) :
              (seen \o ids)[i] = IF i <= Len(seen) THEN seen[i] ELSE ids[i - Len(seen)]
      /\ Len(seen) \in Nat /\ Len(ids) \in Nat
  BY ConcatProperties
<1>2. DOMAIN (seen \o ids) = 1 .. Len(seen) + Len(ids)
  BY <1>1
<1>3. ToSet(seen \o ids) = ToSet(seen) \cup ToSet(ids)
  <2>1. \A i \in 1 .. Len(seen) : (seen \o ids)[i] = seen[i] /\ i \in 1 .. Len(seen) + Len(ids)
    BY <1>1
  <2>2. \A i \in 1 .. Len(ids) : /\ (seen \o ids)[Len(seen) + i] = ids[i]
                                 /\ Len(seen) + i \in 1 .. Len(seen) + Len(ids)
    BY <1>1
  <2>3. \A i \in 1 .. Len(seen) + Len(ids) :
          i \in 1 .. Len(seen) \/ i - Len(seen) \in 1 .. Len(ids)
    BY <1>1
  <2>4. /\ ToSet(seen) = {seen[i] : i \in 1 .. Len(seen)}
        /\ ToSet(ids) = {ids[i] : i \in 1 .. Len(ids)}
        /\ ToSet(seen \o ids) = {(seen \o ids)[i] : i \in 1 .. Len(seen) + Len(ids)}
    BY <1>1, <1>2 DEF ToSet
  <2>5. ToSet(seen) \cup ToSet(ids) \subseteq ToSet(seen \o ids)
    <3>1. ToSet(seen) \subseteq ToSet(seen \o ids)
      BY <2>1, <2>4
    <3>2. ToSet(ids) \subseteq ToSet(seen \o ids)
      BY <2>2, <2>4
    <3> QED BY <3>1, <3>2
  <2>6. \A i \in 1 .. Len(seen) + Len(ids) : (seen \o ids)[i] \in ToSet(seen) \cup ToSet(ids)
    <3> TAKE i \in 1 .. Len(seen) + Len(ids)
    <3>1. CASE i \in 1 .. Len(seen)
      BY <2>1, <2>4, <3>1
    <3>2. CASE i \notin 1 .. Len(seen)
      <4>1. i - Len(seen) \in 1 .. Len(ids) /\ ~(i <= Len(seen))
        BY <1>1, <2>3, <3>2
      <4> QED BY <1>1, <2>4, <4>1
    <3> QED BY <3>1, <3>2
  <2> QED BY <2>4, <2>5, <2>6
<1> QED BY <1>1, <1>2, <1>3

IdsOf(page) == [i \in DOMAIN page.items |-> page.items[i].id]

LEMMA IdsAre ==
  ASSUME DirectoryTypeOK, Clocked, NEW cursor \in Cursors, NEW after
  PROVE  LET page == ListUserSessions(cursor, after)
             n == Len(page.items)
         IN /\ n \in Nat /\ DOMAIN page.items = 1 .. n
            /\ IdsOf(page) \in Seq(Mine) /\ Len(IdsOf(page)) = n
            /\ \A i \in 1 .. n : IdsOf(page)[i] = page.items[i].id
            /\ page.next \in Cursors
            /\ \A s \in Mine : s \in ToSet(IdsOf(page)) <=>
                                 \E i \in 1 .. n : page.items[i].id = s
<1> DEFINE page == ListUserSessions(cursor, after)
           n == Len(page.items)
           U == OnOffer(cursor, after)
<1>1. /\ n \in Nat /\ DOMAIN page.items = 1 .. n
      /\ \A i \in 1 .. n : page.items[i] \in U
      /\ page.next # NoSession => page.next \in Mine
  BY HistoryPageIs
<1>2. \A e \in U : e.id \in Mine
  BY OfferIs
<1> HIDE DEF page, n, U
<1>3. IdsOf(page) = [i \in 1 .. n |-> page.items[i].id]
  BY <1>1 DEF IdsOf
<1>4. \A i \in 1 .. n : page.items[i].id \in Mine
  BY <1>1, <1>2
<1>5. /\ IdsOf(page) \in Seq(Mine) /\ Len(IdsOf(page)) = n /\ DOMAIN IdsOf(page) = 1 .. n
      /\ \A i \in 1 .. n : IdsOf(page)[i] = page.items[i].id
  BY <1>1, <1>3, <1>4
<1>6. \A s \in Mine : s \in ToSet(IdsOf(page)) <=> \E i \in 1 .. n : page.items[i].id = s
  BY <1>5 DEF ToSet
<1> QED BY <1>1, <1>5, <1>6 DEF Cursors, page, n

\* A list that goes on with another.
Extends(all, head, tail) ==
  /\ DOMAIN all = 1 .. Len(head) + Len(tail)
  /\ ToSet(all) = ToSet(head) \cup ToSet(tail)
  /\ \A i \in 1 .. Len(head) + Len(tail) :
       all[i] = IF i <= Len(head) THEN head[i] ELSE tail[i - Len(head)]

\* A page carries the reading on to its cursor, or to the end.
LEMMA PageReads ==
  ASSUME DirectoryTypeOK, WalkTypeOK, Clocked, WalkInv, NEW after,
         walk.pc \in {"idle", "reading"}, ~walk.strayed,
         walk.cursor # NoSession => InStep(walk.cursor),
         NEW page, page = ListUserSessions(walk.cursor, after),
         NEW seen, Extends(seen, walk.seen, IdsOf(page)),
         NEW time \in Nat, page.next = NoSession => time = 0,
         page.next # NoSession => InStep(page.next) /\ time = RecordOf(page.next).updated
  PROVE  /\ \A s \in Undisturbed :
              s \in ToSet(seen) <=> RecordOf(s).matches /\ RecordOf(s).updated >= time
         /\ \A i, j \in DOMAIN seen :
              i < j /\ {seen[i], seen[j]} \subseteq Undisturbed =>
                RecordOf(seen[i]).updated > RecordOf(seen[j]).updated
<1> DEFINE cursor == walk.cursor
           ids == IdsOf(page)
           n == Len(page.items)
           m == Len(walk.seen)
           at(s) == RecordOf(s).updated
<1>1. cursor \in Cursors /\ walk.seen \in Seq(Mine) /\ walk.pc \in {"idle", "reading", "done"}
  BY DEF WalkTypeOK, Cursors
<1>2. Sound(cursor)
  BY DEF WalkInv, Sound
<1>3. /\ n \in Nat /\ ids \in Seq(Mine) /\ Len(ids) = n
      /\ \A i \in 1 .. n : ids[i] = page.items[i].id
      /\ \A s \in Mine : s \in ToSet(ids) <=> \E i \in 1 .. n : page.items[i].id = s
  BY <1>1, IdsAre
<1>4. /\ ToSet(seen) = ToSet(walk.seen) \cup ToSet(ids)
      /\ DOMAIN seen = 1 .. m + n /\ m \in Nat
      /\ \A i \in 1 .. m + n : seen[i] = IF i <= m THEN walk.seen[i] ELSE ids[i - m]
  <2>1. m \in Nat /\ Len(ids) = n
    BY <1>1, <1>3, LenProperties
  <2>2. /\ ToSet(seen) = ToSet(walk.seen) \cup ToSet(ids)
        /\ DOMAIN seen = 1 .. m + Len(ids)
        /\ \A i \in 1 .. m + Len(ids) :
             seen[i] = IF i <= m THEN walk.seen[i] ELSE ids[i - m]
    BY DEF Extends
  <2> HIDE DEF m, ids, n
  <2> QED BY <2>1, <2>2
<1>5. \A s \in Undisturbed : s \in Mine /\ InStep(s) /\ Present(s)
  BY DEF Undisturbed
<1>6. \A s \in Undisturbed : at(s) \in Nat
  BY <1>5, ThereIs
<1>7. \A s \in Undisturbed :
        s \in ToSet(walk.seen) <=>
          cursor # NoSession /\ RecordOf(s).matches /\ at(s) >= at(cursor)
  <2>1. CASE walk.pc = "idle"
    <3>1. cursor = NoSession /\ walk.seen = <<>>
      BY <2>1 DEF WalkInv
    <3>2. ToSet(walk.seen) = {}
      BY <3>1 DEF ToSet
    <3> QED BY <3>1, <3>2
  <2>2. CASE walk.pc = "reading"
    <3>1. cursor \in Mine /\ InStep(cursor) /\ ReadTo(at(cursor))
      BY <2>2, DirectoryAssumption DEF WalkInv, Sessions
    <3>2. cursor # NoSession
      BY <3>1, DirectoryAssumption DEF Sessions
    <3> QED BY <3>1, <3>2 DEF ReadTo
  <2> QED BY <2>1, <2>2
<1>8. \A s \in Undisturbed :
        s \in ToSet(ids) <=> RecordOf(s).matches /\ Below(at(s), cursor) /\ at(s) >= time
  <2> TAKE s \in Undisturbed
  <2>1. s \in ToSet(ids) <=> \E i \in 1 .. n : page.items[i].id = s
    BY <1>3, <1>5
  <2>2. /\ page.next = NoSession =>
             ((\E i \in 1 .. n : page.items[i].id = s)
                <=> RecordOf(s).matches /\ Below(at(s), cursor))
        /\ page.next # NoSession /\ InStep(page.next) =>
             ((\E i \in 1 .. n : page.items[i].id = s)
                <=> RecordOf(s).matches /\ Below(at(s), cursor) /\ at(s) >= at(page.next))
    BY <1>1, <1>2, <1>5, PageTells
  <2> QED BY <1>6, <2>1, <2>2
<1>9. cursor # NoSession => cursor \in Mine /\ at(cursor) \in Nat
  BY <1>1, <1>2, ThereIs DEF Cursors, Sound
<1>10. \A i \in 1 .. n : /\ page.items[i].id \in Mine
                         /\ InStep(page.items[i].id) =>
                              page.items[i].updated = at(page.items[i].id)
                         /\ Below(page.items[i].updated, cursor)
                         /\ page.items[i].updated \in Nat
  <2>1. \A i \in 1 .. n : page.items[i] \in OnOffer(cursor, after)
    BY <1>1, HistoryPageIs
  <2> QED BY <1>1, <1>2, <2>1, OfferIs
<1>11. \A i, j \in 1 .. n : i < j => page.items[i].updated > page.items[j].updated
  BY <1>1, HistoryPageIs
<1>12. cursor # NoSession => time < at(cursor) \/ time = 0
  <2> SUFFICES ASSUME cursor # NoSession, page.next # NoSession PROVE time < at(cursor)
    OBVIOUS
  <2>1. /\ n > 0 /\ page.items[n].id = page.next
        /\ InStep(page.next) => page.items[n].updated = at(page.next)
    BY <1>1, HistoryPageIs
  <2>2. n \in 1 .. n
    BY <1>3, <2>1
  <2> QED BY <1>10, <2>1, <2>2 DEF Below
<1> HIDE DEF cursor, ids, n, m
<1>13. \A s \in Undisturbed : s \in ToSet(seen) <=> RecordOf(s).matches /\ at(s) >= time
  <2> TAKE s \in Undisturbed
  <2>1. CASE cursor = NoSession
    BY <1>4, <1>7, <1>8, <2>1 DEF Below
  <2>2. CASE cursor # NoSession
    BY <1>4, <1>6, <1>7, <1>8, <1>9, <1>12, <2>2 DEF Below
  <2> QED BY <2>1, <2>2
<1>14. ASSUME NEW i \in Int, NEW j \in Int, 1 <= i, i < j, j <= m + n,
              seen[i] \in Undisturbed, seen[j] \in Undisturbed
       PROVE  at(seen[i]) > at(seen[j])
  <2>0. m \in Nat /\ n \in Nat /\ i \in 1 .. m + n /\ j \in 1 .. m + n
    BY <1>3, <1>4, <1>14
  <2>1. CASE j <= m
    <3>1. seen[i] = walk.seen[i] /\ seen[j] = walk.seen[j] /\ i \in 1 .. m /\ j \in 1 .. m
      BY <1>4, <1>14, <2>0, <2>1
    <3>2. walk.pc = "reading"
      <4>1. walk.pc = "idle" => m = 0
        BY DEF WalkInv, m
      <4> QED BY <1>1, <1>4, <3>1, <4>1
    <3>3. ReadTo(at(cursor))
      BY <3>2, DirectoryAssumption DEF WalkInv, Sessions, cursor
    <3>4. DOMAIN walk.seen = 1 .. m
      BY <1>1 DEF m
    <3> QED BY <1>14, <3>1, <3>3, <3>4 DEF ReadTo
  <2>2. CASE j > m
    <3>1. j - m \in 1 .. n /\ seen[j] = page.items[j - m].id
      BY <1>3, <1>4, <2>0, <2>2
    <3>2. at(seen[j]) = page.items[j - m].updated /\ Below(at(seen[j]), cursor)
      BY <1>5, <1>10, <1>14, <3>1
    <3>3. CASE i <= m
      <4>1. seen[i] = walk.seen[i] /\ i \in DOMAIN walk.seen
        BY <1>1, <1>4, <2>0, <3>3 DEF m
      <4>2. seen[i] \in ToSet(walk.seen)
        BY <4>1 DEF ToSet
      <4>3. cursor # NoSession /\ at(seen[i]) >= at(cursor)
        BY <1>7, <1>14, <4>2
      <4> QED BY <1>6, <1>9, <1>14, <3>2, <4>3 DEF Below
    <3>4. CASE i > m
      <4>1. i - m \in 1 .. n /\ seen[i] = page.items[i - m].id /\ i - m < j - m
        BY <1>3, <1>4, <1>14, <2>0, <3>4
      <4>2. at(seen[i]) = page.items[i - m].updated
        BY <1>5, <1>10, <1>14, <4>1
      <4> QED BY <1>11, <3>1, <3>2, <4>1, <4>2
    <3> QED BY <2>0, <3>3, <3>4
  <2> QED BY <2>0, <2>1, <2>2
<1>15. \A i, j \in DOMAIN seen :
         i < j /\ {seen[i], seen[j]} \subseteq Undisturbed => at(seen[i]) > at(seen[j])
  BY <1>3, <1>4, <1>14
<1> QED BY <1>13, <1>15

LEMMA PageKeeps ==
  ASSUME DirectoryInv, NEW after \in Nat, ListSessions(after)
  PROVE  DirectoryInv'
<1> DEFINE page == ListUserSessions(walk.cursor, after)
           all == walk.seen \o IdsOf(page)
           stray == walk.strayed \/ (walk.cursor # NoSession /\ ~InStep(walk.cursor))
<1>0. DirectoryTypeOK /\ WalkTypeOK /\ BatchTypeOK /\ Clocked /\ WalkInv /\ GhostsAreKnown
  BY DEF DirectoryInv
<1>1. UNCHANGED <<cache, rows, now, lost, batch>> /\ walk.pc \in {"idle", "reading"}
  BY DEF ListSessions
<1>2. /\ DirectoryTypeOK' /\ BatchTypeOK' /\ Clocked' /\ GhostsAreKnown'
  BY <1>0, <1>1 DEF DirectoryTypeOK, BatchTypeOK, Clocked, Marks, GhostsAreKnown, Cached, Stored
<1>3. /\ walk.cursor \in Cursors /\ walk.seen \in Seq(Mine) /\ walk.touched \in SUBSET Sessions
      /\ walk.strayed \in BOOLEAN
  BY <1>0 DEF WalkTypeOK, Cursors
<1>4. /\ IdsOf(page) \in Seq(Mine) /\ page.next \in Cursors
      /\ page.next # NoSession =>
           page.next \in Mine /\ Present(page.next)
  <2>1. page.next # NoSession => page.next \in Mine /\ Present(page.next)
    BY <1>0, <1>3, HistoryPageIs
  <2> QED BY <1>0, <1>3, <2>1, IdsAre
<1>5. all \in Seq(Mine) /\ Extends(all, walk.seen, IdsOf(page))
  BY <1>3, <1>4, SeenMore DEF Extends
<1>6. walk' = [walk EXCEPT
          !.pc = IF page.next = NoSession THEN "done" ELSE "reading",
          !.after = after, !.cursor = page.next, !.seen = all, !.strayed = stray]
  BY DEF ListSessions, IdsOf
<1> HIDE DEF page, all, stray
<1>7. stray \in BOOLEAN
  BY <1>3 DEF stray
<1>8. /\ WalkTypeOK'
      /\ walk'.pc = (IF page.next = NoSession THEN "done" ELSE "reading")
      /\ walk'.cursor = page.next /\ walk'.seen = all /\ walk'.strayed = stray
      /\ walk'.touched = walk.touched
  <2>1. walk' \in [pc : {"idle", "reading", "done"}, after : Nat, cursor : Mine \cup {NoSession},
                   seen : Seq(Mine), touched : SUBSET Sessions, strayed : BOOLEAN]
    BY <1>0, <1>4, <1>5, <1>6, <1>7 DEF WalkTypeOK, Cursors
  <2> QED BY <1>0, <1>6, <2>1 DEF WalkTypeOK
<1>9. /\ Undisturbed' = Undisturbed
      /\ \A s : RecordOf(s)' = RecordOf(s) /\ (InStep(s)' <=> InStep(s))
                /\ (Present(s)' <=> Present(s))
  BY <1>1, <1>8 DEF Undisturbed, RecordOf, InStep, Present, Cached, Stored
<1>10. ASSUME ~stray, NEW time \in Nat, page.next = NoSession => time = 0,
              page.next # NoSession => InStep(page.next) /\ time = RecordOf(page.next).updated
       PROVE  ReadTo(time)'
  <2>1. ~walk.strayed /\ (walk.cursor # NoSession => InStep(walk.cursor))
    BY <1>10 DEF stray
  <2>2. /\ \A s \in Undisturbed :
              s \in ToSet(all) <=> RecordOf(s).matches /\ RecordOf(s).updated >= time
        /\ \A i, j \in DOMAIN all :
              i < j /\ {all[i], all[j]} \subseteq Undisturbed =>
                RecordOf(all[i]).updated > RecordOf(all[j]).updated
    BY <1>0, <1>1, <1>5, <1>10, <2>1, PageReads DEF page
  <2> QED BY <1>8, <1>9, <2>2 DEF ReadTo
<1>11. WalkInv'
  <2>1. walk'.pc # "idle" /\ (walk'.pc = "done" <=> page.next = NoSession)
    BY <1>8
  <2>2. ASSUME page.next # NoSession
        PROVE  /\ walk'.cursor \in Mine /\ Present(walk.cursor)'
               /\ InStep(walk.cursor)' /\ ~walk'.strayed => ReadTo(RecordOf(walk.cursor).updated)'
    <3>1. page.next \in Mine /\ Present(page.next)
      BY <1>4, <2>2
    <3>2. Present(walk.cursor)' /\ walk'.cursor \in Mine
      BY <1>1, <1>8, <3>1 DEF Present, Cached, Stored
    <3>3. ASSUME InStep(walk.cursor)', ~walk'.strayed
          PROVE  ReadTo(RecordOf(walk.cursor).updated)'
      <4>1. InStep(page.next) /\ ~stray
        BY <1>1, <1>8, <3>3 DEF InStep, Cached, Stored
      <4>2. PICK time \in Nat : time = RecordOf(page.next).updated
        BY <1>0, <3>1, <4>1, ThereIs
      <4>3. ReadTo(time)'
        BY <1>10, <2>2, <4>1, <4>2
      <4>4. RecordOf(walk.cursor).updated' = time
        BY <1>1, <1>8, <4>2 DEF RecordOf, Cached
      <4> QED BY <4>3, <4>4 DEF ReadTo
    <3> QED BY <3>2, <3>3
  <2>3. ASSUME page.next = NoSession, ~walk'.strayed
        PROVE  walk'.cursor = NoSession /\ ReadTo(0)'
    BY <1>8, <1>10, <2>3
  <2> QED BY <2>1, <2>2, <2>3, <1>8 DEF WalkInv
<1> QED BY <1>2, <1>8, <1>11 DEF DirectoryInv

-----------------------------------------------------------------------------
(* A change of the sessions *)

\* What is read of a session.
AsBefore(s) ==
  /\ Present(s)' = Present(s) /\ InStep(s)' = InStep(s)
  /\ RecordOf(s)'.matches = RecordOf(s).matches
  /\ RecordOf(s)'.updated = RecordOf(s).updated

\* The reading goes on past sessions that change, as they are marked.
LEMMA WalkKept ==
  ASSUME WalkTypeOK, WalkInv, NEW ids \in SUBSET Sessions, walk' = Disturbed(ids),
         \A s \in Sessions \ ids : AsBefore(s)
  PROVE  WalkTypeOK' /\ WalkInv'
<1>1. walk \in [pc : {"idle", "reading", "done"}, after : Nat, cursor : Mine \cup {NoSession},
            seen : Seq(Mine), touched : SUBSET Sessions, strayed : BOOLEAN]
  BY DEF WalkTypeOK
<1>2. /\ WalkTypeOK' /\ walk'.pc = walk.pc /\ walk'.cursor = walk.cursor /\ walk'.seen = walk.seen
      /\ walk'.strayed = (walk.strayed \/ walk.cursor \in ids)
      /\ walk'.touched = (IF walk.pc = "idle" THEN walk.touched ELSE walk.touched \cup ids)
  BY <1>1 DEF WalkTypeOK, Disturbed
<1>3. Mine \subseteq Sessions
  BY DEF Sessions
<1>4. CASE walk.pc = "idle"
  BY <1>2, <1>4 DEF WalkInv
<1>5. ASSUME walk.pc # "idle", NEW time, ReadTo(time) PROVE ReadTo(time)'
  <2>1. \A s \in Undisturbed' : s \in Undisturbed /\ AsBefore(s)
    BY <1>2, <1>3, <1>5 DEF Undisturbed, AsBefore
  <2>2. \A s \in Undisturbed' :
          s \in ToSet(walk'.seen) <=> RecordOf(s)'.matches /\ RecordOf(s)'.updated >= time
    BY <1>2, <1>5, <2>1 DEF AsBefore, ReadTo
  <2>3. ASSUME NEW i \in DOMAIN walk.seen, NEW j \in DOMAIN walk.seen, i < j,
               walk.seen[i] \in Undisturbed', walk.seen[j] \in Undisturbed'
        PROVE  RecordOf(walk.seen[i])'.updated > RecordOf(walk.seen[j])'.updated
    <3>1. RecordOf(walk.seen[i]).updated > RecordOf(walk.seen[j]).updated
      BY <1>5, <2>1, <2>3 DEF ReadTo
    <3>2. PICK s, t : s = walk.seen[i] /\ t = walk.seen[j]
      OBVIOUS
    <3>3. /\ RecordOf(s)'.updated = RecordOf(s).updated
          /\ RecordOf(t)'.updated = RecordOf(t).updated
      BY <2>1, <2>3, <3>2 DEF AsBefore
    <3>4. walk'.seen = walk.seen
      BY <1>2
    <3> QED BY <3>1, <3>2, <3>3, <3>4 DEF RecordOf
  <2> QED BY <1>2, <2>2, <2>3 DEF ReadTo
<1>6. CASE walk.pc = "done"
  BY <1>2, <1>5, <1>6 DEF WalkInv
<1>7. CASE walk.pc = "reading"
  <2> SUFFICES ASSUME ~walk'.strayed
               PROVE  /\ walk.cursor \in Mine /\ Present(walk.cursor)'
                      /\ InStep(walk.cursor)' => ReadTo(RecordOf(walk.cursor).updated)'
    BY <1>2, <1>7 DEF WalkInv
  <2>1. /\ walk.cursor \in Mine /\ Present(walk.cursor)
        /\ InStep(walk.cursor) => ReadTo(RecordOf(walk.cursor).updated)
        /\ walk.cursor \notin ids /\ walk'.cursor = walk.cursor
    BY <1>2, <1>7 DEF WalkInv
  <2>2. PICK s, time : s = walk.cursor /\ time = RecordOf(s).updated
    OBVIOUS
  <2>3. AsBefore(s)
    BY <1>3, <2>1, <2>2
  <2>4. RecordOf(walk.cursor).updated' = time
    BY <2>1, <2>2, <2>3 DEF AsBefore, RecordOf, Cached
  <2>5. Present(walk.cursor)' /\ (InStep(walk.cursor)' => ReadTo(time))
    BY <2>1, <2>2, <2>3 DEF AsBefore, Present, InStep, Cached, Stored
  <2> QED BY <1>5, <1>7, <2>1, <2>4, <2>5 DEF ReadTo
<1> QED BY <1>1, <1>4, <1>6, <1>7

\* The clock: only one session is changed at a time, and at a new time.
LEMMA ClockedKeeps ==
  ASSUME Clocked, NEW s0, now' \in {now, now + 1},
         \A s \in Sessions :
           Marks(s)' \subseteq Marks(s) \cup {t \in {now + 1} : s = s0 /\ now' = t},
         \A s \in Sessions : Cached(s)' /\ Stored(s)' => rows'[s].updated <= cache'[s].updated
  PROVE  Clocked'
<1>1. now \in Nat /\ now' \in Nat /\ now <= now'
  BY DEF Clocked
<1>2. \A s \in Sessions : Marks(s) \subseteq 1 .. now
  BY DEF Clocked
<1>3. \A s \in Sessions : Marks(s)' \subseteq 1 .. now'
  <2> TAKE s \in Sessions
  <2>1. \A t \in Marks(s) : t \in 1 .. now'
    BY <1>1, <1>2
  <2>2. \A t \in {u \in {now + 1} : s = s0 /\ now' = u} : t \in 1 .. now'
    BY <1>1
  <2> QED BY <2>1, <2>2
<1>4. ASSUME NEW s \in Sessions, NEW t \in Sessions, s # t, NEW x, x \in Marks(s)', x \in Marks(t)'
      PROVE  FALSE
  <2>1. Marks(s) \cap Marks(t) = {}
    BY <1>4 DEF Clocked
  <2>2. x \in Marks(s) \/ (x = now + 1 /\ s = s0)
    BY <1>4
  <2>3. x \in Marks(t) \/ (x = now + 1 /\ t = s0)
    BY <1>4
  <2>4. ~(now + 1 \in 1 .. now)
    BY <1>1
  <2> QED BY <1>2, <1>4, <2>1, <2>2, <2>3, <2>4
<1>5. \A s, t \in Sessions : s # t => Marks(s)' \cap Marks(t)' = {}
  BY <1>4
<1>6. Clocked' = /\ now' \in Nat
                 /\ \A s \in Sessions : Marks(s)' \subseteq 1 .. now'
                 /\ \A s, t \in Sessions : s # t => Marks(s)' \cap Marks(t)' = {}
                 /\ \A s \in Sessions : Cached(s)' /\ Stored(s)' =>
                                          rows'[s].updated <= cache'[s].updated
  BY DEF Clocked
<1> QED BY <1>1, <1>3, <1>5, <1>6

\* A call on sessions that a batch is deleting is noted.
LEMMA Touched ==
  ASSUME BatchTypeOK, NEW ids \in SUBSET Sessions, Touch(ids)
  PROVE  /\ BatchTypeOK' /\ walk' = Disturbed(ids)
         /\ batch'.pc = batch.pc /\ batch'.before = batch.before /\ batch'.ids = batch.ids
         /\ batch'.touched = IF batch.pc \in {"collected", "deleted"}
                             THEN batch.touched \cup ids ELSE batch.touched
  BY DEF BatchTypeOK, Touch

\* A call on one session, at a time of its own or at none.
OneSession(s) ==
  /\ cache' \in [Sessions -> Record] /\ rows' \in [Sessions -> Record]
  /\ lost' \subseteq Sessions /\ now' \in {now, now + 1}
  /\ \A t \in Sessions \ {s} :
       cache'[t] = cache[t] /\ rows'[t] = rows[t] /\ (t \in lost' <=> t \in lost)
  /\ Marks(s)' \subseteq Marks(s) \cup {t \in {now + 1} : now' = t}
  /\ Cached(s)' /\ Stored(s)' =>
       /\ rows'[s].updated <= cache'[s].updated
       /\ ~cache'[s].rebuilt => cache'[s].created = rows'[s].created
  /\ Cached(s)' /\ ~Stored(s)' => s \in lost' \/ cache'[s].rebuilt
  /\ Touch({s})

LEMMA OneSessionKeeps ==
  ASSUME DirectoryInv, NEW s \in Sessions, OneSession(s)
  PROVE  DirectoryInv'
<1>0. DirectoryTypeOK /\ WalkTypeOK /\ BatchTypeOK /\ Clocked /\ WalkInv /\ GhostsAreKnown
  BY DEF DirectoryInv
<1>1. \A t \in Sessions \ {s} : cache'[t] = cache[t] /\ rows'[t] = rows[t]
  BY DEF OneSession
<1>2. DirectoryTypeOK'
  BY DEF OneSession, DirectoryTypeOK
<1>3. /\ BatchTypeOK' /\ walk' = Disturbed({s})
      /\ batch'.pc = batch.pc /\ batch'.before = batch.before /\ batch'.ids = batch.ids
      /\ batch'.touched = IF batch.pc \in {"collected", "deleted"}
                          THEN batch.touched \cup {s} ELSE batch.touched
  BY <1>0, Touched DEF OneSession
<1>4. WalkTypeOK' /\ WalkInv'
  <2>1. \A t \in Sessions \ {s} : AsBefore(t)
    BY <1>1 DEF AsBefore, Present, InStep, RecordOf, Cached, Stored
  <2> QED BY <1>0, <1>3, <2>1, WalkKept
<1>5. Clocked'
  <2>1. \A t \in Sessions :
          Marks(t)' \subseteq Marks(t) \cup {x \in {now + 1} : t = s /\ now' = x}
    <3> TAKE t \in Sessions
    <3>1. CASE t = s
      BY <3>1 DEF OneSession
    <3>2. CASE t # s
      BY <1>1, <3>2 DEF Marks
    <3> QED BY <3>1, <3>2
  <2>2. \A t \in Sessions : Cached(t)' /\ Stored(t)' => rows'[t].updated <= cache'[t].updated
    <3> TAKE t \in Sessions
    <3>1. CASE t = s
      BY <3>1 DEF OneSession
    <3>2. CASE t # s
      BY <1>0, <1>1, <3>2 DEF Clocked, Cached, Stored
    <3> QED BY <3>1, <3>2
  <2>3. now' \in {now, now + 1}
    BY DEF OneSession
  <2> QED BY <1>0, <2>1, <2>2, <2>3, ClockedKeeps
<1>6. GhostsAreKnown'
  <2>1. \A t \in Sessions : Cached(t)' /\ Stored(t)' /\ ~cache'[t].rebuilt =>
          cache'[t].created = rows'[t].created
    <3> TAKE t \in Sessions
    <3>1. CASE t = s
      BY <3>1 DEF OneSession
    <3>2. CASE t # s
      BY <1>0, <1>1, <3>2 DEF GhostsAreKnown, Cached, Stored
    <3> QED BY <3>1, <3>2
  <2>2. \A t \in Sessions : Cached(t)' /\ ~Stored(t)' =>
          \/ t \in lost' \cup batch'.touched \/ cache'[t].rebuilt
          \/ batch'.pc = "deleted" /\ t \in batch'.ids
    <3> TAKE t \in Sessions
    <3>1. CASE t = s
      BY <3>1 DEF OneSession
    <3>2. CASE t # s
      <4>1. /\ Cached(t) /\ ~Stored(t) =>
                 \/ t \in lost \cup batch.touched \/ cache[t].rebuilt
                 \/ batch.pc = "deleted" /\ t \in batch.ids
        BY <1>0 DEF GhostsAreKnown
      <4>2. t \in lost' <=> t \in lost
        BY <3>2 DEF OneSession
      <4> QED BY <1>1, <1>3, <3>2, <4>1, <4>2 DEF Cached, Stored
    <3> QED BY <3>1, <3>2
  <2>3. batch'.pc = "idle" => batch'.touched = {}
    BY <1>0, <1>3 DEF GhostsAreKnown
  <2>4. batch'.pc = "collected" =>
          \A t \in Mine \ batch'.touched :
            Cached(t)' /\ cache'[t].created < batch'.before => t \in batch'.ids
    <3> SUFFICES ASSUME batch'.pc = "collected", NEW t \in Mine \ batch'.touched,
                        Cached(t)', cache'[t].created < batch'.before
                 PROVE  t \in batch'.ids
      OBVIOUS
    <3>1. t \in Sessions \ {s} /\ t \in Mine \ batch.touched
      BY <1>3 DEF Sessions
    <3> QED BY <1>0, <1>1, <1>3, <3>1 DEF GhostsAreKnown, Cached
  <2> QED BY <2>1, <2>2, <2>3, <2>4 DEF GhostsAreKnown
<1> QED BY <1>2, <1>3, <1>4, <1>5, <1>6 DEF DirectoryInv

\* What is marked by what is there now.
LEMMA MarksOf ==
  ASSUME NEW s, NEW M, cache'[s] # Absent => cache'[s].updated \in M,
         rows'[s] # Absent => rows'[s].updated \in M
  PROVE  Marks(s)' \subseteq M
BY DEF Marks

LEMMA HasMarks ==
  ASSUME NEW s
  PROVE  /\ Cached(s) => cache[s].updated \in Marks(s)
         /\ Stored(s) => rows[s].updated \in Marks(s)
BY DEF Marks, Cached, Stored

\* What the service makes of a record.
LEMMA MadeOf ==
  ASSUME NEW r \in Record, NEW a \in Nat
  PROVE  /\ LET q == [r EXCEPT !.created = a, !.updated = a, !.rebuilt = TRUE]
            IN q \in Record /\ q.updated = a /\ q.rebuilt = TRUE
         /\ LET q == [r EXCEPT !.created = a, !.rebuilt = FALSE]
            IN q \in Record /\ q.updated = r.updated /\ q.created = a
<1>1. r \in [created : Nat, updated : Nat, matches : BOOLEAN, rebuilt : BOOLEAN]
  BY DEF Record
<1>2. LET q == [r EXCEPT !.created = a, !.updated = a, !.rebuilt = TRUE]
      IN q \in Record /\ q.updated = a /\ q.rebuilt = TRUE
  BY <1>1 DEF Record
<1>3. LET q == [r EXCEPT !.created = a, !.rebuilt = FALSE]
      IN q \in Record /\ q.updated = r.updated /\ q.created = a
  BY <1>1 DEF Record
<1> QED BY <1>2, <1>3

LEMMA StartIsOne ==
  ASSUME DirectoryInv, NEW s \in Sessions, StartSession(s)
  PROVE  OneSession(s)
<1>0. DirectoryTypeOK /\ Clocked /\ now \in Nat
  BY DEF DirectoryInv, Clocked
<1>1. PICK saved \in BOOLEAN :
       /\ cache' = [cache EXCEPT ![s] = Stamp(now')]
       /\ rows' = IF saved THEN [rows EXCEPT ![s] = Stamp(now')] ELSE rows
       /\ lost' = IF saved THEN lost ELSE lost \cup {s}
  BY DEF StartSession
<1>2. now' = now + 1 /\ ~Cached(s) /\ ~Stored(s) /\ Touch({s})
  BY DEF StartSession, Tick
<1>3. Stamp(now') \in Record /\ Stamp(now').updated = now + 1 /\ Stamp(now') # Absent
      /\ Stamp(now').created = now + 1
  BY <1>0, <1>2 DEF Stamp, Record, Absent
<1>4. /\ cache'[s] = Stamp(now') /\ rows'[s] = IF saved THEN Stamp(now') ELSE rows[s]
      /\ cache' \in [Sessions -> Record] /\ rows' \in [Sessions -> Record]
      /\ \A t \in Sessions \ {s} : cache'[t] = cache[t] /\ rows'[t] = rows[t]
  BY <1>0, <1>1, <1>3 DEF DirectoryTypeOK
<1>5. Marks(s)' \subseteq Marks(s) \cup {t \in {now + 1} : now' = t}
  BY <1>2, <1>3, <1>4, MarksOf DEF Stored
<1>6. lost' \subseteq Sessions /\ \A t \in Sessions \ {s} : t \in lost' <=> t \in lost
  BY <1>0, <1>1 DEF DirectoryTypeOK
<1>7. Cached(s)' /\ Stored(s)' =>
       /\ rows'[s].updated <= cache'[s].updated
       /\ ~cache'[s].rebuilt => cache'[s].created = rows'[s].created
  BY <1>0, <1>2, <1>3, <1>4 DEF Stored
<1>8. Cached(s)' /\ ~Stored(s)' => s \in lost' \/ cache'[s].rebuilt
  BY <1>1, <1>2, <1>3, <1>4 DEF Stored
<1> QED BY <1>2, <1>4, <1>5, <1>6, <1>7, <1>8 DEF OneSession

LEMMA GetIsOne ==
  ASSUME DirectoryInv, NEW s \in Sessions, GetSession(s)
  PROVE  OneSession(s)
<1>0. DirectoryTypeOK /\ Clocked /\ now \in Nat
  BY DEF DirectoryInv, Clocked
<1>1. /\ now' = now + 1 /\ ~Cached(s) /\ Stored(s) /\ Touch({s})
      /\ cache' = [cache EXCEPT ![s] = Rehydrated(rows[s], now')]
      /\ rows' = rows /\ lost' = lost
  BY DEF GetSession, Tick
<1>2. rows[s] \in Record
  BY <1>0 DEF DirectoryTypeOK
<1>3. /\ Rehydrated(rows[s], now') \in Record /\ Rehydrated(rows[s], now').updated = now + 1
      /\ Rehydrated(rows[s], now').rebuilt = TRUE
  <2>1. now' \in Nat /\ now' = now + 1
    BY <1>0, <1>1
  <2> QED BY <1>2, <2>1, MadeOf DEF Rehydrated
<1>4. /\ cache'[s] = Rehydrated(rows[s], now') /\ cache' \in [Sessions -> Record]
      /\ \A t \in Sessions \ {s} : cache'[t] = cache[t] /\ rows'[t] = rows[t]
  BY <1>0, <1>1, <1>3 DEF DirectoryTypeOK
<1>5. rows[s].updated \in Marks(s) /\ rows[s].updated \in 1 .. now
  BY <1>0, <1>1, HasMarks DEF Clocked
<1>6. Marks(s)' \subseteq Marks(s) \cup {t \in {now + 1} : now' = t}
  <2>1. cache'[s].updated \in Marks(s) \cup {t \in {now + 1} : now' = t}
    BY <1>1, <1>3, <1>4
  <2>2. rows'[s].updated \in Marks(s) \cup {t \in {now + 1} : now' = t}
    BY <1>1, <1>5
  <2> QED BY <2>1, <2>2, MarksOf
<1>7. rows'[s].updated <= cache'[s].updated
  BY <1>0, <1>1, <1>3, <1>4, <1>5
<1> QED BY <1>0, <1>1, <1>3, <1>4, <1>6, <1>7 DEF OneSession, DirectoryTypeOK

LEMMA SendIsOne ==
  ASSUME DirectoryInv, NEW s \in Sessions, SendMessage(s)
  PROVE  OneSession(s)
<1>0. DirectoryTypeOK /\ Clocked /\ now \in Nat /\ GhostsAreKnown
  BY DEF DirectoryInv, Clocked
<1> DEFINE record(m) == [Loaded(s, now') EXCEPT !.updated = now', !.matches = m]
<1>1. PICK matches \in BOOLEAN, saved \in BOOLEAN :
       /\ cache' = [cache EXCEPT ![s] = record(matches)]
       /\ rows' = IF saved THEN [rows EXCEPT ![s] = Upserted(s, record(matches))] ELSE rows
       /\ lost' = IF saved THEN lost \ {s} ELSE lost \cup {s}
  BY DEF SendMessage
<1>2. now' = now + 1 /\ Touch({s}) /\ (Cached(s) \/ Stored(s))
  BY DEF SendMessage, Tick
<1>3. cache[s] \in Record /\ rows[s] \in Record
  BY <1>0 DEF DirectoryTypeOK
<1> DEFINE r == record(matches)
           u == Upserted(s, r)
<1>4. /\ r \in Record /\ r.updated = now + 1
      /\ Cached(s) => r.created = cache[s].created /\ r.rebuilt = cache[s].rebuilt
      /\ ~Cached(s) => r.rebuilt = TRUE
  <2>1. now' \in Nat /\ now' = now + 1 /\ matches \in BOOLEAN
    BY <1>0, <1>1, <1>2
  <2> DEFINE l == Loaded(s, now')
  <2>2. /\ l \in Record
        /\ Cached(s) => l = cache[s]
        /\ ~Cached(s) => l.rebuilt = TRUE
    <3>1. Rehydrated(rows[s], now') \in Record /\ Rehydrated(rows[s], now').rebuilt = TRUE
      BY <1>3, <2>1, MadeOf DEF Rehydrated
    <3> QED BY <1>3, <3>1 DEF Loaded
  <2> HIDE DEF l
  <2>3. PICK k, a : k = l /\ a = now'
    OBVIOUS
  <2>4. k \in Record /\ a \in Nat
    BY <2>1, <2>2, <2>3
  <2>5. LET q == [k EXCEPT !.updated = a, !.matches = matches]
        IN q \in Record /\ q.updated = a /\ q.created = k.created /\ q.rebuilt = k.rebuilt
    <3>1. k \in [created : Nat, updated : Nat, matches : BOOLEAN, rebuilt : BOOLEAN]
      BY <2>4 DEF Record
    <3>2. matches \in BOOLEAN
      BY <2>1
    <3> QED BY <2>4, <3>1, <3>2 DEF Record
  <2>6. r \in Record /\ r.updated = now' /\ r.created = l.created /\ r.rebuilt = l.rebuilt
    BY <2>3, <2>5 DEF l
  <2> HIDE DEF r
  <2> QED BY <2>1, <2>2, <2>6
<1> HIDE DEF record
<1> HIDE DEF r
<1>5. /\ u \in Record /\ u.updated = now + 1 /\ u # Absent
      /\ u.created = IF Stored(s) THEN rows[s].created ELSE r.created
  <2> DEFINE b == IF Stored(s) THEN rows[s].created ELSE r.created
  <2>1. b \in Nat
    BY <1>3, <1>4 DEF Record
  <2>2. u = [r EXCEPT !.created = b, !.rebuilt = FALSE]
    BY <1>4 DEF Upserted, Record
  <2> HIDE DEF b, u
  <2>3. now + 1 # 0
    BY <1>0
  <2>4. u \in Record /\ u.updated = now + 1 /\ u.created = b
    BY <1>4, <2>1, <2>2, MadeOf
  <2>5. u # Absent
    BY <2>3, <2>4 DEF Absent
  <2> QED BY <2>4, <2>5 DEF b
<1> HIDE DEF u
<1>6. /\ cache' = [cache EXCEPT ![s] = r]
      /\ rows' = IF saved THEN [rows EXCEPT ![s] = u] ELSE rows
  BY <1>1 DEF r, u
<1>7. /\ cache'[s] = r /\ rows'[s] = IF saved THEN u ELSE rows[s]
      /\ cache' \in [Sessions -> Record] /\ rows' \in [Sessions -> Record]
      /\ \A t \in Sessions \ {s} : cache'[t] = cache[t] /\ rows'[t] = rows[t]
  BY <1>0, <1>4, <1>5, <1>6 DEF DirectoryTypeOK
<1>8. Stored(s) => rows[s].updated \in Marks(s) /\ rows[s].updated \in 1 .. now
  BY <1>0, HasMarks DEF Clocked
<1>9. Marks(s)' \subseteq Marks(s) \cup {t \in {now + 1} : now' = t}
  <2>1. now + 1 \in Marks(s) \cup {t \in {now + 1} : now' = t}
    BY <1>2
  <2>2. cache'[s].updated = now + 1
    BY <1>4, <1>7
  <2>3. rows'[s] # Absent => rows'[s].updated = now + 1 \/ rows'[s].updated \in Marks(s)
    BY <1>5, <1>7, <1>8 DEF Stored
  <2> QED BY <2>1, <2>2, <2>3, MarksOf
<1>10. lost' \subseteq Sessions /\ \A t \in Sessions \ {s} : t \in lost' <=> t \in lost
  BY <1>0, <1>1 DEF DirectoryTypeOK
<1>11. ASSUME Cached(s)', Stored(s)'
       PROVE  /\ rows'[s].updated <= cache'[s].updated
              /\ ~cache'[s].rebuilt => cache'[s].created = rows'[s].created
  <2>1. ~saved => Stored(s)
    BY <1>7, <1>11 DEF Stored
  <2>2. rows'[s].updated <= cache'[s].updated
    BY <1>0, <1>4, <1>5, <1>7, <1>8, <2>1
  <2>3. Cached(s) /\ Stored(s) /\ ~cache[s].rebuilt => cache[s].created = rows[s].created
    BY <1>0 DEF GhostsAreKnown
  <2> QED BY <1>4, <1>5, <1>7, <2>1, <2>2, <2>3
<1>12. Cached(s)' /\ ~Stored(s)' => s \in lost' \/ cache'[s].rebuilt
  BY <1>1, <1>5, <1>7 DEF Stored
<1> QED BY <1>2, <1>7, <1>9, <1>10, <1>11, <1>12 DEF OneSession

LEMMA DeleteIsOne ==
  ASSUME DirectoryInv, NEW s \in Sessions, DeleteSession(s)
  PROVE  OneSession(s)
<1>0. DirectoryTypeOK /\ Clocked
  BY DEF DirectoryInv
<1>1. /\ now' = now /\ Touch({s}) /\ lost' = lost \ {s}
      /\ cache' = [cache EXCEPT ![s] = Absent] /\ rows' = [rows EXCEPT ![s] = Absent]
  BY DEF DeleteSession
<1>2. Absent \in Record
  BY DEF Absent, Record
<1>3. /\ cache'[s] = Absent /\ rows'[s] = Absent
      /\ cache' \in [Sessions -> Record] /\ rows' \in [Sessions -> Record]
      /\ \A t \in Sessions \ {s} : cache'[t] = cache[t] /\ rows'[t] = rows[t]
  BY <1>0, <1>1, <1>2 DEF DirectoryTypeOK
<1>4. Marks(s)' \subseteq Marks(s) \cup {t \in {now + 1} : now' = t}
  BY <1>3, MarksOf
<1>5. lost' \subseteq Sessions /\ \A t \in Sessions \ {s} : t \in lost' <=> t \in lost
  BY <1>0, <1>1 DEF DirectoryTypeOK
<1> QED BY <1>1, <1>3, <1>4, <1>5 DEF OneSession, Cached

-----------------------------------------------------------------------------
(* Several sessions at once *)

Fewer ==
  /\ cache' \in [Sessions -> Record] /\ rows' \in [Sessions -> Record] /\ now' = now
  /\ \A s \in Sessions : cache'[s] \in {cache[s], Absent} /\ rows'[s] \in {rows[s], Absent}

LEMMA FewerKeeps ==
  ASSUME DirectoryTypeOK, Clocked, Fewer
  PROVE  Clocked'
<1>1. \A s \in Sessions : Marks(s)' \subseteq Marks(s)
  <2> TAKE s \in Sessions
  <2>1. cache'[s] # Absent => cache'[s].updated \in Marks(s)
    BY HasMarks DEF Fewer, Cached
  <2>2. rows'[s] # Absent => rows'[s].updated \in Marks(s)
    BY HasMarks DEF Fewer, Stored
  <2> QED BY <2>1, <2>2, MarksOf
<1>2. \A s \in Sessions : Cached(s)' /\ Stored(s)' => rows'[s].updated <= cache'[s].updated
  <2> TAKE s \in Sessions
  <2>1. Cached(s)' => Cached(s) /\ cache'[s] = cache[s]
    BY DEF Fewer, Cached
  <2>2. Stored(s)' => Stored(s) /\ rows'[s] = rows[s]
    BY DEF Fewer, Stored
  <2> QED BY <2>1, <2>2 DEF Clocked
<1>3. \E s0 : \A s \in Sessions :
        Marks(s)' \subseteq Marks(s) \cup {t \in {now + 1} : s = s0 /\ now' = t}
  BY <1>1
<1>4. now' \in {now, now + 1}
  BY DEF Fewer
<1> QED BY <1>2, <1>3, <1>4, ClockedKeeps

\* What of GhostsAreKnown looks at a record and its row, and at a record alone.
LEMMA FewerGhosts ==
  ASSUME GhostsAreKnown, Fewer
  PROVE  /\ \A s \in Sessions : Cached(s)' => Cached(s) /\ cache'[s] = cache[s]
         /\ \A s \in Sessions : Stored(s)' => Stored(s) /\ rows'[s] = rows[s]
         /\ \A s \in Sessions : Cached(s)' /\ Stored(s)' /\ ~cache'[s].rebuilt =>
              cache'[s].created = rows'[s].created
<1>1. \A s \in Sessions : Cached(s)' => Cached(s) /\ cache'[s] = cache[s]
  BY DEF Fewer, Cached
<1>2. \A s \in Sessions : Stored(s)' => Stored(s) /\ rows'[s] = rows[s]
  BY DEF Fewer, Stored
<1> QED BY <1>1, <1>2 DEF GhostsAreKnown

LEMMA ForgetKeeps ==
  ASSUME DirectoryInv, NEW ids \in SUBSET Sessions, Forget(ids)
  PROVE  DirectoryInv'
<1>0. DirectoryTypeOK /\ WalkTypeOK /\ BatchTypeOK /\ Clocked /\ WalkInv /\ GhostsAreKnown
  BY DEF DirectoryInv
<1> DEFINE changed == {s \in ids : Cached(s) /\ cache[s] # rows[s]}
<1>1. /\ rows' = rows /\ now' = now /\ lost' = lost /\ Touch(changed) /\ changed \in SUBSET Sessions
      /\ cache' = [s \in Sessions |-> IF s \in ids THEN Absent ELSE cache[s]]
  BY DEF Forget
<1>2. Absent \in Record
  BY DEF Absent, Record
<1>3. Fewer
  <2>1. cache' \in [Sessions -> Record]
    BY <1>0, <1>1, <1>2 DEF DirectoryTypeOK
  <2> QED BY <1>0, <1>1, <2>1 DEF Fewer, DirectoryTypeOK
<1>4. DirectoryTypeOK' /\ Clocked'
  BY <1>0, <1>1, <1>3, FewerKeeps DEF Fewer, DirectoryTypeOK
<1>5. /\ BatchTypeOK' /\ walk' = Disturbed(changed)
      /\ batch'.pc = batch.pc /\ batch'.before = batch.before /\ batch'.ids = batch.ids
      /\ batch'.touched = IF batch.pc \in {"collected", "deleted"}
                          THEN batch.touched \cup changed ELSE batch.touched
  BY <1>0, <1>1, Touched
<1>6. WalkTypeOK' /\ WalkInv'
  <2>1. ASSUME NEW s \in Sessions \ changed PROVE AsBefore(s)
    <3>1. CASE Cached(s) /\ s \in ids
      <4>1. cache[s] = rows[s] /\ cache'[s] = Absent /\ rows'[s] = rows[s]
        BY <1>1, <2>1, <3>1
      <4> QED BY <3>1, <4>1 DEF AsBefore, Present, InStep, RecordOf, Cached, Stored
    <3>2. CASE ~(Cached(s) /\ s \in ids)
      <4>1. cache'[s] = cache[s] /\ rows'[s] = rows[s]
        BY <1>1, <3>2 DEF Cached
      <4> QED BY <4>1 DEF AsBefore, Present, InStep, RecordOf, Cached, Stored
    <3> QED BY <3>1, <3>2
  <2> HIDE DEF changed
  <2> QED BY <1>0, <1>1, <1>5, <2>1, WalkKept
<1>7. GhostsAreKnown'
  <2>1. /\ \A s \in Sessions : Cached(s)' => Cached(s) /\ cache'[s] = cache[s]
        /\ \A s \in Sessions : Stored(s)' <=> Stored(s)
        /\ \A s \in Sessions : Cached(s)' /\ Stored(s)' /\ ~cache'[s].rebuilt =>
              cache'[s].created = rows'[s].created
    BY <1>0, <1>1, <1>3, FewerGhosts DEF Stored
  <2>2. batch.touched \subseteq batch'.touched /\ (batch'.pc = "idle" => batch'.touched = {})
    BY <1>0, <1>5 DEF GhostsAreKnown
  <2>3. \A s \in Sessions : Cached(s)' /\ ~Stored(s)' =>
          \/ s \in lost' \cup batch'.touched \/ cache'[s].rebuilt
          \/ batch'.pc = "deleted" /\ s \in batch'.ids
    BY <1>0, <1>1, <1>5, <2>1, <2>2 DEF GhostsAreKnown
  <2>4. batch'.pc = "collected" =>
          \A s \in Mine \ batch'.touched :
            Cached(s)' /\ cache'[s].created < batch'.before => s \in batch'.ids
    BY <1>0, <1>5, <2>1, <2>2 DEF GhostsAreKnown, Sessions
  <2> QED BY <2>1, <2>2, <2>3, <2>4 DEF GhostsAreKnown
<1> QED BY <1>4, <1>5, <1>6, <1>7 DEF DirectoryInv

LEMMA NothingChanged ==
  ASSUME UNCHANGED <<cache, rows, now, lost, walk>>
  PROVE  /\ DirectoryTypeOK => DirectoryTypeOK'
         /\ WalkTypeOK => WalkTypeOK'
         /\ Clocked => Clocked'
         /\ WalkInv => WalkInv'
<1>1. DirectoryTypeOK => DirectoryTypeOK'
  BY DEF DirectoryTypeOK
<1>2. WalkTypeOK => WalkTypeOK'
  BY DEF WalkTypeOK
<1>3. Clocked => Clocked'
  BY DEF Clocked, Marks, Cached, Stored
<1>4. WalkInv => WalkInv'
  BY DEF WalkInv, Undisturbed, Present, InStep, RecordOf, ReadTo, Cached, Stored
<1> QED BY <1>1, <1>2, <1>3, <1>4

LEMMA BeginKeeps ==
  ASSUME DirectoryInv, NEW before \in Nat, BeginBatch(before)
  PROVE  DirectoryInv'
<1>0. DirectoryTypeOK /\ WalkTypeOK /\ BatchTypeOK /\ Clocked /\ WalkInv /\ GhostsAreKnown
  BY DEF DirectoryInv
<1> DEFINE old == {s \in Mine : Cached(s) /\ cache[s].created < before}
<1>1. /\ UNCHANGED <<cache, rows, now, lost, walk>> /\ batch.pc = "idle"
      /\ batch' = [pc |-> "collected", before |-> before, touched |-> {}, ids |-> old]
      /\ old \subseteq Mine
  BY DEF BeginBatch
<1>2. DirectoryTypeOK' /\ WalkTypeOK' /\ Clocked' /\ WalkInv'
  BY <1>0, <1>1, NothingChanged
<1>3. BatchTypeOK'
  <2> HIDE DEF old
  <2> QED BY <1>1 DEF BatchTypeOK
<1>4. GhostsAreKnown'
  <2>1. batch.touched = {}
    BY <1>0, <1>1 DEF GhostsAreKnown
  <2>2. batch'.pc = "collected" /\ batch'.touched = {} /\ batch'.ids = old /\ batch'.before = before
    BY <1>1
  <2>3. \A s \in Sessions : Cached(s)' /\ ~Stored(s)' => s \in lost' \/ cache'[s].rebuilt
    BY <1>0, <1>1, <2>1 DEF GhostsAreKnown, Cached, Stored
  <2>4. \A s \in Sessions : Cached(s)' /\ Stored(s)' /\ ~cache'[s].rebuilt =>
          cache'[s].created = rows'[s].created
    BY <1>0, <1>1 DEF GhostsAreKnown, Cached, Stored
  <2>5. \A s \in Mine \ batch'.touched :
          Cached(s)' /\ cache'[s].created < batch'.before => s \in batch'.ids
    BY <1>1, <2>2 DEF Cached
  <2> QED BY <2>2, <2>3, <2>4, <2>5 DEF GhostsAreKnown
<1> QED BY <1>2, <1>3, <1>4 DEF DirectoryInv

LEMMA DeleteRowsKeeps ==
  ASSUME DirectoryInv, DeleteRows
  PROVE  DirectoryInv'
<1>0. DirectoryTypeOK /\ WalkTypeOK /\ BatchTypeOK /\ Clocked /\ WalkInv /\ GhostsAreKnown
  BY DEF DirectoryInv
<1> DEFINE gone == {s \in Mine : Stored(s) /\ rows[s].created < batch.before}
<1>1. /\ cache' = cache /\ now' = now /\ lost' = lost /\ walk' = Disturbed(gone)
      /\ rows' = [s \in Sessions |-> IF s \in gone THEN Absent ELSE rows[s]]
      /\ batch.pc = "collected" /\ batch' = [batch EXCEPT !.pc = "deleted"]
      /\ gone \in SUBSET Sessions
  BY DEF DeleteRows, Sessions
<1>2. Absent \in Record
  BY DEF Absent, Record
<1>3. Fewer
  <2>1. rows' \in [Sessions -> Record]
    <3> HIDE DEF gone
    <3> QED BY <1>0, <1>1, <1>2 DEF DirectoryTypeOK
  <2> QED BY <1>0, <1>1, <2>1 DEF Fewer, DirectoryTypeOK
<1>4. DirectoryTypeOK' /\ Clocked'
  BY <1>0, <1>1, <1>3, FewerKeeps DEF Fewer, DirectoryTypeOK
<1>5. /\ BatchTypeOK' /\ batch'.pc = "deleted" /\ batch'.ids = batch.ids
      /\ batch'.touched = batch.touched
  BY <1>0, <1>1 DEF BatchTypeOK
<1>6. WalkTypeOK' /\ WalkInv'
  <2>1. ASSUME NEW s \in Sessions \ gone PROVE AsBefore(s)
    <3>1. cache'[s] = cache[s] /\ rows'[s] = rows[s]
      BY <1>1, <2>1
    <3> QED BY <3>1 DEF AsBefore, Present, InStep, RecordOf, Cached, Stored
  <2> HIDE DEF gone
  <2> QED BY <1>0, <1>1, <2>1, WalkKept
<1>7. GhostsAreKnown'
  <2>1. \A s \in Sessions : Cached(s)' /\ Stored(s)' /\ ~cache'[s].rebuilt =>
              cache'[s].created = rows'[s].created
    BY <1>0, <1>3, FewerGhosts
  <2>2. ASSUME NEW s \in Sessions, Cached(s)', ~Stored(s)'
        PROVE  \/ s \in lost' \cup batch'.touched \/ cache'[s].rebuilt
               \/ batch'.pc = "deleted" /\ s \in batch'.ids
    <3>1. Cached(s) /\ cache'[s] = cache[s]
      BY <1>1, <2>2 DEF Cached
    <3>2. CASE ~Stored(s)
      BY <1>0, <1>1, <1>5, <3>1, <3>2 DEF GhostsAreKnown
    <3>3. CASE Stored(s)
      <4>1. s \in gone
        BY <1>1, <2>2, <3>3 DEF Stored
      <4>2. cache[s].rebuilt \/ cache[s].created = rows[s].created
        BY <1>0, <3>1, <3>3 DEF GhostsAreKnown
      <4>3. s \notin batch.touched /\ cache[s].created < batch.before => s \in batch.ids
        BY <1>0, <1>1, <3>1, <4>1 DEF GhostsAreKnown
      <4> QED BY <1>5, <3>1, <4>1, <4>2, <4>3
    <3> QED BY <3>2, <3>3
  <2> QED BY <1>5, <2>1, <2>2 DEF GhostsAreKnown
<1> QED BY <1>4, <1>5, <1>6, <1>7 DEF DirectoryInv

LEMMA DropRecordsKeeps ==
  ASSUME DirectoryInv, DropRecords
  PROVE  DirectoryInv'
<1>0. DirectoryTypeOK /\ WalkTypeOK /\ BatchTypeOK /\ Clocked /\ WalkInv /\ GhostsAreKnown
  BY DEF DirectoryInv
<1>1. /\ rows' = rows /\ now' = now /\ lost' = lost /\ walk' = Disturbed(batch.ids)
      /\ cache' = [s \in Sessions |-> IF s \in batch.ids THEN Absent ELSE cache[s]]
      /\ batch.pc = "deleted" /\ batch' = [batch EXCEPT !.pc = "done"]
  BY DEF DropRecords
<1>2. Absent \in Record /\ batch.ids \in SUBSET Sessions
  BY <1>0 DEF Absent, Record, BatchTypeOK, Sessions
<1>3. Fewer
  <2>1. cache' \in [Sessions -> Record]
    BY <1>0, <1>1, <1>2 DEF DirectoryTypeOK
  <2> QED BY <1>0, <1>1, <2>1 DEF Fewer, DirectoryTypeOK
<1>4. DirectoryTypeOK' /\ Clocked'
  BY <1>0, <1>1, <1>3, FewerKeeps DEF Fewer, DirectoryTypeOK
<1>5. /\ BatchTypeOK' /\ batch'.pc = "done" /\ batch'.ids = batch.ids
      /\ batch'.touched = batch.touched
  BY <1>0, <1>1 DEF BatchTypeOK
<1>6. WalkTypeOK' /\ WalkInv'
  <2>1. ASSUME NEW s \in Sessions \ batch.ids PROVE AsBefore(s)
    <3>1. cache'[s] = cache[s] /\ rows'[s] = rows[s]
      BY <1>1, <2>1
    <3> QED BY <3>1 DEF AsBefore, Present, InStep, RecordOf, Cached, Stored
  <2>2. PICK ids \in SUBSET Sessions : ids = batch.ids
    BY <1>2
  <2>3. walk' = Disturbed(ids) /\ \A s \in Sessions \ ids : AsBefore(s)
    BY <1>1, <2>1, <2>2
  <2> QED BY <1>0, <2>3, WalkKept
<1>7. GhostsAreKnown'
  <2>1. /\ \A s \in Sessions : Cached(s)' => Cached(s) /\ cache'[s] = cache[s]
        /\ \A s \in Sessions : Cached(s)' /\ Stored(s)' /\ ~cache'[s].rebuilt =>
              cache'[s].created = rows'[s].created
    BY <1>0, <1>3, FewerGhosts
  <2>2. \A s \in Sessions : Cached(s)' => s \notin batch.ids
    BY <1>1 DEF Cached
  <2>3. \A s \in Sessions : Cached(s)' /\ ~Stored(s)' =>
          s \in lost' \cup batch'.touched \/ cache'[s].rebuilt
    BY <1>0, <1>1, <1>5, <2>1, <2>2 DEF GhostsAreKnown, Stored
  <2> QED BY <1>5, <2>1, <2>3 DEF GhostsAreKnown
<1> QED BY <1>4, <1>5, <1>6, <1>7 DEF DirectoryInv

LEMMA DirectoryStep ==
  ASSUME DirectoryInv, [DirectoryNext]_directoryVars
  PROVE  DirectoryInv'
<1>1. CASE UNCHANGED directoryVars
  <2>1. UNCHANGED <<cache, rows, now, lost, walk>> /\ batch' = batch
    BY <1>1 DEF directoryVars
  <2>2. BatchTypeOK => BatchTypeOK'
    BY <2>1 DEF BatchTypeOK
  <2>3. GhostsAreKnown => GhostsAreKnown'
    BY <2>1 DEF GhostsAreKnown, Cached, Stored
  <2> QED BY <2>1, <2>2, <2>3, NothingChanged DEF DirectoryInv
<1>2. ASSUME NEW s \in Sessions, StartSession(s) PROVE DirectoryInv'
  BY <1>2, StartIsOne, OneSessionKeeps
<1>3. ASSUME NEW s \in Sessions, GetSession(s) PROVE DirectoryInv'
  BY <1>3, GetIsOne, OneSessionKeeps
<1>4. ASSUME NEW s \in Sessions, SendMessage(s) PROVE DirectoryInv'
  BY <1>4, SendIsOne, OneSessionKeeps
<1>5. ASSUME NEW s \in Sessions, DeleteSession(s) PROVE DirectoryInv'
  BY <1>5, DeleteIsOne, OneSessionKeeps
<1>6. ASSUME NEW s \in Sessions, CleanUp(s) PROVE DirectoryInv'
  BY <1>6, ForgetKeeps DEF CleanUp
<1>7. CASE Restart
  BY <1>7, ForgetKeeps DEF Restart
<1>8. ASSUME NEW time \in Times, BeginBatch(time) PROVE DirectoryInv'
  BY <1>8, BeginKeeps, DirectoryAssumption
<1>9. ASSUME NEW time \in Times, ListSessions(time) PROVE DirectoryInv'
  BY <1>9, PageKeeps, DirectoryAssumption
<1> QED BY <1>1, <1>2, <1>3, <1>4, <1>5, <1>6, <1>7, <1>8, <1>9, DeleteRowsKeeps,
           DropRecordsKeeps DEF DirectoryNext

LEMMA DirectoryStart ==
  ASSUME DirectoryInit
  PROVE  DirectoryInv
<1> DEFINE n == Cardinality(Sessions)
           isOrder(f) == \A s, t \in Sessions : f[s] = f[t] => s = t
           order == CHOOSE f \in [Sessions -> 1 .. n] : isOrder(f)
<1>1. n \in Nat /\ ExistsBijection(1 .. n, Sessions)
  BY DirectoryAssumption, FS_CardinalityType
<1>2. order \in [Sessions -> 1 .. n] /\ isOrder(order)
  <2>1. PICK g \in [1 .. n -> Sessions] : \A s \in Sessions : \E i \in 1 .. n : g[i] = s
    BY <1>1 DEF ExistsBijection, Bijection, Surjection
  <2> DEFINE f == [s \in Sessions |-> CHOOSE i \in 1 .. n : g[i] = s]
  <2>2. f \in [Sessions -> 1 .. n] /\ \A s \in Sessions : g[f[s]] = s
    BY <2>1
  <2> HIDE DEF f, n
  <2>3. isOrder(f)
    BY <2>2
  <2> QED BY <2>2, <2>3
<1>3. rows = [s \in Sessions |-> Stamp(order[s])]
  BY DEF DirectoryInit
<1>4. PICK live \in SUBSET Mine :
        cache = [s \in Sessions |-> IF s \in live THEN rows[s] ELSE Absent]
  BY DEF DirectoryInit
<1>5. now = n /\ lost = {} /\ walk = NoWalk /\ batch = NoBatch
  BY DEF DirectoryInit
<1> HIDE DEF order, n
<1>6. \A s \in Sessions : /\ rows[s] \in Record /\ rows[s].updated = order[s] /\ rows[s] # Absent
                          /\ order[s] \in 1 .. n
  <2> TAKE s \in Sessions
  <2>1. order[s] \in 1 .. n /\ order[s] \in Nat /\ order[s] # 0
    BY <1>1, <1>2
  <2>2. rows[s] = Stamp(order[s])
    BY <1>3
  <2>3. /\ Stamp(order[s]) \in Record /\ Stamp(order[s]).updated = order[s]
        /\ Stamp(order[s]) # Absent
    BY <2>1 DEF Stamp, Record, Absent
  <2> QED BY <2>1, <2>2, <2>3
<1>7. \A s \in Sessions : cache[s] \in {rows[s], Absent}
  BY <1>4
<1>8. DirectoryTypeOK
  <2>1. Absent \in Record
    BY DEF Absent, Record
  <2>2. rows \in [Sessions -> Record]
    BY <1>3, <1>6
  <2>3. cache \in [Sessions -> Record]
    BY <1>4, <1>6, <2>1
  <2> QED BY <1>5, <2>2, <2>3 DEF DirectoryTypeOK
<1>9. WalkTypeOK /\ WalkInv
  <2>1. <<>> \in Seq(Mine)
    OBVIOUS
  <2> QED BY <1>5, <2>1 DEF WalkTypeOK, WalkInv, NoWalk
<1>10. BatchTypeOK
  BY <1>5 DEF BatchTypeOK, NoBatch
<1>11. \A s \in Sessions : Marks(s) = {order[s]}
  BY <1>6, <1>7 DEF Marks
<1>12. Clocked
  <2>1. \A s, t \in Sessions : s # t => Marks(s) \cap Marks(t) = {}
    BY <1>2, <1>11
  <2>2. \A s \in Sessions : Cached(s) /\ Stored(s) => rows[s].updated <= cache[s].updated
    BY <1>1, <1>6, <1>7 DEF Cached
  <2>3. \A s \in Sessions : Marks(s) \subseteq 1 .. now
    BY <1>5, <1>6, <1>11
  <2> QED BY <1>1, <1>5, <2>1, <2>2, <2>3 DEF Clocked
<1>13. GhostsAreKnown
  BY <1>5, <1>6, <1>7 DEF GhostsAreKnown, NoBatch, Cached, Stored
<1> QED BY <1>8, <1>9, <1>10, <1>12, <1>13 DEF DirectoryInv

\* What is read to the end is read right.
LEMMA ReadAll ==
  ASSUME DirectoryInv
  PROVE  HistoryIsFaithful
<1>0. DirectoryTypeOK /\ WalkTypeOK /\ BatchTypeOK /\ Clocked /\ WalkInv
  BY DEF DirectoryInv
<1> SUFFICES ASSUME walk.pc = "done", ~walk.strayed
             PROVE  /\ \A s \in Undisturbed :
                         TimesSeen(s) = IF RecordOf(s).matches THEN 1 ELSE 0
                    /\ \A i, j \in DOMAIN walk.seen :
                         i < j /\ {walk.seen[i], walk.seen[j]} \subseteq Undisturbed =>
                           RecordOf(walk.seen[i]).updated > RecordOf(walk.seen[j]).updated
                    /\ \A s \in Theirs : TimesSeen(s) = 0
  BY DEF HistoryIsFaithful, HasRead
<1>1. ReadTo(0) /\ walk.seen \in Seq(Mine)
  BY <1>0 DEF WalkInv, WalkTypeOK
<1>2. \A s \in Undisturbed : RecordOf(s).updated \in Nat
  BY <1>0, ThereIs DEF Undisturbed
<1> DEFINE at(s) == {i \in DOMAIN walk.seen : walk.seen[i] = s}
<1>3. \A s \in Undisturbed : at(s) = {} <=> ~RecordOf(s).matches
  <2> TAKE s \in Undisturbed
  <2>1. s \in ToSet(walk.seen) <=> RecordOf(s).matches
    BY <1>1, <1>2 DEF ReadTo
  <2> QED BY <2>1 DEF ToSet
<1>4. ASSUME NEW s \in Undisturbed, NEW i \in at(s), NEW j \in at(s) PROVE i = j
  <2>1. i \in DOMAIN walk.seen /\ j \in DOMAIN walk.seen /\ i \in Nat /\ j \in Nat
    BY <1>1
  <2>2. ~(i < j) /\ ~(j < i)
    <3>1. walk.seen[i] = s /\ walk.seen[j] = s
      OBVIOUS
    <3>2. i < j => RecordOf(walk.seen[i]).updated > RecordOf(walk.seen[j]).updated
      BY <1>1, <2>1, <3>1 DEF ReadTo
    <3>3. j < i => RecordOf(walk.seen[j]).updated > RecordOf(walk.seen[i]).updated
      BY <1>1, <2>1, <3>1 DEF ReadTo
    <3> QED BY <1>2, <3>1, <3>2, <3>3
  <2> QED BY <2>1, <2>2
<1>5. \A s \in Theirs : at(s) = {}
  <2>1. \A i \in DOMAIN walk.seen : walk.seen[i] \in Mine
    BY <1>1
  <2> QED BY <2>1, DirectoryAssumption
<1>6. \A s : TimesSeen(s) = Cardinality(at(s))
  BY DEF TimesSeen
<1>7. \A s \in Undisturbed : TimesSeen(s) = IF RecordOf(s).matches THEN 1 ELSE 0
  <2> TAKE s \in Undisturbed
  <2>1. CASE RecordOf(s).matches
    <3>1. PICK i : i \in at(s)
      BY <1>3, <2>1
    <3>2. at(s) = {i}
      BY <1>4, <3>1
    <3> HIDE DEF at
    <3> QED BY <1>6, <2>1, <3>2, FS_Singleton
  <2>2. CASE ~RecordOf(s).matches
    BY <1>3, <1>6, <2>2, FS_EmptySet
  <2> QED BY <2>1, <2>2
<1>8. \A s \in Theirs : TimesSeen(s) = 0
  BY <1>5, <1>6, FS_EmptySet
<1> QED BY <1>1, <1>7, <1>8 DEF ReadTo

\* A user who reads the whole history finds each session that nothing happened to
\* once, in order, and none of another user; and no session is in memory alone
\* but for a reason that is known.
THEOREM SessionsAreListedHolds == DirectorySpec => []SessionsAreListed
<1>1. DirectoryInit => DirectoryInv
  BY DirectoryStart
<1>2. DirectoryInv /\ [DirectoryNext]_directoryVars => DirectoryInv'
  BY DirectoryStep
<1>3. DirectoryInv => SessionsAreListed
  <2>1. DirectoryInv => NoGhosts
    BY DEF DirectoryInv, GhostsAreKnown, NoGhosts
  <2> QED BY <2>1, ReadAll DEF SessionsAreListed
<1> QED BY <1>1, <1>2, <1>3, PTL DEF DirectorySpec
=============================================================================
