---------------------------- MODULE SandboxLease ----------------------------
(***************************************************************************)
(* SandboxManager over an OpenSandboxAdapter: calls that create a sandbox, *)
(* work in it and destroy it, and the CLI's destroy_all.                   *)
(*                                                                         *)
(* The sandbox server is external: it creates, kills and expires           *)
(* containers, and a request to it that fails may have had its effect.     *)
(* With LocalSandboxAdapter no request fails; its behaviours are some of   *)
(* these.                                                                  *)
(***************************************************************************)
EXTENDS Naturals, FiniteSets

CONSTANTS
  Calls,          \* uses of a sandbox, one each
  Leasing,        \* those through acquire and release; others create, destroy
  CreateRetries,  \* create_retry_count
  Variants,       \* create variants of the profile: with limits and without
  MaxStrays       \* bound: containers that a failing request leaves behind

NoBox == 0
Tries == CreateRetries * Variants
Ended == {"done", "failed"}

ASSUME LeaseAssumption ==
  /\ Leasing \subseteq Calls
  /\ CreateRetries \in Nat \ {0} /\ Variants \in {1, 2}
  /\ MaxStrays \in Nat

VARIABLES
  live,       \* containers on the server
  made,       \* containers made so far: 1 .. made
  strays,     \* history: those a failing request has left behind
  sandboxes,  \* OpenSandboxAdapter._sandboxes
  active,     \* SandboxManager._active_sandboxes
  leases,     \* SandboxManager._leases: whose they are
  call,       \* where each call is, its failed tries and its sandbox
  cleaner     \* destroy_all: its place, what is left of its list, its list,
              \* and the sandbox it kills

vars == <<live, made, strays, sandboxes, active, leases, call, cleaner>>

Call == [pc : {"idle", "creating", "working", "killing"} \cup Ended,
         tries : 0 .. Tries - 1, box : Nat]

TypeOK ==
  /\ made \in Nat
  /\ live \subseteq 1 .. made /\ strays \subseteq 1 .. made
  /\ sandboxes \subseteq 1 .. made /\ active \subseteq 1 .. made
  /\ leases \subseteq Leasing
  /\ call \in [Calls -> Call]
  /\ \A c \in Calls : call[c].box \in 0 .. made
  /\ cleaner \in [pc : {"idle", "cleaning", "killing", "done", "raised"},
                  todo : SUBSET (1 .. made), seen : SUBSET (1 .. made),
                  box : 0 .. made]

Init ==
  /\ live = {} /\ made = 0 /\ strays = {}
  /\ sandboxes = {} /\ active = {} /\ leases = {}
  /\ call = [c \in Calls |-> [pc |-> "idle", tries |-> 0, box |-> NoBox]]
  /\ cleaner = [pc |-> "idle", todo |-> {}, seen |-> {}, box |-> NoBox]

-----------------------------------------------------------------------------
(* Creating *)

At(c, pc)   == call[c].pc = pc
Goto(c, pc) == call' = [call EXCEPT ![c].pc = pc]

\* The box may be left behind, as far as the bound goes.
Stray(box) == /\ Cardinality(strays) < MaxStrays
              /\ strays' = strays \cup {box}

Create(c) ==
  /\ At(c, "idle")
  /\ Goto(c, "creating")
  /\ UNCHANGED <<live, made, strays, sandboxes, active, leases, cleaner>>

\* The profile is not one of the adapter's.
UnknownProfile(c) ==
  /\ At(c, "idle")
  /\ Goto(c, "failed")
  /\ UNCHANGED <<live, made, strays, sandboxes, active, leases, cleaner>>

\* Mutant: the adapter keeps one sandbox.
CreatedAlone(c) ==
  /\ At(c, "creating")
  /\ made' = made + 1
  /\ live' = live \cup {made'}
  /\ sandboxes' = {made'}
  /\ active' = active \cup {made'}
  /\ leases' = leases \cup ({c} \cap Leasing)
  /\ call' = [call EXCEPT ![c].pc = "working", ![c].box = made']
  /\ UNCHANGED <<strays, cleaner>>

\* The sandbox is there: the adapter, the manager and, for acquire, the leases
\* know it before anybody else runs.
Created(c) ==
  /\ At(c, "creating")
  /\ made' = made + 1
  /\ live' = live \cup {made'}
  /\ sandboxes' = sandboxes \cup {made'}
  /\ active' = active \cup {made'}
  /\ leases' = leases \cup ({c} \cap Leasing)
  /\ call' = [call EXCEPT ![c].pc = "working", ![c].box = made']
  /\ UNCHANGED <<strays, cleaner>>

\* The server makes a container of which this call will never hear.
MadeUnheard == /\ made' = made + 1
               /\ live' = live \cup {made'}
               /\ Stray(made')

\* The SDK returned a sandbox without an id: create raises outside its retries.
Nameless(c) ==
  /\ At(c, "creating")
  /\ MadeUnheard
  /\ Goto(c, "failed")
  /\ UNCHANGED <<sandboxes, active, leases, cleaner>>

\* Mutant: attempts that start over.
CreateFailsAnew(c) ==
  /\ At(c, "creating")
  /\ MadeUnheard \/ UNCHANGED <<live, made, strays>>
  /\ call' = [call EXCEPT ![c].tries = (@ + 1) % Tries]
  /\ UNCHANGED <<sandboxes, active, leases, cleaner>>

\* A request to create fails, perhaps after the container was made: the next
\* variant, or the next attempt after a pause, is tried until none is left.
CreateFails(c) ==
  /\ At(c, "creating")
  /\ MadeUnheard \/ UNCHANGED <<live, made, strays>>
  /\ IF call[c].tries + 1 < Tries THEN call' = [call EXCEPT ![c].tries = @ + 1]
                                  ELSE Goto(c, "failed")
  /\ UNCHANGED <<sandboxes, active, leases, cleaner>>

-----------------------------------------------------------------------------
(* Giving back *)

\* release drops the lease; destroy asks the adapter to kill, which forgets
\* the sandbox first and does nothing if it has forgotten it before.  The
\* finally clauses of the callers come here however the work ended.
GiveBack(c) ==
  /\ At(c, "working")
  /\ leases' = leases \ {c}
  /\ IF call[c].box \in sandboxes
       THEN /\ sandboxes' = sandboxes \ {call[c].box}
            /\ Goto(c, "killing")
            /\ UNCHANGED active
       ELSE /\ active' = active \ {call[c].box}
            /\ Goto(c, "done")
            /\ UNCHANGED sandboxes
  /\ UNCHANGED <<live, made, strays, cleaner>>

Killed(c) ==
  /\ At(c, "killing")
  /\ live' = live \ {call[c].box}
  /\ active' = active \ {call[c].box}
  /\ Goto(c, "done")
  /\ UNCHANGED <<made, strays, sandboxes, leases, cleaner>>

\* Whether a failing kill has killed.
KillOutcome(box) == \/ live' = live \ {box} /\ UNCHANGED strays
                    \/ box \in live /\ Stray(box) /\ UNCHANGED live

\* kill or close raises: the manager goes on listing the sandbox.
KillFails(c) ==
  /\ At(c, "killing")
  /\ KillOutcome(call[c].box)
  /\ Goto(c, "failed")
  /\ UNCHANGED <<made, sandboxes, active, leases, cleaner>>

-----------------------------------------------------------------------------
(* destroy_all *)

\* Mutants: the manager's list is emptied first; only leases are destroyed.
StartCleaningCleared ==
  /\ cleaner.pc = "idle"
  /\ cleaner' = [cleaner EXCEPT !.pc = "cleaning", !.todo = active, !.seen = active]
  /\ active' = {}
  /\ UNCHANGED <<live, made, strays, sandboxes, leases, call>>
StartCleaningLeased ==
  /\ cleaner.pc = "idle"
  /\ cleaner' = [cleaner EXCEPT !.pc = "cleaning", !.seen = active,
                                !.todo = {call[c].box : c \in leases}]
  /\ UNCHANGED <<live, made, strays, sandboxes, active, leases, call>>

\* destroy_all takes a list of what is active now.
StartCleaning ==
  /\ cleaner.pc = "idle"
  /\ cleaner' = [cleaner EXCEPT !.pc = "cleaning", !.todo = active, !.seen = active]
  /\ UNCHANGED <<live, made, strays, sandboxes, active, leases, call>>

\* The next sandbox of the list; its order does not matter here.
Clean ==
  /\ cleaner.pc = "cleaning"
  /\ \E box \in cleaner.todo :
       IF box \in sandboxes
         THEN /\ sandboxes' = sandboxes \ {box}
              /\ cleaner' = [cleaner EXCEPT !.pc = "killing", !.box = box,
                                            !.todo = @ \ {box}]
              /\ UNCHANGED active
         ELSE /\ active' = active \ {box}
              /\ cleaner' = [cleaner EXCEPT !.todo = @ \ {box}]
              /\ UNCHANGED sandboxes
  /\ UNCHANGED <<live, made, strays, leases, call>>

CleanKilled ==
  /\ cleaner.pc = "killing"
  /\ live' = live \ {cleaner.box}
  /\ active' = active \ {cleaner.box}
  /\ cleaner' = [cleaner EXCEPT !.pc = "cleaning"]
  /\ UNCHANGED <<made, strays, sandboxes, leases, call>>

\* The first kill that raises ends the loop.
CleanFails ==
  /\ cleaner.pc = "killing"
  /\ KillOutcome(cleaner.box)
  /\ cleaner' = [cleaner EXCEPT !.pc = "raised"]
  /\ UNCHANGED <<made, sandboxes, active, leases, call>>

CleanEnds ==
  /\ cleaner.pc = "cleaning" /\ cleaner.todo = {}
  /\ cleaner' = [cleaner EXCEPT !.pc = "done"]
  /\ UNCHANGED <<live, made, strays, sandboxes, active, leases, call>>

-----------------------------------------------------------------------------

\* A container's time is over on the server (timeout_seconds of its profile).
Expire ==
  \E box \in live :
    /\ live' = live \ {box}
    /\ UNCHANGED <<made, strays, sandboxes, active, leases, call, cleaner>>

\* What a call does once it has begun.
Step(c) == \/ Created(c) \/ Nameless(c) \/ CreateFails(c)
           \/ GiveBack(c) \/ Killed(c) \/ KillFails(c)

Next ==
  \/ \E c \in Calls : Create(c) \/ UnknownProfile(c) \/ Step(c)
  \/ StartCleaning \/ Clean \/ CleanKilled \/ CleanFails \/ CleanEnds
  \/ Expire

Spec == Init /\ [][Next]_vars

-----------------------------------------------------------------------------
(* Properties *)

\* The sandboxes whose kill is under way.
InHands == {call[c].box : c \in {d \in Calls : At(d, "killing")}}
             \cup {box \in {cleaner.box} : cleaner.pc = "killing"}

\* However creates are retried, kills fail and destroy_all runs next to calls
\* that still work, a container lives only while the adapter can kill it, or is
\* killing it, unless a failed request left it behind.
NothingUnreachable == live \subseteq sandboxes \cup InHands \cup strays

\* What the adapter knows is listed by the manager, so destroy_all finds it,
\* and is in use: no path of a call forgets to destroy its sandbox.  A lease is
\* held by a call at work, also when its release fails.
RegisteredIsInUse ==
  /\ sandboxes \subseteq active
  /\ \A box \in sandboxes : \E c \in Calls : At(c, "working") /\ call[c].box = box
  /\ leases = {c \in Leasing : At(c, "working")}

\* When destroy_all returns, what it has found listed is gone or being killed.
\* A sandbox whose kill failed before is the exception: the manager lists it,
\* but the adapter has forgotten it and kill returns at once.
CleanedUnlessForgotten ==
  cleaner.pc = "done" => cleaner.seen \cap live \subseteq InHands \cup strays

\* No container and no lease is lost on any path: the three together.
NoSandboxIsLost == NothingUnreachable /\ RegisteredIsInUse /\ CleanedUnlessForgotten
=============================================================================
