------------------------- MODULE SubtaskWorkProofs -------------------------
(***************************************************************************)
(* Sandboxes, for any number of calls, retries and containers left behind, *)
(* and the work of a subtask in them, for any number of scripts, files,    *)
(* attempts and faults: it keeps what SandboxLease promises of its         *)
(* sandboxes, and it completes, and is done again, only as its files and   *)
(* events allow.                                                           *)
(***************************************************************************)
EXTENDS SubtaskWork, TLAPS, FiniteSetTheorems, SequenceTheorems

-----------------------------------------------------------------------------
(* SandboxLease *)

\* While destroy_all works, what is left of the sandboxes it has listed is on
\* its list still, or is being killed, or was left behind.
Cleaning ==
  /\ cleaner.pc \in {"cleaning", "killing", "done"} =>
       cleaner.seen \cap live \subseteq cleaner.todo \cup InHands \cup strays
  /\ cleaner.pc = "done" => cleaner.todo = {}

\* The adapter forgets a sandbox before anybody begins to kill it.
Forgotten == InHands \cap sandboxes = {}

\* The inductive invariant.
LeaseInv ==
  /\ TypeOK
  /\ NothingUnreachable
  /\ RegisteredIsInUse
  /\ Forgotten
  /\ Cleaning

LEMMA TriesType == Tries \in Nat \ {0}
<1>1. Variants = 1 \/ Variants = 2
  BY LeaseAssumption
<1> QED BY <1>1, LeaseAssumption DEF Tries

LEMMA LeaseInit == Init => LeaseInv
<1> SUFFICES ASSUME Init PROVE LeaseInv
  OBVIOUS
<1>1. TypeOK
  BY TriesType DEF Init, TypeOK, Call, NoBox
<1>2. NothingUnreachable /\ Forgotten /\ Cleaning
  BY DEF Init, NothingUnreachable, Forgotten, Cleaning
<1>3. RegisteredIsInUse
  BY LeaseAssumption DEF Init, RegisteredIsInUse, At
<1> QED BY <1>1, <1>2, <1>3 DEF LeaseInv

-----------------------------------------------------------------------------
(* Lemmas *)

LEMMA CallType ==
  ASSUME LeaseInv, NEW c \in Calls
  PROVE  /\ call \in [Calls -> Call] /\ call[c] \in Call
         /\ call[c].box \in 0 .. made /\ made \in Nat
  BY DEF LeaseInv, TypeOK

LEMMA BoxType ==
  ASSUME LeaseInv
  PROVE  /\ made \in Nat /\ live \subseteq 1 .. made /\ strays \subseteq 1 .. made
         /\ sandboxes \subseteq 1 .. made /\ active \subseteq 1 .. made
  BY DEF LeaseInv, TypeOK

LEMMA CleanerType ==
  ASSUME LeaseInv
  PROVE  cleaner \in [pc : {"idle", "cleaning", "killing", "done", "raised"},
                      todo : SUBSET (1 .. made), seen : SUBSET (1 .. made),
                      box : 0 .. made]
  BY DEF LeaseInv, TypeOK

\* Only a call that goes to or from a kill changes what is in hands.
LEMMA HandsKept ==
  ASSUME LeaseInv, NEW c \in Calls, NEW q \in Call,
         call' = [call EXCEPT ![c] = q], cleaner' = cleaner,
         call[c].pc # "killing"
  PROVE  /\ InHands \subseteq InHands'
         /\ InHands' \subseteq InHands \cup (IF q.pc = "killing" THEN {q.box} ELSE {})
         /\ q.pc = "killing" => q.box \in InHands'
<1>1. call \in [Calls -> Call]
  BY DEF LeaseInv, TypeOK
<1>2. \A d \in Calls : d # c => call'[d] = call[d]
  BY <1>1
<1>3. call'[c] = q
  BY <1>1
<1>4. InHands \subseteq InHands'
  BY <1>2 DEF InHands, At
<1>5. q.pc = "killing" => q.box \in InHands'
  BY <1>3 DEF InHands, At
<1>6. InHands' \subseteq InHands \cup (IF q.pc = "killing" THEN {q.box} ELSE {})
  BY <1>2, <1>3 DEF InHands, At
<1> QED BY <1>4, <1>5, <1>6

\* What a call that is done with its kill takes out of the hands.
LEMMA HandsReleased ==
  ASSUME LeaseInv, NEW c \in Calls, NEW pc \in Ended,
         call' = [call EXCEPT ![c].pc = pc], cleaner' = cleaner
  PROVE  /\ InHands \subseteq InHands' \cup {call[c].box}
         /\ InHands' \subseteq InHands
<1>1. call \in [Calls -> Call]
  BY DEF LeaseInv, TypeOK
<1>2. \A d \in Calls : d # c => call'[d] = call[d]
  BY <1>1
<1>3. call'[c].pc # "killing"
  BY <1>1 DEF Ended
<1>4. InHands \subseteq InHands' \cup {call[c].box}
  BY <1>2 DEF InHands, At
<1>5. InHands' \subseteq InHands
  BY <1>2, <1>3 DEF InHands, At
<1> QED BY <1>4, <1>5

\* The record of a call that moves on, and everybody else's.
LEMMA Moved ==
  ASSUME LeaseInv, NEW c \in Calls, NEW pc \in Ended \cup {"creating", "killing"},
         call' = [call EXCEPT ![c].pc = pc]
  PROVE  \E q \in Call :
           /\ q.pc = pc /\ q.box = call[c].box
           /\ call' = [call EXCEPT ![c] = q] /\ call'[c] = q
<1> DEFINE q == [call[c] EXCEPT !.pc = pc]
<1>1. q \in Call /\ q.pc = pc /\ q.box = call[c].box
  BY CallType DEF Call
<1>2. call' = [call EXCEPT ![c] = q] /\ call'[c] = q
  BY CallType
<1> QED BY <1>1, <1>2

\* A call that is not at work, and will not be, changes its place only.
LEMMA OtherMoves ==
  ASSUME LeaseInv, NEW c \in Calls, NEW q \in Call,
         call' = [call EXCEPT ![c] = q], call[c].pc # "working", q.pc # "working",
         sandboxes' \subseteq sandboxes, sandboxes' \subseteq active',
         leases' = leases
  PROVE  RegisteredIsInUse'
<1>1. \A d \in Calls : d # c => call'[d] = call[d]
  BY CallType
<1>2. call'[c].pc # "working"
  BY CallType
<1>3. leases' = {d \in Leasing : At(d, "working")'}
  BY <1>1, <1>2, LeaseAssumption DEF LeaseInv, RegisteredIsInUse, At
<1>4. \A box \in sandboxes' : \E d \in Calls : At(d, "working")' /\ call'[d].box = box
  BY <1>1 DEF LeaseInv, RegisteredIsInUse, At
<1> QED BY <1>3, <1>4 DEF RegisteredIsInUse

\* What the types ask of the steps of a call.
LEMMA CallStepType ==
  ASSUME LeaseInv, NEW c \in Calls, NEW q \in Call,
         call' = [call EXCEPT ![c] = q], cleaner' = cleaner,
         made' \in Nat, made <= made', q.box \in 0 .. made',
         live' \subseteq 1 .. made', strays' \subseteq 1 .. made',
         sandboxes' \subseteq 1 .. made', active' \subseteq 1 .. made',
         leases' \subseteq Leasing
  PROVE  TypeOK'
<1>1. call' \in [Calls -> Call]
  BY CallType
<1>2. \A d \in Calls : call'[d].box \in 0 .. made'
  <2> SUFFICES ASSUME NEW d \in Calls PROVE call'[d].box \in 0 .. made'
    OBVIOUS
  <2>1. CASE d = c
    BY <2>1, CallType
  <2>2. CASE d # c
    BY <2>2, CallType DEF LeaseInv, TypeOK
  <2> QED BY <2>1, <2>2
<1>3. 1 .. made \subseteq 1 .. made' /\ 0 .. made \subseteq 0 .. made'
  BY DEF LeaseInv, TypeOK
<1>4. cleaner' \in [pc : {"idle", "cleaning", "killing", "done", "raised"},
                    todo : SUBSET (1 .. made'), seen : SUBSET (1 .. made'),
                    box : 0 .. made']
  BY <1>3 DEF LeaseInv, TypeOK
<1> QED BY <1>1, <1>2, <1>4 DEF TypeOK

\* destroy_all does not move, and nothing it has seen comes to life elsewhere.
LEMMA CleaningKept ==
  ASSUME LeaseInv, cleaner' = cleaner,
         \A box \in 1 .. made :
           box \in live' /\ box \in live /\ box \in InHands \cup strays =>
             box \in InHands' \cup strays',
         \A box \in live' : box \in live \/ box \notin 1 .. made
  PROVE  Cleaning'
  BY DEF LeaseInv, TypeOK, Cleaning

-----------------------------------------------------------------------------
(* Creating *)

\* Steps of a call that has no sandbox yet and gets none.
LEMMA WithoutSandbox ==
  ASSUME LeaseInv, NEW c \in Calls, NEW q \in Call,
         call[c].pc \in {"idle", "creating"}, q.pc \in {"creating", "failed"},
         q.box = call[c].box, call' = [call EXCEPT ![c] = q],
         MadeUnheard \/ UNCHANGED <<live, made, strays>>,
         UNCHANGED <<sandboxes, active, leases, cleaner>>
  PROVE  LeaseInv'
<1>1. /\ made' \in Nat /\ made <= made'
      /\ live \subseteq live' /\ live' \subseteq 1 .. made'
      /\ strays \subseteq strays' /\ strays' \subseteq 1 .. made'
      /\ \A box \in live' : box \in live \/ (box \in strays' /\ box \notin 1 .. made)
  <2>1. CASE MadeUnheard
    <3>1. made \in Nat /\ made' = made + 1 /\ made' \notin 1 .. made
      BY <2>1 DEF MadeUnheard, LeaseInv, TypeOK
    <3>2. 1 .. made \subseteq 1 .. made' /\ made' \in 1 .. made'
      BY <3>1
    <3>3. live' = live \cup {made'} /\ strays' = strays \cup {made'}
      BY <2>1 DEF MadeUnheard, Stray
    <3> QED BY <3>1, <3>2, <3>3, BoxType
  <2>2. CASE UNCHANGED <<live, made, strays>>
    BY <2>2, BoxType
  <2> QED BY <2>1, <2>2
<1>2. q.box \in 0 .. made'
  BY <1>1, CallType
<1>3. TypeOK'
  <2>1. sandboxes' \subseteq 1 .. made' /\ active' \subseteq 1 .. made' /\ leases' \subseteq Leasing
    BY <1>1 DEF LeaseInv, TypeOK
  <2> QED BY <1>1, <1>2, <2>1, CallStepType
<1>4. InHands \subseteq InHands' /\ InHands' \subseteq InHands
  BY HandsKept
<1>5. NothingUnreachable'
  BY <1>1, <1>4 DEF LeaseInv, NothingUnreachable
<1>6. RegisteredIsInUse'
  <2>1. sandboxes' \subseteq sandboxes /\ sandboxes' \subseteq active' /\ leases' = leases
    BY DEF LeaseInv, RegisteredIsInUse
  <2> QED BY <2>1, OtherMoves
<1>7. Cleaning'
  BY <1>1, <1>4, CleaningKept
<1>8. Forgotten'
  BY <1>4 DEF LeaseInv, Forgotten
<1> QED BY <1>3, <1>5, <1>6, <1>7, <1>8 DEF LeaseInv

LEMMA CreateKept ==
  ASSUME LeaseInv, NEW c \in Calls, Create(c) \/ UnknownProfile(c) \/ Nameless(c)
  PROVE  LeaseInv'
<1>1. PICK pc \in {"creating", "failed"} :
        /\ call' = [call EXCEPT ![c].pc = pc]
        /\ call[c].pc \in {"idle", "creating"}
        /\ MadeUnheard \/ UNCHANGED <<live, made, strays>>
        /\ UNCHANGED <<sandboxes, active, leases, cleaner>>
  <2>1. CASE Create(c)
    BY <2>1 DEF Create, Goto, At
  <2>2. CASE UnknownProfile(c)
    BY <2>2 DEF UnknownProfile, Goto, At
  <2>3. CASE Nameless(c)
    BY <2>3 DEF Nameless, Goto, At
  <2> QED BY <2>1, <2>2, <2>3
<1>2. PICK q \in Call : /\ q.pc = pc /\ q.box = call[c].box
                        /\ call' = [call EXCEPT ![c] = q] /\ call'[c] = q
  <2>1. pc \in Ended \cup {"creating", "killing"}
    BY DEF Ended
  <2>2. call' = [call EXCEPT ![c].pc = pc]
    BY <1>1
  <2> QED BY <2>1, <2>2, Moved
<1> QED BY <1>1, <1>2, WithoutSandbox

LEMMA CreateFailsKept ==
  ASSUME LeaseInv, NEW c \in Calls, CreateFails(c)
  PROVE  LeaseInv'
<1>1. /\ call[c].pc = "creating"
      /\ MadeUnheard \/ UNCHANGED <<live, made, strays>>
      /\ UNCHANGED <<sandboxes, active, leases, cleaner>>
  BY DEF CreateFails, At
<1>2. CASE call[c].tries + 1 < Tries
  <2> DEFINE q == [call[c] EXCEPT !.tries = @ + 1]
  <2>1. q \in Call /\ q.pc = "creating" /\ q.box = call[c].box
    BY <1>1, <1>2, CallType, TriesType DEF Call
  <2>2. call' = [call EXCEPT ![c] = q]
    BY <1>2, CallType DEF CreateFails
  <2> HIDE DEF q
  <2> QED BY <1>1, <2>1, <2>2, WithoutSandbox
<1>3. CASE ~(call[c].tries + 1 < Tries)
  <2>1. call' = [call EXCEPT ![c].pc = "failed"]
    BY <1>3 DEF CreateFails, Goto
  <2>2. PICK q \in Call : /\ q.pc = "failed" /\ q.box = call[c].box
                          /\ call' = [call EXCEPT ![c] = q]
    BY <2>1, Moved DEF Ended
  <2> QED BY <1>1, <2>2, WithoutSandbox
<1> QED BY <1>2, <1>3

\* The new sandbox is known to the adapter, the manager and its call at once.
LEMMA CreatedKept ==
  ASSUME LeaseInv, NEW c \in Calls, Created(c)
  PROVE  LeaseInv'
<1> DEFINE n == made + 1
           q == [call[c] EXCEPT !.pc = "working", !.box = n]
<1>1. /\ made \in Nat /\ made' = n /\ n \in Nat /\ n \notin 1 .. made
      /\ 1 .. made \subseteq 1 .. n /\ n \in 1 .. n
      /\ live' = live \cup {n} /\ sandboxes' = sandboxes \cup {n}
      /\ active' = active \cup {n} /\ leases' = leases \cup ({c} \cap Leasing)
      /\ strays' = strays /\ cleaner' = cleaner /\ call[c].pc = "creating"
  BY DEF Created, LeaseInv, TypeOK, At
<1>2. q \in Call /\ q.pc = "working" /\ q.box = n
  BY <1>1, CallType DEF Call
<1>3. call' = [call EXCEPT ![c] = q]
  BY <1>1, CallType DEF Created
<1> HIDE DEF n, q
<1>4. call'[c] = q /\ \A d \in Calls : d # c => call'[d] = call[d]
  BY <1>3, CallType
<1>5. TypeOK'
  <2>1. /\ live' \subseteq 1 .. made' /\ strays' \subseteq 1 .. made'
        /\ sandboxes' \subseteq 1 .. made' /\ active' \subseteq 1 .. made'
        /\ leases' \subseteq Leasing
    BY <1>1 DEF LeaseInv, TypeOK
  <2>2. made' \in Nat /\ made <= made' /\ q.box \in 0 .. made'
    BY <1>1, <1>2 DEF n
  <2> QED BY <1>1, <1>2, <1>3, <2>1, <2>2, CallStepType
<1>6. InHands \subseteq InHands' /\ InHands' \subseteq InHands
  BY <1>1, <1>2, <1>3, HandsKept
<1>7. NothingUnreachable'
  BY <1>1, <1>6 DEF LeaseInv, NothingUnreachable
<1>8. RegisteredIsInUse'
  <2>1. \A box \in sandboxes' : \E d \in Calls : At(d, "working")' /\ call'[d].box = box
    BY <1>1, <1>2, <1>4 DEF LeaseInv, RegisteredIsInUse, At
  <2>2. leases' = {d \in Leasing : At(d, "working")'}
    BY <1>1, <1>2, <1>4, LeaseAssumption DEF LeaseInv, RegisteredIsInUse, At
  <2> QED BY <1>1, <2>1, <2>2 DEF LeaseInv, RegisteredIsInUse
<1>9. Cleaning'
  BY <1>1, <1>6, CleaningKept
<1>10. Forgotten'
  <2>1. n \notin InHands
    BY <1>1 DEF n, InHands, At, LeaseInv, TypeOK
  <2> QED BY <1>1, <1>6, <2>1 DEF LeaseInv, Forgotten
<1> QED BY <1>5, <1>7, <1>8, <1>9, <1>10 DEF LeaseInv

-----------------------------------------------------------------------------
(* Giving back *)

LEMMA GiveBackKept ==
  ASSUME LeaseInv, NEW c \in Calls, GiveBack(c)
  PROVE  LeaseInv'
<1> DEFINE b == call[c].box
<1>1. /\ call[c].pc = "working" /\ leases' = leases \ {c}
      /\ UNCHANGED <<live, made, strays, cleaner>>
  BY DEF GiveBack, At
<1>2. PICK pc \in {"killing", "done"} :
        /\ call' = [call EXCEPT ![c].pc = pc]
        /\ b \in sandboxes <=> pc = "killing"
        /\ sandboxes' = sandboxes \ {b}
        /\ active' = IF b \in sandboxes THEN active ELSE active \ {b}
  BY DEF GiveBack, Goto
<1>3. PICK q \in Call : /\ q.pc = pc /\ q.box = b
                        /\ call' = [call EXCEPT ![c] = q] /\ call'[c] = q
  <2>1. pc \in Ended \cup {"creating", "killing"}
    BY DEF Ended
  <2> QED BY <1>2, <2>1, Moved
<1> HIDE DEF b
<1>4. \A d \in Calls : d # c => call'[d] = call[d]
  BY <1>3, CallType
<1>5. TypeOK'
  <2>1. /\ live' \subseteq 1 .. made' /\ strays' \subseteq 1 .. made'
        /\ sandboxes' \subseteq 1 .. made' /\ active' \subseteq 1 .. made'
        /\ leases' \subseteq Leasing
    BY <1>1, <1>2 DEF LeaseInv, TypeOK
  <2>2. made' \in Nat /\ made <= made' /\ q.box \in 0 .. made'
    BY <1>1, <1>3, CallType DEF b
  <2> QED BY <1>1, <1>3, <2>1, <2>2, CallStepType
<1>6. /\ InHands \subseteq InHands' /\ (pc = "killing" => b \in InHands')
      /\ InHands' \subseteq InHands \cup {b}
  BY <1>1, <1>3, HandsKept
<1>7. NothingUnreachable'
  BY <1>1, <1>2, <1>6 DEF LeaseInv, NothingUnreachable
<1>8. RegisteredIsInUse'
  <2>1. sandboxes' \subseteq active'
    BY <1>2 DEF LeaseInv, RegisteredIsInUse
  <2>2. \A box \in sandboxes' : \E d \in Calls : At(d, "working")' /\ call'[d].box = box
    BY <1>2, <1>4 DEF LeaseInv, RegisteredIsInUse, At, b
  <2>3. leases' = {d \in Leasing : At(d, "working")'}
    BY <1>1, <1>3, <1>4, LeaseAssumption DEF LeaseInv, RegisteredIsInUse, At
  <2> QED BY <2>1, <2>2, <2>3 DEF RegisteredIsInUse
<1>9. Cleaning'
  BY <1>1, <1>6, CleaningKept
<1>10. Forgotten'
  BY <1>2, <1>6 DEF LeaseInv, Forgotten
<1> QED BY <1>5, <1>7, <1>8, <1>9, <1>10 DEF LeaseInv

\* The kill has ended: what it has not killed is left behind.
LEMMA KillEndsKept ==
  ASSUME LeaseInv, NEW c \in Calls, Killed(c) \/ KillFails(c)
  PROVE  LeaseInv'
<1> DEFINE b == call[c].box
<1>1. /\ call[c].pc = "killing"
      /\ UNCHANGED <<made, sandboxes, leases, cleaner>>
      /\ live' \subseteq live /\ strays \subseteq strays'
      /\ active' \subseteq active /\ active \subseteq active' \cup {b}
  BY DEF Killed, KillFails, KillOutcome, Stray, At
<1>2. b \in live' => b \in strays'
  BY DEF Killed, KillFails, KillOutcome, Stray
<1>3. strays' \subseteq 1 .. made'
  BY <1>1 DEF Killed, KillFails, KillOutcome, Stray, LeaseInv, TypeOK
<1>4. PICK pc \in Ended : call' = [call EXCEPT ![c].pc = pc]
  BY DEF Killed, KillFails, Goto, Ended
<1>5. PICK q \in Call : /\ q.pc = pc /\ q.box = b /\ call' = [call EXCEPT ![c] = q]
  BY <1>4, Moved
<1>6. InHands \subseteq InHands' \cup {b}
  BY <1>1, <1>4, HandsReleased
<1>7. b \in InHands /\ b \notin sandboxes
  BY <1>1 DEF InHands, At, LeaseInv, Forgotten
<1>8. TypeOK'
  <2>1. /\ live' \subseteq 1 .. made'
        /\ sandboxes' \subseteq 1 .. made' /\ active' \subseteq 1 .. made'
        /\ leases' \subseteq Leasing
    BY <1>1 DEF LeaseInv, TypeOK
  <2>2. made' \in Nat /\ made <= made' /\ q.box \in 0 .. made'
    BY <1>1, <1>5, CallType
  <2> QED BY <1>1, <1>3, <1>5, <2>1, <2>2, CallStepType
<1>9. NothingUnreachable'
  BY <1>1, <1>2, <1>6 DEF LeaseInv, NothingUnreachable
<1>10. RegisteredIsInUse'
  <2>1. sandboxes' \subseteq sandboxes /\ sandboxes' \subseteq active' /\ leases' = leases
    BY <1>1, <1>7 DEF LeaseInv, RegisteredIsInUse
  <2>2. call[c].pc # "working" /\ q.pc # "working"
    BY <1>1, <1>5 DEF Ended
  <2> QED BY <1>5, <2>1, <2>2, OtherMoves
<1>11. Cleaning'
  BY <1>1, <1>2, <1>6, CleaningKept
<1>12. Forgotten'
  <2>1. InHands' \subseteq InHands
    BY <1>1, <1>4, HandsReleased
  <2> QED BY <1>1, <2>1 DEF LeaseInv, Forgotten
<1> QED BY <1>8, <1>9, <1>10, <1>11, <1>12 DEF LeaseInv

-----------------------------------------------------------------------------
(* destroy_all, and the server *)

\* While destroy_all moves no call does.
LEMMA CleanerStepType ==
  ASSUME LeaseInv, UNCHANGED <<made, leases, call>>,
         live' \subseteq live, strays' \subseteq 1 .. made,
         sandboxes' \subseteq sandboxes, active' \subseteq active,
         cleaner' \in [pc : {"idle", "cleaning", "killing", "done", "raised"},
                      todo : SUBSET (1 .. made), seen : SUBSET (1 .. made),
                      box : 0 .. made]
  PROVE  TypeOK'
  BY DEF LeaseInv, TypeOK

\* As long as no sandbox is dropped from the list, the registers agree.
LEMMA CleanerRegisters ==
  ASSUME LeaseInv, UNCHANGED <<leases, call>>,
         sandboxes' \subseteq sandboxes, sandboxes' \subseteq active'
  PROVE  RegisteredIsInUse'
  BY DEF LeaseInv, RegisteredIsInUse, At

LEMMA CleanKept ==
  ASSUME LeaseInv, StartCleaning \/ Clean \/ CleanEnds
  PROVE  LeaseInv'
<1>1. /\ UNCHANGED <<live, made, strays, leases, call>>
      /\ cleaner.pc # "killing"
      /\ sandboxes' \subseteq sandboxes /\ active' \subseteq active
      /\ strays' \subseteq 1 .. made
  BY DEF StartCleaning, Clean, CleanEnds, LeaseInv, TypeOK
<1>2. cleaner' \in [pc : {"idle", "cleaning", "killing", "done", "raised"},
                    todo : SUBSET (1 .. made), seen : SUBSET (1 .. made),
                    box : 0 .. made]
  <2>1. CASE StartCleaning
    BY <2>1, BoxType, CleanerType DEF StartCleaning
  <2>2. CASE Clean
    <3>1. PICK box \in cleaner.todo :
            \/ cleaner' = [cleaner EXCEPT !.pc = "killing", !.box = box,
                                          !.todo = @ \ {box}]
            \/ cleaner' = [cleaner EXCEPT !.todo = @ \ {box}]
      BY <2>2 DEF Clean
    <3>2. box \in 0 .. made /\ cleaner.todo \ {box} \in SUBSET (1 .. made)
      BY BoxType, CleanerType
    <3> QED BY <3>1, <3>2, CleanerType
  <2>3. CASE CleanEnds
    BY <2>3, CleanerType DEF CleanEnds
  <2> QED BY <2>1, <2>2, <2>3
<1>3. TypeOK'
  BY <1>1, <1>2, CleanerStepType
<1>4. /\ InHands \subseteq InHands'
      /\ InHands' \subseteq InHands \cup (IF cleaner'.pc = "killing" THEN {cleaner'.box} ELSE {})
      /\ cleaner'.pc = "killing" => cleaner'.box \in InHands'
  BY <1>1 DEF InHands, At
<1>5. CASE StartCleaning \/ CleanEnds
  <2>1. cleaner'.pc # "killing" /\ UNCHANGED <<sandboxes, active>>
    BY <1>5 DEF StartCleaning, CleanEnds, LeaseInv, TypeOK
  <2>2. NothingUnreachable' /\ RegisteredIsInUse' /\ Forgotten'
    BY <1>1, <1>4, <2>1, CleanerRegisters
    DEF LeaseInv, NothingUnreachable, Forgotten, RegisteredIsInUse
  <2>3. Cleaning'
    BY <1>1, <1>4, <1>5 DEF StartCleaning, CleanEnds, Cleaning, LeaseInv, TypeOK
  <2> QED BY <1>3, <2>2, <2>3 DEF LeaseInv
<1>6. CASE Clean
  <2>1. PICK box \in cleaner.todo :
          /\ cleaner.pc = "cleaning"
          /\ sandboxes' = sandboxes \ {box}
          /\ active' = IF box \in sandboxes THEN active ELSE active \ {box}
          /\ cleaner'.pc = IF box \in sandboxes THEN "killing" ELSE "cleaning"
          /\ box \in sandboxes => cleaner'.box = box
          /\ cleaner'.todo = cleaner.todo \ {box} /\ cleaner'.seen = cleaner.seen
    BY <1>6 DEF Clean, LeaseInv, TypeOK
  <2>2. NothingUnreachable' /\ Forgotten'
    BY <1>1, <1>4, <2>1 DEF LeaseInv, NothingUnreachable, Forgotten
  <2>3. RegisteredIsInUse'
    <3>1. sandboxes' \subseteq active'
      BY <2>1 DEF LeaseInv, RegisteredIsInUse
    <3> QED BY <1>1, <3>1, CleanerRegisters
  \* A sandbox the adapter does not know is dead, in hands or left behind.
  <2>4. Cleaning'
    <3>1. box \in live => box \in InHands' \cup strays
      BY <1>1, <1>4, <2>1 DEF LeaseInv, NothingUnreachable
    <3> QED BY <1>1, <1>4, <2>1, <3>1 DEF LeaseInv, Cleaning
  <2> QED BY <1>3, <2>2, <2>3, <2>4 DEF LeaseInv
<1> QED BY <1>5, <1>6

LEMMA CleanKillKept ==
  ASSUME LeaseInv, CleanKilled \/ CleanFails
  PROVE  LeaseInv'
<1> DEFINE b == cleaner.box
<1>1. /\ UNCHANGED <<made, sandboxes, leases, call>> /\ cleaner.pc = "killing"
      /\ live' \subseteq live /\ strays \subseteq strays'
      /\ active' \subseteq active /\ active \subseteq active' \cup {b}
  BY DEF CleanKilled, CleanFails, KillOutcome, Stray
<1>2. b \in live' => b \in strays'
  BY DEF CleanKilled, CleanFails, KillOutcome, Stray
<1>3. strays' \subseteq 1 .. made
  BY DEF CleanKilled, CleanFails, KillOutcome, Stray, LeaseInv, TypeOK
<1>4. /\ cleaner' \in [pc : {"idle", "cleaning", "killing", "done", "raised"},
                       todo : SUBSET (1 .. made), seen : SUBSET (1 .. made),
                       box : 0 .. made]
      /\ cleaner'.pc \in {"cleaning", "raised"}
      /\ cleaner'.todo = cleaner.todo /\ cleaner'.seen = cleaner.seen
  BY DEF CleanKilled, CleanFails, LeaseInv, TypeOK
<1>5. /\ InHands \subseteq InHands' \cup {b}
      /\ InHands' \subseteq InHands /\ b \in InHands
  BY <1>1, <1>4 DEF InHands, At
<1> HIDE DEF b
<1>6. TypeOK'
  BY <1>1, <1>3, <1>4, CleanerStepType
<1>7. NothingUnreachable' /\ Forgotten'
  BY <1>1, <1>2, <1>5 DEF LeaseInv, NothingUnreachable, Forgotten
<1>8. RegisteredIsInUse'
  <2>1. sandboxes' \subseteq active'
    BY <1>1, <1>5 DEF LeaseInv, RegisteredIsInUse, Forgotten
  <2> QED BY <1>1, <2>1, CleanerRegisters
<1>9. Cleaning'
  BY <1>1, <1>2, <1>4, <1>5 DEF LeaseInv, Cleaning
<1> QED BY <1>6, <1>7, <1>8, <1>9 DEF LeaseInv

LEMMA ExpireKept ==
  ASSUME LeaseInv, Expire
  PROVE  LeaseInv'
<1>1. live' \subseteq live /\ UNCHANGED <<made, strays, sandboxes, active, leases, call, cleaner>>
  BY DEF Expire
<1>2. InHands' = InHands
  BY <1>1 DEF InHands, At
<1> QED
  BY <1>1, <1>2 DEF LeaseInv, TypeOK, NothingUnreachable, RegisteredIsInUse,
                    Forgotten, Cleaning, At

-----------------------------------------------------------------------------
(* Theorems *)

LEMMA LeaseStep == LeaseInv /\ [Next]_vars => LeaseInv'
<1> SUFFICES ASSUME LeaseInv, [Next]_vars PROVE LeaseInv'
  OBVIOUS
<1>1. ASSUME NEW c \in Calls, Create(c) \/ UnknownProfile(c) \/ Step(c)
      PROVE  LeaseInv'
  BY <1>1, CreateKept, CreateFailsKept, CreatedKept, GiveBackKept, KillEndsKept DEF Step
<1>2. CASE UNCHANGED vars
  BY <1>2 DEF vars, LeaseInv, TypeOK, NothingUnreachable, RegisteredIsInUse,
              Forgotten, Cleaning, InHands, At
<1> QED BY <1>1, <1>2, CleanKept, CleanKillKept, ExpireKept DEF Next

LEMMA LeaseAlways == Spec => []LeaseInv
  BY LeaseInit, LeaseStep, PTL DEF Spec

\* The registers never name a sandbox that was not made, and no call tries more
\* often than create_retry_count and the variants allow.
THEOREM LeaseTypeCorrect == Spec => []TypeOK
<1>1. LeaseInv => TypeOK
  BY DEF LeaseInv
<1> QED BY <1>1, LeaseAlways, PTL

\* Whatever is retried, fails or is destroyed twice, only a failed request
\* leaves a container that the adapter can no longer kill.
THEOREM NothingUnreachableHolds == Spec => []NothingUnreachable
<1>1. LeaseInv => NothingUnreachable
  BY DEF LeaseInv
<1> QED BY <1>1, LeaseAlways, PTL

\* No path of a call forgets its sandbox or its lease, and destroy_all finds
\* every sandbox that the adapter knows.
THEOREM RegisteredIsInUseHolds == Spec => []RegisteredIsInUse
<1>1. LeaseInv => RegisteredIsInUse
  BY DEF LeaseInv
<1> QED BY <1>1, LeaseAlways, PTL

\* What destroy_all has listed is gone when it returns, but for what was left
\* behind and what a call is killing.
THEOREM CleanedUnlessForgottenHolds == Spec => []CleanedUnlessForgotten
<1>1. LeaseInv => CleanedUnlessForgotten
  BY DEF LeaseInv, Cleaning, CleanedUnlessForgotten
<1> QED BY <1>1, LeaseAlways, PTL

\* So no container and no lease is lost, for any number of calls, attempts and
\* failures, next to destroy_all (SandboxManager, OpenSandboxAdapter).
THEOREM NoSandboxIsLostHolds == Spec => []NoSandboxIsLost
<1>1. NothingUnreachable /\ RegisteredIsInUse /\ CleanedUnlessForgotten => NoSandboxIsLost
  BY DEF NoSandboxIsLost
<1> QED
  BY <1>1, NothingUnreachableHolds, RegisteredIsInUseHolds, CleanedUnlessForgottenHolds, PTL

-----------------------------------------------------------------------------
(* SubtaskWork *)

Stages == {"idle", "command", "agent", "judging", "completed", "failed"}
Places == {"idle", "entering", "running", "reading", "storing", "leaving", "ended"}
Topics == {"tool.started", "tool.completed", "tool.failed", "script.started",
           "script.completed", "script.failed", "artifact.created",
           "failure.created", "policy.denied"}

Work == [pc : Stages, attempt : Nat, heard : BOOLEAN, required : BOOLEAN]

Job == [pc : Places, exit : {0, 1}, written : SUBSET Paths,
        read : SUBSET Paths, raised : BOOLEAN]

Typed ==
  /\ work \in Work
  /\ job \in [Uses -> Job]
  /\ trail \in [Uses -> Seq(Topics)]
  /\ files \in [Uses -> SUBSET Paths]

\* Before its files are read, a use has none.
Early == {"idle", "entering", "running", "reading"}
Backed(u) ==
  /\ files[u] \subseteq job[u].written /\ job[u].read \subseteq job[u].written
  /\ job[u].pc \in Early => files[u] = {} /\ job[u].read = {}

Completes(events) == \E i \in DOMAIN events : events[i] = "script.completed"
Says(u) == Completes(trail[u])

\* The inductive invariant.
WorkInv ==
  /\ Typed
  /\ \A u \in Uses : Backed(u)
  /\ work.pc = "idle" => ~work.heard /\ \A u \in Uses : Doing(u, "idle")
  /\ work.pc = "completed" /\ work.required => \E u \in Uses : files[u] # {}
  /\ \A s \in Scripts : Says(s) => work.heard

-----------------------------------------------------------------------------
(* The work keeps the promise of SandboxLease *)

LEMMA UsesAreCalls ==
  /\ Uses \subseteq Calls /\ Command \in Uses /\ Command \in Calls
  /\ Scripts \subseteq Uses /\ Scripts \subseteq Calls /\ Command \notin Scripts
  BY WorkAssumption, LeaseAssumption DEF Uses

LEMMA WorkStepIsNext ==
  ASSUME [WorkNext]_allVars
  PROVE  [Next]_vars
<1>1. CASE StartCommand
  BY <1>1, UsesAreCalls DEF StartCommand, Next
<1>2. CASE StartAgent
  BY <1>2 DEF StartAgent
<1>3. CASE WorkStep
  <2>1. CASE \E s \in Scripts : StartScript(s)
    BY <2>1, UsesAreCalls DEF StartScript, Next
  <2>2. CASE \E s \in Scripts : \/ RefusedScript(s) \/ WriteFiles(s) \/ Executed(s)
                                \/ ScriptRaises(s) \/ ScriptStoreFails(s)
                                \/ ScriptEnds(s)
    BY <2>2 DEF RefusedScript, WriteFiles, Executed, ScriptRaises,
                ScriptStoreFails, ScriptEnds
  <2>3. CASE \E u \in Uses : RunCommand(u) \/ Collect(u) \/ Store(u)
    BY <2>3 DEF RunCommand, Collect, Store
  <2>4. CASE \/ PlanCommand \/ Decide \/ CommandStoreFails \/ CommandEnds
             \/ AgentEnds \/ Judge
    BY <2>4 DEF PlanCommand, Decide, CommandStoreFails, CommandEnds,
                AgentEnds, Judge
  <2> QED BY <1>3, <2>1, <2>2, <2>3, <2>4 DEF WorkStep, ScriptStep
<1>4. CASE OtherStep
  BY <1>4 DEF OtherStep, Next
<1>5. CASE \E c \in Calls : CallStep(c)
  BY <1>5 DEF CallStep, Next
<1>6. CASE UNCHANGED allVars
  BY <1>6 DEF allVars
<1> QED BY <1>1, <1>2, <1>3, <1>4, <1>5, <1>6 DEF WorkNext

\* The work of a subtask uses its sandboxes as SandboxLease says a call does:
\* whatever the runner, the agent and the skill scripts do, what is true of all
\* uses of sandboxes is true of theirs.
THEOREM WorkImplementsLease == WorkSpec => Spec
<1>1. Init /\ WorkInit => Init
  OBVIOUS
<1>2. [WorkNext]_allVars => [Next]_vars
  BY WorkStepIsNext
<1> QED BY <1>1, <1>2, PTL DEF WorkSpec, Spec

\* So no container of a command or of a script is lost either.
THEOREM WorkLosesNoSandbox == WorkSpec => []NoSandboxIsLost
  BY WorkImplementsLease, NoSandboxIsLostHolds, PTL
-----------------------------------------------------------------------------
(* Lemmas on one use of a sandbox *)

LEMMA WorkInitInv == WorkInit => WorkInv
<1> SUFFICES ASSUME WorkInit PROVE WorkInv
  OBVIOUS
<1>0. NoJob.pc = "idle" /\ NoJob.written = {} /\ NoJob.read = {}
  BY DEF NoJob
<1>1. NoJob \in Job
  BY DEF NoJob, Job, Places
<1>2. Typed
  <2>1. work \in Work
    <3>1. PICK required \in BOOLEAN :
            work = [pc |-> "idle", attempt |-> 0, heard |-> FALSE,
                    required |-> required]
      BY DEF WorkInit
    <3>2. "idle" \in Stages /\ 0 \in Nat /\ FALSE \in BOOLEAN
      BY DEF Stages
    <3> QED BY <3>1, <3>2 DEF Work
  <2>2. job \in [Uses -> Job]
    BY <1>1 DEF WorkInit
  <2>3. <<>> \in Seq(Topics)
    OBVIOUS
  <2>4. trail \in [Uses -> Seq(Topics)]
    BY <2>3 DEF WorkInit
  <2>5. files \in [Uses -> SUBSET Paths]
    BY DEF WorkInit
  <2> QED BY <2>1, <2>2, <2>4, <2>5 DEF Typed
<1>3. \A u \in Uses : Backed(u) /\ ~Says(u)
  BY <1>0 DEF WorkInit, Backed, Says, Completes
<1>4. ~work.heard /\ \A u \in Uses : Doing(u, "idle")
  BY <1>0 DEF WorkInit, Doing
<1>5. work.pc # "completed"
  BY DEF WorkInit
<1> QED BY <1>2, <1>3, <1>4, <1>5, UsesAreCalls DEF WorkInv

\* What a step has to keep that touches one use at most.
LEMMA OneUse ==
  ASSUME WorkInv, NEW u \in Uses, Typed', Backed(u)',
         \A v \in Uses \ {u} :
           job'[v] = job[v] /\ trail'[v] = trail[v] /\ files'[v] = files[v],
         files[u] \subseteq files'[u],
         work.heard => work'.heard,
         u \in Scripts /\ Says(u)' => Says(u) \/ work'.heard,
         work'.required = work.required,
         work'.pc # "idle",
         work'.pc = "completed" /\ work'.required =>
           work.pc = "completed" \/ \E v \in Uses : files'[v] # {}
  PROVE  WorkInv'
<1>1. \A v \in Uses : Backed(v)'
  BY DEF WorkInv, Backed
<1>2. (work.pc = "idle" => ~work.heard /\ \A v \in Uses : Doing(v, "idle"))'
  OBVIOUS
<1>3. (work.pc = "completed" /\ work.required => \E v \in Uses : files[v] # {})'
  <2> SUFFICES ASSUME work'.pc = "completed", work'.required,
                      work.pc = "completed"
               PROVE  \E v \in Uses : files'[v] # {}
    OBVIOUS
  <2>1. PICK v \in Uses : files[v] # {}
    BY DEF WorkInv
  <2>2. files'[v] # {}
    BY <2>1
  <2> QED BY <2>2
<1>4. (\A s \in Scripts : Says(s) => work.heard)'
  <2> SUFFICES ASSUME NEW s \in Scripts, Says(s)'
               PROVE  work'.heard
    OBVIOUS
  <2>1. CASE s = u
    BY <2>1 DEF WorkInv
  <2>2. CASE s # u
    BY <2>2, UsesAreCalls DEF WorkInv, Says
  <2> QED BY <2>1, <2>2
<1> QED BY <1>1, <1>2, <1>3, <1>4 DEF WorkInv

\* The record of a use that moves on.
LEMMA JobMoved ==
  ASSUME WorkInv, NEW u \in Uses, NEW pc \in Places, NEW raised \in BOOLEAN,
         \/ job' = [job EXCEPT ![u].pc = pc]
         \/ job' = [job EXCEPT ![u].pc = pc, ![u].raised = raised]
  PROVE  /\ job' \in [Uses -> Job]
         /\ \A v \in Uses \ {u} : job'[v] = job[v]
         /\ job'[u].pc = pc /\ job'[u].written = job[u].written
         /\ job'[u].read = job[u].read
<1>1. job \in [Uses -> Job] /\ job[u] \in Job
  BY DEF WorkInv, Typed
<1>2. PICK r \in BOOLEAN :
        job' = [job EXCEPT ![u] = [[job[u] EXCEPT !.pc = pc] EXCEPT !.raised = r]]
  <2>1. CASE job' = [job EXCEPT ![u].pc = pc]
    <3>1. job[u].raised \in BOOLEAN
      BY <1>1 DEF Job
    <3>2. [job[u] EXCEPT !.pc = pc]
            = [[job[u] EXCEPT !.pc = pc] EXCEPT !.raised = job[u].raised]
      BY <1>1 DEF Job
    <3> QED BY <2>1, <3>1, <3>2
  <2>2. CASE job' = [job EXCEPT ![u].pc = pc, ![u].raised = raised]
    BY <1>1, <2>2
  <2> QED BY <2>1, <2>2
<1>3. [[job[u] EXCEPT !.pc = pc] EXCEPT !.raised = r] \in Job
  BY <1>1 DEF Job
<1> QED BY <1>1, <1>2, <1>3 DEF Job

\* Events that do not say "script.completed" do not make the use say it.
LEMMA Noted ==
  ASSUME WorkInv, NEW u \in Uses, NEW events \in Seq(Topics), Note(u, events)
  PROVE  /\ trail' \in [Uses -> Seq(Topics)]
         /\ \A v \in Uses \ {u} : trail'[v] = trail[v]
         /\ Says(u)' => Says(u) \/ Completes(events)
<1>1. trail \in [Uses -> Seq(Topics)] /\ trail[u] \in Seq(Topics)
  BY DEF WorkInv, Typed
<1>2. trail'[u] = trail[u] \o events
  BY <1>1 DEF Note
<1>3. trail[u] \o events \in Seq(Topics)
  BY <1>1
<1>4. \A v \in Uses \ {u} : trail'[v] = trail[v]
  BY <1>1 DEF Note
<1>5. trail' \in [Uses -> Seq(Topics)]
  BY <1>1, <1>3 DEF Note
<1>6. ASSUME Says(u)', ~Says(u)
      PROVE  Completes(events)
  <2>1. PICK i \in DOMAIN (trail[u] \o events) :
          (trail[u] \o events)[i] = "script.completed"
    BY <1>2, <1>6 DEF Says, Completes
  <2>2. i \in 1 .. Len(trail[u]) + Len(events)
    BY <1>1, <2>1
  <2>3. ~(i <= Len(trail[u]))
    BY <1>1, <1>6, <2>1, <2>2 DEF Says, Completes
  <2>4. i - Len(trail[u]) \in DOMAIN events
    BY <1>1, <2>2, <2>3
  <2>5. events[i - Len(trail[u])] = "script.completed"
    BY <1>1, <2>1, <2>2, <2>3
  <2> QED BY <2>4, <2>5 DEF Completes
<1> QED BY <1>4, <1>5, <1>6

\* What the agent's events change.
LEMMA Heard ==
  ASSUME WorkInv, NEW raises \in BOOLEAN, Hear(raises)
  PROVE  /\ work' \in Work
         /\ work'.heard = (work.heard \/ ~raises)
         /\ work'.attempt = work.attempt /\ work'.required = work.required
         /\ work'.pc \in {work.pc, "judging"}
<1>1. work \in Work
  BY DEF WorkInv, Typed
<1>2. work' = [pc |-> IF raises THEN "judging" ELSE work.pc,
               attempt |-> work.attempt, heard |-> work.heard \/ ~raises,
               required |-> work.required]
  BY <1>1 DEF Hear, Work
<1>3. work.pc \in Stages /\ work.attempt \in Nat /\ work.heard \in BOOLEAN
        /\ work.required \in BOOLEAN
  BY <1>1 DEF Work
<1>4. (IF raises THEN "judging" ELSE work.pc) \in Stages
  BY <1>3 DEF Stages
<1> QED BY <1>2, <1>3, <1>4 DEF Work

\* A use goes on without touching its files.
LEMMA MovesOn ==
  ASSUME WorkInv, NEW u \in Uses, NEW pc \in Places, NEW raised \in BOOLEAN,
         NEW events \in Seq(Topics),
         \/ job' = [job EXCEPT ![u].pc = pc]
         \/ job' = [job EXCEPT ![u].pc = pc, ![u].raised = raised],
         Note(u, events) \/ UNCHANGED trail,
         files' = files, work' \in Work,
         pc \in Early => job[u].pc \in Early,
         work.heard => work'.heard,
         u \in Scripts /\ Completes(events) => work'.heard,
         work'.required = work.required,
         work'.pc # "idle",
         work'.pc = "completed" /\ work'.required =>
           work.pc = "completed" \/ \E v \in Uses : files[v] # {}
  PROVE  WorkInv'
<1>1. /\ job' \in [Uses -> Job]
      /\ \A v \in Uses \ {u} : job'[v] = job[v]
      /\ job'[u].pc = pc /\ job'[u].written = job[u].written
      /\ job'[u].read = job[u].read
  BY JobMoved
<1>2. /\ trail' \in [Uses -> Seq(Topics)]
      /\ \A v \in Uses \ {u} : trail'[v] = trail[v]
      /\ Says(u)' => Says(u) \/ (Completes(events) /\ Note(u, events))
  <2>1. CASE Note(u, events)
    BY <2>1, Noted
  <2>2. CASE UNCHANGED trail
    <3>1. trail \in [Uses -> Seq(Topics)]
      BY DEF WorkInv, Typed
    <3>2. trail' \in [Uses -> Seq(Topics)]
      BY <2>2, <3>1
    <3>3. \A v \in Uses \ {u} : trail'[v] = trail[v]
      BY <2>2
    <3>4. Says(u)' => Says(u)
      BY <2>2 DEF Says
    <3> QED BY <3>2, <3>3, <3>4
  <2> QED BY <2>1, <2>2
<1>3. Typed'
  BY <1>1, <1>2 DEF WorkInv, Typed
<1>4. Backed(u)'
  BY <1>1 DEF WorkInv, Backed
<1>5. u \in Scripts /\ Says(u)' => Says(u) \/ work'.heard
  BY <1>2
<1>6. files[u] \subseteq files'[u] /\ \A v \in Uses \ {u} : files'[v] = files[v]
  OBVIOUS
<1>7. work'.pc = "completed" /\ work'.required =>
        work.pc = "completed" \/ \E v \in Uses : files'[v] # {}
  OBVIOUS
<1> HIDE DEF Typed, Backed, Says, Completes
<1> QED BY <1>1, <1>2, <1>3, <1>4, <1>5, <1>6, <1>7, OneUse

\* The execution goes on, and no use does.
LEMMA WorkOnly ==
  ASSUME WorkInv, UNCHANGED <<job, trail, files>>, work' \in Work,
         work.heard => work'.heard, work'.required = work.required,
         work'.pc # "idle",
         work'.pc = "completed" /\ work'.required =>
           work.pc = "completed" \/ \E v \in Uses : files[v] # {}
  PROVE  WorkInv'
<1>1. Typed'
  BY DEF WorkInv, Typed
<1>2. \A u \in Uses : Backed(u)'
  BY DEF WorkInv, Backed
<1>3. (work.pc = "completed" /\ work.required => \E u \in Uses : files[u] # {})'
  BY DEF WorkInv
<1>4. (\A s \in Scripts : Says(s) => work.heard)'
  BY DEF WorkInv, Says
<1> QED BY <1>1, <1>2, <1>3, <1>4 DEF WorkInv

LEMMA TopicsAre ==
  /\ <<>> \in Seq(Topics)
  /\ \A a \in Topics : <<a>> \in Seq(Topics)
  /\ \A a, b \in Topics : <<a, b>> \in Seq(Topics)
  /\ \A a, b, c \in Topics : <<a, b, c>> \in Seq(Topics)
  OBVIOUS

LEMMA Silence ==
  /\ ~Completes(<<>>)
  /\ \A a \in Topics \ {"script.completed"} : ~Completes(<<a>>)
  /\ \A a, b \in Topics \ {"script.completed"} : ~Completes(<<a, b>>)
  /\ \A a, b, c \in Topics \ {"script.completed"} : ~Completes(<<a, b, c>>)
  BY DEF Completes

\* The events of a tool that failed.
Reports == {<<"tool.failed">>, <<"tool.failed", "failure.created">>}

LEMMA ReportsAre ==
  \A more \in Reports :
    more \in Seq(Topics) /\ ~Completes(more) /\ <<>> \o more = more
<1>1. /\ "tool.failed" \in Topics \ {"script.completed"}
      /\ "failure.created" \in Topics \ {"script.completed"}
  BY DEF Topics
<1>2. <<"tool.failed">> \in Seq(Topics) /\ ~Completes(<<"tool.failed">>)
  BY <1>1, TopicsAre, Silence
<1>3. /\ <<"tool.failed", "failure.created">> \in Seq(Topics)
      /\ ~Completes(<<"tool.failed", "failure.created">>)
  BY <1>1, TopicsAre, Silence
<1>4. \A more \in Reports : more \in Seq(Topics) /\ ~Completes(more)
  BY <1>2, <1>3 DEF Reports
<1>5. \A more \in Reports : <<>> \o more = more
  BY <1>4, ConcatEmptySeq
<1> QED BY <1>4, <1>5

LEMMA BothSilent ==
  ASSUME NEW events \in Seq(Topics), ~Completes(events), NEW more \in Reports
  PROVE  events \o more \in Seq(Topics) /\ ~Completes(events \o more)
<1>1. more \in Seq(Topics) /\ ~Completes(more)
  BY ReportsAre
<1>2. /\ events \o more \in Seq(Topics)
      /\ Len(events \o more) = Len(events) + Len(more)
      /\ \A i \in 1 .. Len(events) + Len(more) :
           (events \o more)[i] = IF i <= Len(events) THEN events[i]
                                                   ELSE more[i - Len(events)]
  BY <1>1, ConcatProperties
<1>3. ASSUME NEW i \in DOMAIN (events \o more)
      PROVE  (events \o more)[i] # "script.completed"
  <2>1. i \in 1 .. Len(events) + Len(more) /\ Len(events) \in Nat /\ Len(more) \in Nat
    BY <1>1, <1>2
  <2>2. CASE i <= Len(events)
    BY <1>2, <2>1, <2>2 DEF Completes
  <2>3. CASE ~(i <= Len(events))
    <3>1. i - Len(events) \in DOMAIN more
      BY <1>1, <2>1, <2>3
    <3>2. (events \o more)[i] = more[i - Len(events)]
      BY <1>2, <2>1, <2>3
    <3> QED BY <1>1, <3>1, <3>2 DEF Completes
  <2> QED BY <2>2, <2>3
<1> QED BY <1>2, <1>3 DEF Completes

LEMMA ToolFailedIs ==
  ASSUME NEW u, NEW events, ToolFailed(u, events)
  PROVE  \E more \in Reports :
           /\ Note(u, events \o more) /\ faults' \in {faults, faults + 1}
           /\ more = <<"tool.failed">> => faults' = faults + 1
<1>1. CASE Note(u, events \o <<"tool.failed", "failure.created">>) /\ UNCHANGED faults
  <2>1. <<"tool.failed", "failure.created">> # <<"tool.failed">>
    <3>1. Len(<<"tool.failed", "failure.created">>) = 2 /\ Len(<<"tool.failed">>) = 1
      OBVIOUS
    <3> QED BY <3>1
  <2> QED BY <1>1, <2>1, Zenon DEF Reports
<1>2. CASE /\ faults' = faults + 1
           /\ Note(u, events \o <<"tool.failed">>)
  BY <1>2, Zenon DEF Reports
<1> QED BY <1>1, <1>2 DEF ToolFailed

LEMMA WorkMoved ==
  ASSUME WorkInv, NEW pc \in Stages, work' = [work EXCEPT !.pc = pc]
  PROVE  /\ work' \in Work /\ work'.pc = pc /\ work'.heard = work.heard
         /\ work'.required = work.required /\ work'.attempt = work.attempt
  BY DEF WorkInv, Typed, Work

LEMMA WorkKept ==
  ASSUME WorkInv, UNCHANGED work
  PROVE  /\ work' \in Work /\ work'.heard = work.heard
         /\ work'.required = work.required /\ work'.pc = work.pc
  BY DEF WorkInv, Typed

\* While a use goes on the execution is not where it began.
LEMMA Begun ==
  ASSUME WorkInv, NEW u \in Uses, ~Doing(u, "idle")
  PROVE  work.pc # "idle"
  BY DEF WorkInv

LEMMA DoingIs ==
  ASSUME NEW u, NEW pc \in Places, Doing(u, pc)
  PROVE  /\ pc # "idle" => ~Doing(u, "idle")
         /\ job[u].pc = pc
  BY DEF Doing

-----------------------------------------------------------------------------
(* The steps of a command *)

LEMMA StartCommandInv == ASSUME WorkInv, StartCommand PROVE WorkInv'
<1>1. "entering" \in Places /\ "command" \in Stages
  BY DEF Places, Stages
<1>2. job' = [job EXCEPT ![Command].pc = "entering"] /\ UNCHANGED <<trail, files>>
        /\ work' = [work EXCEPT !.pc = "command"] /\ work.pc = "idle"
  BY DEF StartCommand
<1>3. job[Command].pc \in Early
  BY <1>2, UsesAreCalls DEF WorkInv, Doing, Early
<1>4. /\ work' \in Work /\ work'.pc = "command" /\ work'.heard = work.heard
      /\ work'.required = work.required
  BY <1>1, <1>2, WorkMoved
<1> HIDE DEF WorkInv, Early, Places, Stages, Topics, Work
<1> QED BY <1>1, <1>2, <1>3, <1>4, UsesAreCalls, TopicsAre, MovesOn

LEMMA LeaveInv ==
  ASSUME WorkInv, NEW u \in Uses, Leave(u), NEW events \in Seq(Topics),
         ~Completes(events), Note(u, events) \/ UNCHANGED trail,
         ~Doing(u, "idle"), UNCHANGED <<work, files>>
  PROVE  WorkInv'
<1>1. "leaving" \in Places /\ "leaving" \notin Early
  BY DEF Places, Early
<1>2. /\ job' = [job EXCEPT ![u].pc = "leaving", ![u].raised = TRUE]
      /\ Note(u, events) \/ UNCHANGED trail
  BY DEF Leave
<1>3. /\ work' \in Work /\ work'.pc = work.pc /\ work'.heard = work.heard
      /\ work'.required = work.required
  BY WorkKept
<1>4. work.pc # "idle"
  BY Begun
<1> HIDE DEF WorkInv, Early, Places, Stages, Topics, Work
<1> QED BY <1>1, <1>2, <1>3, <1>4, MovesOn

LEMMA PlanCommandInv == ASSUME WorkInv, PlanCommand PROVE WorkInv'
<1>1. "running" \in Places /\ "running" \in Early /\ "entering" \in Early
        /\ "tool.started" \in Topics /\ "entering" \in Places
  BY DEF Places, Early, Topics
<1>2. Doing(Command, "entering") /\ UNCHANGED <<work, files>>
  BY DEF PlanCommand
<1>3. ~Doing(Command, "idle") /\ job[Command].pc = "entering"
  BY <1>1, <1>2, DoingIs
<1>4. CASE Leave(Command) /\ UNCHANGED trail
  BY <1>2, <1>3, <1>4, LeaveInv, UsesAreCalls, TopicsAre, Silence
<1>5. CASE /\ job' = [job EXCEPT ![Command].pc = "running"]
           /\ Note(Command, <<"tool.started">>)
  <2>1. /\ work' \in Work /\ work'.pc = work.pc /\ work'.heard = work.heard
        /\ work'.required = work.required /\ work.pc # "idle"
    BY <1>2, <1>3, WorkKept, Begun, UsesAreCalls
  <2>2. Command \notin Scripts /\ <<"tool.started">> \in Seq(Topics)
    BY <1>1, UsesAreCalls, TopicsAre
  <2> HIDE DEF WorkInv, Early, Places, Stages, Topics, Work
  <2> QED BY <1>1, <1>2, <1>3, <1>5, <2>1, <2>2, UsesAreCalls, MovesOn
<1> QED BY <1>4, <1>5 DEF PlanCommand

LEMMA DecideInv == ASSUME WorkInv, Decide PROVE WorkInv'
<1> DEFINE backed == job[Command].exit = 0
                       /\ (work.required => job[Command].read # {})
           pc == IF backed THEN "completed" ELSE "failed"
<1>1. "leaving" \in Places /\ "leaving" \notin Early /\ "storing" \in Places
        /\ pc \in Stages /\ pc # "idle"
  BY DEF Places, Early, Stages
<1>2. /\ work' = [work EXCEPT !.pc = pc] /\ Stored(Command)
      /\ job' = [job EXCEPT ![Command].pc = "leaving"]
      /\ UNCHANGED <<trail, files>>
  BY DEF Decide
<1>3. /\ work' \in Work /\ work'.pc = pc /\ work'.heard = work.heard
      /\ work'.required = work.required
  BY <1>1, <1>2, WorkMoved
<1>4. work'.pc = "completed" /\ work'.required => \E v \in Uses : files[v] # {}
  <2> SUFFICES ASSUME work'.pc = "completed", work'.required
               PROVE  files[Command] # {}
    BY UsesAreCalls
  <2>1. job[Command].read # {}
    BY <1>3
  <2> QED BY <1>2, <2>1 DEF Stored
<1> HIDE DEF WorkInv, Early, Places, Stages, Topics, Work, pc
<1> QED BY <1>1, <1>2, <1>3, <1>4, UsesAreCalls, TopicsAre, MovesOn

LEMMA CommandStoreFailsInv == ASSUME WorkInv, CommandStoreFails PROVE WorkInv'
<1>1. "storing" \in Places
  BY DEF Places
<1>2. ~Doing(Command, "idle") /\ Leave(Command) /\ UNCHANGED <<work, trail, files>>
  BY <1>1, DoingIs DEF CommandStoreFails
<1> QED BY <1>2, LeaveInv, UsesAreCalls, TopicsAre, Silence

LEMMA CommandEndsInv == ASSUME WorkInv, CommandEnds PROVE WorkInv'
<1> DEFINE pc == IF work.pc = "command" THEN "failed" ELSE work.pc
<1>1. "ended" \in Places /\ "ended" \notin Early
  BY DEF Places, Early
<1>2. /\ work' = [work EXCEPT !.pc = pc] /\ ~Doing(Command, "idle")
      /\ job' = [job EXCEPT ![Command].pc = "ended"]
      /\ UNCHANGED <<trail, files>>
  BY DEF CommandEnds, Doing
<1>3. pc \in Stages /\ pc # "idle" /\ (pc = "completed" => work.pc = "completed")
  BY <1>2, Begun, UsesAreCalls DEF WorkInv, Typed, Work, Stages
<1>4. /\ work' \in Work /\ work'.pc = pc /\ work'.heard = work.heard
      /\ work'.required = work.required
  BY <1>2, <1>3, WorkMoved
<1> HIDE DEF WorkInv, Early, Places, Stages, Topics, Work, pc
<1> QED BY <1>1, <1>2, <1>3, <1>4, UsesAreCalls, TopicsAre, MovesOn
-----------------------------------------------------------------------------
(* The steps of scripts *)

LEMMA RefusalsAre ==
  \A events \in Refusals \cup Rejections :
    events \in Seq(Topics) /\ ~Completes(events)
<1>1. {"tool.started", "script.started", "script.failed", "policy.denied"}
        \subseteq Topics \ {"script.completed"}
  BY DEF Topics
<1>2. <<>> \in Seq(Topics) /\ ~Completes(<<>>)
  BY TopicsAre, Silence
<1>3. \A a \in {"tool.started", "policy.denied"} :
        <<a>> \in Seq(Topics) /\ ~Completes(<<a>>)
  BY <1>1, TopicsAre, Silence
<1>4. /\ <<"tool.started", "script.started", "script.failed">> \in Seq(Topics)
      /\ ~Completes(<<"tool.started", "script.started", "script.failed">>)
  BY <1>1, TopicsAre, Silence
<1> QED BY <1>2, <1>3, <1>4 DEF Refusals, Rejections

\* A script's call that ends, and what the agent makes of it.
LEMMA ScriptOver ==
  ASSUME WorkInv, NEW s \in Scripts, NEW events \in Seq(Topics), Note(s, events),
         NEW raises \in BOOLEAN, Hear(raises), UNCHANGED files, work.pc # "idle",
         \/ job' = [job EXCEPT ![s].pc = "ended"]
         \/ job' = [job EXCEPT ![s].pc = "ended", ![s].raised = TRUE],
         Completes(events) => ~raises
  PROVE  WorkInv'
<1>1. "ended" \in Places /\ "ended" \notin Early
  BY DEF Places, Early
<1>2. /\ work' \in Work /\ work'.heard = (work.heard \/ ~raises)
      /\ work'.required = work.required /\ work'.pc \in {work.pc, "judging"}
  BY Heard
<1>3. s \in Uses /\ s # Command
  BY UsesAreCalls
<1> HIDE DEF WorkInv, Early, Places, Stages, Topics, Work
<1> QED BY <1>1, <1>2, <1>3, MovesOn

LEMMA RefusedScriptInv ==
  ASSUME WorkInv, NEW s \in Scripts, RefusedScript(s) PROVE WorkInv'
<1>1. PICK events \in Seq(Topics) : ~Completes(events) /\ Note(s, events)
  <2>1. CASE \E events \in Refusals : Note(s, events)
    BY <2>1, RefusalsAre
  <2>2. CASE \E events \in Rejections : ToolFailed(s, events)
    <3>1. PICK first \in Rejections, more \in Reports : Note(s, first \o more)
      BY <2>2, ToolFailedIs
    <3> QED BY <3>1, RefusalsAre, BothSilent
  <2> QED BY <2>1, <2>2 DEF RefusedScript
<1>2. PICK raises \in BOOLEAN : Hear(raises)
  BY DEF RefusedScript
<1>3. /\ job' = [job EXCEPT ![s].pc = "ended", ![s].raised = TRUE]
      /\ UNCHANGED files /\ work.pc # "idle"
  BY DEF RefusedScript
<1> QED BY <1>1, <1>2, <1>3, ScriptOver

LEMMA ScriptRaisesInv ==
  ASSUME WorkInv, NEW s \in Scripts, ScriptRaises(s) PROVE WorkInv'
<1>1. PICK events \in Seq(Topics) : ~Completes(events) /\ Note(s, events)
  <2>1. "script.failed" \in Topics \ {"script.completed"}
    BY DEF Topics
  <2>2. <<"script.failed">> \in Seq(Topics) /\ ~Completes(<<"script.failed">>)
    BY <2>1, TopicsAre, Silence
  <2>3. PICK more \in Reports : Note(s, <<"script.failed">> \o more)
    BY ToolFailedIs DEF ScriptRaises
  <2> QED BY <2>2, <2>3, BothSilent
<1>2. PICK raises \in BOOLEAN : Hear(raises)
  BY DEF ScriptRaises
<1>3. /\ job' = [job EXCEPT ![s].pc = "ended", ![s].raised = TRUE]
      /\ UNCHANGED files
  BY DEF ScriptRaises
<1>4. work.pc # "idle"
  BY UsesAreCalls, Begun DEF ScriptRaises, Doing
<1> QED BY <1>1, <1>2, <1>3, <1>4, ScriptOver

LEMMA ScriptStoreFailsInv ==
  ASSUME WorkInv, NEW s \in Scripts, ScriptStoreFails(s) PROVE WorkInv'
<1>1. PICK events \in Seq(Topics) : ~Completes(events) /\ Note(s, events)
  <2>1. \E more \in Reports : Note(s, more)
    BY Zenon DEF ScriptStoreFails, Reports
  <2> QED BY <2>1, ReportsAre
<1>2. PICK raises \in BOOLEAN : Hear(raises)
  BY DEF ScriptStoreFails
<1>3. /\ job' = [job EXCEPT ![s].pc = "ended", ![s].raised = TRUE]
      /\ UNCHANGED files
  BY DEF ScriptStoreFails
<1>4. work.pc # "idle"
  BY UsesAreCalls, Begun DEF ScriptStoreFails, Doing
<1> QED BY <1>1, <1>2, <1>3, <1>4, ScriptOver

LEMMA ScriptEndsInv ==
  ASSUME WorkInv, NEW s \in Scripts, ScriptEnds(s) PROVE WorkInv'
<1> DEFINE topic == IF job[s].exit = 0 THEN "script.completed" ELSE "script.failed"
           events == <<topic, "tool.completed">>
<1>1. events \in Seq(Topics)
  <2>1. topic \in Topics /\ "tool.completed" \in Topics
    BY DEF Topics
  <2> HIDE DEF topic
  <2> QED BY <2>1, TopicsAre
<1>2. /\ job' = [job EXCEPT ![s].pc = "ended"] /\ Hear(FALSE)
      /\ Note(s, events) /\ UNCHANGED files
  BY DEF ScriptEnds
<1>3. work.pc # "idle"
  BY UsesAreCalls, Begun DEF ScriptEnds, Stored, Doing
<1> HIDE DEF events
<1> QED BY <1>1, <1>2, <1>3, ScriptOver

\* A script's call that goes on without the agent hearing of it.
LEMMA ScriptOn ==
  ASSUME WorkInv, NEW s \in Scripts, NEW pc \in Places,
         NEW events \in Seq(Topics), ~Completes(events),
         Note(s, events) \/ UNCHANGED trail,
         job' = [job EXCEPT ![s].pc = pc], pc \in Early => job[s].pc \in Early,
         UNCHANGED <<work, files>>, work.pc # "idle"
  PROVE  WorkInv'
<1>1. /\ work' \in Work /\ work'.pc = work.pc /\ work'.heard = work.heard
      /\ work'.required = work.required
  BY WorkKept
<1>2. s \in Uses /\ s # Command
  BY UsesAreCalls
<1>3. TRUE \in BOOLEAN
  OBVIOUS
<1> HIDE DEF WorkInv, Early, Places, Stages, Topics, Work
<1> QED BY <1>1, <1>2, <1>3, MovesOn

LEMMA StartScriptInv ==
  ASSUME WorkInv, NEW s \in Scripts, StartScript(s) PROVE WorkInv'
<1> DEFINE events == <<"tool.started", "script.started">>
<1>1. events \in Seq(Topics) /\ ~Completes(events)
  <2>1. {"tool.started", "script.started"} \subseteq Topics \ {"script.completed"}
    BY DEF Topics
  <2> QED BY <2>1, TopicsAre, Silence
<1>2. /\ job' = [job EXCEPT ![s].pc = "entering"] /\ job[s].pc = "idle"
      /\ Note(s, events) /\ UNCHANGED <<work, files>> /\ work.pc # "idle"
  BY DEF StartScript, Doing
<1>3. "entering" \in Places /\ "idle" \in Early
  BY DEF Places, Early
<1> HIDE DEF events
<1> QED BY <1>1, <1>2, <1>3, ScriptOn

LEMMA WriteFilesInv ==
  ASSUME WorkInv, NEW s \in Scripts, WriteFiles(s) PROVE WorkInv'
<1>1. "running" \in Places /\ "entering" \in Early /\ "entering" \in Places
  BY DEF Places, Early
<1>2. Doing(s, "entering") /\ UNCHANGED <<work, trail, files>> /\ work.pc # "idle"
  BY UsesAreCalls, Begun DEF WriteFiles, Doing
<1>3. CASE Leave(s)
  BY <1>1, <1>2, <1>3, DoingIs, LeaveInv, UsesAreCalls, TopicsAre, Silence
<1>4. CASE job' = [job EXCEPT ![s].pc = "running"]
  BY <1>1, <1>2, <1>4, DoingIs, ScriptOn, TopicsAre, Silence
<1> QED BY <1>3, <1>4 DEF WriteFiles

LEMMA ExecutedInv ==
  ASSUME WorkInv, NEW s \in Scripts, Executed(s) PROVE WorkInv'
<1>1. "storing" \in Places /\ "storing" \notin Early
  BY DEF Places, Early
<1>2. /\ job' = [job EXCEPT ![s].pc = "storing"]
      /\ UNCHANGED <<work, trail, files>> /\ work.pc # "idle"
  BY UsesAreCalls, Begun DEF Executed, Doing
<1> QED BY <1>1, <1>2, ScriptOn, TopicsAre, Silence

-----------------------------------------------------------------------------
(* The steps of any use *)

\* A use whose files change, and what is read of them.
LEMMA FilesMove ==
  ASSUME WorkInv, NEW u \in Uses, ~Doing(u, "idle"), UNCHANGED work,
         NEW rec \in Job, job' = [job EXCEPT ![u] = rec],
         NEW stored \in SUBSET Paths, files' = [files EXCEPT ![u] = stored],
         NEW events \in Seq(Topics), ~Completes(events), Note(u, events),
         files[u] \subseteq stored,
         stored \subseteq rec.written, rec.read \subseteq rec.written,
         rec.pc \in Early => stored = {} /\ rec.read = {}
  PROVE  WorkInv'
<1>1. job \in [Uses -> Job] /\ files \in [Uses -> SUBSET Paths]
  BY DEF WorkInv, Typed
<1>2. /\ job' \in [Uses -> Job] /\ job'[u] = rec
      /\ \A v \in Uses \ {u} : job'[v] = job[v]
  BY <1>1
<1>3. /\ files' \in [Uses -> SUBSET Paths] /\ files'[u] = stored
      /\ \A v \in Uses \ {u} : files'[v] = files[v]
  BY <1>1
<1>4. /\ trail' \in [Uses -> Seq(Topics)]
      /\ \A v \in Uses \ {u} : trail'[v] = trail[v]
      /\ Says(u)' => Says(u)
  BY Noted
<1>5. /\ work' \in Work /\ work'.heard = work.heard
      /\ work'.required = work.required /\ work'.pc = work.pc
      /\ work.pc # "idle"
  BY WorkKept, Begun
<1>6. Typed'
  BY <1>2, <1>3, <1>4, <1>5 DEF Typed
<1>7. Backed(u)'
  BY <1>2, <1>3 DEF Backed
<1> HIDE DEF WorkInv, Typed, Backed, Says, Work, Job, Early, Topics
<1> QED BY <1>2, <1>3, <1>4, <1>5, <1>6, <1>7, OneUse

LEMMA RunCommandInv ==
  ASSUME WorkInv, NEW u \in Uses, RunCommand(u) PROVE WorkInv'
<1>1. Doing(u, "running") /\ UNCHANGED <<work, files>>
  BY DEF RunCommand
<1>2. ~Doing(u, "idle")
  BY <1>1 DEF Doing
<1>3. "tool.completed" \in Topics \ {"script.completed"}
  BY DEF Topics
<1>4. CASE /\ Leave(u)
           /\ IF u = Command THEN ToolFailed(u, <<>>) ELSE UNCHANGED <<trail, faults>>
  <2>1. PICK events \in Seq(Topics) :
          ~Completes(events) /\ (Note(u, events) \/ UNCHANGED trail)
    <3>1. CASE UNCHANGED trail
      BY <3>1, TopicsAre, Silence
    <3>2. CASE ToolFailed(u, <<>>)
      <4>1. PICK more \in Reports : Note(u, <<>> \o more)
        BY <3>2, ToolFailedIs
      <4> QED BY <4>1, TopicsAre, Silence, BothSilent
    <3> QED BY <1>4, <3>1, <3>2
  <2> QED BY <1>1, <1>2, <1>4, <2>1, LeaveInv
<1>5. CASE /\ \E exit \in {0, 1}, written \in SUBSET Paths :
                job' = [job EXCEPT ![u].pc = "reading", ![u].exit = exit,
                                   ![u].written = written]
           /\ Note(u, IF u = Command THEN <<"tool.completed">> ELSE <<>>)
  <2> DEFINE events == IF u = Command THEN <<"tool.completed">> ELSE <<>>
  <2>1. events \in Seq(Topics) /\ ~Completes(events)
    BY <1>3, TopicsAre, Silence
  <2>2. PICK exit \in {0, 1}, written \in SUBSET Paths :
          job' = [job EXCEPT ![u].pc = "reading", ![u].exit = exit,
                             ![u].written = written]
    BY <1>5
  <2>3. /\ job \in [Uses -> Job] /\ job[u] \in Job
        /\ files \in [Uses -> SUBSET Paths]
    BY DEF WorkInv, Typed
  <2> DEFINE rec == [job[u] EXCEPT !.pc = "reading", !.exit = exit,
                                   !.written = written]
  <2>4. files[u] = {} /\ job[u].read = {}
    BY <1>1 DEF WorkInv, Backed, Early, Doing
  <2>5. /\ rec \in Job /\ rec.written = written /\ rec.read = job[u].read
        /\ job' = [job EXCEPT ![u] = rec]
    <3>1. "reading" \in Places
      BY DEF Places
    <3> QED BY <2>2, <2>3, <3>1 DEF Job
  <2>6. files' = [files EXCEPT ![u] = {}] /\ {} \in SUBSET Paths
    BY <1>1, <2>3, <2>4
  <2>7. Note(u, events)
    BY <1>5
  <2> HIDE DEF WorkInv, Job, Topics, Early, rec, events
  <2> QED BY <1>1, <1>2, <2>1, <2>4, <2>5, <2>6, <2>7, FilesMove
<1> QED BY <1>4, <1>5 DEF RunCommand

LEMMA CollectInv ==
  ASSUME WorkInv, NEW u \in Uses, Collect(u) PROVE WorkInv'
<1>1. /\ Doing(u, "reading") /\ ~Doing(u, "idle")
      /\ UNCHANGED <<work, trail, files>>
  BY DEF Collect, Doing
<1> DEFINE pc == IF u = Command THEN "storing" ELSE "leaving"
<1>2. PICK read \in SUBSET job[u].written :
        job' = [job EXCEPT ![u].read = read, ![u].pc = pc]
  BY DEF Collect
<1>3. /\ job \in [Uses -> Job] /\ job[u] \in Job
      /\ files \in [Uses -> SUBSET Paths] /\ trail \in [Uses -> Seq(Topics)]
  BY DEF WorkInv, Typed
<1> DEFINE rec == [job[u] EXCEPT !.read = read, !.pc = pc]
<1>4. pc \in Places /\ pc \notin Early
  BY DEF Places, Early
<1>5. /\ rec \in Job /\ rec.written = job[u].written /\ rec.read = read
      /\ rec.pc = pc /\ job' = [job EXCEPT ![u] = rec]
  <2> HIDE DEF pc
  <2> QED BY <1>2, <1>3, <1>4 DEF Job
<1>6. files' = [files EXCEPT ![u] = files[u]] /\ files[u] \in SUBSET Paths
  BY <1>1, <1>3
<1>7. files[u] \subseteq job[u].written
  BY DEF WorkInv, Backed
<1>8. Note(u, <<>>)
  <2>1. trail[u] \in Seq(Topics)
    BY <1>3
  <2>2. trail[u] \o <<>> = trail[u]
    BY <2>1
  <2>3. trail' = [trail EXCEPT ![u] = trail[u]]
    BY <1>1, <1>3
  <2> QED BY <2>2, <2>3 DEF Note
<1> HIDE DEF WorkInv, Job, Topics, Early, rec, pc
<1> QED BY <1>1, <1>4, <1>5, <1>6, <1>7, <1>8, TopicsAre, Silence, FilesMove

LEMMA StoreInv ==
  ASSUME WorkInv, NEW u \in Uses, Store(u) PROVE WorkInv'
<1>1. Doing(u, "storing") /\ ~Doing(u, "idle") /\ UNCHANGED <<work, job>>
  BY DEF Store, Doing
<1>2. PICK path \in job[u].read \ files[u] :
        files' = [files EXCEPT ![u] = files[u] \cup {path}]
  BY DEF Store
<1>3. /\ job \in [Uses -> Job] /\ job[u] \in Job
      /\ files \in [Uses -> SUBSET Paths]
  BY DEF WorkInv, Typed
<1>4. job' = [job EXCEPT ![u] = job[u]]
  BY <1>1, <1>3
<1>5. /\ files[u] \subseteq job[u].written /\ job[u].read \subseteq job[u].written
      /\ job[u].written \subseteq Paths
  BY <1>3 DEF WorkInv, Backed, Job
<1>6. job[u].pc \notin Early
  BY <1>1 DEF Doing, Early
<1>7. <<"artifact.created">> \in Seq(Topics) /\ ~Completes(<<"artifact.created">>)
  <2>1. "artifact.created" \in Topics \ {"script.completed"}
    BY DEF Topics
  <2> QED BY <2>1, TopicsAre, Silence
<1>8. Note(u, <<"artifact.created">>)
  BY DEF Store
<1> DEFINE stored == files[u] \cup {path}
<1>9. stored \in SUBSET Paths /\ files[u] \subseteq stored
        /\ stored \subseteq job[u].written /\ files' = [files EXCEPT ![u] = stored]
  BY <1>2, <1>5
<1> HIDE DEF WorkInv, Job, Topics, Early, stored
<1> QED BY <1>1, <1>3, <1>4, <1>5, <1>6, <1>7, <1>8, <1>9, FilesMove

-----------------------------------------------------------------------------
(* The steps of the execution *)

LEMMA StartAgentInv == ASSUME WorkInv, StartAgent PROVE WorkInv'
<1>1. work \in Work
  BY DEF WorkInv, Typed
<1>2. work' = [work EXCEPT !.pc = "agent", !.attempt = 1]
        /\ UNCHANGED <<job, trail, files>>
  BY DEF StartAgent
<1>3. /\ work' \in Work /\ work'.pc = "agent" /\ work'.heard = work.heard
      /\ work'.required = work.required
  BY <1>1, <1>2 DEF Work, Stages
<1> QED BY <1>2, <1>3, WorkOnly

LEMMA AgentEndsInv == ASSUME WorkInv, AgentEnds PROVE WorkInv'
<1>1. work' = [work EXCEPT !.pc = "judging"] /\ UNCHANGED <<job, trail, files>>
  BY DEF AgentEnds
<1>2. "judging" \in Stages
  BY DEF Stages
<1>3. /\ work' \in Work /\ work'.pc = "judging" /\ work'.heard = work.heard
      /\ work'.required = work.required
  BY <1>1, <1>2, WorkMoved
<1> QED BY <1>1, <1>3, WorkOnly

LEMMA JudgeInv == ASSUME WorkInv, Judge PROVE WorkInv'
<1>1. work \in Work /\ UNCHANGED <<job, trail, files>>
  BY DEF WorkInv, Typed, Judge
<1>2. CASE work.heard
  <2>1. work' = [work EXCEPT !.pc = IF Delivered THEN "completed" ELSE "failed"]
    BY <1>2 DEF Judge
  <2>2. /\ work' \in Work /\ work'.heard = work.heard
        /\ work'.required = work.required /\ work'.pc \in {"completed", "failed"}
        /\ work'.pc = "completed" => Delivered
    BY <1>1, <2>1 DEF Work, Stages
  <2>3. Delivered => \E v \in Uses : files[v] # {}
    BY UsesAreCalls DEF Delivered
  <2> QED BY <1>1, <2>2, <2>3, WorkOnly
<1>3. CASE ~work.heard
  <2>1. \/ work' = [work EXCEPT !.pc = "agent", !.attempt = work.attempt + 1]
        \/ work' = [work EXCEPT !.pc = "failed"]
    BY <1>3 DEF Judge
  <2>2. /\ work' \in Work /\ work'.heard = work.heard
        /\ work'.required = work.required /\ work'.pc \in {"agent", "failed"}
    <3>1. CASE work' = [work EXCEPT !.pc = "agent", !.attempt = work.attempt + 1]
      <4>1. work.attempt + 1 \in Nat
        BY <1>1 DEF Work
      <4> QED BY <1>1, <3>1, <4>1 DEF Work, Stages
    <3>2. CASE work' = [work EXCEPT !.pc = "failed"]
      BY <1>1, <3>2 DEF Work, Stages
    <3> QED BY <2>1, <3>1, <3>2
  <2> QED BY <1>1, <2>2, WorkOnly
<1> QED BY <1>2, <1>3

LEMMA IdleInv == ASSUME WorkInv, UNCHANGED workVars PROVE WorkInv'
  BY DEF workVars, WorkInv, Typed, Backed, Says, Doing

\* Every step of the work keeps the invariant.
LEMMA WorkStepInv == ASSUME WorkInv, [WorkNext]_allVars PROVE WorkInv'
<1>1. CASE StartCommand
  BY <1>1, StartCommandInv
<1>2. CASE StartAgent
  BY <1>2, StartAgentInv
<1>3. CASE WorkStep
  <2>1. CASE PlanCommand \/ Decide \/ CommandStoreFails \/ CommandEnds
    BY <2>1, PlanCommandInv, DecideInv, CommandStoreFailsInv, CommandEndsInv
  <2>2. CASE \E u \in Uses : RunCommand(u) \/ Collect(u) \/ Store(u)
    BY <2>2, RunCommandInv, CollectInv, StoreInv
  <2>3. CASE \E s \in Scripts : ScriptStep(s)
    BY <2>3, RefusedScriptInv, StartScriptInv, WriteFilesInv, ExecutedInv,
       ScriptRaisesInv, ScriptStoreFailsInv, ScriptEndsInv DEF ScriptStep
  <2>4. CASE AgentEnds \/ Judge
    BY <2>4, AgentEndsInv, JudgeInv
  <2> QED BY <1>3, <2>1, <2>2, <2>3, <2>4 DEF WorkStep
<1>4. CASE OtherStep \/ \E c \in Calls : CallStep(c)
  BY <1>4, IdleInv DEF OtherStep, CallStep
<1>5. CASE UNCHANGED allVars
  BY <1>5, IdleInv DEF allVars
<1> QED BY <1>1, <1>2, <1>3, <1>4, <1>5 DEF WorkNext

LEMMA WorkInvariant == WorkSpec => []WorkInv
<1>1. Init /\ WorkInit => WorkInv
  BY WorkInitInv
<1>2. WorkInv /\ [WorkNext]_allVars => WorkInv'
  BY WorkStepInv
<1> QED BY <1>1, <1>2, PTL DEF WorkSpec

-----------------------------------------------------------------------------
(* The properties *)

\* A subtask that must deliver a file completes only with a stored one, and
\* every stored file was written in the sandbox of its use.
THEOREM CompletedIsBackedHolds == WorkSpec => []CompletedIsBacked
<1>1. WorkInv => CompletedIsBacked
  BY DEF WorkInv, Backed, CompletedIsBacked
<1> QED BY <1>1, WorkInvariant, PTL

\* A step that asks the agent again, or for the first time.
LEMMA AttemptRises ==
  ASSUME WorkInv, [WorkNext]_allVars, work'.attempt > work.attempt
  PROVE  ~work.heard
<1>1. work \in Work /\ work.attempt \in Nat
  BY DEF WorkInv, Typed, Work
<1>2. ~(work'.attempt = work.attempt)
  BY <1>1
<1>3. CASE StartCommand
  BY <1>1, <1>2, <1>3 DEF StartCommand, Work
<1>4. CASE StartAgent
  BY <1>4 DEF StartAgent, WorkInv
<1>5. CASE WorkStep
  <2>1. CASE PlanCommand \/ CommandStoreFails
    BY <1>2, <2>1 DEF PlanCommand, CommandStoreFails
  <2>2. CASE Decide \/ CommandEnds
    BY <1>1, <1>2, <2>2 DEF Decide, CommandEnds, Work
  <2>3. CASE \E u \in Uses : RunCommand(u) \/ Collect(u) \/ Store(u)
    BY <1>2, <2>3 DEF RunCommand, Collect, Store
  <2>4. CASE \E s \in Scripts : StartScript(s) \/ WriteFiles(s) \/ Executed(s)
    BY <1>2, <2>4 DEF StartScript, WriteFiles, Executed
  <2>5. CASE \E s \in Scripts : \/ RefusedScript(s) \/ ScriptRaises(s)
                                \/ ScriptStoreFails(s) \/ ScriptEnds(s)
    <3>1. \E raises \in BOOLEAN : Hear(raises)
      BY <2>5 DEF RefusedScript, ScriptRaises, ScriptStoreFails, ScriptEnds
    <3> QED BY <1>2, <3>1, Heard
  <2>6. CASE AgentEnds
    BY <1>1, <1>2, <2>6 DEF AgentEnds, Work
  <2>7. CASE Judge
    BY <1>1, <1>2, <2>7 DEF Judge, Work
  <2> QED BY <1>5, <2>1, <2>2, <2>3, <2>4, <2>5, <2>6, <2>7 DEF WorkStep, ScriptStep
<1>6. CASE OtherStep \/ (\E c \in Calls : CallStep(c)) \/ UNCHANGED allVars
  BY <1>2, <1>6 DEF OtherStep, CallStep, workVars, allVars
<1> QED BY <1>3, <1>4, <1>5, <1>6 DEF WorkNext

\* The agent is asked again only while no script of its has ended well.
THEOREM NotRedoneHolds == WorkSpec => NotRedone
<1>1. ASSUME WorkInv, [WorkNext]_allVars
      PROVE  [work'.attempt > work.attempt =>
                \A s \in Scripts : Count(s, {"script.completed"}) = 0]_allVars
  <2> SUFFICES ASSUME work'.attempt > work.attempt, NEW s \in Scripts
               PROVE  Count(s, {"script.completed"}) = 0
    OBVIOUS
  <2>1. ~Says(s)
    BY <1>1, AttemptRises DEF WorkInv
  <2>2. {i \in DOMAIN trail[s] : trail[s][i] \in {"script.completed"}} = {}
    BY <2>1 DEF Says, Completes
  <2> QED BY <2>2, FS_EmptySet DEF Count
<1> QED BY <1>1, WorkInvariant, PTL DEF WorkSpec, NotRedone

-----------------------------------------------------------------------------
(* The audit trail *)

\* How many events of s are among topics.
Hits(s, topics) == Cardinality({i \in DOMAIN s : s[i] \in topics})

ToolEnds   == {"tool.completed", "tool.failed"}
ScriptEnded == {"script.completed", "script.failed"}
Lasts == {"tool.completed", "failure.created", "policy.denied"}

\* The trail s of a use u whose job is j and whose stored files are fs, after
\* f faults: a command has events of its tool only; a script has said that it
\* and its tool call started, and says no more of them before both end; a tool
\* that failed has left its report, unless the repository has failed.
TrailOK(u, s, j, fs, f) ==
  /\ s \in Seq(Topics)
  /\ IsFiniteSet(fs) /\ fs \subseteq j.read
  /\ Hits(s, {"artifact.created"}) = Cardinality(fs)
  /\ f > 0 \/ Hits(s, {"failure.created"}) = Hits(s, {"tool.failed"})
  /\ j.pc = "idle" => s = <<>>
  /\ u = Command =>
       /\ Hits(s, {"script.started"}) = 0 /\ Hits(s, ScriptEnded) = 0
       /\ Hits(s, {"script.completed"}) = 0
       /\ Hits(s, {"tool.started"})
            = Hits(s, ToolEnds) + (IF j.pc = "running" THEN 1 ELSE 0)
  /\ u \in Scripts /\ j.pc \notin {"idle", "ended"} =>
       /\ Hits(s, {"tool.started"}) = 1 /\ Hits(s, ToolEnds) = 0
       /\ Hits(s, {"script.started"}) = 1 /\ Hits(s, ScriptEnded) = 0
       /\ Hits(s, {"script.completed"}) = 0 /\ Hits(s, {"tool.failed"}) = 0
       /\ Hits(s, {"failure.created"}) = 0
       /\ j.pc = "storing" => ~j.raised
  /\ u \in Scripts /\ j.pc = "ended" =>
       /\ Hits(s, {"tool.started"}) = Hits(s, ToolEnds)
       /\ \/ Hits(s, {"script.started"}) = Hits(s, ScriptEnded)
          \/ f > 0 /\ Hits(s, {"tool.failed"}) = 1
       /\ Hits(s, {"script.completed"}) > 0 =>
            j.exit = 0 /\ ~j.raised /\ fs = j.read
       /\ s # <<>> => \/ s[Len(s)] \in Lasts
                      \/ f > 0 /\ s[Len(s)] = "tool.failed"

TrailAt(u) == TrailOK(u, trail[u], job[u], files[u], faults)
TrailInv   == faults \in Nat /\ \A u \in Uses : TrailAt(u)

LEMMA HitsAppend ==
  ASSUME NEW s \in Seq(Topics), NEW a \in Topics, NEW topics
  PROVE  /\ Hits(s, topics) \in Nat
         /\ Append(s, a) \in Seq(Topics)
         /\ Hits(Append(s, a), topics)
              = Hits(s, topics) + (IF a \in topics THEN 1 ELSE 0)
<1> DEFINE t == Append(s, a)
           S == {i \in DOMAIN s : s[i] \in topics}
           T == {i \in DOMAIN t : t[i] \in topics}
<1>1. /\ t \in Seq(Topics) /\ Len(t) = Len(s) + 1 /\ t[Len(s) + 1] = a
      /\ \A i \in 1 .. Len(s) : t[i] = s[i]
      /\ DOMAIN s = 1 .. Len(s) /\ DOMAIN t = 1 .. Len(s) + 1 /\ Len(s) \in Nat
  OBVIOUS
<1> HIDE DEF t
<1>2. IsFiniteSet(1 .. Len(s))
  <2>1. Len(s) \in Int /\ 1 \in Int
    BY <1>1
  <2> QED BY <2>1, FS_Interval
<1>3. IsFiniteSet(S) /\ Cardinality(S) \in Nat
  BY <1>1, <1>2, FS_Subset, FS_CardinalityType
<1>4. Len(s) + 1 \notin S
  BY <1>1
<1>5. T = IF a \in topics THEN S \cup {Len(s) + 1} ELSE S
  BY <1>1
<1>6. Cardinality(S \cup {Len(s) + 1}) = Cardinality(S) + 1
  BY <1>3, <1>4, FS_AddElement
<1>7. Cardinality(T) = Cardinality(S) + (IF a \in topics THEN 1 ELSE 0)
  <2> HIDE DEF S, T
  <2>1. CASE a \in topics
    BY <1>3, <1>5, <1>6, <2>1
  <2>2. CASE a \notin topics
    BY <1>3, <1>5, <2>2
  <2> QED BY <2>1, <2>2
<1> QED BY <1>1, <1>3, <1>7 DEF Hits, t

LEMMA HitsEmpty == \A topics : Hits(<<>>, topics) = 0
<1> SUFFICES ASSUME NEW topics PROVE Hits(<<>>, topics) = 0
  OBVIOUS
<1>1. {i \in DOMAIN <<>> : <<>>[i] \in topics} = {}
  OBVIOUS
<1> QED BY <1>1, FS_EmptySet DEF Hits

LEMMA Appends ==
  ASSUME NEW s \in Seq(Topics), NEW a \in Topics, NEW b \in Topics
  PROVE  /\ s \o <<>> = s
         /\ s \o <<a>> = Append(s, a)
         /\ s \o <<a, b>> = Append(Append(s, a), b)
         /\ <<a>> = Append(<<>>, a)
         /\ Append(Append(s, a), b)[Len(Append(Append(s, a), b))] = b
         /\ Append(s, a)[Len(Append(s, a))] = a
  OBVIOUS

\* A step that touches the use u only.
LEMMA TrailStep ==
  ASSUME WorkInv, TrailInv, NEW u \in Uses,
         \A v \in Uses \ {u} :
           job'[v] = job[v] /\ trail'[v] = trail[v] /\ files'[v] = files[v],
         faults' \in {faults, faults + 1},
         TrailOK(u, trail'[u], job'[u], files'[u], faults')
  PROVE  TrailInv'
<1>1. faults' \in Nat /\ (faults > 0 => faults' > 0)
  BY DEF TrailInv
<1>2. ASSUME NEW v \in Uses \ {u} PROVE TrailAt(v)'
  <2>1. TrailOK(v, trail[v], job[v], files[v], faults)
    BY DEF TrailInv, TrailAt
  <2>2. TrailOK(v, trail[v], job[v], files[v], faults')
    BY <1>1, <2>1 DEF TrailOK
  <2> QED BY <2>2 DEF TrailAt
<1> QED BY <1>1, <1>2 DEF TrailInv, TrailAt

\* What one more event adds to each count.
LEMMA OneEvent ==
  ASSUME NEW s \in Seq(Topics), NEW a \in Topics
  PROVE  LET r == Append(s, a)
             Adds(topics, n) == Hits(r, topics) = Hits(s, topics) + n
         IN  /\ r \in Seq(Topics) /\ r # <<>> /\ r[Len(r)] = a
             /\ Adds({"tool.started"}, IF a = "tool.started" THEN 1 ELSE 0)
             /\ Adds(ToolEnds, IF a \in ToolEnds THEN 1 ELSE 0)
             /\ Adds({"script.started"}, IF a = "script.started" THEN 1 ELSE 0)
             /\ Adds(ScriptEnded, IF a \in ScriptEnded THEN 1 ELSE 0)
             /\ Adds({"script.completed"}, IF a = "script.completed" THEN 1 ELSE 0)
             /\ Adds({"tool.failed"}, IF a = "tool.failed" THEN 1 ELSE 0)
             /\ Adds({"artifact.created"}, IF a = "artifact.created" THEN 1 ELSE 0)
             /\ Adds({"failure.created"}, IF a = "failure.created" THEN 1 ELSE 0)
<1>1. \A topics : Hits(Append(s, a), topics)
                    = Hits(s, topics) + (IF a \in topics THEN 1 ELSE 0)
  BY HitsAppend
<1>2. Append(s, a) \in Seq(Topics) /\ Append(s, a) # <<>>
      /\ Append(s, a)[Len(Append(s, a))] = a
  OBVIOUS
<1>3. \A b : (a \in {b}) <=> (a = b)
  OBVIOUS
<1> QED BY <1>1, <1>2, <1>3, Zenon

LEMMA HitsNat == \A s \in Seq(Topics) : \A topics : Hits(s, topics) \in Nat
<1> SUFFICES ASSUME NEW s \in Seq(Topics), NEW topics PROVE Hits(s, topics) \in Nat
  OBVIOUS
<1>1. "tool.started" \in Topics
  BY DEF Topics
<1> QED BY <1>1, HitsAppend

\* What a job says after a step that moves it.
LEMMA JobFields ==
  ASSUME WorkInv, NEW u \in Uses, NEW pc \in Places, NEW raised \in BOOLEAN,
         \/ job' = [job EXCEPT ![u].pc = pc] /\ raised = job[u].raised
         \/ job' = [job EXCEPT ![u].pc = pc, ![u].raised = raised]
  PROVE  /\ job'[u].pc = pc /\ job'[u].raised = raised
         /\ job'[u].exit = job[u].exit /\ job'[u].read = job[u].read
         /\ \A v \in Uses \ {u} : job'[v] = job[v]
<1>1. job \in [Uses -> Job] /\ job[u] \in Job
  BY DEF WorkInv, Typed
<1> QED BY <1>1 DEF Job

LEMMA NotedAre ==
  ASSUME WorkInv, NEW u \in Uses, NEW events, Note(u, events)
  PROVE  /\ trail[u] \in Seq(Topics)
         /\ trail'[u] = trail[u] \o events
         /\ \A v \in Uses \ {u} : trail'[v] = trail[v]
  BY DEF WorkInv, Typed, Note

\* The counts of the events of s.
Tallied(s, started, ended, entered, left, well, broken, stored, told) ==
  /\ s \in Seq(Topics)
  /\ Hits(s, {"tool.started"}) = started /\ Hits(s, ToolEnds) = ended
  /\ Hits(s, {"script.started"}) = entered /\ Hits(s, ScriptEnded) = left
  /\ Hits(s, {"script.completed"}) = well /\ Hits(s, {"tool.failed"}) = broken
  /\ Hits(s, {"artifact.created"}) = stored
  /\ Hits(s, {"failure.created"}) = told

LEMMA TopicsDiffer ==
  /\ "tool.started" \in Topics /\ "tool.completed" \in Topics
  /\ "tool.failed" \in Topics /\ "script.started" \in Topics
  /\ "script.completed" \in Topics /\ "script.failed" \in Topics
  /\ "artifact.created" \in Topics /\ "policy.denied" \in Topics
  /\ "failure.created" \in Topics
  BY DEF Topics

\* What each event adds.
LEMMA TallyEvent ==
  ASSUME NEW s, NEW a \in Nat, NEW b \in Nat, NEW c \in Nat, NEW d \in Nat,
         NEW e \in Nat, NEW f \in Nat, NEW n \in Nat, NEW g \in Nat,
         Tallied(s, a, b, c, d, e, f, n, g)
  PROVE  /\ Tallied(Append(s, "tool.started"), a + 1, b, c, d, e, f, n, g)
         /\ Tallied(Append(s, "tool.completed"), a, b + 1, c, d, e, f, n, g)
         /\ Tallied(Append(s, "tool.failed"), a, b + 1, c, d, e, f + 1, n, g)
         /\ Tallied(Append(s, "script.started"), a, b, c + 1, d, e, f, n, g)
         /\ Tallied(Append(s, "script.failed"), a, b, c, d + 1, e, f, n, g)
         /\ Tallied(Append(s, "script.completed"), a, b, c, d + 1, e + 1, f, n, g)
         /\ Tallied(Append(s, "policy.denied"), a, b, c, d, e, f, n, g)
         /\ Tallied(Append(s, "failure.created"), a, b, c, d, e, f, n, g + 1)
<1>1. /\ s \in Seq(Topics) /\ a + 0 = a /\ b + 0 = b /\ c + 0 = c /\ d + 0 = d
      /\ e + 0 = e /\ f + 0 = f /\ n + 0 = n /\ g + 0 = g
  BY DEF Tallied
<1>2. \A t : t \in Topics => /\ Append(s, t) \in Seq(Topics)
                             /\ \A topics : Hits(Append(s, t), topics) = Hits(s, topics)
                                             + (IF t \in topics THEN 1 ELSE 0)
  BY <1>1, HitsAppend
<1>3. \A t \in {"tool.started", "tool.completed", "tool.failed", "script.started",
               "script.failed", "script.completed", "policy.denied",
               "failure.created"} :
        Tallied(Append(s, t), a + (IF t \in {"tool.started"} THEN 1 ELSE 0),
                b + (IF t \in ToolEnds THEN 1 ELSE 0),
                c + (IF t \in {"script.started"} THEN 1 ELSE 0),
                d + (IF t \in ScriptEnded THEN 1 ELSE 0),
                e + (IF t \in {"script.completed"} THEN 1 ELSE 0),
                f + (IF t \in {"tool.failed"} THEN 1 ELSE 0),
                n, g + (IF t \in {"failure.created"} THEN 1 ELSE 0))
  <2> SUFFICES ASSUME NEW t \in {"tool.started", "tool.completed", "tool.failed",
                                "script.started", "script.failed",
                                "script.completed", "policy.denied",
                                "failure.created"}
      PROVE  Tallied(Append(s, t), a + (IF t \in {"tool.started"} THEN 1 ELSE 0),
                     b + (IF t \in ToolEnds THEN 1 ELSE 0),
                     c + (IF t \in {"script.started"} THEN 1 ELSE 0),
                     d + (IF t \in ScriptEnded THEN 1 ELSE 0),
                     e + (IF t \in {"script.completed"} THEN 1 ELSE 0),
                     f + (IF t \in {"tool.failed"} THEN 1 ELSE 0),
                     n, g + (IF t \in {"failure.created"} THEN 1 ELSE 0))
    OBVIOUS
  <2>1. t \in Topics /\ t \notin {"artifact.created"}
    BY DEF Topics
  <2>2. /\ Append(s, t) \in Seq(Topics)
        /\ \A topics : Hits(Append(s, t), topics)
                          = Hits(s, topics) + (IF t \in topics THEN 1 ELSE 0)
    BY <1>2, <2>1
  <2>3. Hits(Append(s, t), {"artifact.created"}) = n
    BY <1>1, <2>1, <2>2 DEF Tallied
  <2> QED BY <2>2, <2>3, Zenon DEF Tallied
<1> HIDE DEF Tallied
<1> QED BY <1>1, <1>3 DEF ToolEnds, ScriptEnded

LEMMA Numbers == 0 \in Nat /\ 1 \in Nat /\ 0 + 1 = 1
  OBVIOUS

\* The command's events.
LEMMA CommandEvent ==
  ASSUME NEW s \in Seq(Topics), NEW j, NEW k, NEW fs, NEW f, NEW g \in Nat, NEW r,
         TrailOK(Command, s, j, fs, f), fs \subseteq k.read, k.pc # "idle",
         f > 0 => g > 0,
         \/ r = s /\ (k.pc = "running" <=> j.pc = "running")
         \/ r = Append(s, "tool.started") /\ k.pc = "running" /\ j.pc # "running"
         \/ /\ \/ r = Append(s, "tool.completed")
               \/ r = Append(Append(s, "tool.failed"), "failure.created")
               \/ r = Append(s, "tool.failed") /\ g > 0
            /\ k.pc # "running" /\ j.pc = "running"
  PROVE  TrailOK(Command, r, k, fs, g)
<1>1. PICK a \in Nat, b \in Nat, e \in Nat, n \in Nat, h \in Nat :
        Tallied(s, a, b, 0, 0, 0, e, n, h)
  <2>1. \A topics : Hits(s, topics) \in Nat
    BY HitsNat
  <2>2. /\ Hits(s, {"script.started"}) = 0 /\ Hits(s, ScriptEnded) = 0
        /\ Hits(s, {"script.completed"}) = 0
    BY DEF TrailOK
  <2>3. Tallied(s, Hits(s, {"tool.started"}), Hits(s, ToolEnds), 0, 0, 0,
                Hits(s, {"tool.failed"}), Hits(s, {"artifact.created"}),
                Hits(s, {"failure.created"}))
    BY <2>2 DEF Tallied
  <2> QED BY <2>1, <2>3
<1>2. /\ a = b + (IF j.pc = "running" THEN 1 ELSE 0) /\ (f > 0 \/ h = e)
      /\ n = Cardinality(fs) /\ IsFiniteSet(fs) /\ Command \notin Scripts
  BY <1>1, UsesAreCalls DEF TrailOK, Tallied
<1>3. ASSUME NEW x \in Nat, NEW y \in Nat, NEW z \in Nat, NEW w \in Nat,
             Tallied(r, x, y, 0, 0, 0, z, n, w), g > 0 \/ w = z,
             x = y + (IF k.pc = "running" THEN 1 ELSE 0)
      PROVE  TrailOK(Command, r, k, fs, g)
  BY <1>2, <1>3 DEF TrailOK, Tallied
<1>4. CASE r = s /\ (k.pc = "running" <=> j.pc = "running")
  BY <1>1, <1>2, <1>3, <1>4
<1>5. CASE r = Append(s, "tool.started") /\ k.pc = "running" /\ j.pc # "running"
  <2>1. Tallied(r, a + 1, b, 0, 0, 0, e, n, h)
    BY <1>1, <1>5, Numbers, TallyEvent, Zenon
  <2>2. a + 1 \in Nat /\ a + 1 = b + 1 /\ (g > 0 \/ h = e)
    BY <1>2, <1>5
  <2> QED BY <1>3, <1>5, <2>1, <2>2
<1>6. CASE /\ r = Append(s, "tool.completed")
           /\ k.pc # "running" /\ j.pc = "running"
  <2>1. Tallied(r, a, b + 1, 0, 0, 0, e, n, h)
    BY <1>1, <1>6, Numbers, TallyEvent, Zenon
  <2>2. b + 1 \in Nat /\ a = (b + 1) + 0 /\ (g > 0 \/ h = e)
    BY <1>2, <1>6
  <2> QED BY <1>3, <1>6, <2>1, <2>2
<1>7. CASE /\ r = Append(s, "tool.failed") /\ g > 0
           /\ k.pc # "running" /\ j.pc = "running"
  <2>1. Tallied(r, a, b + 1, 0, 0, 0, e + 1, n, h)
    BY <1>1, <1>7, Numbers, TallyEvent, Zenon
  <2>2. b + 1 \in Nat /\ e + 1 \in Nat /\ a = (b + 1) + 0
    BY <1>2, <1>7
  <2> QED BY <1>3, <1>7, <2>1, <2>2
<1>8. CASE /\ r = Append(Append(s, "tool.failed"), "failure.created")
           /\ k.pc # "running" /\ j.pc = "running"
  <2>1. Tallied(Append(s, "tool.failed"), a, b + 1, 0, 0, 0, e + 1, n, h)
    BY <1>1, Numbers, TallyEvent, Zenon
  <2>2. b + 1 \in Nat /\ e + 1 \in Nat /\ h + 1 \in Nat /\ a = (b + 1) + 0
        /\ (g > 0 \/ h + 1 = e + 1)
    BY <1>2, <1>8
  <2>3. Tallied(r, a, b + 1, 0, 0, 0, e + 1, n, h + 1)
    BY <1>8, <2>1, <2>2, Numbers, TallyEvent, Zenon
  <2> QED BY <1>3, <1>8, <2>2, <2>3
<1> QED BY <1>4, <1>5, <1>6, <1>7, <1>8

\* What is told when a tool fails: with its report, unless that was not stored.
FailTold(s, m, l, n, more) ==
  \/ /\ Tallied(s \o more, 1, 1, m, l, 0, 1, n, 1)
     /\ (s \o more)[Len(s \o more)] = "failure.created"
  \/ /\ Tallied(s \o more, 1, 1, m, l, 0, 1, n, 0)
     /\ (s \o more)[Len(s \o more)] = "tool.failed"
     /\ more = <<"tool.failed">>

\* A tool fails, and its report is stored or not.
LEMMA TallyFails ==
  ASSUME NEW s, NEW n \in Nat, NEW m \in Nat, NEW l \in Nat, NEW more \in Reports,
         Tallied(s, 1, 0, m, l, 0, 0, n, 0)
  PROVE  FailTold(s, m, l, n, more)
<1>1. s \in Seq(Topics) /\ m + 0 = m /\ l + 0 = l /\ n + 0 = n
  BY DEF Tallied
<1> DEFINE one == Append(s, "tool.failed")
<1>2. Tallied(one, 1, 1, m, l, 0, 1, n, 0)
  <2>1. Tallied(one, 1, 0 + 1, m, l, 0, 0 + 1, n, 0)
    BY Numbers, TallyEvent, Zenon
  <2> QED BY <2>1, Numbers, Zenon
<1>3. Tallied(Append(one, "failure.created"), 1, 1, m, l, 0, 1, n, 1)
  <2> HIDE DEF one
  <2>1. Tallied(Append(one, "failure.created"), 1, 1, m, l, 0, 1, n, 0 + 1)
    BY <1>2, Numbers, TallyEvent, Zenon
  <2> QED BY <2>1, Numbers, Zenon
<1>4. /\ s \o <<"tool.failed">> = one
      /\ s \o <<"tool.failed", "failure.created">> = Append(one, "failure.created")
      /\ one[Len(one)] = "tool.failed"
      /\ Append(one, "failure.created")[Len(Append(one, "failure.created"))]
           = "failure.created"
  BY <1>1, TopicsDiffer, Appends
<1> HIDE DEF one
<1>6. CASE more = <<"tool.failed">>
  BY <1>2, <1>4, <1>6 DEF FailTold
<1>7. CASE more = <<"tool.failed", "failure.created">>
  BY <1>3, <1>4, <1>7 DEF FailTold
<1> QED BY <1>6, <1>7 DEF Reports

\* The end of a script's tool call that was under way.
LEMMA TallyEnds ==
  ASSUME NEW s, NEW n \in Nat, Tallied(s, 1, 0, 1, 0, 0, 0, n, 0)
  PROVE  /\ Tallied(s \o <<"script.failed">>, 1, 0, 1, 1, 0, 0, n, 0)
         /\ LET r == s \o <<"script.failed", "tool.completed">>
            IN  Tallied(r, 1, 1, 1, 1, 0, 0, n, 0) /\ r[Len(r)] = "tool.completed"
         /\ LET r == s \o <<"script.completed", "tool.completed">>
            IN  Tallied(r, 1, 1, 1, 1, 1, 0, n, 0) /\ r[Len(r)] = "tool.completed"
<1>0. s \in Seq(Topics) /\ n + 0 = n
  BY DEF Tallied
<1>1. Tallied(Append(s, "script.failed"), 1, 0, 1, 1, 0, 0, n, 0)
  <2>1. Tallied(Append(s, "script.failed"), 1, 0, 1, 0 + 1, 0, 0, n, 0)
    BY Numbers, TallyEvent, Zenon
  <2> QED BY <2>1, Numbers, Zenon
<1>2. Tallied(Append(s, "script.completed"), 1, 0, 1, 1, 1, 0, n, 0)
  <2>1. Tallied(Append(s, "script.completed"), 1, 0, 1, 0 + 1, 0 + 1, 0, n, 0)
    BY Numbers, TallyEvent, Zenon
  <2> QED BY <2>1, Numbers, Zenon
<1>3. Tallied(Append(Append(s, "script.failed"), "tool.completed"), 1, 1, 1, 1, 0, 0, n, 0)
  <2>1. Tallied(Append(Append(s, "script.failed"), "tool.completed"),
                1, 0 + 1, 1, 1, 0, 0, n, 0)
    BY <1>1, Numbers, TallyEvent, Zenon
  <2> QED BY <2>1, Numbers, Zenon
<1>4. Tallied(Append(Append(s, "script.completed"), "tool.completed"), 1, 1, 1, 1, 1, 0, n, 0)
  <2>1. Tallied(Append(Append(s, "script.completed"), "tool.completed"),
                1, 0 + 1, 1, 1, 1, 0, n, 0)
    BY <1>2, Numbers, TallyEvent, Zenon
  <2> QED BY <2>1, Numbers, Zenon
<1>5. \A a, b \in {"script.failed", "tool.completed", "script.completed"} :
        /\ s \o <<a, b>> = Append(Append(s, a), b) /\ s \o <<a>> = Append(s, a)
        /\ (s \o <<a, b>>)[Len(s \o <<a, b>>)] = b
  BY <1>0, TopicsDiffer, Appends
<1> QED BY <1>1, <1>3, <1>4, <1>5, Zenon

LEMMA TuplesAre ==
  ASSUME NEW a \in Topics, NEW b \in Topics, NEW c \in Topics
  PROVE  /\ <<a>> = Append(<<>>, a)
         /\ <<a, b>> = Append(<<a>>, b)
         /\ <<a, b, c>> = Append(<<a, b>>, c)
  OBVIOUS

\* What a call says that is refused.
LEMMA TallyRefused ==
  ASSUME NEW events \in Refusals
  PROVE  /\ Tallied(events, 0, 0, 0, 0, 0, 0, 0, 0)
         /\ events # <<>> => events[Len(events)] \in Lasts
<1>1. <<>> \in Seq(Topics)
  OBVIOUS
<1>2. Tallied(<<>>, 0, 0, 0, 0, 0, 0, 0, 0)
  BY <1>1, HitsEmpty DEF Tallied
<1>3. CASE events = <<>>
  BY <1>2, <1>3
<1>4. CASE events = <<"policy.denied">>
  <2>1. Tallied(Append(<<>>, "policy.denied"), 0, 0, 0, 0, 0, 0, 0, 0)
    BY <1>2, TallyEvent
  <2>2. Append(<<>>, "policy.denied") = events /\ events[Len(events)] = "policy.denied"
    BY <1>4
  <2> QED BY <2>1, <2>2 DEF Lasts
<1> QED BY <1>3, <1>4 DEF Refusals

\* What a call says that is rejected, before its tool fails.
LEMMA TallyRejected ==
  ASSUME NEW events \in Rejections
  PROVE  \E m \in {0, 1} : Tallied(events, 1, 0, m, m, 0, 0, 0, 0)
<1>1. <<>> \in Seq(Topics)
  OBVIOUS
<1>2. Tallied(<<>>, 0, 0, 0, 0, 0, 0, 0, 0)
  BY <1>1, HitsEmpty DEF Tallied
<1> DEFINE one == <<"tool.started">>
           two == <<"tool.started", "script.started">>
           three == <<"tool.started", "script.started", "script.failed">>
<1>3. /\ one = Append(<<>>, "tool.started")
      /\ two = Append(one, "script.started")
      /\ three = Append(two, "script.failed")
  BY TopicsDiffer, TuplesAre
<1> HIDE DEF one, two, three
<1>4. Tallied(one, 1, 0, 0, 0, 0, 0, 0, 0)
  <2>1. \A s : Tallied(s, 0, 0, 0, 0, 0, 0, 0, 0)
                 => Tallied(Append(s, "tool.started"), 1, 0, 0, 0, 0, 0, 0, 0)
    BY TallyEvent
  <2> QED BY <1>2, <1>3, <2>1, Zenon
<1>5. Tallied(two, 1, 0, 1, 0, 0, 0, 0, 0)
  BY <1>3, <1>4, TallyEvent
<1>6. Tallied(three, 1, 0, 1, 1, 0, 0, 0, 0)
  BY <1>3, <1>5, TallyEvent
<1>7. events = one \/ events = three
  BY DEF Rejections, one, three
<1> QED BY <1>4, <1>6, <1>7

\* What the invariant says of one use, as counts.
LEMMA TrailTallied ==
  ASSUME NEW u, NEW s, NEW j, NEW fs, NEW f, TrailOK(u, s, j, fs, f)
  PROVE  /\ Cardinality(fs) \in Nat /\ s \in Seq(Topics)
         /\ u \in Scripts /\ j.pc \notin {"idle", "ended"}
              => Tallied(s, 1, 0, 1, 0, 0, 0, Cardinality(fs), 0)
<1>1. IsFiniteSet(fs)
  BY DEF TrailOK
<1> QED BY <1>1, FS_CardinalityType DEF TrailOK, Tallied

\* A script's use goes on without a word.
LEMMA ScriptQuiet ==
  ASSUME NEW s \in Scripts, NEW t, NEW j, NEW k, NEW fs, NEW f,
         TrailOK(s, t, j, fs, f),
         j.pc \notin {"idle", "ended"}, k.pc \notin {"idle", "ended"},
         fs \subseteq k.read, k.pc = "storing" => ~k.raised
  PROVE  TrailOK(s, t, k, fs, f)
  BY UsesAreCalls DEF TrailOK

\* A script's use starts.
LEMMA ScriptBegins ==
  ASSUME NEW s \in Scripts, NEW j, NEW k, NEW fs, NEW f, NEW g, NEW t,
         TrailOK(s, t, j, fs, f), j.pc = "idle",
         k.pc = "entering", k.read = j.read
  PROVE  TrailOK(s, t \o <<"tool.started", "script.started">>, k, fs, g)
<1>1. t = <<>> /\ <<>> \in Seq(Topics)
      /\ Hits(t, {"artifact.created"}) = Cardinality(fs) /\ IsFiniteSet(fs)
      /\ fs \subseteq k.read
  BY DEF TrailOK
<1>2. Tallied(t, 0, 0, 0, 0, 0, 0, 0, 0)
  BY <1>1, HitsEmpty DEF Tallied
<1> DEFINE one == Append(t, "tool.started")
           two == Append(one, "script.started")
<1>3. Tallied(one, 1, 0, 0, 0, 0, 0, 0, 0)
  <2>1. \A x : Tallied(x, 0, 0, 0, 0, 0, 0, 0, 0)
                 => Tallied(Append(x, "tool.started"), 1, 0, 0, 0, 0, 0, 0, 0)
    BY TallyEvent
  <2> QED BY <1>2, <2>1, Zenon
<1>4. Tallied(two, 1, 0, 1, 0, 0, 0, 0, 0)
  <2> HIDE DEF one
  <2> QED BY <1>3, TallyEvent
<1>5. t \o <<"tool.started", "script.started">> = two
  BY <1>1, TopicsDiffer, Appends
<1>6. Cardinality(fs) = 0
  BY <1>1, HitsEmpty
<1> HIDE DEF two
<1>7. TrailOK(s, two, k, fs, g)
  BY <1>1, <1>4, <1>6, UsesAreCalls DEF TrailOK, Tallied
<1> QED BY <1>5, <1>7

\* A script's tool fails before the script's end was told.
LEMMA FailsAtOnce ==
  ASSUME NEW t, NEW n \in Nat, NEW more \in Reports,
         Tallied(t, 1, 0, 1, 0, 0, 0, n, 0)
  PROVE  FailTold(t, 1, 0, n, more)
<1>1. \A s : \A k, m, b \in Nat : \A told \in Reports :
        Tallied(s, 1, 0, m, b, 0, 0, k, 0) => FailTold(s, m, b, k, told)
  BY TallyFails
<1>2. PICK m, b \in Nat : m = 1 /\ b = 0
  OBVIOUS
<1>3. Tallied(t, 1, 0, m, b, 0, 0, n, 0)
  BY <1>2
<1>4. FailTold(t, m, b, n, more)
  BY <1>1, <1>3, Zenon
<1> QED BY <1>2, <1>4

\* A script's tool fails after the script's end was told.
LEMMA FailsAfter ==
  ASSUME NEW t, NEW n \in Nat, NEW more \in Reports,
         Tallied(t, 1, 0, 1, 1, 0, 0, n, 0)
  PROVE  FailTold(t, 1, 1, n, more)
<1>1. \A s : \A k, m, b \in Nat : \A told \in Reports :
        Tallied(s, 1, 0, m, b, 0, 0, k, 0) => FailTold(s, m, b, k, told)
  BY TallyFails
<1>2. PICK m, b \in Nat : m = 1 /\ b = 1
  OBVIOUS
<1>3. Tallied(t, 1, 0, m, b, 0, 0, n, 0)
  BY <1>2
<1>4. FailTold(t, m, b, n, more)
  BY <1>1, <1>3, Zenon
<1> QED BY <1>2, <1>4

\* How the trail of a script's use ends; fine is whether it may say that the
\* script completed.
EndsAs(t, r, more, g, fine) ==
  \/ /\ r = (t \o <<"script.failed">>) \o more
     /\ more = <<"tool.failed">> => g > 0
  \/ r = t \o <<"script.failed", "tool.completed">>
  \/ r = t \o <<"script.completed", "tool.completed">> /\ fine
  \/ r = t \o more /\ g > 0

\* What the ended trail tells.
EndTold(r, n, g, fine) ==
  \E left \in {0, 1}, well \in {0, 1}, broken \in {0, 1}, told \in {0, 1} :
    /\ Tallied(r, 1, 1, 1, left, well, broken, n, told)
    /\ r[Len(r)] \in Lasts \/ (g > 0 /\ r[Len(r)] = "tool.failed")
    /\ left = 1 \/ (g > 0 /\ broken = 1)
    /\ g > 0 \/ told = broken
    /\ well > 0 => fine

\* The counts and the last event once a script's use ends.
LEMMA EndedTally ==
  ASSUME NEW t, NEW n \in Nat, NEW r, NEW more \in Reports, NEW g \in Nat,
         NEW fine \in BOOLEAN, Tallied(t, 1, 0, 1, 0, 0, 0, n, 0),
         EndsAs(t, r, more, g, fine)
  PROVE  EndTold(r, n, g, fine)
<1>1. CASE /\ r = (t \o <<"script.failed">>) \o more
           /\ more = <<"tool.failed">> => g > 0
  <2> DEFINE q == t \o <<"script.failed">>
  <2>1. Tallied(q, 1, 0, 1, 1, 0, 0, n, 0)
    BY TallyEnds
  <2>2. r = q \o more
    BY <1>1
  <2> HIDE DEF q
  <2>3. \/ /\ Tallied(q \o more, 1, 1, 1, 1, 0, 1, n, 1)
           /\ (q \o more)[Len(q \o more)] = "failure.created"
        \/ /\ Tallied(q \o more, 1, 1, 1, 1, 0, 1, n, 0)
           /\ (q \o more)[Len(q \o more)] = "tool.failed"
           /\ more = <<"tool.failed">>
    BY <2>1, FailsAfter DEF FailTold
  <2>4. CASE Tallied(r, 1, 1, 1, 1, 0, 1, n, 1) /\ r[Len(r)] = "failure.created"
    BY <2>4 DEF Lasts, EndTold
  <2>5. CASE Tallied(r, 1, 1, 1, 1, 0, 1, n, 0) /\ r[Len(r)] = "tool.failed" /\ g > 0
    BY <2>5 DEF EndTold
  <2> QED BY <1>1, <2>2, <2>3, <2>4, <2>5
<1>2. CASE r = t \o <<"script.failed", "tool.completed">>
  <2>1. Tallied(r, 1, 1, 1, 1, 0, 0, n, 0) /\ r[Len(r)] = "tool.completed"
    BY <1>2, TallyEnds
  <2> QED BY <2>1 DEF Lasts, EndTold
<1>3. CASE r = t \o <<"script.completed", "tool.completed">> /\ fine
  <2>1. Tallied(r, 1, 1, 1, 1, 1, 0, n, 0) /\ r[Len(r)] = "tool.completed"
    BY <1>3, TallyEnds
  <2> QED BY <1>3, <2>1 DEF Lasts, EndTold
<1>4. CASE r = t \o more /\ g > 0
  <2>1. \/ /\ Tallied(t \o more, 1, 1, 1, 0, 0, 1, n, 1)
           /\ (t \o more)[Len(t \o more)] = "failure.created"
        \/ /\ Tallied(t \o more, 1, 1, 1, 0, 0, 1, n, 0)
           /\ (t \o more)[Len(t \o more)] = "tool.failed"
           /\ more = <<"tool.failed">>
    BY FailsAtOnce DEF FailTold
  <2>2. CASE Tallied(r, 1, 1, 1, 0, 0, 1, n, 1) /\ r[Len(r)] = "failure.created"
    BY <1>4, <2>2 DEF Lasts, EndTold
  <2>3. CASE Tallied(r, 1, 1, 1, 0, 0, 1, n, 0) /\ r[Len(r)] = "tool.failed"
    BY <1>4, <2>3 DEF EndTold
  <2> QED BY <1>4, <2>1, <2>2, <2>3
<1> QED BY <1>1, <1>2, <1>3, <1>4 DEF EndsAs

\* A script's use ends: with the word of its tool call, and of the script, too,
\* unless a file of it could not be stored.
LEMMA EndedTrail ==
  ASSUME NEW s \in Scripts, NEW t, NEW j, NEW k, NEW fs, NEW f, NEW g \in Nat,
         NEW r, NEW more \in Reports,
         TrailOK(s, t, j, fs, f), j.pc \notin {"idle", "ended"},
         k.pc = "ended", k.read = j.read,
         \/ /\ r = (t \o <<"script.failed">>) \o more
            /\ more = <<"tool.failed">> => g > 0
         \/ r = t \o <<"script.failed", "tool.completed">>
         \/ /\ r = t \o <<"script.completed", "tool.completed">>
            /\ k.exit = 0 /\ ~k.raised /\ fs = k.read
         \/ r = t \o more /\ g > 0
  PROVE  TrailOK(s, r, k, fs, g)
<1>1. /\ Tallied(t, 1, 0, 1, 0, 0, 0, Cardinality(fs), 0) /\ IsFiniteSet(fs)
      /\ fs \subseteq k.read /\ Cardinality(fs) \in Nat
  BY TrailTallied DEF TrailOK
<1>2. PICK n \in Nat : n = Cardinality(fs)
  BY <1>1
<1>3. PICK fine \in BOOLEAN : fine <=> k.exit = 0 /\ ~k.raised /\ fs = k.read
  OBVIOUS
<1>4. Tallied(t, 1, 0, 1, 0, 0, 0, n, 0)
  BY <1>1, <1>2
<1>5. EndsAs(t, r, more, g, fine)
  BY <1>3 DEF EndsAs
<1>6. EndTold(r, n, g, fine)
  BY <1>4, <1>5, EndedTally
<1>7. PICK left \in {0, 1}, well \in {0, 1}, broken \in {0, 1}, told \in {0, 1} :
        /\ Tallied(r, 1, 1, 1, left, well, broken, n, told)
        /\ r[Len(r)] \in Lasts \/ (g > 0 /\ r[Len(r)] = "tool.failed")
        /\ left = 1 \/ (g > 0 /\ broken = 1)
        /\ g > 0 \/ told = broken
        /\ well > 0 => fine
  BY <1>6 DEF EndTold
<1> QED BY <1>1, <1>2, <1>3, <1>7, UsesAreCalls DEF TrailOK, Tallied

\* A script's use that is refused, or rejected.
LEMMA ScriptRefusedTrail ==
  ASSUME NEW s \in Scripts, NEW t, NEW j, NEW k, NEW fs, NEW f, NEW g \in Nat,
         TrailOK(s, t, j, fs, f), j.pc = "idle",
         k.pc = "ended", k.read = j.read, NEW events, NEW more \in Reports,
         \/ events \in Refusals
         \/ /\ \E first \in Rejections : events = first \o more
            /\ more = <<"tool.failed">> => g > 0
  PROVE  TrailOK(s, t \o events, k, fs, g)
<1>1. t = <<>> /\ Hits(t, {"artifact.created"}) = Cardinality(fs)
      /\ IsFiniteSet(fs) /\ fs \subseteq k.read
  BY DEF TrailOK
<1>2. PICK n \in {0, 1}, m \in {0, 1}, l \in {0, 1}, told \in {0, 1} :
        /\ Tallied(events, n, n, m, m, 0, l, 0, told)
        /\ g > 0 \/ told = l
        /\ events # <<>> => \/ events[Len(events)] \in Lasts
                            \/ g > 0 /\ events[Len(events)] = "tool.failed"
  <2>1. CASE events \in Refusals
    BY <2>1, TallyRefused
  <2>2. CASE /\ \E first \in Rejections : events = first \o more
             /\ more = <<"tool.failed">> => g > 0
    <3>1. PICK first \in Rejections : events = first \o more
      BY <2>2
    <3>2. PICK m \in {0, 1} : Tallied(first, 1, 0, m, m, 0, 0, 0, 0)
      BY TallyRejected
    <3>3. \/ /\ Tallied(events, 1, 1, m, m, 0, 1, 0, 1)
             /\ events[Len(events)] = "failure.created"
          \/ /\ Tallied(events, 1, 1, m, m, 0, 1, 0, 0)
             /\ events[Len(events)] = "tool.failed" /\ more = <<"tool.failed">>
      <4>1. m \in Nat
        OBVIOUS
      <4> QED BY <3>1, <3>2, <4>1, TallyFails DEF FailTold
    <3> QED BY <2>2, <3>3 DEF Lasts
  <2> QED BY <2>1, <2>2
<1>3. t \o events = events
  BY <1>1, <1>2 DEF Tallied
<1>4. Cardinality(fs) = 0
  BY <1>1, HitsEmpty
<1>5. TrailOK(s, events, k, fs, g)
  BY <1>1, <1>2, <1>4, UsesAreCalls DEF TrailOK, Tallied
<1> QED BY <1>3, <1>5

\* A file is stored, and announced.
LEMMA StoredTrail ==
  ASSUME NEW u \in Uses, NEW t, NEW j, NEW fs, NEW f, NEW path \in j.read \ fs,
         TrailOK(u, t, j, fs, f), j.pc = "storing"
  PROVE  TrailOK(u, t \o <<"artifact.created">>, j, fs \cup {path}, f)
<1> DEFINE r == Append(t, "artifact.created")
<1>1. t \in Seq(Topics) /\ IsFiniteSet(fs) /\ fs \subseteq j.read
      /\ Hits(t, {"artifact.created"}) = Cardinality(fs)
  BY DEF TrailOK
<1>2. t \o <<"artifact.created">> = r
  BY <1>1, TopicsDiffer, Appends
<1>3. IsFiniteSet(fs \cup {path}) /\ Cardinality(fs \cup {path}) = Cardinality(fs) + 1
  BY <1>1, FS_AddElement
<1>4. \A topics : /\ Hits(t, topics) \in Nat
                  /\ "artifact.created" \notin topics => Hits(r, topics) = Hits(t, topics)
                  /\ "artifact.created" \in topics => Hits(r, topics) = Hits(t, topics) + 1
  BY <1>1, TopicsDiffer, HitsAppend
<1>5. /\ r \in Seq(Topics)
      /\ Hits(r, {"artifact.created"}) = Cardinality(fs) + 1
      /\ Hits(r, {"tool.started"}) = Hits(t, {"tool.started"})
      /\ Hits(r, ToolEnds) = Hits(t, ToolEnds)
      /\ Hits(r, {"script.started"}) = Hits(t, {"script.started"})
      /\ Hits(r, ScriptEnded) = Hits(t, ScriptEnded)
      /\ Hits(r, {"script.completed"}) = Hits(t, {"script.completed"})
      /\ Hits(r, {"tool.failed"}) = Hits(t, {"tool.failed"})
      /\ Hits(r, {"failure.created"}) = Hits(t, {"failure.created"})
  <2>1. r \in Seq(Topics)
    BY <1>1, TopicsDiffer
  <2> HIDE DEF r
  <2> QED BY <1>1, <1>4, <2>1 DEF ToolEnds, ScriptEnded
<1> HIDE DEF r
<1>6. TrailOK(u, r, j, fs \cup {path}, f)
  BY <1>1, <1>3, <1>5 DEF TrailOK
<1> QED BY <1>2, <1>6

\* What the invariant says of one use, in this state.
LEMMA TrailNow ==
  ASSUME TrailInv, NEW u \in Uses
  PROVE  /\ TrailOK(u, trail[u], job[u], files[u], faults)
         /\ files[u] \subseteq job[u].read /\ trail[u] \in Seq(Topics)
         /\ faults \in Nat
  BY DEF TrailInv, TrailAt, TrailOK

\* A step of the command, with one event at most.
LEMMA CommandMoves ==
  ASSUME WorkInv, TrailInv, NEW pc \in Places \ {"idle"},
         job'[Command].pc = pc, files[Command] \subseteq job'[Command].read,
         \A v \in Uses \ {Command} : job'[v] = job[v],
         UNCHANGED files, faults' \in {faults, faults + 1},
         \/ /\ Note(Command, <<>>) \/ UNCHANGED trail
            /\ pc = "running" <=> Doing(Command, "running")
         \/ /\ Note(Command, <<"tool.started">>)
            /\ pc = "running" /\ ~Doing(Command, "running")
         \/ /\ \/ Note(Command, <<"tool.completed">>)
               \/ Note(Command, <<"tool.failed", "failure.created">>)
               \/ Note(Command, <<"tool.failed">>) /\ faults' = faults + 1
            /\ pc # "running" /\ Doing(Command, "running")
  PROVE  TrailInv'
<1>1. /\ job'[Command].pc = pc
      /\ \A v \in Uses \ {Command} : job'[v] = job[v]
  OBVIOUS
<1>2. /\ TrailOK(Command, trail[Command], job[Command], files[Command], faults)
      /\ files[Command] \subseteq job'[Command].read
      /\ trail[Command] \in Seq(Topics)
  BY <1>1, TrailNow, UsesAreCalls
<1>3. /\ trail[Command] \o <<>> = trail[Command]
      /\ trail[Command] \o <<"tool.started">> = Append(trail[Command], "tool.started")
      /\ trail[Command] \o <<"tool.completed">> = Append(trail[Command], "tool.completed")
      /\ trail[Command] \o <<"tool.failed">> = Append(trail[Command], "tool.failed")
      /\ trail[Command] \o <<"tool.failed", "failure.created">>
           = Append(Append(trail[Command], "tool.failed"), "failure.created")
  BY <1>2, TopicsDiffer, Appends
<1>4. \A events : Note(Command, events) =>
        /\ trail'[Command] = trail[Command] \o events
        /\ \A v \in Uses \ {Command} : trail'[v] = trail[v]
  BY NotedAre, UsesAreCalls
<1>5. /\ \A v \in Uses \ {Command} : trail'[v] = trail[v]
      /\ \/ /\ trail'[Command] = trail[Command]
            /\ pc = "running" <=> job[Command].pc = "running"
         \/ /\ trail'[Command] = Append(trail[Command], "tool.started")
            /\ pc = "running" /\ job[Command].pc # "running"
         \/ /\ \/ trail'[Command] = Append(trail[Command], "tool.completed")
               \/ trail'[Command]
                    = Append(Append(trail[Command], "tool.failed"), "failure.created")
               \/ /\ trail'[Command] = Append(trail[Command], "tool.failed")
                  /\ faults' = faults + 1
            /\ pc # "running" /\ job[Command].pc = "running"
  <2>1. CASE /\ Note(Command, <<>>) \/ UNCHANGED trail
             /\ pc = "running" <=> Doing(Command, "running")
    BY <1>3, <1>4, <2>1 DEF Doing
  <2>2. CASE /\ Note(Command, <<"tool.started">>)
             /\ pc = "running" /\ ~Doing(Command, "running")
    BY <1>3, <1>4, <2>2 DEF Doing
  <2>3. CASE /\ \/ Note(Command, <<"tool.completed">>)
                \/ Note(Command, <<"tool.failed", "failure.created">>)
                \/ Note(Command, <<"tool.failed">>) /\ faults' = faults + 1
             /\ pc # "running" /\ Doing(Command, "running")
    BY <1>3, <1>4, <2>3 DEF Doing
  <2> QED BY <2>1, <2>2, <2>3
<1>6. TrailOK(Command, trail'[Command], job'[Command], files[Command], faults')
  <2> DEFINE k == job'[Command]
             r == trail'[Command]
             t == trail[Command]
             j == job[Command]
             fs == files[Command]
             g == faults'
  <2>1. /\ k.pc = pc /\ fs \subseteq k.read /\ TrailOK(Command, t, j, fs, faults)
        /\ k.pc # "idle" /\ t \in Seq(Topics)
        /\ \/ r = t /\ (k.pc = "running" <=> j.pc = "running")
           \/ r = Append(t, "tool.started") /\ k.pc = "running" /\ j.pc # "running"
           \/ /\ \/ r = Append(t, "tool.completed")
                 \/ r = Append(Append(t, "tool.failed"), "failure.created")
                 \/ r = Append(t, "tool.failed") /\ g > 0
              /\ k.pc # "running" /\ j.pc = "running"
    <3>1. faults' = faults + 1 => g > 0
      BY DEF TrailInv
    <3> QED BY <1>1, <1>2, <1>5, <3>1
  <2>3. g \in Nat /\ (faults > 0 => g > 0)
    BY DEF TrailInv
  <2> HIDE DEF k, r, t, j, fs, g
  <2>2. TrailOK(Command, r, k, fs, g)
    BY <2>1, <2>3, CommandEvent
  <2> QED BY <2>2 DEF k, r, fs, g
<1> QED BY <1>1, <1>5, <1>6, TrailStep, UsesAreCalls

\* The usual step of the command.
LEMMA CommandStep ==
  ASSUME WorkInv, TrailInv, NEW pc \in Places \ {"idle"}, NEW raised \in BOOLEAN,
         \/ job' = [job EXCEPT ![Command].pc = pc] /\ raised = job[Command].raised
         \/ job' = [job EXCEPT ![Command].pc = pc, ![Command].raised = raised],
         UNCHANGED files, faults' \in {faults, faults + 1},
         \/ /\ Note(Command, <<>>) \/ UNCHANGED trail
            /\ pc = "running" <=> Doing(Command, "running")
         \/ /\ Note(Command, <<"tool.started">>)
            /\ pc = "running" /\ ~Doing(Command, "running")
         \/ /\ \/ Note(Command, <<"tool.completed">>)
               \/ Note(Command, <<"tool.failed", "failure.created">>)
               \/ Note(Command, <<"tool.failed">>) /\ faults' = faults + 1
            /\ pc # "running" /\ Doing(Command, "running")
  PROVE  TrailInv'
<1>1. /\ job'[Command].pc = pc /\ job'[Command].read = job[Command].read
      /\ \A v \in Uses \ {Command} : job'[v] = job[v]
  BY JobFields, UsesAreCalls
<1>2. files[Command] \subseteq job'[Command].read
  BY <1>1, TrailNow, UsesAreCalls
<1> QED BY <1>1, <1>2, CommandMoves

LEMMA StartCommandTrail == ASSUME WorkInv, TrailInv, StartCommand PROVE TrailInv'
<1>1. /\ job' = [job EXCEPT ![Command].pc = "entering"]
      /\ UNCHANGED <<trail, files, faults>> /\ Doing(Command, "idle")
  BY UsesAreCalls DEF StartCommand, WorkInv
<1>2. "entering" \in Places \ {"idle"} /\ job[Command].raised \in BOOLEAN
  BY UsesAreCalls DEF Places, WorkInv, Typed, Job
<1>3. ~Doing(Command, "running")
  BY <1>1 DEF Doing
<1> QED BY <1>1, <1>2, <1>3, CommandStep

LEMMA PlanCommandTrail == ASSUME WorkInv, TrailInv, PlanCommand PROVE TrailInv'
<1>1. UNCHANGED <<files, faults>> /\ ~Doing(Command, "running")
  BY DEF PlanCommand, Doing
<1>2. {"running", "leaving"} \subseteq Places \ {"idle"} /\ job[Command].raised \in BOOLEAN
  BY UsesAreCalls DEF Places, WorkInv, Typed, Job
<1>3. CASE job' = [job EXCEPT ![Command].pc = "running"] /\ Note(Command, <<"tool.started">>)
  BY <1>1, <1>2, <1>3, CommandStep
<1>4. CASE Leave(Command) /\ UNCHANGED trail
  <2>1. /\ job' = [job EXCEPT ![Command].pc = "leaving", ![Command].raised = TRUE]
        /\ UNCHANGED trail
    BY <1>4 DEF Leave
  <2> QED BY <1>1, <1>2, <2>1, CommandStep
<1> QED BY <1>3, <1>4 DEF PlanCommand

LEMMA DecideTrail == ASSUME WorkInv, TrailInv, Decide PROVE TrailInv'
<1>1. /\ job' = [job EXCEPT ![Command].pc = "leaving"]
      /\ UNCHANGED <<trail, files, faults>> /\ ~Doing(Command, "running")
  BY DEF Decide, Stored, Doing
<1>2. "leaving" \in Places \ {"idle"} /\ job[Command].raised \in BOOLEAN
  BY UsesAreCalls DEF Places, WorkInv, Typed, Job
<1> QED BY <1>1, <1>2, CommandStep

LEMMA CommandStoreFailsTrail ==
  ASSUME WorkInv, TrailInv, CommandStoreFails PROVE TrailInv'
<1>1. /\ job' = [job EXCEPT ![Command].pc = "leaving", ![Command].raised = TRUE]
      /\ UNCHANGED <<trail, files>> /\ faults' = faults + 1
      /\ ~Doing(Command, "running")
  BY DEF CommandStoreFails, Leave, Doing
<1>2. "leaving" \in Places \ {"idle"}
  BY DEF Places
<1> QED BY <1>1, <1>2, CommandStep

LEMMA CommandEndsTrail == ASSUME WorkInv, TrailInv, CommandEnds PROVE TrailInv'
<1>1. /\ job' = [job EXCEPT ![Command].pc = "ended"]
      /\ UNCHANGED <<trail, files, faults>> /\ ~Doing(Command, "running")
  BY DEF CommandEnds, Doing
<1>2. "ended" \in Places \ {"idle"} /\ job[Command].raised \in BOOLEAN
  BY UsesAreCalls DEF Places, WorkInv, Typed, Job
<1> QED BY <1>1, <1>2, CommandStep

-----------------------------------------------------------------------------
\* A script's use goes on without a word.
LEMMA QuietStep ==
  ASSUME WorkInv, TrailInv, NEW s \in Scripts, NEW k,
         job'[s] = k, \A v \in Uses \ {s} : job'[v] = job[v],
         Note(s, <<>>) \/ UNCHANGED trail, UNCHANGED <<files, faults>>,
         job[s].pc \notin {"idle", "ended"}, k.pc \notin {"idle", "ended"},
         files[s] \subseteq k.read, k.pc = "storing" => ~k.raised
  PROVE  TrailInv'
<1>1. s \in Uses
  BY UsesAreCalls
<1>2. /\ TrailOK(s, trail[s], job[s], files[s], faults)
      /\ trail[s] \in Seq(Topics)
  BY <1>1, TrailNow
<1>3. /\ trail'[s] = trail[s]
      /\ \A v \in Uses \ {s} : trail'[v] = trail[v]
  <2>1. CASE Note(s, <<>>)
    <3>1. trail'[s] = trail[s] \o <<>> /\ \A v \in Uses \ {s} : trail'[v] = trail[v]
      BY <1>1, <2>1, NotedAre
    <3> QED BY <1>2, <3>1
  <2>2. CASE UNCHANGED trail
    BY <2>2
  <2> QED BY <2>1, <2>2
<1>4. TrailOK(s, trail[s], k, files[s], faults)
  BY <1>2, ScriptQuiet
<1>5. TrailOK(s, trail'[s], job'[s], files'[s], faults')
  BY <1>3, <1>4
<1> QED BY <1>1, <1>3, <1>5, TrailStep

LEMMA WriteFilesTrail ==
  ASSUME WorkInv, TrailInv, NEW s \in Scripts, WriteFiles(s) PROVE TrailInv'
<1>1. s \in Uses /\ {"running", "leaving"} \subseteq Places
  BY UsesAreCalls DEF Places
<1>2. /\ job[s].pc = "entering" /\ UNCHANGED <<files, faults>>
      /\ files[s] \subseteq job[s].read /\ job[s].raised \in BOOLEAN
  BY <1>1, TrailNow DEF WriteFiles, Doing, WorkInv, Typed, Job
<1>3. PICK pc \in {"running", "leaving"} :
        /\ job'[s].pc = pc /\ job'[s].read = job[s].read
        /\ \A v \in Uses \ {s} : job'[v] = job[v]
        /\ UNCHANGED trail
  <2>1. CASE job' = [job EXCEPT ![s].pc = "running"] /\ UNCHANGED trail
    <3>1. /\ job'[s].pc = "running" /\ job'[s].read = job[s].read
          /\ \A v \in Uses \ {s} : job'[v] = job[v]
      BY <1>1, <1>2, <2>1, JobFields
    <3> QED BY <2>1, <3>1
  <2>2. CASE Leave(s) /\ UNCHANGED trail
    <3>1. job' = [job EXCEPT ![s].pc = "leaving", ![s].raised = TRUE]
      BY <2>2 DEF Leave
    <3>2. /\ job'[s].pc = "leaving" /\ job'[s].read = job[s].read
          /\ \A v \in Uses \ {s} : job'[v] = job[v]
      BY <1>1, <3>1, JobFields
    <3> QED BY <2>2, <3>2
  <2> QED BY <2>1, <2>2 DEF WriteFiles
<1> QED BY <1>1, <1>2, <1>3, QuietStep

LEMMA ExecutedTrail ==
  ASSUME WorkInv, TrailInv, NEW s \in Scripts, Executed(s) PROVE TrailInv'
<1>1. s \in Uses /\ "storing" \in Places
  BY UsesAreCalls DEF Places
<1>2. /\ job[s].pc = "leaving" /\ UNCHANGED <<trail, files, faults>>
      /\ files[s] \subseteq job[s].read /\ job[s].raised = FALSE
      /\ job' = [job EXCEPT ![s].pc = "storing"]
  BY <1>1, TrailNow DEF Executed, Doing, WorkInv, Typed, Job
<1>3. /\ job'[s].pc = "storing" /\ job'[s].read = job[s].read
      /\ job'[s].raised = FALSE
      /\ \A v \in Uses \ {s} : job'[v] = job[v]
  BY <1>1, <1>2, JobFields
<1> QED BY <1>1, <1>2, <1>3, QuietStep

LEMMA StartScriptTrail ==
  ASSUME WorkInv, TrailInv, NEW s \in Scripts, StartScript(s) PROVE TrailInv'
<1>1. s \in Uses /\ "entering" \in Places
  BY UsesAreCalls DEF Places
<1>2. /\ job[s].pc = "idle" /\ UNCHANGED <<files, faults>>
      /\ job[s].raised \in BOOLEAN
      /\ job' = [job EXCEPT ![s].pc = "entering"]
      /\ Note(s, <<"tool.started", "script.started">>)
      /\ TrailOK(s, trail[s], job[s], files[s], faults)
  BY <1>1, TrailNow DEF StartScript, Doing, WorkInv, Typed, Job
<1>3. /\ job'[s].pc = "entering" /\ job'[s].read = job[s].read
      /\ \A v \in Uses \ {s} : job'[v] = job[v]
  BY <1>1, <1>2, JobFields
<1>4. /\ trail'[s] = trail[s] \o <<"tool.started", "script.started">>
      /\ \A v \in Uses \ {s} : trail'[v] = trail[v]
  BY <1>1, <1>2, NotedAre
<1> DEFINE j == job[s]
           k == job'[s]
           t == trail[s]
           fs == files[s]
<1>5. TrailOK(s, t \o <<"tool.started", "script.started">>, k, fs, faults)
  <2>1. /\ TrailOK(s, t, j, fs, faults) /\ j.pc = "idle"
        /\ k.pc = "entering" /\ k.read = j.read
    BY <1>2, <1>3
  <2> HIDE DEF j, k, t, fs
  <2> QED BY <2>1, ScriptBegins
<1>6. TrailOK(s, trail'[s], job'[s], files'[s], faults')
  BY <1>2, <1>4, <1>5
<1> QED BY <1>1, <1>2, <1>3, <1>4, <1>6, TrailStep

LEMMA Joined ==
  \A x, y, z \in Seq(Topics) : x \o (y \o z) = (x \o y) \o z
  BY ConcatAssociative

\* A script's use ends.
LEMMA EndStep ==
  ASSUME WorkInv, TrailInv, NEW s \in Scripts, NEW raised \in BOOLEAN, NEW events,
         NEW more \in Reports,
         \/ job' = [job EXCEPT ![s].pc = "ended"] /\ raised = job[s].raised
         \/ job' = [job EXCEPT ![s].pc = "ended", ![s].raised = raised],
         Note(s, events), UNCHANGED files, faults' \in {faults, faults + 1},
         \/ /\ job[s].pc \notin {"idle", "ended"}
            /\ \/ /\ events = <<"script.failed">> \o more
                  /\ more = <<"tool.failed">> => faults' = faults + 1
               \/ events = <<"script.failed", "tool.completed">>
               \/ /\ events = <<"script.completed", "tool.completed">>
                  /\ job[s].exit = 0 /\ ~raised /\ files[s] = job[s].read
               \/ events = more /\ faults' = faults + 1
         \/ /\ job[s].pc = "idle"
            /\ \/ events \in Refusals
               \/ /\ \E first \in Rejections : events = first \o more
                  /\ more = <<"tool.failed">> => faults' = faults + 1
  PROVE  TrailInv'
<1>1. s \in Uses /\ "ended" \in Places
  BY UsesAreCalls DEF Places
<1>2. /\ job'[s].pc = "ended" /\ job'[s].raised = raised
      /\ job'[s].exit = job[s].exit /\ job'[s].read = job[s].read
      /\ \A v \in Uses \ {s} : job'[v] = job[v]
  BY <1>1, JobFields
<1>3. /\ trail'[s] = trail[s] \o events
      /\ \A v \in Uses \ {s} : trail'[v] = trail[v]
  BY <1>1, NotedAre
<1>4. /\ TrailOK(s, trail[s], job[s], files[s], faults)
      /\ faults' \in Nat /\ (faults' = faults + 1 => faults' > 0)
  <2>1. TrailOK(s, trail[s], job[s], files[s], faults) /\ faults \in Nat
    BY <1>1, TrailNow
  <2> QED BY <2>1
<1> DEFINE t == trail[s]
           j == job[s]
           k == job'[s]
           r == trail'[s]
<1>5. CASE /\ job[s].pc \notin {"idle", "ended"}
           /\ \/ /\ events = <<"script.failed">> \o more
                 /\ more = <<"tool.failed">> => faults' = faults + 1
              \/ events = <<"script.failed", "tool.completed">>
              \/ /\ events = <<"script.completed", "tool.completed">>
                 /\ job[s].exit = 0 /\ ~raised /\ files[s] = job[s].read
              \/ events = more /\ faults' = faults + 1
  <2>0. t \o (<<"script.failed">> \o more) = (t \o <<"script.failed">>) \o more
    <3>1. t \in Seq(Topics) /\ more \in Seq(Topics)
      BY <1>4, ReportsAre DEF TrailOK
    <3>2. <<"script.failed">> \in Seq(Topics)
      BY TopicsDiffer, TopicsAre
    <3> HIDE DEF t
    <3> QED BY <3>1, <3>2, Joined
  <2>1. \/ /\ r = (t \o <<"script.failed">>) \o more
           /\ more = <<"tool.failed">> => faults' > 0
        \/ r = t \o <<"script.failed", "tool.completed">>
        \/ /\ r = t \o <<"script.completed", "tool.completed">>
           /\ k.exit = 0 /\ ~k.raised /\ files[s] = k.read
        \/ r = t \o more /\ faults' > 0
    <3> HIDE DEF TrailOK
    <3> QED BY <1>2, <1>3, <1>4, <1>5, <2>0
  <2>2. k.pc = "ended" /\ k.read = j.read
    BY <1>2
  <2>3. TrailOK(s, r, k, files[s], faults')
    <3> HIDE DEF t, j, k, r
    <3>1. TrailOK(s, t, j, files[s], faults) /\ j.pc \notin {"idle", "ended"}
      BY <1>4, <1>5 DEF t, j
    <3> QED BY <1>4, <2>1, <2>2, <3>1, EndedTrail
  <2> QED BY <1>1, <1>2, <1>3, <2>3, TrailStep
<1>6. CASE /\ job[s].pc = "idle"
           /\ \/ events \in Refusals
              \/ /\ \E first \in Rejections : events = first \o more
                 /\ more = <<"tool.failed">> => faults' = faults + 1
  <2>1. TrailOK(s, r, k, files[s], faults')
    <3>1. TrailOK(s, t \o events, k, files[s], faults')
      <4>1. /\ TrailOK(s, t, j, files[s], faults) /\ j.pc = "idle"
            /\ k.pc = "ended" /\ k.read = j.read
        BY <1>2, <1>4, <1>6 DEF FailTold
      <4>2. \/ events \in Refusals
            \/ /\ \E first \in Rejections : events = first \o more
               /\ more = <<"tool.failed">> => faults' > 0
        BY <1>4, <1>6
      <4> HIDE DEF t, j, k
      <4> QED BY <1>4, <4>1, <4>2, ScriptRefusedTrail
    <3> QED BY <1>3, <3>1
  <2> QED BY <1>1, <1>2, <1>3, <2>1, TrailStep
<1> QED BY <1>5, <1>6

LEMMA RefusedScriptTrail ==
  ASSUME WorkInv, TrailInv, NEW s \in Scripts, RefusedScript(s) PROVE TrailInv'
<1>1. /\ job' = [job EXCEPT ![s].pc = "ended", ![s].raised = TRUE]
      /\ UNCHANGED files /\ job[s].pc = "idle"
  BY DEF RefusedScript, Doing
<1>2. CASE (\E events \in Refusals : Note(s, events)) /\ UNCHANGED faults
  <2>1. PICK events \in Refusals : Note(s, events)
    BY <1>2
  <2>2. PICK more \in Reports : TRUE
    BY DEF Reports
  <2> QED BY <1>1, <1>2, <2>1, <2>2, EndStep
<1>3. CASE \E events \in Rejections : ToolFailed(s, events)
  <2>1. PICK first \in Rejections : ToolFailed(s, first)
    BY <1>3
  <2>2. PICK more \in Reports :
          /\ Note(s, first \o more) /\ faults' \in {faults, faults + 1}
          /\ more = <<"tool.failed">> => faults' = faults + 1
    BY <2>1, ToolFailedIs
  <2> QED BY <1>1, <2>2, EndStep
<1> QED BY <1>2, <1>3 DEF RefusedScript

LEMMA ScriptRaisesTrail ==
  ASSUME WorkInv, TrailInv, NEW s \in Scripts, ScriptRaises(s) PROVE TrailInv'
<1>1. /\ job' = [job EXCEPT ![s].pc = "ended", ![s].raised = TRUE]
      /\ UNCHANGED files /\ job[s].pc \notin {"idle", "ended"}
  BY DEF ScriptRaises, Doing
<1>2. PICK more \in Reports :
        /\ Note(s, <<"script.failed">> \o more) /\ faults' \in {faults, faults + 1}
        /\ more = <<"tool.failed">> => faults' = faults + 1
  BY ToolFailedIs DEF ScriptRaises
<1> QED BY <1>1, <1>2, EndStep

LEMMA ScriptStoreFailsTrail ==
  ASSUME WorkInv, TrailInv, NEW s \in Scripts, ScriptStoreFails(s) PROVE TrailInv'
<1>1. /\ job' = [job EXCEPT ![s].pc = "ended", ![s].raised = TRUE]
      /\ faults' = faults + 1
      /\ UNCHANGED files /\ job[s].pc \notin {"idle", "ended"}
  BY DEF ScriptStoreFails, Doing
<1>2. PICK more \in Reports : Note(s, more)
  BY Zenon DEF ScriptStoreFails, Reports
<1> QED BY <1>1, <1>2, EndStep

LEMMA ScriptEndsTrail ==
  ASSUME WorkInv, TrailInv, NEW s \in Scripts, ScriptEnds(s) PROVE TrailInv'
<1>1. s \in Uses
  BY UsesAreCalls
<1>2. /\ job' = [job EXCEPT ![s].pc = "ended"]
      /\ UNCHANGED <<files, faults>> /\ job[s].pc = "storing"
      /\ job[s].read \subseteq files[s] /\ job[s].raised \in BOOLEAN
      /\ Note(s, <<IF job[s].exit = 0 THEN "script.completed" ELSE "script.failed",
                   "tool.completed">>)
  BY <1>1 DEF ScriptEnds, Stored, Doing, WorkInv, Typed, Job
<1>3. /\ files[s] = job[s].read /\ ~job[s].raised
  BY <1>1, <1>2, TrailNow DEF TrailOK
<1>6. PICK more \in Reports : TRUE
  BY DEF Reports
<1>4. CASE job[s].exit = 0
  <2>1. Note(s, <<"script.completed", "tool.completed">>)
    BY <1>2, <1>4
  <2> QED BY <1>2, <1>3, <1>4, <1>6, <2>1, EndStep
<1>5. CASE job[s].exit # 0
  <2>1. Note(s, <<"script.failed", "tool.completed">>)
    BY <1>2, <1>5
  <2> QED BY <1>2, <1>6, <2>1, EndStep
<1> QED BY <1>4, <1>5

-----------------------------------------------------------------------------
LEMMA RunCommandTrail ==
  ASSUME WorkInv, TrailInv, NEW u \in Uses, RunCommand(u) PROVE TrailInv'
<1>1. /\ job[u].pc = "running" /\ UNCHANGED files
      /\ job \in [Uses -> Job] /\ job[u] \in Job
      /\ files[u] \subseteq job[u].read
  BY TrailNow DEF RunCommand, Doing, WorkInv, Typed
<1>2. PICK pc \in {"reading", "leaving"} :
        /\ job'[u].pc = pc /\ job'[u].read = job[u].read
        /\ \A v \in Uses \ {u} : job'[v] = job[v]
        /\ faults' \in {faults, faults + 1}
        /\ u = Command => \/ Note(u, <<"tool.completed">>)
                          \/ Note(u, <<"tool.failed", "failure.created">>)
                          \/ Note(u, <<"tool.failed">>) /\ faults' = faults + 1
        /\ u # Command => (Note(u, <<>>) \/ UNCHANGED trail) /\ UNCHANGED faults
  <2>1. CASE /\ \E exit \in {0, 1}, written \in SUBSET Paths :
                  job' = [job EXCEPT ![u].pc = "reading", ![u].exit = exit,
                                     ![u].written = written]
             /\ Note(u, IF u = Command THEN <<"tool.completed">> ELSE <<>>)
             /\ UNCHANGED faults
    <3>1. PICK exit \in {0, 1}, written \in SUBSET Paths :
            job' = [job EXCEPT ![u].pc = "reading", ![u].exit = exit,
                               ![u].written = written]
      BY <2>1
    <3>2. /\ job'[u].pc = "reading" /\ job'[u].read = job[u].read
          /\ \A v \in Uses \ {u} : job'[v] = job[v]
      BY <1>1, <3>1 DEF Job
    <3> QED BY <2>1, <3>2
  <2>2. CASE /\ Leave(u)
             /\ IF u = Command THEN ToolFailed(u, <<>>) ELSE UNCHANGED <<trail, faults>>
    <3>1. job' = [job EXCEPT ![u].pc = "leaving", ![u].raised = TRUE]
      BY <2>2 DEF Leave
    <3>2. /\ job'[u].pc = "leaving" /\ job'[u].read = job[u].read
          /\ \A v \in Uses \ {u} : job'[v] = job[v]
      BY <1>1, <3>1 DEF Job
    <3>3. CASE u = Command
      <4>1. PICK more \in Reports :
              /\ Note(u, <<>> \o more) /\ faults' \in {faults, faults + 1}
              /\ more = <<"tool.failed">> => faults' = faults + 1
        <5>1. ToolFailed(u, <<>>)
          BY <2>2, <3>3
        <5>2. \A events : ToolFailed(u, events) => \E more \in Reports :
                /\ Note(u, events \o more) /\ faults' \in {faults, faults + 1}
                /\ more = <<"tool.failed">> => faults' = faults + 1
          BY ToolFailedIs
        <5> QED BY <5>1, <5>2, Zenon
      <4>2. <<>> \o more = more
        BY ReportsAre, Zenon
      <4>3. Note(u, more)
        BY <4>1, <4>2, Zenon
      <4> QED BY <3>2, <3>3, <4>1, <4>3 DEF Reports
    <3>4. CASE u # Command
      BY <2>2, <3>2, <3>4
    <3> QED BY <3>3, <3>4
  <2> QED BY <2>1, <2>2 DEF RunCommand
<1>3. CASE u = Command
  <2>1. pc \in Places \ {"idle"} /\ pc # "running" /\ Doing(Command, "running")
    BY <1>1, <1>3 DEF Places, Doing
  <2>2. /\ \/ Note(Command, <<"tool.completed">>)
           \/ Note(Command, <<"tool.failed", "failure.created">>)
           \/ Note(Command, <<"tool.failed">>) /\ faults' = faults + 1
        /\ faults' \in {faults, faults + 1}
    BY <1>2, <1>3
  <2>3. /\ job'[Command].pc = pc /\ files[Command] \subseteq job'[Command].read
        /\ \A v \in Uses \ {Command} : job'[v] = job[v]
    BY <1>1, <1>2, <1>3
  <2> QED BY <1>1, <2>1, <2>2, <2>3, CommandMoves
<1>4. CASE u # Command
  <2>1. u \in Scripts /\ (Note(u, <<>>) \/ UNCHANGED trail) /\ UNCHANGED faults
    BY <1>2, <1>4 DEF Uses
  <2> QED BY <1>1, <1>2, <2>1, QuietStep
<1> QED BY <1>3, <1>4

LEMMA CollectTrail ==
  ASSUME WorkInv, TrailInv, NEW u \in Uses, Collect(u) PROVE TrailInv'
<1>1. /\ job[u].pc = "reading" /\ UNCHANGED <<trail, files, faults>>
      /\ job \in [Uses -> Job] /\ job[u] \in Job /\ files[u] = {}
  BY DEF Collect, Doing, WorkInv, Typed, Backed, Early
<1>2. PICK read \in SUBSET job[u].written :
        job' = [job EXCEPT ![u].read = read,
                           ![u].pc = IF u = Command THEN "storing" ELSE "leaving"]
  BY DEF Collect
<1>3. /\ job'[u].pc = IF u = Command THEN "storing" ELSE "leaving"
      /\ \A v \in Uses \ {u} : job'[v] = job[v]
      /\ files[u] \subseteq job'[u].read
  BY <1>1, <1>2 DEF Job
<1>4. CASE u = Command
  <2>1. "storing" \in Places \ {"idle"} /\ ~Doing(Command, "running")
    BY <1>1, <1>4 DEF Places, Doing
  <2> QED BY <1>1, <1>3, <1>4, <2>1, CommandMoves
<1>5. CASE u # Command
  <2>1. u \in Scripts
    BY <1>5 DEF Uses
  <2> QED BY <1>1, <1>3, <1>5, <2>1, QuietStep
<1> QED BY <1>4, <1>5

LEMMA StoreTrail ==
  ASSUME WorkInv, TrailInv, NEW u \in Uses, Store(u) PROVE TrailInv'
<1>1. PICK path \in job[u].read \ files[u] :
        files' = [files EXCEPT ![u] = files[u] \cup {path}]
  BY DEF Store
<1>2. /\ job[u].pc = "storing" /\ UNCHANGED <<job, faults>>
      /\ Note(u, <<"artifact.created">>) /\ files \in [Uses -> SUBSET Paths]
  BY DEF Store, Doing, WorkInv, Typed
<1>3. /\ files'[u] = files[u] \cup {path}
      /\ \A v \in Uses \ {u} : files'[v] = files[v]
  BY <1>1, <1>2
<1>4. /\ trail'[u] = trail[u] \o <<"artifact.created">>
      /\ \A v \in Uses \ {u} : trail'[v] = trail[v]
  BY <1>2, NotedAre
<1>5. TrailOK(u, trail[u] \o <<"artifact.created">>, job[u], files[u] \cup {path}, faults)
  <2>1. TrailOK(u, trail[u], job[u], files[u], faults)
    BY TrailNow
  <2> QED BY <1>2, <2>1, StoredTrail
<1>6. TrailOK(u, trail'[u], job'[u], files'[u], faults')
  BY <1>2, <1>3, <1>4, <1>5
<1> QED BY <1>2, <1>3, <1>4, <1>6, TrailStep

LEMMA SameTrail ==
  ASSUME TrailInv, UNCHANGED <<job, trail, files, faults>> PROVE TrailInv'
<1>1. ASSUME NEW u \in Uses PROVE TrailAt(u)'
  <2>1. TrailOK(u, trail[u], job[u], files[u], faults)
    BY TrailNow
  <2> QED BY <2>1 DEF TrailAt
<1> QED BY <1>1 DEF TrailInv

LEMMA TrailStepInv == ASSUME WorkInv, TrailInv, [WorkNext]_allVars PROVE TrailInv'
<1>1. CASE StartCommand
  BY <1>1, StartCommandTrail
<1>2. CASE StartAgent
  BY <1>2, SameTrail DEF StartAgent
<1>3. CASE WorkStep
  <2>1. CASE PlanCommand \/ Decide \/ CommandStoreFails \/ CommandEnds
    BY <2>1, PlanCommandTrail, DecideTrail, CommandStoreFailsTrail, CommandEndsTrail
  <2>2. CASE \E u \in Uses : RunCommand(u) \/ Collect(u) \/ Store(u)
    BY <2>2, RunCommandTrail, CollectTrail, StoreTrail
  <2>3. CASE \E s \in Scripts : ScriptStep(s)
    BY <2>3, RefusedScriptTrail, StartScriptTrail, WriteFilesTrail, ExecutedTrail,
       ScriptRaisesTrail, ScriptStoreFailsTrail, ScriptEndsTrail DEF ScriptStep
  <2>4. CASE AgentEnds \/ Judge
    BY <2>4, SameTrail DEF AgentEnds, Judge
  <2> QED BY <1>3, <2>1, <2>2, <2>3, <2>4 DEF WorkStep
<1>4. CASE OtherStep \/ \E c \in Calls : CallStep(c)
  BY <1>4, SameTrail DEF OtherStep, CallStep, workVars
<1>5. CASE UNCHANGED allVars
  BY <1>5, SameTrail DEF allVars, workVars
<1> QED BY <1>1, <1>2, <1>3, <1>4, <1>5 DEF WorkNext

LEMMA TrailInitInv == ASSUME WorkInit PROVE TrailInv
<1>1. ASSUME NEW u \in Uses PROVE TrailAt(u)
  <2>1. /\ trail[u] = <<>> /\ files[u] = {} /\ job[u].pc = "idle"
        /\ <<>> \in Seq(Topics)
    BY DEF WorkInit, NoJob
  <2>2. IsFiniteSet({}) /\ Cardinality({}) = 0
    BY FS_EmptySet
  <2>3. \A topics : Hits(<<>>, topics) = 0
    BY HitsEmpty
  <2> QED BY <2>1, <2>2, <2>3 DEF TrailAt, TrailOK
<1> QED BY <1>1 DEF TrailInv, WorkInit

\* Whatever raises where, the trail of a finished use tells its end, for any
\* number of scripts, files and faults: while a script's tool call is under way
\* the trail has its start and no end, a stored file and its announcement are
\* one step, and each way to the end of a use appends what is missing.
THEOREM TrailIsTrueHolds == WorkSpec => []TrailIsTrue
<1>1. Init /\ WorkInit => TrailInv
  BY TrailInitInv
<1>2. WorkInv /\ TrailInv /\ [WorkNext]_allVars => TrailInv'
  BY TrailStepInv
<1>3. WorkInv /\ TrailInv => TrailIsTrue
  <2> SUFFICES ASSUME WorkInv, TrailInv, NEW u \in Uses, Doing(u, "ended")
      PROVE  /\ Count(u, {"tool.started"}) = Count(u, ToolEnds)
             /\ \/ Count(u, {"script.started"}) = Count(u, ScriptEnded)
                \/ faults > 0 /\ Count(u, {"tool.failed"}) = 1
             /\ Count(u, {"script.completed"}) > 0 =>
                  job[u].exit = 0 /\ ~job[u].raised /\ files[u] = job[u].read
             /\ Count(u, {"artifact.created"}) = Cardinality(files[u])
             /\ \/ faults > 0
                \/ Count(u, {"failure.created"}) = Count(u, {"tool.failed"})
             /\ u \in Scripts /\ trail[u] # <<>> =>
                  \/ trail[u][Len(trail[u])] \in Lasts
                  \/ faults > 0 /\ trail[u][Len(trail[u])] = "tool.failed"
    BY DEF TrailIsTrue, ToolEnds, ScriptEnded, Lasts
  <2>1. /\ TrailOK(u, trail[u], job[u], files[u], faults)
        /\ job[u].pc = "ended" /\ trail[u] \in Seq(Topics)
    BY TrailNow DEF Doing
  <2>2. \A topics : Count(u, topics) = Hits(trail[u], topics) /\ Hits(trail[u], topics) \in Nat
    BY <2>1, HitsNat DEF Count, Hits
  <2>3. CASE u = Command
    BY <2>1, <2>2, <2>3, UsesAreCalls DEF TrailOK
  <2>4. CASE u \in Scripts
    BY <2>1, <2>2, <2>4 DEF TrailOK
  <2> QED BY <2>3, <2>4 DEF Uses
<1> QED BY <1>1, <1>2, <1>3, WorkInvariant, PTL DEF WorkSpec
=============================================================================
