----------------------- MODULE RunOrchestrationProofs -----------------------
(***************************************************************************)
(* What holds of RunOrchestration for every plan, every repair budget and  *)
(* every number of infrastructure errors: the shape of its calls, what a   *)
(* step may not do, and what a run leaves behind: its sandboxes, its       *)
(* repair chains, and what its subtasks were started on.                   *)
(***************************************************************************)
EXTENDS RunOrchestration, TLAPS, FiniteSetTheorems, SequenceTheorems

\* A task graph: subtasks whose dependencies are subtasks of the same graph.
IsGraph(q) ==
  /\ q \in Seq(SubTask)
  /\ \A s \in 1 .. Len(q) : q[s].deps \subseteq 1 .. Len(q)

\* Frames over a graph of n subtasks.
FrameOver(f, n) ==
  /\ f \in Frame
  /\ f.pc \in ExecPc => f.sub \in 1 .. n
  /\ f.todo \subseteq 1 .. n
FramesOver(stk, n) ==
  /\ stk \in Seq(Frame)
  /\ \A i \in 1 .. Len(stk) : FrameOver(stk[i], n)

\* Before the plan is stored there is no subtask and no call but the planner's.
BeforePlan ==
  /\ run.status = "pending" => stack = <<>> /\ sub = <<>>
  /\ \A i \in 1 .. Len(stack) :
       stack[i].pc = "planning" => Len(stack) = 1 /\ sub = <<>>

TypeInv == TypeOK /\ BeforePlan

-----------------------------------------------------------------------------
(* The operators on graphs *)

\* A new subtask is a queued one.
LEMMA NewSubTaskType ==
  ASSUME NEW role \in Roles, NEW deps \in SUBSET (Nat \ {0}),
         NEW sandbox \in BOOLEAN, NEW attempt \in Nat, NEW source \in Nat
  PROVE  /\ NewSubTask(role, deps, sandbox, attempt, source) \in SubTask
         /\ NewSubTask(role, deps, sandbox, attempt, source).deps = deps
BY DEF NewSubTask, SubTask, SubTaskStatus, Decisions

\* Setting statuses keeps the graph.
LEMMA SetStatusType ==
  ASSUME NEW q, IsGraph(q), NEW S, NEW status \in SubTaskStatus
  PROVE  /\ IsGraph(SetStatus(q, S, status))
         /\ Len(SetStatus(q, S, status)) = Len(q)
         /\ \A s \in 1 .. Len(q) :
              SetStatus(q, S, status)[s].status
                = IF s \in S THEN status ELSE q[s].status
<1> DEFINE r == SetStatus(q, S, status)
<1>1. q \in Seq(SubTask) /\ Len(q) \in Nat
  BY DEF IsGraph
<1>2. r = [s \in 1 .. Len(q) |->
             IF s \in S THEN [q[s] EXCEPT !.status = status] ELSE q[s]]
  BY DEF SetStatus
<1> HIDE DEF r
<1>3. ASSUME NEW s \in 1 .. Len(q)
      PROVE  /\ r[s] \in SubTask
             /\ r[s].deps = q[s].deps
             /\ r[s].status = IF s \in S THEN status ELSE q[s].status
  <2>1. q[s] \in SubTask
    BY <1>1
  <2>2. [q[s] EXCEPT !.status = status] \in SubTask
    BY <2>1 DEF SubTask
  <2>3. r[s] = IF s \in S THEN [q[s] EXCEPT !.status = status] ELSE q[s]
    BY <1>2
  <2> QED BY <2>1, <2>2, <2>3 DEF SubTask
<1>4. r \in Seq(SubTask) /\ Len(r) = Len(q)
  BY <1>1, <1>2, <1>3
<1>5. IsGraph(r)
  BY <1>1, <1>3, <1>4 DEF IsGraph
<1> QED BY <1>1, <1>3, <1>4, <1>5 DEF r

\* Appending subtasks that depend on the old or the new ones keeps the graph.
LEMMA AppendType ==
  ASSUME NEW q, IsGraph(q), NEW c \in Seq(SubTask),
         \A i \in 1 .. Len(c) : c[i].deps \subseteq 1 .. Len(q) + Len(c)
  PROVE  /\ IsGraph(q \o c)
         /\ Len(q \o c) = Len(q) + Len(c)
         /\ \A s \in 1 .. Len(q) : (q \o c)[s] = q[s]
<1>1. /\ q \in Seq(SubTask) /\ q \o c \in Seq(SubTask)
      /\ Len(q \o c) = Len(q) + Len(c) /\ Len(q) \in Nat /\ Len(c) \in Nat
  BY DEF IsGraph
<1>2. \A s \in 1 .. Len(q) : (q \o c)[s] = q[s]
  BY <1>1
<1>3. ASSUME NEW s \in 1 .. Len(q \o c)
      PROVE  (q \o c)[s].deps \subseteq 1 .. Len(q \o c)
  <2>1. CASE s \in 1 .. Len(q)
    BY <1>1, <1>2, <2>1 DEF IsGraph
  <2>2. CASE s \notin 1 .. Len(q)
    <3>1. s - Len(q) \in 1 .. Len(c) /\ (q \o c)[s] = c[s - Len(q)]
      BY <1>1, <2>2
    <3> QED BY <1>1, <3>1
  <2> QED BY <2>1, <2>2
<1> QED BY <1>1, <1>2, <1>3 DEF IsGraph

\* Three subtasks that may follow a graph of first - 1 subtasks.
IsChain(first, c) ==
  /\ c \in Seq(SubTask)
  /\ Len(c) = 3
  /\ \A i \in 1 .. 3 : c[i].deps \subseteq 1 .. first + 2
  /\ \A i \in 1 .. 3 : c[i].status = "queued"

\* A repair chain is three subtasks that depend on each other, in order.
LEMMA ChainType ==
  ASSUME NEW first \in Nat \ {0}, NEW role \in Roles,
         NEW deps \in SUBSET (1 .. first + 2), NEW sandbox \in BOOLEAN,
         NEW attempt \in Nat, NEW sources, sources[1] \in Nat,
         sources[2] \in Nat, sources[3] \in Nat
  PROVE  IsChain(first, Chain(first, role, deps, sandbox, attempt, sources))
<1> DEFINE a == NewSubTask(role, deps, sandbox, attempt, sources[1])
           b == NewSubTask("tester", {first}, FALSE, attempt, sources[2])
           d == NewSubTask("reviewer", {first + 1}, FALSE, attempt, sources[3])
<1>1. /\ "tester" \in Roles /\ "reviewer" \in Roles
      /\ FALSE \in BOOLEAN
  BY DEF Roles, Validation, Verification
<1>10. deps \in SUBSET (Nat \ {0})
  OBVIOUS
<1>11. {first} \in SUBSET (Nat \ {0})
  OBVIOUS
<1>12. {first + 1} \in SUBSET (Nat \ {0})
  OBVIOUS
<1>2. a \in SubTask /\ a.deps = deps
  BY <1>10, NewSubTaskType
<1>3. b \in SubTask /\ b.deps = {first}
  BY <1>1, <1>11 DEF NewSubTask, SubTask, SubTaskStatus, Decisions
<1>4. d \in SubTask /\ d.deps = {first + 1}
  BY <1>1, <1>12 DEF NewSubTask, SubTask, SubTaskStatus, Decisions
<1>5. a.status = "queued" /\ b.status = "queued" /\ d.status = "queued"
  BY DEF NewSubTask
<1>6. Chain(first, role, deps, sandbox, attempt, sources) = <<a, b, d>>
  BY DEF Chain
<1> HIDE DEF a, b, d
<1> DEFINE c == <<a, b, d>>
<1>7. c \in Seq(SubTask) /\ Len(c) = 3 /\ c[1] = a /\ c[2] = b /\ c[3] = d
  BY <1>2, <1>3, <1>4
<1>8. \A i \in 1 .. 3 : i = 1 \/ i = 2 \/ i = 3
  OBVIOUS
<1> HIDE DEF c
<1>9. /\ a.deps \subseteq 1 .. first + 2
      /\ b.deps \subseteq 1 .. first + 2
      /\ d.deps \subseteq 1 .. first + 2
  BY <1>2, <1>3, <1>4
<1>13. \A i \in 1 .. 3 : c[i].deps \subseteq 1 .. first + 2 /\ c[i].status = "queued"
  BY <1>5, <1>7, <1>8, <1>9
<1> QED BY <1>6, <1>7, <1>13 DEF c, IsChain

\* One frame of a typed stack.
LEMMA SubTypes ==
  ASSUME NEW q, IsGraph(q), NEW s \in 1 .. Len(q)
  PROVE  /\ q[s] \in SubTask
         /\ q[s].role \in Roles
         /\ q[s].deps \in SUBSET (1 .. Len(q))
         /\ q[s].sandbox \in BOOLEAN
         /\ q[s].attempt \in Nat
         /\ Len(q) \in Nat
         /\ s \in Nat
<1>1. q[s] \in SubTask /\ Len(q) \in Nat /\ s \in Nat
  BY DEF IsGraph
<1> QED BY <1>1 DEF IsGraph, SubTask

\* Replacing one subtask by one with the same dependencies keeps the graph.
LEMMA ReplaceType ==
  ASSUME NEW q, IsGraph(q), NEW s \in 1 .. Len(q), NEW r \in SubTask,
         r.deps = q[s].deps
  PROVE  IsGraph([q EXCEPT ![s] = r]) /\ Len([q EXCEPT ![s] = r]) = Len(q)
<1> DEFINE n == [q EXCEPT ![s] = r]
<1>1. q \in Seq(SubTask)
  BY DEF IsGraph
<1>2. n \in Seq(SubTask) /\ Len(n) = Len(q)
  BY <1>1
<1>3. \A t \in 1 .. Len(q) : n[t] = IF t = s THEN r ELSE q[t]
  BY <1>1
<1> HIDE DEF n
<1>4. \A t \in 1 .. Len(q) : n[t].deps \subseteq 1 .. Len(q)
  BY <1>3 DEF IsGraph
<1>5. IsGraph(n)
  BY <1>2, <1>4 DEF IsGraph
<1> QED BY <1>2, <1>5 DEF n

\* The chain of a rework and the chain of a failure repair.
LEMMA ReworkChainType ==
  ASSUME IsGraph(sub), NEW s \in 1 .. Len(sub), NEW t \in 1 .. Len(sub)
  PROVE  IsChain(Len(sub) + 1,
                 Chain(Len(sub) + 1, sub[t].role, {s}, sub[t].sandbox,
                       sub[s].attempt + 1, <<0, t, 0>>))
<1> DEFINE first == Len(sub) + 1
           role == sub[t].role
           deps == {s}
           sandbox == sub[t].sandbox
           attempt == sub[s].attempt + 1
           sources == <<0, t, 0>>
<1>1. /\ sub[s].attempt \in Nat /\ Len(sub) \in Nat /\ role \in Roles
      /\ sandbox \in BOOLEAN /\ s \in Nat /\ t \in Nat
  BY SubTypes
<1>2. /\ first \in Nat \ {0} /\ deps \in SUBSET (1 .. first + 2) /\ attempt \in Nat
      /\ sources[1] \in Nat /\ sources[2] \in Nat /\ sources[3] \in Nat
  BY <1>1
<1> HIDE DEF first, role, deps, sandbox, attempt, sources
<1>3. IsChain(first, Chain(first, role, deps, sandbox, attempt, sources))
  BY <1>1, <1>2, ChainType
<1> QED BY <1>3 DEF first, role, deps, sandbox, attempt, sources

LEMMA RepairChainType ==
  ASSUME NEW q, IsGraph(q), NEW s \in 1 .. Len(q)
  PROVE  IsChain(Len(q) + 1,
                 Chain(Len(q) + 1, q[s].role, q[s].deps, q[s].sandbox,
                       q[s].attempt + 1, <<s, s, s>>))
<1> DEFINE first == Len(q) + 1
           role == q[s].role
           deps == q[s].deps
           sandbox == q[s].sandbox
           attempt == q[s].attempt + 1
           sources == <<s, s, s>>
<1>1. /\ q[s].attempt \in Nat /\ Len(q) \in Nat /\ role \in Roles
      /\ deps \in SUBSET (1 .. Len(q)) /\ sandbox \in BOOLEAN /\ s \in Nat
  BY SubTypes
<1>2. /\ first \in Nat \ {0} /\ deps \in SUBSET (1 .. first + 2) /\ attempt \in Nat
      /\ sources[1] \in Nat /\ sources[2] \in Nat /\ sources[3] \in Nat
  BY <1>1
<1> HIDE DEF first, role, deps, sandbox, attempt, sources
<1>3. IsChain(first, Chain(first, role, deps, sandbox, attempt, sources))
  BY <1>1, <1>2, ChainType
<1> QED BY <1>3 DEF first, role, deps, sandbox, attempt, sources

\* A rework chain extends the graph.
LEMMA WithReworkType ==
  ASSUME IsGraph(sub), NEW s \in 1 .. Len(sub), NEW t \in 1 .. Len(sub)
  PROVE  IsGraph(WithRework(s, t)) /\ Len(WithRework(s, t)) = Len(sub) + 3
<1> DEFINE marked == [sub EXCEPT ![s] = [sub[s] EXCEPT !.reworked = TRUE]]
           c == Chain(Len(sub) + 1, sub[t].role, {s}, sub[t].sandbox,
                      sub[s].attempt + 1, <<0, t, 0>>)
<1>1. /\ sub[s] \in SubTask /\ sub[s].attempt \in Nat /\ Len(sub) \in Nat
      /\ sub[t].role \in Roles /\ sub[t].sandbox \in BOOLEAN
      /\ s \in Nat /\ t \in Nat
  BY SubTypes
<1>2. /\ [sub[s] EXCEPT !.reworked = TRUE] \in SubTask
      /\ [sub[s] EXCEPT !.reworked = TRUE].deps = sub[s].deps
  BY <1>1 DEF SubTask
<1>3. IsGraph(marked) /\ Len(marked) = Len(sub)
  BY <1>2, ReplaceType
<1>6. /\ c \in Seq(SubTask) /\ Len(c) = 3
      /\ \A i \in 1 .. 3 : c[i].deps \subseteq 1 .. (Len(sub) + 1) + 2
  BY ReworkChainType DEF IsChain
<1> HIDE DEF c
<1>7. \A i \in 1 .. Len(c) : c[i].deps \subseteq 1 .. Len(marked) + Len(c)
  BY <1>1, <1>3, <1>6
<1>8. IsGraph(marked \o c) /\ Len(marked \o c) = Len(marked) + Len(c)
  BY <1>3, <1>6, <1>7, AppendType
<1>9. WithRework(s, t) = marked \o c
  BY DEF WithRework, c
<1> QED BY <1>1, <1>3, <1>6, <1>8, <1>9

\* A failure repair chain extends the graph.
LEMMA WithRepairType ==
  ASSUME NEW q, IsGraph(q), NEW s \in 1 .. Len(q)
  PROVE  IsGraph(WithRepair(q, s)) /\ Len(WithRepair(q, s)) = Len(q) + 3
<1> DEFINE marked == [q EXCEPT ![s] = [q[s] EXCEPT !.repaired = TRUE]]
           doomed == {c \in Descendants(q, s) : q[c].status \notin Finished}
           cut == SetStatus(marked, doomed, "cancelled")
           c == Chain(Len(q) + 1, q[s].role, q[s].deps, q[s].sandbox,
                      q[s].attempt + 1, <<s, s, s>>)
<1>1. /\ q[s] \in SubTask /\ q[s].attempt \in Nat /\ Len(q) \in Nat
      /\ q[s].role \in Roles /\ q[s].sandbox \in BOOLEAN /\ s \in Nat
      /\ q[s].deps \in SUBSET (1 .. Len(q))
  BY SubTypes
<1>2. /\ [q[s] EXCEPT !.repaired = TRUE] \in SubTask
      /\ [q[s] EXCEPT !.repaired = TRUE].deps = q[s].deps
  BY <1>1 DEF SubTask
<1>3. IsGraph(marked) /\ Len(marked) = Len(q)
  BY <1>2, ReplaceType
<1>4. WithRepair(q, s) = cut \o c
  BY DEF WithRepair
<1> HIDE DEF marked, doomed
<1>5. IsGraph(cut) /\ Len(cut) = Len(q)
  <2>1. "cancelled" \in SubTaskStatus
    BY DEF SubTaskStatus
  <2> QED BY <1>3, <2>1, SetStatusType
<1> HIDE DEF cut
<1>8. /\ c \in Seq(SubTask) /\ Len(c) = 3
      /\ \A i \in 1 .. 3 : c[i].deps \subseteq 1 .. (Len(q) + 1) + 2
  BY RepairChainType DEF IsChain
<1> HIDE DEF c
<1>9. \A i \in 1 .. Len(c) : c[i].deps \subseteq 1 .. Len(cut) + Len(c)
  BY <1>1, <1>5, <1>8
<1>10. IsGraph(cut \o c) /\ Len(cut \o c) = Len(cut) + Len(c)
  BY <1>5, <1>8, <1>9, AppendType
<1> QED BY <1>1, <1>4, <1>5, <1>8, <1>10

-----------------------------------------------------------------------------
(* The operators on stacks *)

\* Replacing the innermost frame.
Replaced(stk, f) == [stk EXCEPT ![Len(stk)] = f]

LEMMA ReplaceTopType ==
  ASSUME NEW n \in Nat, NEW stk, FramesOver(stk, n), stk # <<>>,
         NEW f, FrameOver(f, n)
  PROVE  /\ FramesOver(Replaced(stk, f), n)
         /\ Len(Replaced(stk, f)) = Len(stk)
         /\ \A i \in 1 .. Len(stk) :
              Replaced(stk, f)[i] = IF i = Len(stk) THEN f ELSE stk[i]
<1> DEFINE r == Replaced(stk, f)
<1>1. stk \in Seq(Frame) /\ f \in Frame /\ Len(stk) \in Nat \ {0}
  BY DEF FramesOver, FrameOver
<1>2. r \in Seq(Frame) /\ Len(r) = Len(stk)
  BY <1>1 DEF Replaced
<1>3. \A i \in 1 .. Len(stk) : r[i] = IF i = Len(stk) THEN f ELSE stk[i]
  BY <1>1 DEF Replaced
<1> HIDE DEF r
<1>4. \A i \in 1 .. Len(stk) : FrameOver(r[i], n)
  BY <1>3 DEF FramesOver
<1>5. FramesOver(r, n)
  BY <1>2, <1>4 DEF FramesOver
<1> QED BY <1>2, <1>3, <1>5 DEF r

\* Calling.
LEMMA AppendFrameType ==
  ASSUME NEW n \in Nat, NEW stk, FramesOver(stk, n), NEW f, FrameOver(f, n)
  PROVE  /\ FramesOver(Append(stk, f), n)
         /\ Len(Append(stk, f)) = Len(stk) + 1
         /\ \A i \in 1 .. Len(stk) : Append(stk, f)[i] = stk[i]
         /\ Append(stk, f)[Len(stk) + 1] = f
<1> DEFINE r == Append(stk, f)
<1>1. stk \in Seq(Frame) /\ f \in Frame /\ Len(stk) \in Nat
  BY DEF FramesOver, FrameOver
<1>2. /\ r \in Seq(Frame) /\ Len(r) = Len(stk) + 1
      /\ \A i \in 1 .. Len(stk) : r[i] = stk[i]
      /\ r[Len(stk) + 1] = f
  BY <1>1
<1> HIDE DEF r
<1>3. \A i \in 1 .. Len(r) : i \in 1 .. Len(stk) \/ i = Len(stk) + 1
  BY <1>1, <1>2
<1>4. \A i \in 1 .. Len(r) : FrameOver(r[i], n)
  BY <1>2, <1>3 DEF FramesOver
<1>5. FramesOver(r, n)
  BY <1>2, <1>4 DEF FramesOver
<1> QED BY <1>2, <1>5 DEF r

\* The sequence without its last element.
LEMMA FrontLemma ==
  ASSUME NEW F, NEW s \in Seq(F), s # <<>>
  PROVE  /\ Front(s) \in Seq(F)
         /\ Len(Front(s)) = Len(s) - 1
         /\ \A i \in 1 .. Len(s) - 1 : Front(s)[i] = s[i]
<1>1. SubSeq(s, 1, Len(s) - 1) \in Seq(F)
  OBVIOUS
<1>2. Len(SubSeq(s, 1, Len(s) - 1)) = Len(s) - 1
  <2>1. \A k \in Nat : k <= Len(s) => Len(SubSeq(s, 1, k)) = k
    OBVIOUS
  <2>2. Len(s) - 1 \in Nat /\ Len(s) - 1 <= Len(s)
    OBVIOUS
  <2> QED BY <2>1, <2>2
<1>3. \A i \in 1 .. Len(s) - 1 : SubSeq(s, 1, Len(s) - 1)[i] = s[i]
  OBVIOUS
<1> QED BY <1>1, <1>2, <1>3 DEF Front

\* Returning.
LEMMA FrontType ==
  ASSUME NEW n \in Nat, NEW stk, FramesOver(stk, n), stk # <<>>
  PROVE  /\ FramesOver(Front(stk), n)
         /\ Len(Front(stk)) = Len(stk) - 1
         /\ \A i \in 1 .. Len(Front(stk)) : i \in 1 .. Len(stk) /\ Front(stk)[i] = stk[i]
<1> DEFINE r == Front(stk)
<1>1. stk \in Seq(Frame) /\ Len(stk) \in Nat \ {0}
  BY DEF FramesOver
<1>2. /\ r \in Seq(Frame) /\ Len(r) = Len(stk) - 1
      /\ \A i \in 1 .. Len(r) : i \in 1 .. Len(stk) /\ r[i] = stk[i]
  BY <1>1, FrontLemma
<1> HIDE DEF r
<1>3. \A i \in 1 .. Len(r) : FrameOver(r[i], n)
  BY <1>2 DEF FramesOver
<1>4. FramesOver(r, n)
  BY <1>2, <1>3 DEF FramesOver
<1> QED BY <1>2, <1>4 DEF r

\* A larger graph.
LEMMA GrownType ==
  ASSUME NEW n \in Nat, NEW k \in Nat, n <= k, NEW stk, FramesOver(stk, n)
  PROVE  FramesOver(stk, k)
<1>1. \A i \in 1 .. Len(stk) : FrameOver(stk[i], k)
  BY DEF FramesOver, FrameOver
<1> QED BY <1>1 DEF FramesOver

\* What TypeOK says of the stack.
LEMMA TypeOKParts ==
  TypeOK <=> /\ task \in TaskStatus
             /\ run \in [status : RunStatus, phase : RunPhase]
             /\ IsGraph(sub)
             /\ FramesOver(stack, Len(sub))
             /\ raised \in BOOLEAN
             /\ active \subseteq 1 .. Len(sub)
             /\ announced \in {"none", "succeeded", "failed"}
             /\ faults \in 0 .. MaxFaults
<1>1. FramesOver(stack, Len(sub)) <=>
        /\ stack \in Seq(Frame)
        /\ \A i \in 1 .. Len(stack) :
             /\ stack[i].pc \in ExecPc => stack[i].sub \in 1 .. Len(sub)
             /\ stack[i].todo \subseteq 1 .. Len(sub)
  BY DEF FramesOver, FrameOver
<1> QED BY <1>1 DEF TypeOK, IsGraph

\* The innermost call of a running task.
LEMMA TopType ==
  ASSUME IsGraph(sub), FramesOver(stack, Len(sub)), stack # <<>>
  PROVE  /\ Len(sub) \in Nat
         /\ Len(stack) \in Nat \ {0}
         /\ Top = stack[Len(stack)]
         /\ FrameOver(Top, Len(sub))
         /\ Top.pc \in ExecPc => Top.sub \in 1 .. Len(sub)
<1>1. Len(sub) \in Nat /\ Len(stack) \in Nat \ {0}
  BY DEF IsGraph, FramesOver
<1>2. Top = stack[Len(stack)]
  BY DEF Top, Last
<1> QED BY <1>1, <1>2 DEF FramesOver, FrameOver

\* Moving the innermost call on.
LEMMA GoToType ==
  ASSUME IsGraph(sub), FramesOver(stack, Len(sub)), stack # <<>>,
         Top.pc \in ExecPc, NEW pc \in ExecPc
  PROVE  /\ FramesOver(GoTo(pc), Len(sub))
         /\ Len(GoTo(pc)) = Len(stack)
         /\ \A i \in 1 .. Len(stack) :
              GoTo(pc)[i] = IF i = Len(stack) THEN [Top EXCEPT !.pc = pc] ELSE stack[i]
<1>1. /\ Len(sub) \in Nat /\ Top = stack[Len(stack)] /\ FrameOver(Top, Len(sub))
      /\ Top.sub \in 1 .. Len(sub)
  BY TopType
<1>2. FrameOver([Top EXCEPT !.pc = pc], Len(sub))
  BY <1>1 DEF FrameOver, Frame
<1>3. GoTo(pc) = Replaced(stack, [Top EXCEPT !.pc = pc])
  BY <1>1 DEF GoTo, Replaced
<1> DEFINE f == [Top EXCEPT !.pc = pc]
<1>5. FrameOver(f, Len(sub))
  BY <1>2
<1> HIDE DEF f
<1>4. /\ FramesOver(Replaced(stack, f), Len(sub))
      /\ Len(Replaced(stack, f)) = Len(stack)
      /\ \A i \in 1 .. Len(stack) :
           Replaced(stack, f)[i] = IF i = Len(stack) THEN f ELSE stack[i]
  BY <1>1, <1>5, ReplaceTopType
<1> QED BY <1>3, <1>4 DEF f

-----------------------------------------------------------------------------
(* Dispatching *)

\* What the orchestrator's handlers may do to the graph, the stack and the
\* statuses, called by the frames in callers with the graph subs.
Dispatched(callers, subs) ==
  /\ IsGraph(sub') /\ Len(sub') = Len(subs)
  /\ \/ stack' = callers
     \/ \E todo \in SUBSET (1 .. Len(subs)) :
          stack' = Append(callers, DispatchFrame(todo))
  /\ FramesOver(stack', Len(sub'))
  /\ task' \in TaskStatus
  /\ run' \in [status : RunStatus, phase : RunPhase]
  /\ run'.status = run.status
  /\ raised' \in BOOLEAN
  /\ faults' \in 0 .. MaxFaults

LEMMA DispatchReadyType ==
  ASSUME TypeOK,
         NEW subs, IsGraph(subs), NEW callers, FramesOver(callers, Len(subs)),
         NEW phase \in RunPhase, DispatchReady(callers, subs, phase)
  PROVE  Dispatched(callers, subs)
<1>1. /\ Len(subs) \in Nat /\ Ready(subs) \subseteq 1 .. Len(subs)
      /\ task \in TaskStatus /\ raised \in BOOLEAN /\ faults \in 0 .. MaxFaults
      /\ run \in [status : RunStatus, phase : RunPhase]
      /\ "executing" \in RunPhase /\ "running" \in TaskStatus
      /\ "assigned" \in SubTaskStatus /\ "ready" \in SubTaskStatus
      /\ MaxFaults \in Nat
  BY BudgetAssumption
     DEF IsGraph, Ready, TypeOK, RunPhase, TaskStatus, SubTaskStatus
<1>2. \A ph \in RunPhase : /\ [run EXCEPT !.phase = ph] \in [status : RunStatus, phase : RunPhase]
                           /\ [run EXCEPT !.phase = ph].status = run.status
  BY <1>1
<1>3. \A todo \in SUBSET (1 .. Len(subs)) :
        FramesOver(Append(callers, DispatchFrame(todo)), Len(subs))
  <2> SUFFICES ASSUME NEW todo \in SUBSET (1 .. Len(subs))
               PROVE  FramesOver(Append(callers, DispatchFrame(todo)), Len(subs))
    OBVIOUS
  <2>1. FrameOver(DispatchFrame(todo), Len(subs))
    BY <1>1 DEF FrameOver, Frame, DispatchFrame, ExecPc
  <2> QED BY <1>1, <2>1, AppendFrameType
<1>4. CASE Dispatch(callers, subs, phase)
  <2>1. CASE Ready(subs) = {}
    BY <1>1, <1>2, <1>4, <2>1 DEF Dispatch, Dispatched
  <2>2. CASE Ready(subs) # {}
    <3>1. /\ stack' = Append(callers, DispatchFrame(Ready(subs)))
          /\ sub' = IF SharedObjects THEN SetStatus(subs, Ready(subs), "assigned")
                                     ELSE subs
          /\ run' = [run EXCEPT !.phase = "executing"]
          /\ task' = "running" /\ raised' = raised /\ faults' = faults
      BY <1>4, <2>2 DEF Dispatch
    <3>2. /\ IsGraph(SetStatus(subs, Ready(subs), "assigned"))
          /\ Len(SetStatus(subs, Ready(subs), "assigned")) = Len(subs)
      BY <1>1, SetStatusType
    <3>3. IsGraph(sub') /\ Len(sub') = Len(subs)
      BY <3>1, <3>2
    <3> QED BY <1>1, <1>2, <1>3, <3>1, <3>3 DEF Dispatched
  <2> QED BY <2>1, <2>2
<1>5. CASE DispatchRaises(callers, subs, phase)
  <2>1. PICK k \in Ready(subs) :
          /\ faults < MaxFaults /\ faults' = faults + 1 /\ raised' = TRUE
          /\ stack' = callers /\ task' = task
          /\ sub' = IF SharedObjects
                      THEN SetStatus(SetStatus(subs, Ready(subs), "ready"),
                                     {s \in Ready(subs) : s < k}, "assigned")
                      ELSE subs
          /\ run' = [run EXCEPT !.phase = phase]
    BY <1>5 DEF DispatchRaises
  <2> DEFINE one == SetStatus(subs, Ready(subs), "ready")
             before == {s \in Ready(subs) : s < k}
             two == SetStatus(one, before, "assigned")
  <2>2. IsGraph(one) /\ Len(one) = Len(subs)
    BY <1>1, SetStatusType
  <2>3. sub' = IF SharedObjects THEN two ELSE subs
    BY <2>1
  <2> HIDE DEF one, before
  <2>4. IsGraph(two) /\ Len(two) = Len(one)
    BY <1>1, <2>2, SetStatusType
  <2> HIDE DEF two
  <2>5. IsGraph(sub') /\ Len(sub') = Len(subs)
    BY <2>2, <2>3, <2>4
  <2>6. faults' \in 0 .. MaxFaults /\ raised' \in BOOLEAN
    BY <1>1, <2>1
  <2> QED BY <1>1, <1>2, <2>1, <2>5, <2>6 DEF Dispatched
<1> QED BY <1>4, <1>5 DEF DispatchReady

\* The handler of "subtask.failed".
LEMMA OnFailedType ==
  ASSUME TypeOK, NEW subs, IsGraph(subs), NEW s \in 1 .. Len(subs),
         NEW callers, FramesOver(callers, Len(subs)), OnFailed(callers, subs, s)
  PROVE  \E q : IsGraph(q) /\ Len(q) >= Len(subs) /\ Dispatched(callers, q)
<1> DEFINE q == IF WantsRepair(subs, s) THEN WithRepair(subs, s) ELSE subs
<1>1. IsGraph(WithRepair(subs, s)) /\ Len(WithRepair(subs, s)) = Len(subs) + 3
  BY WithRepairType
<1>2. Len(subs) \in Nat /\ run.phase \in RunPhase
  BY DEF IsGraph, TypeOK
<1>3. IsGraph(q) /\ Len(q) >= Len(subs) /\ Len(q) \in Nat
  BY <1>1, <1>2
<1>4. DispatchReady(callers, q, run.phase)
  BY DEF OnFailed
<1> HIDE DEF q
<1>5. FramesOver(callers, Len(q))
  BY <1>2, <1>3, GrownType
<1>6. Dispatched(callers, q)
  BY <1>2, <1>3, <1>4, <1>5, DispatchReadyType
<1> QED BY <1>3, <1>6

\* The handler of "subtask.completed".
LEMMA OnCompletedType ==
  ASSUME TypeOK, NEW s \in 1 .. Len(sub),
         NEW callers, FramesOver(callers, Len(sub)), OnCompleted(callers, s)
  PROVE  \E q : IsGraph(q) /\ Len(q) >= Len(sub) /\ Dispatched(callers, q)
<1>1. /\ Len(sub) \in Nat /\ run.phase \in RunPhase /\ IsGraph(sub)
      /\ ReworkTargets(sub, s) \subseteq 1 .. Len(sub)
  BY DEF TypeOK, IsGraph, ReworkTargets
<1>2. CASE WantsRework(s)
  <2>1. PICK t \in ReworkTargets(sub, s) :
          DispatchReady(callers, WithRework(s, t), run.phase)
    BY <1>2 DEF OnCompleted
  <2> DEFINE q == WithRework(s, t)
  <2>2. IsGraph(q) /\ Len(q) = Len(sub) + 3
    BY <1>1, WithReworkType
  <2>3. DispatchReady(callers, q, run.phase)
    BY <2>1
  <2> HIDE DEF q
  <2>4. Len(q) \in Nat /\ Len(q) >= Len(sub)
    BY <1>1, <2>2
  <2>5. FramesOver(callers, Len(q))
    BY <1>1, <2>4, GrownType
  <2>6. Dispatched(callers, q)
    BY <1>1, <2>2, <2>3, <2>5, DispatchReadyType
  <2> QED BY <2>2, <2>4, <2>6
<1>3. CASE ~WantsRework(s)
  <2>1. DispatchReady(callers, sub, run.phase)
    BY <1>3 DEF OnCompleted
  <2>2. Dispatched(callers, sub)
    BY <1>1, <2>1, DispatchReadyType
  <2> QED BY <1>1, <2>2
<1> QED BY <1>2, <1>3

-----------------------------------------------------------------------------
(* Type correctness *)

\* A plan of the planner becomes a task graph.
LEMMA PlanType ==
  ASSUME NEW p \in Plans
  PROVE  LET q == [i \in 1 .. Len(p) |->
                     NewSubTask(p[i].role, p[i].deps, p[i].sandbox, 0, 0)]
         IN  IsGraph(q)
<1> DEFINE q == [i \in 1 .. Len(p) |->
                   NewSubTask(p[i].role, p[i].deps, p[i].sandbox, 0, 0)]
<1>1. /\ p \in Seq(PlanItem) /\ Len(p) \in Nat
      /\ \A i \in 1 .. Len(p) : p[i].deps \subseteq 1 .. Len(p)
  BY PlansAssumption
<1>2. \A i \in 1 .. Len(p) : q[i] \in SubTask /\ q[i].deps = p[i].deps
  <2> SUFFICES ASSUME NEW i \in 1 .. Len(p)
               PROVE  q[i] \in SubTask /\ q[i].deps = p[i].deps
    OBVIOUS
  <2>1. p[i] \in PlanItem
    BY <1>1
  <2>2. q[i] = NewSubTask(p[i].role, p[i].deps, p[i].sandbox, 0, 0)
    OBVIOUS
  <2>3. q[i] \in SubTask
    BY <2>1, <2>2 DEF PlanItem, NewSubTask, SubTask, SubTaskStatus, Decisions
  <2>4. q[i].deps = p[i].deps
    BY <2>2 DEF NewSubTask
  <2> QED BY <2>3, <2>4
<1>3. q \in Seq(SubTask) /\ Len(q) = Len(p)
  BY <1>1, <1>2
<1> HIDE DEF q
<1>4. IsGraph(q)
  BY <1>1, <1>2, <1>3 DEF IsGraph
<1> QED BY <1>4 DEF q

LEMMA TypeInit == Init => TypeInv
<1> SUFFICES ASSUME Init PROVE TypeInv
  OBVIOUS
<1>1. sub \in Seq(SubTask) /\ Len(sub) = 0 /\ stack \in Seq(Frame) /\ Len(stack) = 0
  BY DEF Init
<1>2. TypeOK
  <2>1. task \in TaskStatus /\ run \in [status : RunStatus, phase : RunPhase]
    BY DEF Init, TaskStatus, RunStatus, RunPhase
  <2>2. faults \in 0 .. MaxFaults
    BY BudgetAssumption DEF Init
  <2>3. /\ \A s \in 1 .. Len(sub) : sub[s].deps \subseteq 1 .. Len(sub)
        /\ \A i \in 1 .. Len(stack) :
             /\ stack[i].pc \in ExecPc => stack[i].sub \in 1 .. Len(sub)
             /\ stack[i].todo \subseteq 1 .. Len(sub)
    BY <1>1
  <2>4. /\ raised \in BOOLEAN /\ active \subseteq 1 .. Len(sub)
        /\ announced \in {"none", "succeeded", "failed"}
    BY DEF Init
  <2> QED BY <1>1, <2>1, <2>2, <2>3, <2>4 DEF TypeOK
<1>3. BeforePlan
  BY <1>1 DEF Init, BeforePlan
<1> QED BY <1>2, <1>3 DEF TypeInv

\* A step whose new graph, stack and statuses are typed, after the plan.
LEMMA TypedStep ==
  ASSUME IsGraph(sub'), FramesOver(stack', Len(sub')),
         \A i \in 1 .. Len(stack') : stack'[i].pc # "planning",
         task' \in TaskStatus, run' \in [status : RunStatus, phase : RunPhase],
         run'.status # "pending",
         raised' \in BOOLEAN, active' \subseteq 1 .. Len(sub'),
         announced' \in {"none", "succeeded", "failed"}, faults' \in 0 .. MaxFaults
  PROVE  TypeInv'
<1>1. /\ stack' \in Seq(Frame)
      /\ \A i \in 1 .. Len(stack') :
           /\ stack'[i].pc \in ExecPc => stack'[i].sub \in 1 .. Len(sub')
           /\ stack'[i].todo \subseteq 1 .. Len(sub')
  BY DEF FramesOver, FrameOver
<1>2. /\ sub' \in Seq(SubTask)
      /\ \A s \in 1 .. Len(sub') : sub'[s].deps \subseteq 1 .. Len(sub')
  BY DEF IsGraph
<1>3. TypeOK'
  BY <1>1, <1>2 DEF TypeOK
<1>4. BeforePlan'
  BY DEF BeforePlan
<1> QED BY <1>3, <1>4 DEF TypeInv

\* A call that is not the planner's: the run is started, the plan stored.
LEMMA AfterPlan ==
  ASSUME TypeInv, stack # <<>>, Top.pc # "planning"
  PROVE  /\ IsGraph(sub) /\ FramesOver(stack, Len(sub))
         /\ Len(sub) \in Nat /\ Len(stack) \in Nat \ {0}
         /\ Top = stack[Len(stack)] /\ FrameOver(Top, Len(sub))
         /\ Top.pc \in ExecPc => Top.sub \in 1 .. Len(sub)
         /\ \A i \in 1 .. Len(stack) : stack[i].pc # "planning"
         /\ run.status # "pending"
         /\ task \in TaskStatus /\ run \in [status : RunStatus, phase : RunPhase]
         /\ raised \in BOOLEAN /\ active \subseteq 1 .. Len(sub)
         /\ announced \in {"none", "succeeded", "failed"} /\ faults \in 0 .. MaxFaults
<1>1. IsGraph(sub) /\ FramesOver(stack, Len(sub))
  BY TypeOKParts DEF TypeInv
<1>2. /\ Len(sub) \in Nat /\ Len(stack) \in Nat \ {0}
      /\ Top = stack[Len(stack)] /\ FrameOver(Top, Len(sub))
      /\ Top.pc \in ExecPc => Top.sub \in 1 .. Len(sub)
  BY <1>1, TopType
<1>3. /\ \A i \in 1 .. Len(stack) : stack[i].pc # "planning"
      /\ run.status # "pending"
  BY <1>2 DEF TypeInv, BeforePlan
<1> QED BY <1>1, <1>2, <1>3 DEF TypeInv, TypeOK

\* A step that replaces the innermost frame or pops it.
LEMMA FrameStep ==
  ASSUME TypeInv, stack # <<>>, Top.pc # "planning",
         \/ \E f : /\ FrameOver(f, Len(sub)) /\ f.pc # "planning"
                   /\ stack' = Replaced(stack, f)
         \/ stack' = Front(stack)
  PROVE  /\ FramesOver(stack', Len(sub))
         /\ \A i \in 1 .. Len(stack') : stack'[i].pc # "planning"
<1>1. /\ IsGraph(sub) /\ FramesOver(stack, Len(sub)) /\ Len(sub) \in Nat
      /\ \A i \in 1 .. Len(stack) : stack[i].pc # "planning"
  BY AfterPlan
<1>2. ASSUME NEW f, FrameOver(f, Len(sub)), f.pc # "planning",
             stack' = Replaced(stack, f)
      PROVE  /\ FramesOver(stack', Len(sub))
             /\ \A i \in 1 .. Len(stack') : stack'[i].pc # "planning"
  <2>1. /\ FramesOver(stack', Len(sub))
        /\ Len(stack') = Len(stack)
        /\ \A i \in 1 .. Len(stack) :
             stack'[i] = IF i = Len(stack) THEN f ELSE stack[i]
    BY <1>1, <1>2, ReplaceTopType
  <2> QED BY <1>1, <1>2, <2>1
<1>3. CASE stack' = Front(stack)
  BY <1>1, <1>3, FrontType
<1> QED BY <1>2, <1>3

\* A step that runs a handler of the orchestrator.
LEMMA HandlerStep ==
  ASSUME TypeInv, UNCHANGED <<active, announced>>,
         NEW callers, NEW q, IsGraph(q), Len(q) >= Len(sub), Dispatched(callers, q),
         run.status # "pending",
         \A i \in 1 .. Len(callers) : callers[i].pc # "planning",
         NEW n \in Nat, FramesOver(callers, n)
  PROVE  TypeInv'
<1>1. /\ IsGraph(sub') /\ Len(sub') = Len(q) /\ FramesOver(stack', Len(sub'))
      /\ Len(sub) \in Nat /\ Len(q) \in Nat
      /\ active \subseteq 1 .. Len(sub) /\ announced \in {"none", "succeeded", "failed"}
  BY DEF Dispatched, TypeInv, TypeOK, IsGraph
<1>2. \A i \in 1 .. Len(stack') : stack'[i].pc # "planning"
  <2>1. CASE stack' = callers
    BY <2>1
  <2>2. CASE \E todo \in SUBSET (1 .. Len(q)) : stack' = Append(callers, DispatchFrame(todo))
    <3>1. PICK todo \in SUBSET (1 .. Len(q)) : stack' = Append(callers, DispatchFrame(todo))
      BY <2>2
    <3>2. callers \in Seq(Frame)
      BY DEF FramesOver
    <3>3. DispatchFrame(todo) \in Frame /\ DispatchFrame(todo).pc = "dispatch"
      <4>1. todo \in SUBSET (Nat \ {0})
        BY <1>1
      <4> QED BY <4>1 DEF DispatchFrame, Frame
    <3>4. /\ Len(stack') = Len(callers) + 1 /\ Len(callers) \in Nat
          /\ \A i \in 1 .. Len(callers) : stack'[i] = callers[i]
          /\ stack'[Len(callers) + 1] = DispatchFrame(todo)
      BY <3>1, <3>2, <3>3
    <3>5. \A i \in 1 .. Len(stack') : i \in 1 .. Len(callers) \/ i = Len(callers) + 1
      BY <3>4
    <3> QED BY <3>3, <3>4, <3>5
  <2> QED BY <2>1, <2>2 DEF Dispatched
<1>3. active' \subseteq 1 .. Len(sub') /\ announced' \in {"none", "succeeded", "failed"}
  BY <1>1
<1> QED BY <1>1, <1>2, <1>3, TypedStep DEF Dispatched

\* A call moves on to another step of its handler.
LEMMA GoToStep ==
  ASSUME TypeInv, stack # <<>>, Top.pc \in ExecPc, NEW pc \in ExecPc,
         stack' = GoTo(pc)
  PROVE  /\ FramesOver(stack', Len(sub))
         /\ \A i \in 1 .. Len(stack') : stack'[i].pc # "planning"
<1>1. Top.pc # "planning" /\ pc # "planning"
  BY DEF ExecPc
<1>2. /\ IsGraph(sub) /\ FramesOver(stack, Len(sub)) /\ Len(sub) \in Nat
      /\ \A i \in 1 .. Len(stack) : stack[i].pc # "planning"
      /\ FrameOver(Top, Len(sub))
  BY <1>1, AfterPlan
<1>3. [Top EXCEPT !.pc = pc].pc = pc
  BY <1>2 DEF FrameOver, Frame
<1> QED BY <1>1, <1>2, <1>3, GoToType

\* The scheduler's part of the next-state relation.
LEMMA PlanReadyType == TypeInv /\ PlanReady => TypeInv'
<1> SUFFICES ASSUME TypeInv, PlanReady PROVE TypeInv'
  OBVIOUS
<1>1. TypeOK /\ sub = <<>> /\ run.status # "pending" /\ active = {}
  <2>1. /\ TypeOK /\ stack # <<>> /\ Top.pc = "planning"
    BY DEF PlanReady, At, Running, TypeInv
  <2>2. IsGraph(sub) /\ FramesOver(stack, Len(sub))
    BY <2>1, TypeOKParts
  <2>3. Top = stack[Len(stack)] /\ Len(stack) \in Nat \ {0}
    BY <2>1, <2>2, TopType
  <2>4. sub = <<>> /\ run.status # "pending"
    BY <2>1, <2>3 DEF TypeInv, BeforePlan
  <2> QED BY <2>1, <2>4 DEF TypeOK
<1>2. PICK p \in Plans :
        DispatchReady(<<>>,
                      [i \in 1 .. Len(p) |->
                         NewSubTask(p[i].role, p[i].deps, p[i].sandbox, 0, 0)],
                      "coordinating")
  BY DEF PlanReady
<1> DEFINE q == [i \in 1 .. Len(p) |->
                   NewSubTask(p[i].role, p[i].deps, p[i].sandbox, 0, 0)]
<1>3. IsGraph(q)
  BY PlanType
<1>4. DispatchReady(<<>>, q, "coordinating") /\ "coordinating" \in RunPhase
  BY <1>2 DEF RunPhase
<1> HIDE DEF q
<1>5. Len(q) \in Nat
  BY <1>3 DEF IsGraph
<1>6. FramesOver(<<>>, Len(q)) /\ Len(<<>>) = 0
  BY DEF FramesOver
<1>7. Dispatched(<<>>, q)
  BY <1>1, <1>3, <1>4, <1>6, DispatchReadyType
<1>8. UNCHANGED <<active, announced>>
  BY DEF PlanReady
<1>9. Len(q) >= Len(sub) /\ \A i \in 1 .. Len(<<>>) : <<>>[i].pc # "planning"
  BY <1>1, <1>5, <1>6
<1> QED BY <1>1, <1>3, <1>5, <1>6, <1>7, <1>8, <1>9, HandlerStep

LEMMA RunNextType == TypeInv /\ (\E s \in 1 .. Len(sub) : RunNext(s)) => TypeInv'
<1> SUFFICES ASSUME TypeInv, NEW s \in 1 .. Len(sub), RunNext(s) PROVE TypeInv'
  OBVIOUS
<1>1. stack # <<>> /\ Top.pc = "dispatch" /\ Top.pc # "planning"
  BY DEF RunNext, At, Running
<1>2. /\ IsGraph(sub) /\ FramesOver(stack, Len(sub))
      /\ Len(sub) \in Nat /\ Len(stack) \in Nat \ {0}
      /\ Top = stack[Len(stack)] /\ FrameOver(Top, Len(sub))
      /\ \A i \in 1 .. Len(stack) : stack[i].pc # "planning"
      /\ run.status # "pending"
      /\ task \in TaskStatus /\ run \in [status : RunStatus, phase : RunPhase]
      /\ raised \in BOOLEAN /\ active \subseteq 1 .. Len(sub)
      /\ announced \in {"none", "succeeded", "failed"} /\ faults \in 0 .. MaxFaults
  BY <1>1, AfterPlan
<1>3. IsGraph(sub') /\ Len(sub') = Len(sub)
  <2>1. CASE SharedObjects
    BY <1>2, <2>1 DEF RunNext
  <2>2. CASE ~SharedObjects
    <3> DEFINE r == [NewSubTask(sub[s].role, sub[s].deps, sub[s].sandbox,
                                sub[s].attempt, sub[s].source)
                       EXCEPT !.status = "assigned"]
    <3>1. sub' = [sub EXCEPT ![s] = r]
      BY <1>2, <2>2 DEF RunNext, IsGraph
    <3>2. sub[s] \in SubTask
      BY <1>2, SubTypes
    <3>3. r \in SubTask /\ r.deps = sub[s].deps
      BY <3>2 DEF NewSubTask, SubTask, SubTaskStatus, Decisions
    <3> HIDE DEF r
    <3> QED BY <1>2, <3>1, <3>3, ReplaceType
  <2> QED BY <2>1, <2>2
<1> DEFINE f == [Top EXCEPT !.todo = @ \ {s}]
           looping == Replaced(stack, f)
<1>4. FrameOver(f, Len(sub)) /\ f.pc = "dispatch"
  BY <1>1, <1>2 DEF FrameOver, Frame
<1>5. stack' = Append(looping, ExecFrame(s)) \/ stack' = looping
  BY <1>2 DEF RunNext, Replaced
<1> HIDE DEF f
<1>6. /\ FramesOver(looping, Len(sub)) /\ Len(looping) = Len(stack)
      /\ \A i \in 1 .. Len(stack) : looping[i] = IF i = Len(stack) THEN f ELSE stack[i]
  BY <1>1, <1>2, <1>4, ReplaceTopType
<1> HIDE DEF looping
<1>7. \A i \in 1 .. Len(looping) : looping[i].pc # "planning"
  BY <1>2, <1>4, <1>6
<1>8. FrameOver(ExecFrame(s), Len(sub)) /\ ExecFrame(s).pc = "begin"
  BY <1>2 DEF FrameOver, ExecFrame, Frame, ExecPc
<1>9. /\ FramesOver(Append(looping, ExecFrame(s)), Len(sub))
      /\ \A i \in 1 .. Len(Append(looping, ExecFrame(s))) :
           Append(looping, ExecFrame(s))[i].pc # "planning"
  <2> DEFINE g == ExecFrame(s)
  <2>1. FrameOver(g, Len(sub)) /\ g.pc # "planning"
    BY <1>8
  <2> HIDE DEF g
  <2>2. /\ FramesOver(Append(looping, g), Len(sub))
        /\ Len(Append(looping, g)) = Len(looping) + 1
        /\ \A i \in 1 .. Len(looping) : Append(looping, g)[i] = looping[i]
        /\ Append(looping, g)[Len(looping) + 1] = g
    BY <1>2, <1>6, <2>1, AppendFrameType
  <2>3. \A i \in 1 .. Len(looping) + 1 : i \in 1 .. Len(looping) \/ i = Len(looping) + 1
    BY <1>2, <1>6
  <2>4. \A i \in 1 .. Len(Append(looping, g)) : Append(looping, g)[i].pc # "planning"
    BY <1>7, <2>1, <2>2, <2>3
  <2> QED BY <2>2, <2>4 DEF g
<1>10. /\ FramesOver(stack', Len(sub'))
       /\ \A i \in 1 .. Len(stack') : stack'[i].pc # "planning"
  BY <1>3, <1>5, <1>6, <1>7, <1>9
<1>11. UNCHANGED <<task, run, raised, active, announced, faults>>
  BY DEF RunNext
<1> QED BY <1>2, <1>3, <1>10, <1>11, TypedStep

\* One subtask changes, its dependencies do not.
LEMMA ExecSubTypes ==
  ASSUME TypeInv, stack # <<>>, Top.pc \in ExecPc
  PROVE  /\ sub[Top.sub] \in SubTask
         /\ \A st \in SubTaskStatus :
              IsGraph([sub EXCEPT ![Top.sub] = [sub[Top.sub] EXCEPT !.status = st]])
         /\ \A r \in SubTask :
              r.deps = sub[Top.sub].deps => /\ IsGraph([sub EXCEPT ![Top.sub] = r])
                                            /\ Len([sub EXCEPT ![Top.sub] = r]) = Len(sub)
<1> DEFINE k == Top.sub
<1>1. Top.pc # "planning"
  BY DEF ExecPc
<1>2. IsGraph(sub) /\ k \in 1 .. Len(sub)
  BY <1>1, AfterPlan
<1> HIDE DEF k
<1>3. sub[k] \in SubTask
  BY <1>2, SubTypes
<1>4. \A r \in SubTask : r.deps = sub[k].deps => /\ IsGraph([sub EXCEPT ![k] = r])
                                                 /\ Len([sub EXCEPT ![k] = r]) = Len(sub)
  BY <1>2, ReplaceType
<1>5. \A st \in SubTaskStatus : /\ [sub[k] EXCEPT !.status = st] \in SubTask
                                /\ [sub[k] EXCEPT !.status = st].deps = sub[k].deps
  BY <1>3 DEF SubTask
<1>6. \A st \in SubTaskStatus : IsGraph([sub EXCEPT ![k] = [sub[k] EXCEPT !.status = st]])
  <2> SUFFICES ASSUME NEW st \in SubTaskStatus
               PROVE  IsGraph([sub EXCEPT ![k] = [sub[k] EXCEPT !.status = st]])
    OBVIOUS
  <2> DEFINE r == [sub[k] EXCEPT !.status = st]
  <2>1. r \in SubTask /\ r.deps = sub[k].deps
    BY <1>5
  <2> HIDE DEF r
  <2>2. IsGraph([sub EXCEPT ![k] = r])
    BY <1>4, <2>1
  <2> QED BY <2>2 DEF r
<1> QED BY <1>3, <1>4, <1>6 DEF k

LEMMA BeginType == TypeInv /\ Begin => TypeInv'
<1> SUFFICES ASSUME TypeInv, Begin PROVE TypeInv'
  OBVIOUS
<1>1. stack # <<>> /\ Top.pc \in ExecPc /\ Top.pc # "planning"
  BY DEF Begin, At, Running, ExecPc
<1>2. StartStatus(Top.sub) \in SubTaskStatus
  BY DEF StartStatus, SubTaskStatus
<1>3. sub' = [sub EXCEPT ![Top.sub] = [sub[Top.sub] EXCEPT !.status = StartStatus(Top.sub)]]
  BY <1>1, AfterPlan DEF Begin, IsGraph
<1>4. IsGraph(sub') /\ Len(sub') = Len(sub)
  <2>1. IsGraph(sub')
    BY <1>1, <1>2, <1>3, ExecSubTypes
  <2>2. Len(sub') = Len(sub)
    BY <1>1, <1>3, AfterPlan DEF IsGraph
  <2> QED BY <2>1, <2>2
<1>5. \E pc \in ExecPc : stack' = GoTo(pc)
  BY DEF Begin, ExecPc
<1>6. /\ FramesOver(stack', Len(sub))
      /\ \A i \in 1 .. Len(stack') : stack'[i].pc # "planning"
  BY <1>1, <1>5, GoToStep
<1>7. UNCHANGED <<task, run, raised, active, announced, faults>>
  BY DEF Begin
<1> QED BY <1>1, <1>4, <1>6, <1>7, AfterPlan, TypedStep

LEMMA AcquireType == TypeInv /\ Acquire => TypeInv'
<1> SUFFICES ASSUME TypeInv, Acquire PROVE TypeInv'
  OBVIOUS
<1>1. stack # <<>> /\ Top.pc \in ExecPc /\ Top.pc # "planning"
  BY DEF Acquire, At, Running, ExecPc
<1>2. "executing" \in SubTaskStatus
  BY DEF SubTaskStatus
<1>3. sub' = [sub EXCEPT ![Top.sub] = [sub[Top.sub] EXCEPT !.status = "executing"]]
  BY <1>1, AfterPlan DEF Acquire, IsGraph
<1>4. IsGraph(sub') /\ Len(sub') = Len(sub)
  <2>1. IsGraph(sub')
    BY <1>1, <1>2, <1>3, ExecSubTypes
  <2>2. Len(sub') = Len(sub)
    BY <1>1, <1>3, AfterPlan DEF IsGraph
  <2> QED BY <2>1, <2>2
<1> DEFINE f == [Top EXCEPT !.pc = "work", !.lease = TRUE]
<1>5. FrameOver(f, Len(sub)) /\ f.pc # "planning"
  <2>1. FrameOver(Top, Len(sub)) /\ Top.sub \in 1 .. Len(sub)
    BY <1>1, AfterPlan
  <2> QED BY <2>1 DEF FrameOver, Frame, ExecPc
<1>6. stack' = Replaced(stack, f)
  BY <1>1, AfterPlan DEF Acquire, Replaced, FramesOver
<1> HIDE DEF f
<1>7. /\ FramesOver(stack', Len(sub))
      /\ \A i \in 1 .. Len(stack') : stack'[i].pc # "planning"
  BY <1>1, <1>5, <1>6, FrameStep
<1>8. active' \subseteq 1 .. Len(sub')
  BY <1>1, <1>4, AfterPlan DEF Acquire
<1>9. UNCHANGED <<task, run, raised, announced, faults>>
  BY DEF Acquire
<1> QED BY <1>1, <1>4, <1>7, <1>8, <1>9, AfterPlan, TypedStep

\* What the body stores is a subtask with the same dependencies.
LEMMA OutcomesType ==
  ASSUME NEW s, sub[s] \in SubTask, NEW r \in Outcomes(s)
  PROVE  /\ r \in SubTask /\ r.deps = sub[s].deps
         /\ r.status \in {"succeeded", "failed"}
<1> DEFINE done(v, d) == [sub[s] EXCEPT !.status = "succeeded",
                                        !.verdict = v, !.decision = d]
<1>1. \A v \in {"none", "pass", "fail"}, d \in Decisions \cup {"none"} :
        /\ done(v, d) \in SubTask /\ done(v, d).deps = sub[s].deps
        /\ done(v, d).status = "succeeded"
  BY DEF SubTask, SubTaskStatus
<1> DEFINE judged == [sub[s] EXCEPT !.status = "failed", !.verdict = "fail"]
           exited == [sub[s] EXCEPT !.status = "failed"]
<1>2. judged \in SubTask /\ judged.deps = sub[s].deps /\ judged.status = "failed"
  BY DEF SubTask, SubTaskStatus
<1>3. exited \in SubTask /\ exited.deps = sub[s].deps /\ exited.status = "failed"
  BY DEF SubTask, SubTaskStatus
<1>4. \/ \E v \in {"none", "pass", "fail"}, d \in Decisions \cup {"none"} : r = done(v, d)
      \/ r = judged
      \/ r = exited
  BY DEF Outcomes
<1> HIDE DEF done, judged, exited
<1> QED BY <1>1, <1>2, <1>3, <1>4

LEMMA WorkType == TypeInv /\ Work => TypeInv'
<1> SUFFICES ASSUME TypeInv, Work PROVE TypeInv'
  OBVIOUS
<1>1. stack # <<>> /\ Top.pc \in ExecPc /\ Top.pc # "planning"
  BY DEF Work, At, Running, ExecPc
<1>2. PICK r \in Outcomes(Top.sub) : sub' = [sub EXCEPT ![Top.sub] = r]
  BY DEF Work
<1>3. r \in SubTask /\ r.deps = sub[Top.sub].deps
  BY <1>1, ExecSubTypes, OutcomesType
<1>4. IsGraph(sub') /\ Len(sub') = Len(sub)
  BY <1>1, <1>2, <1>3, ExecSubTypes
<1>5. stack' = GoTo("stored") /\ "stored" \in ExecPc
  BY DEF Work, ExecPc
<1>6. /\ FramesOver(stack', Len(sub))
      /\ \A i \in 1 .. Len(stack') : stack'[i].pc # "planning"
  BY <1>1, <1>5, GoToStep
<1>7. UNCHANGED <<task, run, raised, active, announced, faults>>
  BY DEF Work
<1> QED BY <1>1, <1>4, <1>6, <1>7, AfterPlan, TypedStep

\* Steps that only change frames and registered sandboxes.
LEMMA ReturnType ==
  TypeInv /\ (BodyRaises \/ Return \/ Handled \/ SummaryRaises) => TypeInv'
<1> SUFFICES ASSUME TypeInv, BodyRaises \/ Return \/ Handled \/ SummaryRaises
             PROVE  TypeInv'
  OBVIOUS
<1>1. stack # <<>> /\ Top.pc \in ExecPc /\ Top.pc # "planning"
  BY DEF BodyRaises, Return, Handled, SummaryRaises, At, Running, ExecPc
<1>2. \E pc \in ExecPc : stack' = GoTo(pc)
  BY DEF BodyRaises, Return, Handled, SummaryRaises, ExecPc
<1>3. /\ FramesOver(stack', Len(sub))
      /\ \A i \in 1 .. Len(stack') : stack'[i].pc # "planning"
  BY <1>1, <1>2, GoToStep
<1>4. UNCHANGED <<task, run, sub, raised, active, announced>>
  BY DEF BodyRaises, Return, Handled, SummaryRaises
<1>5. faults' \in 0 .. MaxFaults
  BY <1>1, AfterPlan, BudgetAssumption DEF BodyRaises, Return, Handled, SummaryRaises
<1> QED BY <1>1, <1>3, <1>4, <1>5, AfterPlan, TypedStep

LEMMA ReleaseType == TypeInv /\ (Release \/ ReleaseRaises) => TypeInv'
<1> SUFFICES ASSUME TypeInv, Release \/ ReleaseRaises PROVE TypeInv'
  OBVIOUS
<1>1. stack # <<>> /\ Top.pc \in ExecPc /\ Top.pc # "planning"
  BY DEF Release, ReleaseRaises, Running, ExecPc
<1>2. PICK pc \in {"caught", "reconcile"} :
        stack' = Replaced(stack, [Top EXCEPT !.pc = pc, !.lease = FALSE])
  <2>1. stack \in Seq(Frame) /\ Len(stack) \in Nat \ {0} /\ Top = stack[Len(stack)]
    BY <1>1, AfterPlan DEF FramesOver
  <2>2. CASE Release
    <3>1. Top.pc = "unwind" => stack' = Replaced(stack, [Top EXCEPT !.pc = "caught", !.lease = FALSE])
      BY <2>1, <2>2 DEF Release, Replaced
    <3>2. Top.pc = "returned" => stack' = Replaced(stack, [Top EXCEPT !.pc = "reconcile", !.lease = FALSE])
      BY <2>1, <2>2 DEF Release, Replaced
    <3> QED BY <2>2, <3>1, <3>2 DEF Release
  <2>3. CASE ReleaseRaises
    <3>1. stack' = Replaced(stack, [Top EXCEPT !.pc = "caught", !.lease = FALSE])
      BY <2>1, <2>3 DEF ReleaseRaises, Replaced
    <3> QED BY <3>1
  <2> QED BY <2>2, <2>3
<1> DEFINE f == [Top EXCEPT !.pc = pc, !.lease = FALSE]
<1>3. FrameOver(f, Len(sub)) /\ f.pc # "planning"
  <2>1. FrameOver(Top, Len(sub)) /\ Top.sub \in 1 .. Len(sub)
    BY <1>1, AfterPlan
  <2> QED BY <2>1 DEF FrameOver, Frame, ExecPc
<1>4. stack' = Replaced(stack, f)
  BY <1>2
<1> HIDE DEF f
<1>5. /\ FramesOver(stack', Len(sub))
      /\ \A i \in 1 .. Len(stack') : stack'[i].pc # "planning"
  BY <1>1, <1>3, <1>4, FrameStep
<1>6. active' \subseteq 1 .. Len(sub)
  BY <1>1, AfterPlan DEF Release, ReleaseRaises
<1>7. faults' \in 0 .. MaxFaults
  BY <1>1, AfterPlan, BudgetAssumption DEF Release, ReleaseRaises
<1>8. UNCHANGED <<task, run, sub, raised, announced>>
  BY DEF Release, ReleaseRaises
<1> QED BY <1>1, <1>5, <1>6, <1>7, <1>8, AfterPlan, TypedStep

LEMMA LoopEndsType == TypeInv /\ LoopEnds => TypeInv'
<1> SUFFICES ASSUME TypeInv, LoopEnds PROVE TypeInv'
  OBVIOUS
<1>1. stack # <<>> /\ Top.pc # "planning" /\ stack' = Front(stack)
  BY DEF LoopEnds, At, Running
<1>2. /\ FramesOver(stack', Len(sub))
      /\ \A i \in 1 .. Len(stack') : stack'[i].pc # "planning"
  BY <1>1, FrameStep
<1>3. UNCHANGED <<task, run, sub, raised, active, announced, faults>>
  BY DEF LoopEnds
<1> QED BY <1>1, <1>2, <1>3, AfterPlan, TypedStep

LEMMA UnwindType == TypeInv /\ Unwind => TypeInv'
<1> SUFFICES ASSUME TypeInv, Unwind PROVE TypeInv'
  OBVIOUS
<1>1. stack # <<>> /\ Top.pc # "planning"
  BY DEF Unwind
<1>2. \/ stack' = Front(stack)
      \/ /\ Top.pc \in ExecPc
         /\ \E pc \in ExecPc : stack' = GoTo(pc)
  BY DEF Unwind, ExecPc
<1>3. /\ FramesOver(stack', Len(sub))
      /\ \A i \in 1 .. Len(stack') : stack'[i].pc # "planning"
  BY <1>1, <1>2, GoToStep, FrameStep
<1>4. /\ UNCHANGED <<task, run, sub, active, announced, faults>>
      /\ raised' \in BOOLEAN
  BY <1>1, AfterPlan DEF Unwind
<1> QED BY <1>1, <1>3, <1>4, AfterPlan, TypedStep

\* The verdict of the run-state service.
LEMMA SettleType ==
  ASSUME task \in TaskStatus, run \in [status : RunStatus, phase : RunPhase],
         run.status # "pending", Settle(Verdict(sub))
  PROVE  /\ task' \in TaskStatus /\ run' \in [status : RunStatus, phase : RunPhase]
         /\ run'.status # "pending"
<1>1. Verdict(sub) \in {"failed", "open", "succeeded"}
  BY DEF Verdict
<1> QED BY <1>1 DEF Settle, TaskStatus, RunStatus, RunPhase

LEMMA ReconcileType == TypeInv /\ (Reconcile \/ ReconcileRaises) => TypeInv'
<1> SUFFICES ASSUME TypeInv, Reconcile \/ ReconcileRaises PROVE TypeInv'
  OBVIOUS
<1>1. /\ stack # <<>> /\ Top.pc # "planning" /\ stack' = Front(stack)
      /\ Settle(Verdict(sub)) /\ UNCHANGED <<sub, active>>
  BY DEF Reconcile, ReconcileRaises, Running
<1>2. /\ FramesOver(stack', Len(sub))
      /\ \A i \in 1 .. Len(stack') : stack'[i].pc # "planning"
  BY <1>1, FrameStep
<1>3. /\ task' \in TaskStatus /\ run' \in [status : RunStatus, phase : RunPhase]
      /\ run'.status # "pending"
  BY <1>1, AfterPlan, SettleType
<1>4. announced' \in {"none", "succeeded", "failed"}
  BY <1>1, AfterPlan DEF Reconcile, ReconcileRaises, Announce
<1>5. raised' \in BOOLEAN
  BY DEF Reconcile, ReconcileRaises
<1>6. faults' \in 0 .. MaxFaults
  BY <1>1, AfterPlan, BudgetAssumption DEF Reconcile, ReconcileRaises
<1> QED BY <1>1, <1>2, <1>3, <1>4, <1>5, <1>6, AfterPlan, TypedStep

\* A handler of the orchestrator called by the innermost execution.
LEMMA PublishType == TypeInv /\ Publish => TypeInv'
<1> SUFFICES ASSUME TypeInv, Publish PROVE TypeInv'
  OBVIOUS
<1> DEFINE callers == GoTo("returned")
<1>1. stack # <<>> /\ Top.pc \in ExecPc /\ Top.pc # "planning" /\ "returned" \in ExecPc
  BY DEF Publish, At, Running, ExecPc
<1>2. /\ IsGraph(sub) /\ FramesOver(stack, Len(sub)) /\ Len(sub) \in Nat
      /\ Top.sub \in 1 .. Len(sub) /\ run.status # "pending"
      /\ \A i \in 1 .. Len(stack) : stack[i].pc # "planning"
  BY <1>1, AfterPlan
<1>3. /\ FramesOver(callers, Len(sub)) /\ Len(callers) = Len(stack)
      /\ \A i \in 1 .. Len(stack) :
           callers[i] = IF i = Len(stack) THEN [Top EXCEPT !.pc = "returned"] ELSE stack[i]
  BY <1>1, <1>2, GoToType
<1>4. \A i \in 1 .. Len(callers) : callers[i].pc # "planning"
  <2>1. [Top EXCEPT !.pc = "returned"].pc # "planning"
    BY <1>1, AfterPlan DEF FrameOver, Frame
  <2> HIDE DEF callers
  <2> QED BY <1>2, <1>3, <2>1
<1>5. \/ OnCompleted(callers, Top.sub)
      \/ OnFailed(callers, sub, Top.sub)
  BY DEF Publish
<1>6. UNCHANGED <<active, announced>> /\ TypeOK
  BY DEF Publish, TypeInv
<1> HIDE DEF callers
<1>7. \E q : IsGraph(q) /\ Len(q) >= Len(sub) /\ Dispatched(callers, q)
  BY <1>2, <1>3, <1>5, <1>6, OnCompletedType, OnFailedType
<1> QED BY <1>2, <1>3, <1>4, <1>6, <1>7, HandlerStep

LEMMA CaughtType == TypeInv /\ Caught => TypeInv'
<1> SUFFICES ASSUME TypeInv, Caught PROVE TypeInv'
  OBVIOUS
<1> DEFINE callers == GoTo("handled")
           s == Top.sub
           saved == IF SharedObjects
                      THEN [sub EXCEPT ![s] = [sub[s] EXCEPT !.status = "failed"]]
                      ELSE [sub EXCEPT ![s] = [sub[s] EXCEPT !.status = "failed",
                                                             !.reworked = FALSE,
                                                             !.repaired = FALSE]]
<1>1. stack # <<>> /\ Top.pc \in ExecPc /\ Top.pc # "planning" /\ "handled" \in ExecPc
  BY DEF Caught, At, Running, ExecPc
<1>2. /\ IsGraph(sub) /\ FramesOver(stack, Len(sub)) /\ Len(sub) \in Nat
      /\ s \in 1 .. Len(sub) /\ run.status # "pending"
      /\ \A i \in 1 .. Len(stack) : stack[i].pc # "planning"
  BY <1>1, AfterPlan
<1>3. /\ FramesOver(callers, Len(sub)) /\ Len(callers) = Len(stack)
      /\ \A i \in 1 .. Len(stack) :
           callers[i] = IF i = Len(stack) THEN [Top EXCEPT !.pc = "handled"] ELSE stack[i]
  BY <1>1, <1>2, GoToType
<1>4. \A i \in 1 .. Len(callers) : callers[i].pc # "planning"
  <2>1. [Top EXCEPT !.pc = "handled"].pc # "planning"
    BY <1>1, AfterPlan DEF FrameOver, Frame
  <2> HIDE DEF callers
  <2> QED BY <1>2, <1>3, <2>1
<1>5. IsGraph(saved) /\ Len(saved) = Len(sub)
  <2> DEFINE a == [sub[s] EXCEPT !.status = "failed"]
             b == [sub[s] EXCEPT !.status = "failed", !.reworked = FALSE,
                                 !.repaired = FALSE]
  <2>1. a \in SubTask /\ a.deps = sub[s].deps /\ b \in SubTask /\ b.deps = sub[s].deps
    <3>1. sub[s] \in SubTask
      BY <1>2, SubTypes
    <3> QED BY <3>1 DEF SubTask, SubTaskStatus
  <2>2. saved = IF SharedObjects THEN [sub EXCEPT ![s] = a] ELSE [sub EXCEPT ![s] = b]
    OBVIOUS
  <2> HIDE DEF a, b, s, saved
  <2> QED BY <1>2, <2>1, <2>2, ReplaceType
<1>6. OnFailed(callers, saved, s)
  BY <1>2 DEF Caught, SavedAsFailed, IsGraph
<1>7. UNCHANGED <<active, announced>> /\ TypeOK
  BY DEF Caught, TypeInv
<1> HIDE DEF callers, saved, s
<1>8. PICK q : IsGraph(q) /\ Len(q) >= Len(saved) /\ Dispatched(callers, q)
  BY <1>2, <1>3, <1>5, <1>6, <1>7, OnFailedType
<1> QED BY <1>2, <1>3, <1>4, <1>5, <1>7, <1>8, HandlerStep

LEMMA CaughtRaisesType == TypeInv /\ CaughtRaises => TypeInv'
<1> SUFFICES ASSUME TypeInv, CaughtRaises PROVE TypeInv'
  OBVIOUS
<1> DEFINE s == Top.sub
           a == [sub[s] EXCEPT !.status = "failed"]
           b == [sub[s] EXCEPT !.status = "failed", !.reworked = FALSE, !.repaired = FALSE]
<1>1. stack # <<>> /\ Top.pc \in ExecPc /\ Top.pc # "planning" /\ "reraise" \in ExecPc
  BY DEF CaughtRaises, At, Running, ExecPc
<1>2. /\ IsGraph(sub) /\ s \in 1 .. Len(sub) /\ sub[s] \in SubTask
      /\ faults \in 0 .. MaxFaults
  BY <1>1, AfterPlan, ExecSubTypes
<1>3. a \in SubTask /\ a.deps = sub[s].deps /\ b \in SubTask /\ b.deps = sub[s].deps
  BY <1>2 DEF SubTask, SubTaskStatus
<1>4. sub' = [sub EXCEPT ![s] = a] \/ sub' = [sub EXCEPT ![s] = b] \/ sub' = sub
  BY <1>2 DEF CaughtRaises, SavedAsFailed, IsGraph
<1> HIDE DEF a, b, s
<1>5. IsGraph(sub') /\ Len(sub') = Len(sub)
  BY <1>2, <1>3, <1>4, ReplaceType
<1>6. stack' = GoTo("reraise")
  BY DEF CaughtRaises
<1>7. /\ FramesOver(stack', Len(sub))
      /\ \A i \in 1 .. Len(stack') : stack'[i].pc # "planning"
  BY <1>1, <1>6, GoToStep
<1>8. UNCHANGED <<task, run, raised, active, announced>> /\ faults' \in 0 .. MaxFaults
  BY <1>2, BudgetAssumption DEF CaughtRaises
<1> QED BY <1>1, <1>5, <1>7, <1>8, AfterPlan, TypedStep

LEMMA TypeStep == TypeInv /\ [Next]_vars => TypeInv'
<1> SUFFICES ASSUME TypeInv, [Next]_vars PROVE TypeInv'
  OBVIOUS
<1>1. CASE HandleTaskCreated
  <2>1. sub = <<>> /\ sub' = sub /\ stack' = <<PlanningFrame>>
    BY <1>1 DEF HandleTaskCreated, TypeInv, BeforePlan
  <2>2. PlanningFrame \in Frame /\ PlanningFrame.pc \notin ExecPc /\ PlanningFrame.todo = {}
    BY DEF PlanningFrame, Frame, ExecPc
  <2>3. /\ stack' \in Seq(Frame) /\ Len(stack') = 1
        /\ \A i \in 1 .. Len(stack') : stack'[i] = PlanningFrame
    BY <2>1, <2>2
  <2>4. /\ task' \in TaskStatus /\ run' \in [status : RunStatus, phase : RunPhase]
        /\ run'.status # "pending"
    BY <1>1 DEF HandleTaskCreated, TaskStatus, RunStatus, RunPhase
  <2>5. TypeOK'
    BY <1>1, <2>1, <2>2, <2>3, <2>4 DEF HandleTaskCreated, TypeInv, TypeOK
  <2>6. BeforePlan'
    BY <2>1, <2>3, <2>4 DEF BeforePlan
  <2> QED BY <2>5, <2>6 DEF TypeInv
<1>2. CASE PlanRaises
  <2>1. /\ stack' = <<>> /\ UNCHANGED <<task, run, sub, active, announced>>
        /\ faults < MaxFaults /\ faults' = faults + 1 /\ raised' = TRUE
        /\ stack # <<>> /\ run.status # "pending"
    BY <1>2 DEF PlanRaises, At, Running, TypeInv, BeforePlan
  <2>2. TypeOK'
    <3>1. stack' \in Seq(Frame) /\ Len(stack') = 0
      BY <2>1
    <3>2. faults' \in 0 .. MaxFaults
      BY <2>1, BudgetAssumption DEF TypeInv, TypeOK
    <3> QED BY <2>1, <3>1, <3>2 DEF TypeInv, TypeOK
  <2>3. BeforePlan'
    BY <2>1 DEF BeforePlan
  <2> QED BY <2>2, <2>3 DEF TypeInv
<1>3. CASE DeleteTask
  BY <1>3 DEF DeleteTask, TypeInv, TypeOK, BeforePlan, TaskStatus
<1>4. CASE UNCHANGED vars
  BY <1>4 DEF vars, TypeInv, TypeOK, BeforePlan
<1> QED BY <1>1, <1>2, <1>3, <1>4, PlanReadyType, RunNextType, LoopEndsType,
           BeginType, AcquireType, WorkType, ReturnType, PublishType,
           ReleaseType, CaughtType, CaughtRaisesType, UnwindType, ReconcileType
        DEF Next, Step

\* Every state of every run is well typed: in particular no dependency, no
\* pending call and no registered sandbox ever points outside the task graph,
\* however many repair chains are appended while calls are pending.
THEOREM TypeCorrect == Spec => []TypeOK
<1>1. Spec => []TypeInv
  BY TypeInit, TypeStep, PTL DEF Spec
<1>2. TypeInv => TypeOK
  BY DEF TypeInv
<1> QED BY <1>1, <1>2, PTL

-----------------------------------------------------------------------------
(* One activation per subtask, when the repositories share their objects *)

\* OneActivation, of any stack.
Exclusive(stk) ==
  /\ \A i, j \in 1 .. Len(stk) :
       /\ i # j => stk[i].todo \cap stk[j].todo = {}
       /\ i # j /\ stk[i].pc \in ExecPc /\ stk[j].pc \in ExecPc
            => stk[i].sub # stk[j].sub
       /\ stk[i].pc \in ExecPc => stk[i].sub \notin stk[j].todo

Waiting(q, s) == q[s].status \in {"queued", "ready"}

\* The subtasks of pending calls are no longer waiting to be scheduled.
Claims(stk, q) ==
  \A i \in 1 .. Len(stk) :
    /\ \A t \in stk[i].todo : ~Waiting(q, t)
    /\ stk[i].pc \in ExecPc => ~Waiting(q, stk[i].sub)

\* What happens to a graph while calls are pending: it grows at its end, what
\* left the scheduler's hands does not come back, what is finished stays.
Progress(q, r) ==
  /\ Len(q) <= Len(r)
  /\ \A s \in 1 .. Len(q) :
       /\ ~Waiting(q, s) => ~Waiting(r, s)
       /\ q[s].status \in Finished => r[s].status = q[s].status

\* The statuses a subtask can have while its execution is at pc.
StatusAt(pc) ==
  IF pc = "begin" THEN {"assigned"}
  ELSE IF pc = "acquire" THEN {"sandbox_creating"}
  ELSE IF pc = "work" THEN {"executing", "verifying"}
  ELSE IF pc \in {"unwind", "caught"}
    THEN {"assigned", "sandbox_creating", "executing", "verifying",
          "succeeded", "failed"}
  ELSE {"succeeded", "failed"}

\* Where a call waits for the calls above it.
Calling == {"dispatch", "returned", "handled"}

\* Every execution is where its subtask's status says, and only the innermost
\* call is anywhere but at a call.
InStep(stk, q) ==
  /\ \A i \in 1 .. Len(stk) : i # Len(stk) => stk[i].pc \in Calling
  /\ \A i \in 1 .. Len(stk) :
       stk[i].pc \in ExecPc => q[stk[i].sub].status \in StatusAt(stk[i].pc)

\* Calls that returned or moved on.
Returned(stk2, stk) ==
  /\ Len(stk2) <= Len(stk)
  /\ \A i \in 1 .. Len(stk2) :
       /\ stk2[i].todo \subseteq stk[i].todo
       /\ stk2[i].pc \in ExecPc => stk[i].pc \in ExecPc /\ stk2[i].sub = stk[i].sub

LEMMA ExclusiveReturned ==
  ASSUME NEW n, NEW stk, FramesOver(stk, n), NEW stk2, stk2 \in Seq(Frame),
         Returned(stk2, stk), Exclusive(stk)
  PROVE  Exclusive(stk2)
<1>1. \A i \in 1 .. Len(stk2) : i \in 1 .. Len(stk)
  BY DEF Returned, FramesOver
<1> QED BY <1>1 DEF Exclusive, Returned

LEMMA ClaimsReturned ==
  ASSUME NEW q, IsGraph(q), NEW r, Progress(q, r),
         NEW stk, FramesOver(stk, Len(q)), NEW stk2, stk2 \in Seq(Frame),
         Returned(stk2, stk), Claims(stk, q)
  PROVE  Claims(stk2, r)
<1> SUFFICES ASSUME NEW i \in 1 .. Len(stk2)
             PROVE  /\ \A t \in stk2[i].todo : ~Waiting(r, t)
                    /\ stk2[i].pc \in ExecPc => ~Waiting(r, stk2[i].sub)
  BY DEF Claims
<1>1. i \in 1 .. Len(stk)
  BY DEF Returned, FramesOver
<1>2. /\ stk[i].todo \subseteq 1 .. Len(q)
      /\ stk[i].pc \in ExecPc => stk[i].sub \in 1 .. Len(q)
  BY <1>1 DEF FramesOver, FrameOver
<1> QED BY <1>1, <1>2 DEF Claims, Returned, Progress

\* A dispatch loop over waiting subtasks competes with nobody.
LEMMA ExclusiveDispatch ==
  ASSUME NEW n \in Nat, NEW q, NEW stk, FramesOver(stk, n), Exclusive(stk), Claims(stk, q),
         NEW todo \in SUBSET (1 .. n), \A s \in todo : Waiting(q, s)
  PROVE  Exclusive(Append(stk, DispatchFrame(todo)))
<1> DEFINE f == DispatchFrame(todo)
           new == Append(stk, f)
<1>1. stk \in Seq(Frame) /\ Len(stk) \in Nat
  BY DEF FramesOver
<1>2. f.todo = todo /\ f.pc \notin ExecPc
  BY DEF DispatchFrame, ExecPc
<1>3. /\ Len(new) = Len(stk) + 1
      /\ \A i \in 1 .. Len(stk) : new[i] = stk[i]
      /\ new[Len(stk) + 1] = f
  BY <1>1
<1>4. \A i \in 1 .. Len(new) : i \in 1 .. Len(stk) \/ i = Len(stk) + 1
  BY <1>1, <1>3
<1> HIDE DEF new, f
<1>5. \A i \in 1 .. Len(stk) :
        /\ stk[i].todo \cap todo = {}
        /\ stk[i].pc \in ExecPc => stk[i].sub \notin todo
  BY DEF Claims
<1> SUFFICES ASSUME NEW i \in 1 .. Len(new), NEW j \in 1 .. Len(new)
             PROVE  /\ i # j => new[i].todo \cap new[j].todo = {}
                    /\ i # j /\ new[i].pc \in ExecPc /\ new[j].pc \in ExecPc
                         => new[i].sub # new[j].sub
                    /\ new[i].pc \in ExecPc => new[i].sub \notin new[j].todo
  BY DEF Exclusive, new, f
<1>6. CASE i \in 1 .. Len(stk) /\ j \in 1 .. Len(stk)
  BY <1>3, <1>6 DEF Exclusive
<1>7. CASE i \in 1 .. Len(stk) /\ j = Len(stk) + 1
  BY <1>2, <1>3, <1>5, <1>7
<1>8. CASE i = Len(stk) + 1 /\ j \in 1 .. Len(stk)
  BY <1>2, <1>3, <1>5, <1>8
<1>9. CASE i = Len(stk) + 1 /\ j = Len(stk) + 1
  BY <1>2, <1>3, <1>9
<1> QED BY <1>4, <1>6, <1>7, <1>8, <1>9

\* The shape of what scheduling does.
LEMMA LenDispatched ==
  ASSUME NEW subs, IsGraph(subs), NEW callers, NEW phase,
         DispatchReady(callers, subs, phase)
  PROVE  /\ Len(sub') = Len(subs) /\ Len(sub') \in Nat
         /\ \/ stack' = callers
            \/ \E todo \in SUBSET (1 .. Len(subs)) :
                 stack' = Append(callers, DispatchFrame(todo))
<1>1. Len(subs) \in Nat /\ Ready(subs) \in SUBSET (1 .. Len(subs))
  BY DEF IsGraph, Ready
<1>2. \A S, st : /\ st \in SubTaskStatus => IsGraph(SetStatus(subs, S, st))
                 /\ st \in SubTaskStatus => Len(SetStatus(subs, S, st)) = Len(subs)
  BY SetStatusType
<1>3. Len(sub') = Len(subs)
  <2>1. "assigned" \in SubTaskStatus /\ "ready" \in SubTaskStatus
    BY DEF SubTaskStatus
  <2>2. CASE Dispatch(callers, subs, phase)
    BY <1>2, <2>1, <2>2 DEF Dispatch
  <2>3. CASE DispatchRaises(callers, subs, phase)
    <3>1. \A S, T : Len(SetStatus(SetStatus(subs, S, "ready"), T, "assigned")) = Len(subs)
      <4> SUFFICES ASSUME NEW S, NEW T
                   PROVE  Len(SetStatus(SetStatus(subs, S, "ready"), T, "assigned")) = Len(subs)
        OBVIOUS
      <4> DEFINE one == SetStatus(subs, S, "ready")
      <4>1. IsGraph(one) /\ Len(one) = Len(subs)
        BY <1>2, <2>1
      <4> HIDE DEF one
      <4>2. Len(SetStatus(one, T, "assigned")) = Len(one)
        BY <2>1, <4>1, SetStatusType
      <4> QED BY <4>1, <4>2 DEF one
    <3> QED BY <2>3, <3>1 DEF DispatchRaises
  <2> QED BY <2>2, <2>3 DEF DispatchReady
<1> QED BY <1>1, <1>3 DEF DispatchReady, Dispatch, DispatchRaises

\* Scheduling keeps both.
LEMMA DispatchKeeps ==
  ASSUME SharedObjects, NEW subs, IsGraph(subs),
         NEW callers, FramesOver(callers, Len(subs)),
         Exclusive(callers), Claims(callers, subs),
         NEW phase, DispatchReady(callers, subs, phase)
  PROVE  Exclusive(stack') /\ Claims(stack', sub') /\ Progress(subs, sub')
<1>0. Progress(subs, subs)
  BY DEF Progress, IsGraph
<1>1. /\ Len(subs) \in Nat /\ Ready(subs) \subseteq 1 .. Len(subs)
      /\ \A s \in Ready(subs) : Waiting(subs, s)
      /\ "assigned" \in SubTaskStatus /\ "ready" \in SubTaskStatus
      /\ callers \in Seq(Frame)
  BY DEF IsGraph, Ready, Waiting, SubTaskStatus, FramesOver
<1>2. Returned(callers, callers)
  BY <1>1 DEF Returned
<1>3. CASE Dispatch(callers, subs, phase)
  <2>1. CASE Ready(subs) = {}
    BY <1>0, <1>3, <2>1 DEF Dispatch
  <2>2. CASE Ready(subs) # {}
    <3> DEFINE r == SetStatus(subs, Ready(subs), "assigned")
               f == DispatchFrame(Ready(subs))
    <3>1. stack' = Append(callers, f) /\ sub' = r
      BY <1>3, <2>2 DEF Dispatch
    <3>2. Exclusive(stack')
      BY <1>1, <3>1, ExclusiveDispatch
    <3>3. /\ Len(r) = Len(subs)
          /\ \A s \in 1 .. Len(subs) :
               r[s].status = IF s \in Ready(subs) THEN "assigned" ELSE subs[s].status
      BY <1>1, SetStatusType
    <3> HIDE DEF r
    <3>4. Progress(subs, r) /\ \A s \in Ready(subs) : ~Waiting(r, s)
      BY <1>1, <3>3 DEF Progress, Waiting, Finished
    <3>5. Claims(callers, r)
      BY <1>1, <1>2, <3>4, ClaimsReturned
    <3>6. f.pc \notin ExecPc /\ f.todo = Ready(subs)
      BY DEF DispatchFrame, ExecPc
    <3>7. f \in Frame
      <4>1. Ready(subs) \in SUBSET (Nat \ {0})
        BY <1>1
      <4> QED BY <4>1 DEF DispatchFrame, Frame
    <3> HIDE DEF f
    <3>8. /\ Len(stack') = Len(callers) + 1 /\ Len(callers) \in Nat
          /\ \A i \in 1 .. Len(callers) : stack'[i] = callers[i]
          /\ stack'[Len(callers) + 1] = f
      BY <1>1, <3>1, <3>7
    <3>9. \A i \in 1 .. Len(stack') : i \in 1 .. Len(callers) \/ i = Len(callers) + 1
      BY <3>8
    <3>10. Claims(stack', r)
      BY <3>4, <3>5, <3>6, <3>8, <3>9 DEF Claims
    <3> QED BY <3>1, <3>2, <3>4, <3>10
  <2> QED BY <2>1, <2>2
<1>4. CASE DispatchRaises(callers, subs, phase)
  <2>1. PICK k \in Ready(subs) :
          /\ stack' = callers
          /\ sub' = SetStatus(SetStatus(subs, Ready(subs), "ready"),
                              {s \in Ready(subs) : s < k}, "assigned")
    BY <1>4 DEF DispatchRaises
  <2> DEFINE one == SetStatus(subs, Ready(subs), "ready")
             before == {s \in Ready(subs) : s < k}
             two == SetStatus(one, before, "assigned")
  <2>2. /\ IsGraph(one) /\ Len(one) = Len(subs)
        /\ \A s \in 1 .. Len(subs) :
             one[s].status = IF s \in Ready(subs) THEN "ready" ELSE subs[s].status
    BY <1>1, SetStatusType
  <2>3. sub' = two /\ before \subseteq Ready(subs)
    BY <2>1
  <2> HIDE DEF one, before
  <2>4. /\ Len(two) = Len(one)
        /\ \A s \in 1 .. Len(one) :
             two[s].status = IF s \in before THEN "assigned" ELSE one[s].status
    BY <1>1, <2>2, SetStatusType
  <2> HIDE DEF two
  <2>5. Progress(subs, two)
    BY <1>1, <2>2, <2>3, <2>4 DEF Progress, Waiting, Finished
  <2>6. Claims(callers, two)
    BY <1>1, <1>2, <2>5, ClaimsReturned
  <2> QED BY <2>1, <2>3, <2>5, <2>6
<1> QED BY <1>3, <1>4 DEF DispatchReady

\* A rework chain changes no status.
LEMMA WithReworkKeeps ==
  ASSUME IsGraph(sub), NEW s \in 1 .. Len(sub), NEW t \in 1 .. Len(sub)
  PROVE  \A k \in 1 .. Len(sub) : WithRework(s, t)[k].status = sub[k].status
<1> DEFINE marked == [sub EXCEPT ![s] = [sub[s] EXCEPT !.reworked = TRUE]]
           c == Chain(Len(sub) + 1, sub[t].role, {s}, sub[t].sandbox,
                      sub[s].attempt + 1, <<0, t, 0>>)
<1>1. sub \in Seq(SubTask) /\ sub[s] \in SubTask
  BY SubTypes DEF IsGraph
<1>2. [sub[s] EXCEPT !.reworked = TRUE].status = sub[s].status
  BY <1>1 DEF SubTask
<1>3. /\ Len(marked) = Len(sub) /\ marked \in Seq(SubTask)
      /\ \A k \in 1 .. Len(sub) : marked[k].status = sub[k].status
  <2>1. [sub[s] EXCEPT !.reworked = TRUE] \in SubTask
    BY <1>1 DEF SubTask
  <2> DEFINE r == [sub[s] EXCEPT !.reworked = TRUE]
  <2>2. marked = [sub EXCEPT ![s] = r] /\ r \in SubTask /\ r.status = sub[s].status
    BY <1>2, <2>1
  <2> HIDE DEF r, marked
  <2> QED BY <1>1, <2>2
<1>4. WithRework(s, t) = marked \o c
  BY DEF WithRework
<1>5. c \in Seq(SubTask)
  BY ReworkChainType DEF IsChain
<1> HIDE DEF marked, c
<1>6. \A k \in 1 .. Len(sub) : (marked \o c)[k] = marked[k]
  BY <1>3, <1>5
<1> QED BY <1>3, <1>4, <1>6

\* A failure repair chain cancels what has not finished, and nothing else.
LEMMA WithRepairKeeps ==
  ASSUME NEW q, IsGraph(q), NEW s \in 1 .. Len(q)
  PROVE  \A k \in 1 .. Len(q) :
           \/ WithRepair(q, s)[k].status = q[k].status
           \/ q[k].status \notin Finished /\ WithRepair(q, s)[k].status = "cancelled"
<1> DEFINE marked == [q EXCEPT ![s] = [q[s] EXCEPT !.repaired = TRUE]]
           doomed == {c \in Descendants(q, s) : q[c].status \notin Finished}
           cut == SetStatus(marked, doomed, "cancelled")
           c == Chain(Len(q) + 1, q[s].role, q[s].deps, q[s].sandbox,
                      q[s].attempt + 1, <<s, s, s>>)
<1>1. q \in Seq(SubTask) /\ q[s] \in SubTask
  BY SubTypes DEF IsGraph
<1>2. /\ [q[s] EXCEPT !.repaired = TRUE] \in SubTask
      /\ [q[s] EXCEPT !.repaired = TRUE].status = q[s].status
      /\ [q[s] EXCEPT !.repaired = TRUE].deps = q[s].deps
  BY <1>1 DEF SubTask
<1>3. /\ IsGraph(marked) /\ Len(marked) = Len(q)
      /\ \A k \in 1 .. Len(q) : marked[k].status = q[k].status
  <2> DEFINE r == [q[s] EXCEPT !.repaired = TRUE]
  <2>1. marked = [q EXCEPT ![s] = r] /\ r \in SubTask /\ r.status = q[s].status /\ r.deps = q[s].deps
    BY <1>2
  <2> HIDE DEF r, marked
  <2>2. IsGraph(marked) /\ Len(marked) = Len(q)
    BY <2>1, ReplaceType
  <2>3. \A k \in 1 .. Len(q) : marked[k].status = q[k].status
    BY <1>1, <2>1
  <2> QED BY <2>2, <2>3
<1>4. WithRepair(q, s) = cut \o c
  BY DEF WithRepair
<1>5. c \in Seq(SubTask)
  BY RepairChainType DEF IsChain
<1>6. \A k \in doomed : q[k].status \notin Finished
  OBVIOUS
<1> HIDE DEF marked, doomed, c
<1>7. /\ IsGraph(cut) /\ Len(cut) = Len(q)
      /\ \A k \in 1 .. Len(q) :
           cut[k].status = IF k \in doomed THEN "cancelled" ELSE marked[k].status
  <2>1. "cancelled" \in SubTaskStatus
    BY DEF SubTaskStatus
  <2> QED BY <1>3, <2>1, SetStatusType
<1> HIDE DEF cut
<1>8. \A k \in 1 .. Len(q) : (cut \o c)[k] = cut[k]
  BY <1>5, <1>7 DEF IsGraph
<1> QED BY <1>3, <1>4, <1>6, <1>7, <1>8

\* The innermost execution moves on, its subtask's status with it.
LEMMA MoveOn ==
  ASSUME TypeInv, Exclusive(stack), Claims(stack, sub), InStep(stack, sub),
         stack # <<>>, Top.pc \in ExecPc,
         NEW f, FrameOver(f, Len(sub)), f.pc \in ExecPc, f.sub = Top.sub,
         f.todo \subseteq Top.todo,
         NEW q, IsGraph(q), Len(q) = Len(sub),
         \A t \in 1 .. Len(sub) : t # Top.sub => q[t].status = sub[t].status,
         q[Top.sub].status \in StatusAt(f.pc)
  PROVE  LET stk == Replaced(stack, f)
         IN  Exclusive(stk) /\ Claims(stk, q) /\ InStep(stk, q)
<1> DEFINE stk == Replaced(stack, f)
<1>1. /\ FramesOver(stack, Len(sub)) /\ Len(stack) \in Nat \ {0} /\ Len(sub) \in Nat
      /\ Top = stack[Len(stack)] /\ Top.sub \in 1 .. Len(sub)
  BY AfterPlan DEF ExecPc
<1>2. /\ FramesOver(stk, Len(sub)) /\ Len(stk) = Len(stack)
      /\ \A i \in 1 .. Len(stack) : stk[i] = IF i = Len(stack) THEN f ELSE stack[i]
  BY <1>1, ReplaceTopType
<1> HIDE DEF stk
<1>3. Exclusive(stk)
  <2>1. Returned(stk, stack) /\ stk \in Seq(Frame)
    BY <1>1, <1>2 DEF Returned, FramesOver
  <2> QED BY <1>1, <2>1, ExclusiveReturned
<1>4. \A i \in 1 .. Len(stack) :
        i # Len(stack) /\ stack[i].pc \in ExecPc =>
          stack[i].sub \in 1 .. Len(sub) /\ stack[i].sub # Top.sub
  BY <1>1 DEF Exclusive, FramesOver, FrameOver
<1>5. ~Waiting(q, Top.sub)
  BY DEF StatusAt, Waiting
<1>6. Claims(stk, q)
  <2> SUFFICES ASSUME NEW i \in 1 .. Len(stack)
               PROVE  /\ \A t \in stk[i].todo : ~Waiting(q, t)
                      /\ stk[i].pc \in ExecPc => ~Waiting(q, stk[i].sub)
    BY <1>2 DEF Claims
  <2>1. \A t \in stack[i].todo : t \in 1 .. Len(sub) /\ ~Waiting(sub, t)
    BY DEF FramesOver, FrameOver, Claims, TypeInv, TypeOK
  <2>2. \A t \in stack[i].todo : ~Waiting(q, t)
    BY <1>5, <2>1 DEF Waiting
  <2>3. CASE i = Len(stack)
    BY <1>1, <1>2, <1>5, <2>2, <2>3
  <2>4. CASE i # Len(stack)
    <3>1. stack[i].pc \in ExecPc => ~Waiting(q, stack[i].sub)
      BY <1>4, <2>4 DEF Claims, Waiting
    <3> QED BY <1>2, <2>2, <2>4, <3>1
  <2> QED BY <2>3, <2>4
<1>7. InStep(stk, q)
  <2>1. \A i \in 1 .. Len(stk) : i # Len(stk) => stk[i].pc \in Calling
    BY <1>2 DEF InStep
  <2>2. \A i \in 1 .. Len(stk) :
          stk[i].pc \in ExecPc => q[stk[i].sub].status \in StatusAt(stk[i].pc)
    <3> SUFFICES ASSUME NEW i \in 1 .. Len(stack), stk[i].pc \in ExecPc
                 PROVE  q[stk[i].sub].status \in StatusAt(stk[i].pc)
      BY <1>2
    <3>1. CASE i = Len(stack)
      BY <1>2, <3>1
    <3>2. CASE i # Len(stack)
      BY <1>2, <1>4, <3>2 DEF InStep
    <3> QED BY <3>1, <3>2
  <2> QED BY <2>1, <2>2 DEF InStep
<1> QED BY <1>3, <1>6, <1>7 DEF stk

\* The innermost call returns.
LEMMA PopOff ==
  ASSUME TypeInv, Exclusive(stack), Claims(stack, sub), InStep(stack, sub),
         stack # <<>>, Top.pc # "planning"
  PROVE  /\ Exclusive(Front(stack)) /\ Claims(Front(stack), sub)
         /\ InStep(Front(stack), sub)
<1> DEFINE stk == Front(stack)
<1>1. /\ IsGraph(sub) /\ FramesOver(stack, Len(sub)) /\ Len(sub) \in Nat
      /\ Len(stack) \in Nat \ {0}
  BY AfterPlan
<1>2. /\ FramesOver(stk, Len(sub)) /\ Len(stk) = Len(stack) - 1
      /\ \A i \in 1 .. Len(stk) : i \in 1 .. Len(stack) /\ stk[i] = stack[i]
  BY <1>1, FrontType
<1> HIDE DEF stk
<1>3. Returned(stk, stack) /\ stk \in Seq(Frame)
  BY <1>1, <1>2 DEF Returned, FramesOver
<1>4. Progress(sub, sub)
  BY <1>1 DEF Progress
<1>5. Exclusive(stk) /\ Claims(stk, sub)
  BY <1>1, <1>3, <1>4, ExclusiveReturned, ClaimsReturned
<1>6. InStep(stk, sub)
  BY <1>1, <1>2 DEF InStep
<1> QED BY <1>5, <1>6 DEF stk

\* A handler of the orchestrator runs below nothing but calls.
LEMMA HandlerKeeps ==
  ASSUME SharedObjects, NEW q, IsGraph(q), NEW subs, IsGraph(subs), Progress(q, subs),
         NEW callers, FramesOver(callers, Len(q)),
         Exclusive(callers), Claims(callers, q), InStep(callers, q),
         \A i \in 1 .. Len(callers) : callers[i].pc \in Calling,
         NEW phase, DispatchReady(callers, subs, phase)
  PROVE  /\ Exclusive(stack') /\ Claims(stack', sub') /\ InStep(stack', sub')
         /\ Progress(q, sub')
<1>1. Len(q) \in Nat /\ Len(subs) \in Nat /\ Len(q) <= Len(subs)
  BY DEF IsGraph, Progress
<1>2. FramesOver(callers, Len(subs)) /\ callers \in Seq(Frame) /\ Len(callers) \in Nat
  BY <1>1, GrownType DEF FramesOver
<1>3. Claims(callers, subs)
  <2>1. Returned(callers, callers)
    BY <1>2 DEF Returned
  <2> QED BY <1>2, <2>1, ClaimsReturned
<1>4. Exclusive(stack') /\ Claims(stack', sub') /\ Progress(subs, sub')
  BY <1>2, <1>3, DispatchKeeps
<1>5. Progress(q, sub')
  <2>1. Len(q) <= Len(sub')
    <3>1. Len(subs) <= Len(sub')
      BY <1>4 DEF Progress
    <3>2. Len(sub') \in Nat
      BY <1>2, LenDispatched
    <3> QED BY <1>1, <3>1, <3>2
  <2>2. \A s \in 1 .. Len(q) : s \in 1 .. Len(subs)
    BY <1>1
  <2> QED BY <1>4, <2>1, <2>2 DEF Progress, Waiting
<1>6. InStep(stack', sub')
  <2>1. ASSUME NEW i \in 1 .. Len(callers), callers[i].pc \in ExecPc
        PROVE  sub'[callers[i].sub].status \in StatusAt(callers[i].pc)
    <3>1. callers[i].pc \in {"returned", "handled"}
      BY <2>1 DEF Calling, ExecPc
    <3>2. callers[i].sub \in 1 .. Len(q) /\ q[callers[i].sub].status \in {"succeeded", "failed"}
      BY <2>1, <3>1 DEF FramesOver, FrameOver, InStep, StatusAt
    <3>3. sub'[callers[i].sub].status = q[callers[i].sub].status
      BY <1>5, <3>2 DEF Progress, Finished
    <3> QED BY <3>1, <3>2, <3>3 DEF StatusAt
  <2>2. CASE stack' = callers
    BY <2>1, <2>2 DEF InStep
  <2>3. CASE \E todo \in SUBSET (1 .. Len(subs)) : stack' = Append(callers, DispatchFrame(todo))
    <3>1. PICK todo \in SUBSET (1 .. Len(subs)) : stack' = Append(callers, DispatchFrame(todo))
      BY <2>3
    <3> DEFINE f == DispatchFrame(todo)
    <3>2. f.pc \notin ExecPc /\ f \in Frame
      <4>1. todo \in SUBSET (Nat \ {0})
        BY <1>1
      <4> QED BY <4>1 DEF DispatchFrame, Frame, ExecPc
    <3>3. stack' = Append(callers, f)
      BY <3>1
    <3> HIDE DEF f
    <3>4. /\ Len(stack') = Len(callers) + 1
          /\ \A i \in 1 .. Len(callers) : stack'[i] = callers[i]
          /\ stack'[Len(callers) + 1] = f
      BY <1>2, <3>2, <3>3
    <3>5. \A i \in 1 .. Len(stack') : i \in 1 .. Len(callers) \/ i = Len(callers) + 1
      BY <1>2, <3>4
    <3>6. \A i \in 1 .. Len(stack') : i # Len(stack') => stack'[i].pc \in Calling
      BY <1>2, <3>4, <3>5
    <3>7. \A i \in 1 .. Len(stack') :
            stack'[i].pc \in ExecPc => sub'[stack'[i].sub].status \in StatusAt(stack'[i].pc)
      BY <2>1, <3>2, <3>4, <3>5
    <3> QED BY <3>6, <3>7 DEF InStep
  <2> QED BY <2>2, <2>3, LenDispatched
<1> QED BY <1>4, <1>5, <1>6

\* The inductive invariant behind OneActivation and FinishedStaysFinished.
ActInv == /\ TypeInv
          /\ Exclusive(stack)
          /\ Claims(stack, sub)
          /\ InStep(stack, sub)

\* What FinishedStaysFinished says of a step.
StaysFinished ==
  \A s \in 1 .. Len(sub) :
    sub[s].status \in Finished =>
      \/ sub'[s].status = sub[s].status
      \/ sub[s].status = "succeeded" /\ sub'[s].status = "failed"

Kept == Exclusive(stack') /\ Claims(stack', sub') /\ InStep(stack', sub') /\ StaysFinished

\* A step that changes the innermost frame and at most its subtask.
LEMMA MoveOnKept ==
  ASSUME ActInv, stack # <<>>, Top.pc \in ExecPc,
         NEW f, FrameOver(f, Len(sub)), f.pc \in ExecPc, f.sub = Top.sub,
         f.todo \subseteq Top.todo, stack' = Replaced(stack, f),
         IsGraph(sub'), Len(sub') = Len(sub),
         \A t \in 1 .. Len(sub) : t # Top.sub => sub'[t].status = sub[t].status,
         sub'[Top.sub].status \in StatusAt(f.pc),
         \/ sub'[Top.sub].status = sub[Top.sub].status
         \/ sub[Top.sub].status \notin Finished
         \/ sub[Top.sub].status = "succeeded" /\ sub'[Top.sub].status = "failed"
  PROVE  Kept
<1>1. /\ TypeInv /\ Exclusive(stack) /\ Claims(stack, sub) /\ InStep(stack, sub)
  BY DEF ActInv
<1>2. /\ Exclusive(Replaced(stack, f)) /\ Claims(Replaced(stack, f), sub')
      /\ InStep(Replaced(stack, f), sub')
  BY <1>1, MoveOn
<1>3. StaysFinished
  BY DEF StaysFinished
<1> QED BY <1>2, <1>3 DEF Kept

\* The same for a frame that only moves on.
LEMMA GoToKept ==
  ASSUME ActInv, stack # <<>>, Top.pc \in ExecPc, NEW pc \in ExecPc,
         stack' = GoTo(pc), IsGraph(sub'), Len(sub') = Len(sub),
         \A t \in 1 .. Len(sub) : t # Top.sub => sub'[t].status = sub[t].status,
         sub'[Top.sub].status \in StatusAt(pc),
         \/ sub'[Top.sub].status = sub[Top.sub].status
         \/ sub[Top.sub].status \notin Finished
         \/ sub[Top.sub].status = "succeeded" /\ sub'[Top.sub].status = "failed"
  PROVE  Kept
<1> DEFINE f == [Top EXCEPT !.pc = pc]
<1>1. /\ FrameOver(Top, Len(sub)) /\ Top = stack[Len(stack)]
      /\ Len(stack) \in Nat \ {0} /\ stack \in Seq(Frame) /\ Top.sub \in 1 .. Len(sub)
  BY AfterPlan DEF ActInv, ExecPc, FramesOver
<1>2. /\ FrameOver(f, Len(sub)) /\ f.pc = pc /\ f.sub = Top.sub /\ f.todo = Top.todo
  BY <1>1 DEF FrameOver, Frame
<1>3. stack' = Replaced(stack, f)
  BY <1>1 DEF GoTo, Replaced
<1> HIDE DEF f
<1> QED BY <1>2, <1>3, MoveOnKept

\* The innermost execution's subtask is where its step says.
LEMMA TopStatus ==
  ASSUME ActInv, stack # <<>>, Top.pc \in ExecPc
  PROVE  /\ sub[Top.sub].status \in StatusAt(Top.pc)
         /\ IsGraph(sub) /\ Len(sub) \in Nat /\ sub \in Seq(SubTask)
         /\ Top.sub \in 1 .. Len(sub) /\ sub[Top.sub] \in SubTask
<1>1. /\ Len(stack) \in 1 .. Len(stack) /\ Top = stack[Len(stack)]
      /\ IsGraph(sub) /\ Len(sub) \in Nat /\ Top.sub \in 1 .. Len(sub)
  BY AfterPlan DEF ActInv, ExecPc
<1>2. sub[Top.sub].status \in StatusAt(Top.pc)
  BY <1>1 DEF ActInv, InStep
<1> QED BY <1>1, <1>2 DEF IsGraph

\* The innermost execution's subtask is replaced.
LEMMA ReplaceTop ==
  ASSUME ActInv, stack # <<>>, Top.pc \in ExecPc,
         NEW r \in SubTask, r.deps = sub[Top.sub].deps,
         sub' = [sub EXCEPT ![Top.sub] = r]
  PROVE  /\ IsGraph(sub') /\ Len(sub') = Len(sub) /\ sub'[Top.sub] = r
         /\ \A t \in 1 .. Len(sub) : t # Top.sub => sub'[t] = sub[t]
<1> DEFINE k == Top.sub
           n == [sub EXCEPT ![k] = r]
<1>1. IsGraph(sub) /\ k \in 1 .. Len(sub)
  BY TopStatus
<1>2. r.deps = sub[k].deps
  OBVIOUS
<1>3. sub' = n
  OBVIOUS
<1>4. n = [sub EXCEPT ![k] = r]
  OBVIOUS
<1> HIDE DEF k, n
<1>5. IsGraph(n) /\ Len(n) = Len(sub)
  BY <1>1, <1>2, <1>4, ReplaceType
<1>6. sub \in Seq(SubTask)
  BY <1>1 DEF IsGraph
<1>7. n[k] = r /\ \A t \in 1 .. Len(sub) : t # k => n[t] = sub[t]
  BY <1>1, <1>4, <1>6
<1> QED BY <1>3, <1>5, <1>7 DEF k

LEMMA ExecuteKept == ActInv /\ (Begin \/ Acquire \/ Work) => Kept
<1> SUFFICES ASSUME ActInv, Begin \/ Acquire \/ Work PROVE Kept
  OBVIOUS
<1>1. stack # <<>> /\ Top.pc \in ExecPc /\ TypeInv
  BY DEF Begin, Acquire, Work, At, Running, ExecPc, ActInv
<1>2. /\ sub[Top.sub].status \in StatusAt(Top.pc)
      /\ IsGraph(sub) /\ Len(sub) \in Nat /\ sub \in Seq(SubTask)
      /\ Top.sub \in 1 .. Len(sub) /\ sub[Top.sub] \in SubTask
  BY <1>1, TopStatus
<1>3. CASE Begin
  <2> DEFINE r == [sub[Top.sub] EXCEPT !.status = StartStatus(Top.sub)]
  <2>1. StartStatus(Top.sub) \in SubTaskStatus
    BY DEF StartStatus, SubTaskStatus
  <2>2. sub' = [sub EXCEPT ![Top.sub] = r]
    BY <1>2, <1>3 DEF Begin
  <2>3. r \in SubTask /\ r.deps = sub[Top.sub].deps /\ r.status = StartStatus(Top.sub)
    BY <1>2, <2>1 DEF SubTask
  <2> HIDE DEF r
  <2>4. /\ IsGraph(sub') /\ Len(sub') = Len(sub) /\ sub'[Top.sub] = r
        /\ \A t \in 1 .. Len(sub) : t # Top.sub => sub'[t] = sub[t]
    BY <1>1, <2>2, <2>3, ReplaceTop
  <2>5. PICK pc \in ExecPc : stack' = GoTo(pc) /\ StartStatus(Top.sub) \in StatusAt(pc)
    <3>1. CASE UsesSandbox(Top.sub)
      <4>1. stack' = GoTo("acquire") /\ StartStatus(Top.sub) = "sandbox_creating"
        BY <1>3, <3>1 DEF Begin, StartStatus, UsesSandbox
      <4> QED BY <4>1 DEF ExecPc, StatusAt
    <3>2. CASE ~UsesSandbox(Top.sub)
      <4>1. stack' = GoTo("work") /\ StartStatus(Top.sub) \in {"executing", "verifying"}
        BY <1>3, <3>2 DEF Begin, StartStatus
      <4> QED BY <4>1 DEF ExecPc, StatusAt
    <3> QED BY <3>1, <3>2
  <2>6. sub[Top.sub].status \notin Finished
    BY <1>2, <1>3 DEF Begin, At, StatusAt, Finished
  <2> QED BY <1>1, <2>3, <2>4, <2>5, <2>6, GoToKept
<1>4. CASE Acquire
  <2> DEFINE r == [sub[Top.sub] EXCEPT !.status = "executing"]
             f == [Top EXCEPT !.pc = "work", !.lease = TRUE]
  <2>1. sub' = [sub EXCEPT ![Top.sub] = r]
    BY <1>2, <1>4 DEF Acquire
  <2>2. r \in SubTask /\ r.deps = sub[Top.sub].deps /\ r.status = "executing"
    BY <1>2 DEF SubTask, SubTaskStatus
  <2> HIDE DEF r
  <2>3. /\ IsGraph(sub') /\ Len(sub') = Len(sub) /\ sub'[Top.sub] = r
        /\ \A t \in 1 .. Len(sub) : t # Top.sub => sub'[t] = sub[t]
    BY <1>1, <2>1, <2>2, ReplaceTop
  <2>4. /\ FrameOver(Top, Len(sub)) /\ Top = stack[Len(stack)]
        /\ Len(stack) \in Nat \ {0} /\ stack \in Seq(Frame)
    BY <1>1, AfterPlan DEF ExecPc, FramesOver
  <2>5. stack' = Replaced(stack, f)
    BY <1>4, <2>4 DEF Acquire, Replaced
  <2>6. /\ FrameOver(f, Len(sub)) /\ f.pc = "work" /\ f.sub = Top.sub /\ f.todo = Top.todo
    BY <1>2, <2>4 DEF FrameOver, Frame, ExecPc
  <2> HIDE DEF f
  <2>7. f.pc \in ExecPc /\ r.status \in StatusAt(f.pc)
    BY <2>2, <2>6 DEF ExecPc, StatusAt
  <2>8. sub[Top.sub].status \notin Finished
    BY <1>2, <1>4 DEF Acquire, At, StatusAt, Finished
  <2> QED BY <1>1, <2>3, <2>5, <2>6, <2>7, <2>8, MoveOnKept
<1>5. CASE Work
  <2>1. PICK r \in Outcomes(Top.sub) : sub' = [sub EXCEPT ![Top.sub] = r]
    BY <1>5 DEF Work
  <2>2. r \in SubTask /\ r.deps = sub[Top.sub].deps /\ r.status \in {"succeeded", "failed"}
    BY <1>2, OutcomesType
  <2>3. /\ IsGraph(sub') /\ Len(sub') = Len(sub) /\ sub'[Top.sub] = r
        /\ \A t \in 1 .. Len(sub) : t # Top.sub => sub'[t] = sub[t]
    BY <1>1, <2>1, <2>2, ReplaceTop
  <2>4. stack' = GoTo("stored") /\ "stored" \in ExecPc /\ r.status \in StatusAt("stored")
    BY <1>5, <2>2 DEF Work, ExecPc, StatusAt
  <2>5. sub[Top.sub].status \notin Finished
    BY <1>2, <1>5 DEF Work, At, StatusAt, Finished
  <2> QED BY <1>1, <2>3, <2>4, <2>5, GoToKept
<1> QED BY <1>3, <1>4, <1>5

\* Steps that only move the innermost execution on.
LEMMA ReturnKept ==
  ActInv /\ (BodyRaises \/ Return \/ Handled \/ SummaryRaises) => Kept
<1> SUFFICES ASSUME ActInv, BodyRaises \/ Return \/ Handled \/ SummaryRaises
             PROVE  Kept
  OBVIOUS
<1>1. stack # <<>> /\ Top.pc \in ExecPc /\ sub' = sub
  BY DEF BodyRaises, Return, Handled, SummaryRaises, At, Running, ExecPc
<1>2. sub[Top.sub].status \in StatusAt(Top.pc) /\ IsGraph(sub)
  BY <1>1, TopStatus
<1>3. \/ /\ Top.pc \in {"begin", "acquire", "work", "stored", "returned"}
         /\ stack' = GoTo("unwind") \/ stack' = GoTo("caught")
      \/ /\ Top.pc \in {"returned", "handled"}
         /\ stack' = GoTo("reconcile") \/ stack' = GoTo("reraise")
  BY DEF BodyRaises, Return, Handled, SummaryRaises, At
<1>4. \E pc \in ExecPc : stack' = GoTo(pc) /\ sub[Top.sub].status \in StatusAt(pc)
  <2>1. CASE Top.pc \in {"begin", "acquire", "work", "stored", "returned"}
             /\ (stack' = GoTo("unwind") \/ stack' = GoTo("caught"))
    BY <1>2, <2>1 DEF ExecPc, StatusAt
  <2>2. CASE Top.pc \in {"returned", "handled"}
             /\ (stack' = GoTo("reconcile") \/ stack' = GoTo("reraise"))
    BY <1>2, <2>2 DEF ExecPc, StatusAt
  <2> QED BY <1>3, <2>1, <2>2
<1> QED BY <1>1, <1>2, <1>4, GoToKept

LEMMA ReleaseKept == ActInv /\ (Release \/ ReleaseRaises) => Kept
<1> SUFFICES ASSUME ActInv, Release \/ ReleaseRaises PROVE Kept
  OBVIOUS
<1>1. /\ stack # <<>> /\ Top.pc \in {"returned", "unwind"} /\ Top.pc \in ExecPc
      /\ sub' = sub /\ TypeInv
  BY DEF Release, ReleaseRaises, Running, ExecPc, ActInv
<1>2. /\ sub[Top.sub].status \in StatusAt(Top.pc) /\ IsGraph(sub)
      /\ Top.sub \in 1 .. Len(sub)
  BY <1>1, TopStatus
<1>3. /\ FrameOver(Top, Len(sub)) /\ Top = stack[Len(stack)]
      /\ Len(stack) \in Nat \ {0} /\ stack \in Seq(Frame)
  BY <1>1, AfterPlan DEF ExecPc, FramesOver
<1>4. PICK pc \in {"caught", "reconcile"} :
        /\ Top.pc = "unwind" => pc = "caught"
        /\ stack' = Replaced(stack, [Top EXCEPT !.pc = pc, !.lease = FALSE])
  <2>1. CASE Release
    <3>1. Top.pc = "unwind" =>
            stack' = Replaced(stack, [Top EXCEPT !.pc = "caught", !.lease = FALSE])
      BY <1>3, <2>1 DEF Release, Replaced
    <3>2. Top.pc = "returned" =>
            stack' = Replaced(stack, [Top EXCEPT !.pc = "reconcile", !.lease = FALSE])
      BY <1>3, <2>1 DEF Release, Replaced
    <3> QED BY <1>1, <3>1, <3>2
  <2>2. CASE ReleaseRaises
    <3>1. stack' = Replaced(stack, [Top EXCEPT !.pc = "caught", !.lease = FALSE])
      BY <1>3, <2>2 DEF ReleaseRaises, Replaced
    <3> QED BY <3>1
  <2> QED BY <2>1, <2>2
<1> DEFINE f == [Top EXCEPT !.pc = pc, !.lease = FALSE]
<1>5. /\ FrameOver(f, Len(sub)) /\ f.pc = pc /\ f.sub = Top.sub /\ f.todo = Top.todo
  BY <1>2, <1>3 DEF FrameOver, Frame, ExecPc
<1>6. stack' = Replaced(stack, f)
  BY <1>4
<1> HIDE DEF f
<1>7. f.pc \in ExecPc /\ sub'[Top.sub].status \in StatusAt(f.pc)
  BY <1>1, <1>2, <1>4, <1>5 DEF ExecPc, StatusAt
<1> QED BY <1>1, <1>2, <1>5, <1>6, <1>7, MoveOnKept

\* Steps that return.
LEMMA PopKept ==
  ASSUME ActInv, stack # <<>>, Top.pc # "planning", stack' = Front(stack), sub' = sub
  PROVE  Kept
<1>1. Exclusive(stack') /\ Claims(stack', sub') /\ InStep(stack', sub')
  BY PopOff DEF ActInv
<1> QED BY <1>1 DEF Kept, StaysFinished

LEMMA EndKept ==
  ActInv /\ (LoopEnds \/ Unwind \/ Reconcile \/ ReconcileRaises) => Kept
<1> SUFFICES ASSUME ActInv, LoopEnds \/ Unwind \/ Reconcile \/ ReconcileRaises
             PROVE  Kept
  OBVIOUS
<1>1. stack # <<>> /\ Top.pc # "planning" /\ sub' = sub
  BY DEF LoopEnds, Unwind, Reconcile, ReconcileRaises, At, Running
<1>2. CASE stack' = Front(stack)
  BY <1>1, <1>2, PopKept
<1>3. CASE Unwind /\ stack' # Front(stack)
  <2>1. /\ Top.pc \in {"returned", "handled"} /\ Top.pc \in ExecPc
        /\ \/ stack' = GoTo("unwind") \/ stack' = GoTo("caught")
           \/ stack' = GoTo("reraise")
    BY <1>3 DEF Unwind, ExecPc
  <2>2. sub[Top.sub].status \in StatusAt(Top.pc) /\ IsGraph(sub)
    BY <1>1, <2>1, TopStatus
  <2>3. \E pc \in ExecPc : stack' = GoTo(pc) /\ sub[Top.sub].status \in StatusAt(pc)
    BY <2>1, <2>2 DEF ExecPc, StatusAt
  <2> QED BY <1>1, <2>1, <2>2, <2>3, GoToKept
<1> QED BY <1>2, <1>3 DEF LoopEnds, Reconcile, ReconcileRaises

\* One turn of a loop starts a subtask that no other call has claimed.
LEMMA RunNextKept ==
  ActInv /\ SharedObjects /\ (\E s \in 1 .. Len(sub) : RunNext(s)) => Kept
<1> SUFFICES ASSUME ActInv, SharedObjects, NEW s \in 1 .. Len(sub), RunNext(s)
             PROVE  Kept
  OBVIOUS
<1> DEFINE f == [Top EXCEPT !.todo = @ \ {s}]
           looping == Replaced(stack, f)
           g == ExecFrame(s)
<1>1. /\ stack # <<>> /\ Top.pc = "dispatch" /\ Top.pc # "planning" /\ TypeInv
      /\ s \in Top.todo /\ sub' = sub
      /\ Exclusive(stack) /\ Claims(stack, sub) /\ InStep(stack, sub)
  BY DEF RunNext, At, Running, ActInv
<1>2. /\ IsGraph(sub) /\ FramesOver(stack, Len(sub))
      /\ Len(sub) \in Nat /\ Len(stack) \in Nat \ {0}
      /\ Top = stack[Len(stack)] /\ FrameOver(Top, Len(sub)) /\ stack \in Seq(Frame)
  BY <1>1, AfterPlan DEF FramesOver
<1>3. /\ FrameOver(f, Len(sub)) /\ f.pc = "dispatch" /\ f.todo = Top.todo \ {s}
      /\ "dispatch" \notin ExecPc
  BY <1>1, <1>2 DEF FrameOver, Frame, ExecPc
<1>4. stack' = IF sub[s].status = "assigned" THEN Append(looping, g) ELSE looping
  BY <1>1, <1>2 DEF RunNext, Replaced
<1>5. FrameOver(g, Len(sub)) /\ g.pc = "begin" /\ g.sub = s /\ g.todo = {}
  BY <1>2 DEF FrameOver, ExecFrame, Frame, ExecPc
<1> HIDE DEF f, g
<1>6. /\ FramesOver(looping, Len(sub)) /\ Len(looping) = Len(stack)
      /\ \A i \in 1 .. Len(stack) : looping[i] = IF i = Len(stack) THEN f ELSE stack[i]
  BY <1>1, <1>2, <1>3, ReplaceTopType
<1> HIDE DEF looping
<1>7. Exclusive(looping) /\ Claims(looping, sub)
  <2>1. Returned(looping, stack) /\ looping \in Seq(Frame)
    BY <1>2, <1>3, <1>6 DEF Returned, FramesOver
  <2>2. Progress(sub, sub)
    BY <1>2 DEF Progress
  <2> QED BY <1>1, <1>2, <2>1, <2>2, ExclusiveReturned, ClaimsReturned
<1>8. /\ \A i \in 1 .. Len(stack) : looping[i].pc \in Calling
      /\ \A i \in 1 .. Len(stack) :
           looping[i].pc \in ExecPc =>
             sub[looping[i].sub].status \in StatusAt(looping[i].pc)
  BY <1>1, <1>3, <1>6 DEF InStep, Calling
<1>9. StaysFinished
  BY <1>1 DEF StaysFinished
<1>10. CASE sub[s].status # "assigned"
  <2>1. stack' = looping
    BY <1>4, <1>10
  <2>2. InStep(looping, sub)
    BY <1>6, <1>8 DEF InStep
  <2> QED BY <1>1, <1>7, <1>9, <2>1, <2>2 DEF Kept
<1>11. CASE sub[s].status = "assigned"
  <2> DEFINE new == Append(looping, g)
  <2>1. stack' = new
    BY <1>4, <1>11
  <2>2. /\ Len(new) = Len(stack) + 1 /\ new[Len(stack) + 1] = g
        /\ \A i \in 1 .. Len(stack) : new[i] = looping[i]
    BY <1>2, <1>5, <1>6, AppendFrameType
  <2>3. \A i \in 1 .. Len(new) : i \in 1 .. Len(stack) \/ i = Len(stack) + 1
    BY <1>2, <2>2
  <2> HIDE DEF new
  <2>4. \A i \in 1 .. Len(stack) :
          /\ s \notin looping[i].todo
          /\ looping[i].pc \in ExecPc => looping[i].sub # s
    <3> SUFFICES ASSUME NEW i \in 1 .. Len(stack)
                 PROVE  /\ s \notin looping[i].todo
                        /\ looping[i].pc \in ExecPc => looping[i].sub # s
      OBVIOUS
    <3>1. CASE i = Len(stack)
      BY <1>3, <1>6, <3>1
    <3>2. CASE i # Len(stack)
      <4>1. looping[i] = stack[i] /\ Len(stack) \in 1 .. Len(stack)
        BY <1>2, <1>6, <3>2
      <4>2. stack[i].todo \cap Top.todo = {}
        BY <1>1, <1>2, <3>2, <4>1 DEF Exclusive
      <4>3. stack[i].pc \in ExecPc => stack[i].sub \notin Top.todo
        BY <1>1, <1>2, <4>1 DEF Exclusive
      <4> QED BY <1>1, <4>1, <4>2, <4>3
    <3> QED BY <3>1, <3>2
  <2>5. Exclusive(new)
    <3> SUFFICES ASSUME NEW i \in 1 .. Len(new), NEW j \in 1 .. Len(new)
                 PROVE  /\ i # j => new[i].todo \cap new[j].todo = {}
                        /\ i # j /\ new[i].pc \in ExecPc /\ new[j].pc \in ExecPc
                             => new[i].sub # new[j].sub
                        /\ new[i].pc \in ExecPc => new[i].sub \notin new[j].todo
      BY DEF Exclusive
    <3>1. CASE i \in 1 .. Len(stack) /\ j \in 1 .. Len(stack)
      BY <1>6, <1>7, <2>2, <3>1 DEF Exclusive
    <3>2. CASE i \in 1 .. Len(stack) /\ j = Len(stack) + 1
      BY <1>5, <2>2, <2>4, <3>2
    <3>3. CASE i = Len(stack) + 1 /\ j \in 1 .. Len(stack)
      BY <1>5, <2>2, <2>4, <3>3
    <3>4. CASE i = Len(stack) + 1 /\ j = Len(stack) + 1
      BY <1>5, <2>2, <3>4
    <3> QED BY <2>3, <3>1, <3>2, <3>3, <3>4
  <2>6. Claims(new, sub)
    <3>1. ~Waiting(sub, s)
      BY <1>11 DEF Waiting
    <3> QED BY <1>5, <1>6, <1>7, <2>2, <2>3, <3>1 DEF Claims
  <2>7. InStep(new, sub)
    <3>1. \A i \in 1 .. Len(new) : i # Len(new) => new[i].pc \in Calling
      BY <1>2, <1>8, <2>2, <2>3
    <3>2. sub[g.sub].status \in StatusAt(g.pc)
      BY <1>5, <1>11 DEF StatusAt
    <3>3. \A i \in 1 .. Len(new) :
            new[i].pc \in ExecPc => sub[new[i].sub].status \in StatusAt(new[i].pc)
      BY <1>8, <2>2, <2>3, <3>2
    <3> QED BY <3>1, <3>3 DEF InStep
  <2> QED BY <1>1, <1>9, <2>1, <2>5, <2>6, <2>7 DEF Kept
<1> QED BY <1>10, <1>11

\* What the handlers of "subtask.completed" and "subtask.failed" schedule.
LEMMA OnCompletedProgress ==
  ASSUME IsGraph(sub), NEW s \in 1 .. Len(sub), NEW callers, OnCompleted(callers, s)
  PROVE  \E q : IsGraph(q) /\ Progress(sub, q) /\ DispatchReady(callers, q, run.phase)
<1>1. Len(sub) \in Nat /\ ReworkTargets(sub, s) \subseteq 1 .. Len(sub)
  BY DEF IsGraph, ReworkTargets
<1>2. CASE WantsRework(s)
  <2>1. PICK t \in ReworkTargets(sub, s) :
          DispatchReady(callers, WithRework(s, t), run.phase)
    BY <1>2 DEF OnCompleted
  <2> DEFINE q == WithRework(s, t)
  <2>2. /\ IsGraph(q) /\ Len(q) = Len(sub) + 3
        /\ \A k \in 1 .. Len(sub) : q[k].status = sub[k].status
    BY <1>1, WithReworkType, WithReworkKeeps
  <2>3. DispatchReady(callers, q, run.phase)
    BY <2>1
  <2> HIDE DEF q
  <2>4. Progress(sub, q)
    BY <1>1, <2>2 DEF Progress, Waiting
  <2> QED BY <2>2, <2>3, <2>4
<1>3. CASE ~WantsRework(s)
  <2>1. DispatchReady(callers, sub, run.phase)
    BY <1>3 DEF OnCompleted
  <2>2. Progress(sub, sub)
    BY <1>1 DEF Progress
  <2> QED BY <2>1, <2>2
<1> QED BY <1>2, <1>3

LEMMA OnFailedProgress ==
  ASSUME NEW subs, IsGraph(subs), NEW s \in 1 .. Len(subs), NEW callers,
         OnFailed(callers, subs, s)
  PROVE  \E q : IsGraph(q) /\ Progress(subs, q) /\ DispatchReady(callers, q, run.phase)
<1>1. Len(subs) \in Nat
  BY DEF IsGraph
<1>2. CASE WantsRepair(subs, s)
  <2> DEFINE q == WithRepair(subs, s)
  <2>1. DispatchReady(callers, q, run.phase)
    BY <1>2 DEF OnFailed
  <2>2. /\ IsGraph(q) /\ Len(q) = Len(subs) + 3
        /\ \A k \in 1 .. Len(subs) :
             \/ q[k].status = subs[k].status
             \/ subs[k].status \notin Finished /\ q[k].status = "cancelled"
    BY WithRepairType, WithRepairKeeps
  <2> HIDE DEF q
  <2>3. Progress(subs, q)
    BY <1>1, <2>2 DEF Progress, Waiting
  <2> QED BY <2>1, <2>2, <2>3
<1>3. CASE ~WantsRepair(subs, s)
  <2>1. DispatchReady(callers, subs, run.phase)
    BY <1>3 DEF OnFailed
  <2>2. Progress(subs, subs)
    BY <1>1 DEF Progress
  <2> QED BY <2>1, <2>2
<1> QED BY <1>2, <1>3

\* The frames below a handler that the innermost execution calls.
LEMMA CallersKept ==
  ASSUME ActInv, stack # <<>>, Top.pc \in ExecPc, NEW pc \in {"returned", "handled"},
         NEW q, IsGraph(q), Len(q) = Len(sub),
         \A t \in 1 .. Len(sub) : t # Top.sub => q[t].status = sub[t].status,
         q[Top.sub].status \in StatusAt(pc)
  PROVE  /\ FramesOver(GoTo(pc), Len(q))
         /\ Exclusive(GoTo(pc)) /\ Claims(GoTo(pc), q) /\ InStep(GoTo(pc), q)
         /\ \A i \in 1 .. Len(GoTo(pc)) : GoTo(pc)[i].pc \in Calling
<1> DEFINE f == [Top EXCEPT !.pc = pc]
<1>1. /\ FrameOver(Top, Len(sub)) /\ Top = stack[Len(stack)] /\ IsGraph(sub)
      /\ Len(stack) \in Nat \ {0} /\ stack \in Seq(Frame) /\ FramesOver(stack, Len(sub))
      /\ Top.sub \in 1 .. Len(sub) /\ TypeInv /\ Len(sub) \in Nat
  BY AfterPlan DEF ActInv, ExecPc, FramesOver
<1>2. pc \in ExecPc /\ pc \in Calling
  BY DEF ExecPc, Calling
<1>3. /\ FrameOver(f, Len(sub)) /\ f.pc = pc /\ f.sub = Top.sub /\ f.todo = Top.todo
  BY <1>1, <1>2 DEF FrameOver, Frame
<1>4. GoTo(pc) = Replaced(stack, f)
  BY <1>1 DEF GoTo, Replaced
<1> HIDE DEF f
<1>5. /\ Exclusive(stack) /\ Claims(stack, sub) /\ InStep(stack, sub)
  BY DEF ActInv
<1>6. /\ Exclusive(Replaced(stack, f)) /\ Claims(Replaced(stack, f), q)
      /\ InStep(Replaced(stack, f), q)
  BY <1>1, <1>2, <1>3, <1>5, MoveOn
<1>7. /\ FramesOver(Replaced(stack, f), Len(sub))
      /\ Len(Replaced(stack, f)) = Len(stack)
      /\ \A i \in 1 .. Len(stack) :
           Replaced(stack, f)[i] = IF i = Len(stack) THEN f ELSE stack[i]
  BY <1>1, <1>3, ReplaceTopType
<1>8. \A i \in 1 .. Len(stack) : Replaced(stack, f)[i].pc \in Calling
  BY <1>2, <1>3, <1>5, <1>7 DEF InStep
<1> QED BY <1>4, <1>6, <1>7, <1>8

LEMMA PublishKept == ActInv /\ SharedObjects /\ Publish => Kept
<1> SUFFICES ASSUME ActInv, SharedObjects, Publish PROVE Kept
  OBVIOUS
<1> DEFINE callers == GoTo("returned")
<1>1. stack # <<>> /\ Top.pc = "stored" /\ Top.pc \in ExecPc
  BY DEF Publish, At, Running, ExecPc
<1>2. /\ IsGraph(sub) /\ Top.sub \in 1 .. Len(sub)
      /\ sub[Top.sub].status \in StatusAt("returned")
  BY <1>1, TopStatus DEF StatusAt
<1>3. /\ FramesOver(callers, Len(sub))
      /\ Exclusive(callers) /\ Claims(callers, sub) /\ InStep(callers, sub)
      /\ \A i \in 1 .. Len(callers) : callers[i].pc \in Calling
  BY <1>1, <1>2, CallersKept
<1>4. OnCompleted(callers, Top.sub) \/ OnFailed(callers, sub, Top.sub)
  BY DEF Publish
<1> HIDE DEF callers
<1>5. PICK q : IsGraph(q) /\ Progress(sub, q) /\ DispatchReady(callers, q, run.phase)
  BY <1>2, <1>4, OnCompletedProgress, OnFailedProgress
<1>6. /\ Exclusive(stack') /\ Claims(stack', sub') /\ InStep(stack', sub')
      /\ Progress(sub, sub')
  BY <1>2, <1>3, <1>5, HandlerKeeps
<1>7. StaysFinished
  BY <1>6 DEF StaysFinished, Progress
<1> QED BY <1>6, <1>7 DEF Kept

LEMMA CaughtKept == ActInv /\ SharedObjects /\ Caught => Kept
<1> SUFFICES ASSUME ActInv, SharedObjects, Caught PROVE Kept
  OBVIOUS
<1> DEFINE callers == GoTo("handled")
           s == Top.sub
           r == [sub[s] EXCEPT !.status = "failed"]
           saved == [sub EXCEPT ![s] = r]
<1>1. stack # <<>> /\ Top.pc = "caught" /\ Top.pc \in ExecPc
  BY DEF Caught, At, Running, ExecPc
<1>2. /\ IsGraph(sub) /\ s \in 1 .. Len(sub) /\ sub \in Seq(SubTask) /\ sub[s] \in SubTask
      /\ sub[s].status \in StatusAt("caught")
  BY <1>1, TopStatus
<1>3. r \in SubTask /\ r.deps = sub[s].deps /\ r.status = "failed"
  BY <1>2 DEF SubTask, SubTaskStatus
<1>4. OnFailed(callers, saved, s)
  BY <1>2 DEF Caught, SavedAsFailed
<1>5. saved = [sub EXCEPT ![s] = r]
  OBVIOUS
<1> HIDE DEF r, saved
<1>6. s = Top.sub
  OBVIOUS
<1> HIDE DEF s
<1>7. IsGraph(saved) /\ Len(saved) = Len(sub)
  BY <1>2, <1>3, <1>5, ReplaceType
<1>8. saved[s] = r /\ \A t \in 1 .. Len(sub) : t # s => saved[t] = sub[t]
  BY <1>2, <1>5
<1>9. saved[s].status \in StatusAt("handled")
  BY <1>3, <1>8 DEF StatusAt
<1>10. /\ FramesOver(callers, Len(saved))
       /\ Exclusive(callers) /\ Claims(callers, saved) /\ InStep(callers, saved)
       /\ \A i \in 1 .. Len(callers) : callers[i].pc \in Calling
  BY <1>1, <1>6, <1>7, <1>8, <1>9, CallersKept
<1> HIDE DEF callers
<1>11. PICK q : IsGraph(q) /\ Progress(saved, q) /\ DispatchReady(callers, q, run.phase)
  BY <1>2, <1>4, <1>7, OnFailedProgress
<1>12. /\ Exclusive(stack') /\ Claims(stack', sub') /\ InStep(stack', sub')
       /\ Progress(saved, sub')
  BY <1>7, <1>10, <1>11, HandlerKeeps
<1>13. StaysFinished
  <2> SUFFICES ASSUME NEW t \in 1 .. Len(sub), sub[t].status \in Finished
               PROVE  \/ sub'[t].status = sub[t].status
                      \/ sub[t].status = "succeeded" /\ sub'[t].status = "failed"
    BY DEF StaysFinished
  <2>1. CASE t = s
    <3>1. sub'[t].status = "failed"
      BY <1>3, <1>7, <1>8, <1>12, <2>1 DEF Progress, Finished
    <3> QED BY <1>2, <2>1, <3>1 DEF StatusAt, Finished
  <2>2. CASE t # s
    BY <1>7, <1>8, <1>12, <2>2 DEF Progress
  <2> QED BY <2>1, <2>2
<1> QED BY <1>12, <1>13 DEF Kept

LEMMA CaughtRaisesKept == ActInv /\ SharedObjects /\ CaughtRaises => Kept
<1> SUFFICES ASSUME ActInv, SharedObjects, CaughtRaises PROVE Kept
  OBVIOUS
<1> DEFINE r == [sub[Top.sub] EXCEPT !.status = "failed"]
           f == [Top EXCEPT !.pc = "reraise"]
<1>1. stack # <<>> /\ Top.pc = "caught" /\ Top.pc \in ExecPc /\ TypeInv
  BY DEF CaughtRaises, At, Running, ExecPc, ActInv
<1>2. /\ sub[Top.sub].status \in StatusAt("caught")
      /\ IsGraph(sub) /\ Len(sub) \in Nat /\ sub \in Seq(SubTask)
      /\ Top.sub \in 1 .. Len(sub) /\ sub[Top.sub] \in SubTask
  BY <1>1, TopStatus
<1>3. sub' = [sub EXCEPT ![Top.sub] = r] /\ stack' = GoTo("reraise")
  BY <1>2 DEF CaughtRaises, SavedAsFailed
<1>4. r \in SubTask /\ r.deps = sub[Top.sub].deps /\ r.status = "failed"
  BY <1>2 DEF SubTask, SubTaskStatus
<1> HIDE DEF r
<1>5. /\ IsGraph(sub') /\ Len(sub') = Len(sub) /\ sub'[Top.sub] = r
      /\ \A t \in 1 .. Len(sub) : t # Top.sub => sub'[t] = sub[t]
  BY <1>1, <1>3, <1>4, ReplaceTop
<1>6. "reraise" \in ExecPc /\ r.status \in StatusAt("reraise")
  BY <1>4 DEF ExecPc, StatusAt
<1>7. \/ sub'[Top.sub].status = sub[Top.sub].status
      \/ sub[Top.sub].status \notin Finished
      \/ sub[Top.sub].status = "succeeded" /\ sub'[Top.sub].status = "failed"
  BY <1>2, <1>4, <1>5 DEF StatusAt, Finished
<1> QED BY <1>1, <1>3, <1>5, <1>6, <1>7, GoToKept

\* Nothing is pending on an empty stack.
LEMMA NothingPending ==
  ASSUME NEW stk, stk = <<>> \/ stk = <<PlanningFrame>>, NEW q
  PROVE  Exclusive(stk) /\ Claims(stk, q) /\ InStep(stk, q)
<1>1. CASE stk = <<>>
  <2>1. 1 .. Len(stk) = {}
    BY <1>1
  <2> QED BY <2>1 DEF Exclusive, Claims, InStep
<1>2. CASE stk = <<PlanningFrame>>
  <2>1. \A i \in 1 .. Len(stk) : i = 1 /\ i = Len(stk) /\ stk[i] = PlanningFrame
    BY <1>2
  <2>2. PlanningFrame.pc \notin ExecPc /\ PlanningFrame.todo = {}
    BY DEF PlanningFrame, ExecPc
  <2> QED BY <2>1, <2>2 DEF Exclusive, Claims, InStep
<1> QED BY <1>1, <1>2

LEMMA PlanReadyKept == ActInv /\ SharedObjects /\ PlanReady => Kept
<1> SUFFICES ASSUME ActInv, SharedObjects, PlanReady PROVE Kept
  OBVIOUS
<1>1. sub = <<>>
  <2>1. TypeInv /\ TypeOK /\ stack # <<>> /\ Top.pc = "planning"
    BY DEF PlanReady, At, Running, ActInv, TypeInv
  <2>2. IsGraph(sub) /\ FramesOver(stack, Len(sub))
    BY <2>1, TypeOKParts
  <2>3. Top = stack[Len(stack)] /\ Len(stack) \in Nat \ {0}
    BY <2>1, <2>2, TopType
  <2> QED BY <2>1, <2>3 DEF TypeInv, BeforePlan
<1>2. PICK p \in Plans :
        DispatchReady(<<>>,
                      [i \in 1 .. Len(p) |->
                         NewSubTask(p[i].role, p[i].deps, p[i].sandbox, 0, 0)],
                      "coordinating")
  BY DEF PlanReady
<1> DEFINE q == [i \in 1 .. Len(p) |->
                   NewSubTask(p[i].role, p[i].deps, p[i].sandbox, 0, 0)]
           callers == <<>>
<1>3. IsGraph(q) /\ DispatchReady(callers, q, "coordinating")
  BY <1>2, PlanType
<1> HIDE DEF q
<1>4. Progress(q, q)
  BY <1>3 DEF Progress, IsGraph
<1>5. Exclusive(callers) /\ Claims(callers, q) /\ InStep(callers, q)
  BY NothingPending
<1>6. /\ FramesOver(callers, Len(q))
      /\ \A i \in 1 .. Len(callers) : callers[i].pc \in Calling
  BY DEF FramesOver
<1> HIDE DEF callers
<1>7. Exclusive(stack') /\ Claims(stack', sub') /\ InStep(stack', sub')
  BY <1>3, <1>4, <1>5, <1>6, HandlerKeeps
<1>8. StaysFinished
  BY <1>1 DEF StaysFinished
<1> QED BY <1>7, <1>8 DEF Kept

LEMMA KeptStep == ActInv /\ SharedObjects /\ [Next]_vars => Kept
<1> SUFFICES ASSUME ActInv, SharedObjects, [Next]_vars PROVE Kept
  OBVIOUS
<1>1. CASE HandleTaskCreated \/ PlanRaises
  <2>1. (stack' = <<>> \/ stack' = <<PlanningFrame>>) /\ sub' = sub
    BY <1>1 DEF HandleTaskCreated, PlanRaises
  <2>2. Exclusive(stack') /\ Claims(stack', sub') /\ InStep(stack', sub')
    BY <2>1, NothingPending
  <2> QED BY <2>1, <2>2 DEF Kept, StaysFinished
<1>2. CASE DeleteTask \/ UNCHANGED vars
  <2>1. stack' = stack /\ sub' = sub
    BY <1>2 DEF DeleteTask, vars
  <2> QED BY <2>1 DEF ActInv, Kept, StaysFinished
<1> QED BY <1>1, <1>2, PlanReadyKept, RunNextKept, EndKept, ExecuteKept, ReturnKept,
           PublishKept, ReleaseKept, CaughtKept, CaughtRaisesKept
        DEF Next, Step

LEMMA ActInit == Init => ActInv
<1> SUFFICES ASSUME Init PROVE ActInv
  OBVIOUS
<1>1. Exclusive(stack) /\ Claims(stack, sub) /\ InStep(stack, sub)
  BY NothingPending DEF Init
<1> QED BY <1>1, TypeInit DEF ActInv

LEMMA ActStep == ActInv /\ SharedObjects /\ [Next]_vars => ActInv'
BY KeptStep, TypeStep DEF ActInv, Kept

\* With the in-memory repositories no subtask is ever executed twice at the
\* same time, queued in two loops, or queued while it runs: nested dispatches
\* never race the loop that is still running below them.
THEOREM OneActivationHolds ==
  ASSUME SharedObjects PROVE Spec => []OneActivation
<1>1. ActInv => OneActivation
  BY DEF ActInv, Exclusive, OneActivation, Executions
<1>2. Init => ActInv
  BY ActInit
<1>3. ActInv /\ [Next]_vars => ActInv'
  BY ActStep
<1> QED BY <1>1, <1>2, <1>3, PTL DEF Spec

\* With the in-memory repositories no step takes a finished subtask back to
\* work, except that an error after a success makes it a failure.
THEOREM FinishedStaysFinishedHolds ==
  ASSUME SharedObjects PROVE Spec => FinishedStaysFinished
<1>1. ActInv /\ [Next]_vars =>
        [\A s \in 1 .. Len(sub) :
           sub[s].status \in Finished =>
             \/ sub'[s].status = sub[s].status
             \/ sub[s].status = "succeeded" /\ sub'[s].status = "failed"]_vars
  BY KeptStep DEF Kept, StaysFinished
<1>2. Init => ActInv
  BY ActInit
<1>3. ActInv /\ [Next]_vars => ActInv'
  BY ActStep
<1> QED BY <1>1, <1>2, <1>3, PTL DEF Spec, FinishedStaysFinished

-----------------------------------------------------------------------------
(* The sandboxes, whether or not the repositories share their objects *)

\* Where an execution can hold a lease.
LeasePlaces == {"work", "stored", "returned", "unwind"}

Leased(stk) == {i \in 1 .. Len(stk) : stk[i].lease}
Held(stk)   == {stk[i].sub : i \in Leased(stk)}
LeaseOk(stk) == \A i \in Leased(stk) : stk[i].pc \in LeasePlaces

\* Registered, and nobody's any more.
Stray(act, stk) == act \ Held(stk)

\* SandboxesAccountedFor with what it needs to be inductive: a lease is given
\* up where its sandbox is released, and nowhere else.
SandboxInv ==
  /\ LeaseOk(stack)
  /\ Cardinality(Stray(active, stack)) <= faults

\* The stack keeps the leases it has.
Keeps(stk, stk2) == LeaseOk(stk2) /\ Held(stk) \subseteq Held(stk2)

LEMMA KeepsTrans ==
  ASSUME NEW a, NEW b, NEW c, Keeps(a, b), Keeps(b, c) PROVE Keeps(a, c)
BY DEF Keeps

\* Calling somebody who has no lease.
LEMMA CallKeeps ==
  ASSUME NEW n \in Nat, NEW stk, FramesOver(stk, n), LeaseOk(stk),
         NEW f, FrameOver(f, n), f.lease = FALSE
  PROVE  Keeps(stk, Append(stk, f))
<1> DEFINE new == Append(stk, f)
<1>1. /\ Len(new) = Len(stk) + 1 /\ new[Len(stk) + 1] = f /\ Len(stk) \in Nat
      /\ \A i \in 1 .. Len(stk) : new[i] = stk[i]
  BY AppendFrameType DEF FramesOver
<1> HIDE DEF new
<1>2. Leased(new) = Leased(stk)
  <2>1. \A i \in 1 .. Len(new) : i \in 1 .. Len(stk) \/ i = Len(stk) + 1
    BY <1>1
  <2>2. \A i \in 1 .. Len(stk) : i \in 1 .. Len(new)
    BY <1>1
  <2> QED BY <1>1, <2>1, <2>2 DEF Leased
<1>3. \A i \in Leased(stk) : new[i] = stk[i]
  BY <1>1 DEF Leased
<1>4. Keeps(stk, new)
  BY <1>2, <1>3 DEF Keeps, LeaseOk, Held
<1> QED BY <1>4 DEF new

\* Replacing the innermost frame by one of the same subtask with no lease less.
LEMMA ReplaceKeeps ==
  ASSUME NEW n \in Nat, NEW stk, FramesOver(stk, n), stk # <<>>, LeaseOk(stk),
         NEW f, FrameOver(f, n), f.sub = stk[Len(stk)].sub,
         f.lease => f.pc \in LeasePlaces
  PROVE  /\ LeaseOk(Replaced(stk, f))
         /\ Held(stk) \subseteq Held(Replaced(stk, f)) \cup {f.sub}
         /\ f.lease => f.sub \in Held(Replaced(stk, f))
         /\ (stk[Len(stk)].lease => f.lease) => Keeps(stk, Replaced(stk, f))
<1> DEFINE new == Replaced(stk, f)
<1>1. /\ Len(new) = Len(stk) /\ Len(stk) \in Nat \ {0}
      /\ \A i \in 1 .. Len(stk) : new[i] = IF i = Len(stk) THEN f ELSE stk[i]
  BY ReplaceTopType DEF FramesOver
<1> HIDE DEF new
<1>2. \A i \in Leased(new) : i \in 1 .. Len(stk) /\ (i = Len(stk) \/ i \in Leased(stk))
  BY <1>1 DEF Leased
<1>3. LeaseOk(new)
  BY <1>1, <1>2 DEF LeaseOk, Leased
<1>4. \A i \in Leased(stk) : i # Len(stk) => i \in Leased(new) /\ new[i].sub = stk[i].sub
  BY <1>1 DEF Leased
<1>5. Held(stk) \subseteq Held(new) \cup {f.sub}
  BY <1>4 DEF Held
<1>6. f.lease => Len(stk) \in Leased(new) /\ new[Len(stk)].sub = f.sub
  BY <1>1 DEF Leased
<1>7. f.lease => f.sub \in Held(new)
  BY <1>6 DEF Held
<1>8. ASSUME stk[Len(stk)].lease => f.lease PROVE Held(stk) \subseteq Held(new)
  <2> SUFFICES ASSUME NEW i \in Leased(stk) PROVE stk[i].sub \in Held(new)
    BY DEF Held
  <2>1. CASE i = Len(stk)
    BY <1>7, <1>8, <2>1 DEF Leased
  <2>2. CASE i # Len(stk)
    BY <1>4, <2>2 DEF Held
  <2> QED BY <2>1, <2>2
<1> QED BY <1>3, <1>5, <1>7, <1>8 DEF Keeps, new

\* Returning from a call that has no lease.
LEMMA ReturnKeeps ==
  ASSUME NEW n \in Nat, NEW stk, FramesOver(stk, n), stk # <<>>, LeaseOk(stk),
         ~stk[Len(stk)].lease
  PROVE  Keeps(stk, Front(stk))
<1> DEFINE new == Front(stk)
<1>1. /\ Len(new) = Len(stk) - 1 /\ Len(stk) \in Nat \ {0}
      /\ \A i \in 1 .. Len(new) : i \in 1 .. Len(stk) /\ new[i] = stk[i]
  BY FrontType DEF FramesOver
<1> HIDE DEF new
<1>2. Leased(new) = Leased(stk)
  BY <1>1 DEF Leased
<1>3. \A i \in Leased(stk) : new[i] = stk[i]
  BY <1>1, <1>2 DEF Leased
<1>4. Keeps(stk, new)
  BY <1>2, <1>3 DEF Keeps, LeaseOk, Held
<1> QED BY <1>4 DEF new

\* The innermost execution moves on with its lease, or without one.
LEMMA GoToKeeps ==
  ASSUME TypeInv, LeaseOk(stack), stack # <<>>, Top.pc \in ExecPc, NEW pc \in ExecPc,
         Top.lease => pc \in LeasePlaces
  PROVE  Keeps(stack, GoTo(pc)) /\ FramesOver(GoTo(pc), Len(sub))
<1> DEFINE f == [Top EXCEPT !.pc = pc]
<1>1. /\ FramesOver(stack, Len(sub)) /\ Len(sub) \in Nat /\ IsGraph(sub)
      /\ FrameOver(Top, Len(sub)) /\ Top = stack[Len(stack)] /\ Top.sub \in 1 .. Len(sub)
  BY AfterPlan DEF ExecPc
<1>2. FrameOver(f, Len(sub)) /\ f.sub = Top.sub /\ f.lease = Top.lease /\ f.pc = pc
  BY <1>1 DEF FrameOver, Frame
<1>3. GoTo(pc) = Replaced(stack, f)
  BY <1>1 DEF GoTo, Replaced
<1> HIDE DEF f
<1>4. Keeps(stack, Replaced(stack, f))
  BY <1>1, <1>2, ReplaceKeeps
<1> QED BY <1>1, <1>3, <1>4, GoToType

\* A handler of the orchestrator takes no lease.
LEMMA DispatchKeepsLeases ==
  ASSUME NEW subs, IsGraph(subs), NEW callers, FramesOver(callers, Len(subs)),
         LeaseOk(callers), NEW phase, DispatchReady(callers, subs, phase)
  PROVE  Keeps(callers, stack') /\ faults' \in {faults, faults + 1}
<1>1. faults' \in {faults, faults + 1}
  BY DEF DispatchReady, Dispatch, DispatchRaises
<1>2. Keeps(callers, callers)
  BY DEF Keeps
<1>3. ASSUME NEW todo \in SUBSET (1 .. Len(subs)),
             stack' = Append(callers, DispatchFrame(todo))
      PROVE  Keeps(callers, stack')
  <2>1. Len(subs) \in Nat
    BY DEF IsGraph
  <2>2. todo \in SUBSET (Nat \ {0})
    BY <2>1
  <2>3. FrameOver(DispatchFrame(todo), Len(subs)) /\ DispatchFrame(todo).lease = FALSE
    BY <2>2 DEF FrameOver, DispatchFrame, Frame, ExecPc
  <2> QED BY <1>3, <2>1, <2>3, CallKeeps
<1> QED BY <1>1, <1>2, <1>3, LenDispatched

-----------------------------------------------------------------------------
(* The steps *)

\* Steps that take no lease and give none up.
LEMMA QuietKeeps ==
  ASSUME TypeInv, LeaseOk(stack), Next,
         ~HandleTaskCreated, ~PlanReady, ~PlanRaises, ~Acquire, ~Release, ~ReleaseRaises
  PROVE  /\ Keeps(stack, stack') /\ active' = active
         /\ faults' \in {faults, faults + 1}
<1>0. Keeps(stack, stack)
  BY DEF Keeps
<1>1. CASE DeleteTask
  BY <1>0, <1>1 DEF DeleteTask
<1>2. ASSUME NEW s \in 1 .. Len(sub), RunNext(s)
      PROVE  Keeps(stack, stack') /\ active' = active /\ faults' \in {faults, faults + 1}
  <2> DEFINE f == [Top EXCEPT !.todo = @ \ {s}]
             looping == Replaced(stack, f)
             g == ExecFrame(s)
  <2>1. stack # <<>> /\ Top.pc = "dispatch" /\ Top.pc # "planning" /\ s \in Top.todo
    BY <1>2 DEF RunNext, At, Running
  <2>2. /\ FramesOver(stack, Len(sub)) /\ Len(sub) \in Nat /\ Len(stack) \in Nat \ {0}
        /\ Top = stack[Len(stack)] /\ FrameOver(Top, Len(sub)) /\ stack \in Seq(Frame)
    BY <2>1, AfterPlan DEF FramesOver
  <2>3. /\ FrameOver(f, Len(sub)) /\ f.sub = Top.sub /\ f.lease = Top.lease
        /\ f.pc = Top.pc
    BY <2>1, <2>2 DEF FrameOver, Frame, ExecPc
  <2>4. ~Top.lease
    BY <2>1, <2>2 DEF LeaseOk, Leased, LeasePlaces
  <2>5. stack' = looping \/ stack' = Append(looping, g)
    BY <1>2, <2>2 DEF RunNext, Replaced
  <2>6. FrameOver(g, Len(sub)) /\ g.lease = FALSE
    BY <2>2 DEF FrameOver, ExecFrame, Frame, ExecPc
  <2> HIDE DEF f, g
  <2>7. Keeps(stack, looping) /\ FramesOver(looping, Len(sub))
    BY <2>1, <2>2, <2>3, <2>4, ReplaceKeeps, ReplaceTopType
  <2> HIDE DEF looping
  <2>8. Keeps(looping, Append(looping, g))
    BY <2>2, <2>6, <2>7, CallKeeps DEF Keeps
  <2>9. Keeps(stack, stack')
    <3>1. Keeps(stack, Append(looping, g))
      BY <2>7, <2>8, KeepsTrans
    <3> QED BY <2>5, <2>7, <3>1
  <2>10. active' = active /\ faults' = faults
    BY <1>2 DEF RunNext
  <2> QED BY <2>9, <2>10
<1>3. ASSUME LoopEnds \/ (Unwind /\ Top.pc = "dispatch") \/ Reconcile \/ ReconcileRaises
      PROVE  Keeps(stack, stack') /\ active' = active /\ faults' \in {faults, faults + 1}
  <2>1. /\ stack # <<>> /\ Top.pc \in {"dispatch", "reconcile", "reraise"}
        /\ stack' = Front(stack) /\ active' = active /\ faults' \in {faults, faults + 1}
    BY <1>3 DEF LoopEnds, Unwind, Reconcile, ReconcileRaises, At, Running
  <2>2. /\ FramesOver(stack, Len(sub)) /\ Len(sub) \in Nat /\ Len(stack) \in Nat \ {0}
        /\ Top = stack[Len(stack)]
    BY <2>1, AfterPlan
  <2>3. ~Top.lease
    BY <2>1, <2>2 DEF LeaseOk, Leased, LeasePlaces
  <2> QED BY <2>1, <2>2, <2>3, ReturnKeeps
<1>4. ASSUME \/ Begin \/ Work \/ BodyRaises \/ Return \/ SummaryRaises \/ CaughtRaises
             \/ Handled \/ (Unwind /\ Top.pc # "dispatch")
      PROVE  Keeps(stack, stack') /\ active' = active /\ faults' \in {faults, faults + 1}
  <2>1. /\ stack # <<>> /\ Top.pc \in ExecPc /\ TypeInv
        /\ active' = active /\ faults' \in {faults, faults + 1}
    BY <1>4 DEF Begin, Work, BodyRaises, Return, SummaryRaises, CaughtRaises, Handled,
       Unwind, At, Running, ExecPc
  <2>2. Top = stack[Len(stack)] /\ Len(stack) \in Nat \ {0}
    BY <2>1, AfterPlan DEF ExecPc
  <2>3. Top.lease => Top.pc \in LeasePlaces
    BY <2>2 DEF LeaseOk, Leased
  <2>4. \E pc \in ExecPc : stack' = GoTo(pc) /\ (Top.lease => pc \in LeasePlaces)
    <3>1. CASE Begin
      BY <2>3, <3>1 DEF Begin, At, ExecPc, LeasePlaces
    <3>2. CASE Work \/ BodyRaises \/ Return
      BY <2>3, <3>2 DEF Work, BodyRaises, Return, At, ExecPc, LeasePlaces
    <3>3. CASE SummaryRaises \/ Handled
      BY <2>3, <3>3 DEF SummaryRaises, Handled, At, ExecPc, LeasePlaces
    <3>5. CASE CaughtRaises
      BY <2>3, <3>5 DEF CaughtRaises, At, ExecPc, LeasePlaces
    <3>4. CASE Unwind /\ Top.pc # "dispatch"
      BY <2>3, <3>4 DEF Unwind, ExecPc, LeasePlaces
    <3> QED BY <1>4, <3>1, <3>2, <3>3, <3>4, <3>5
  <2> QED BY <2>1, <2>4, GoToKeeps
<1>5. CASE Publish
  <2>1. stack # <<>> /\ Top.pc = "stored" /\ Top.pc \in ExecPc /\ "returned" \in ExecPc
    BY <1>5 DEF Publish, At, Running, ExecPc
  <2>2. IsGraph(sub) /\ Top.sub \in 1 .. Len(sub)
    BY <2>1, AfterPlan DEF ExecPc
  <2>3. Keeps(stack, GoTo("returned")) /\ FramesOver(GoTo("returned"), Len(sub))
    BY <2>1, GoToKeeps DEF LeasePlaces
  <2>4. OnCompleted(GoTo("returned"), Top.sub) \/ OnFailed(GoTo("returned"), sub, Top.sub)
    BY <1>5 DEF Publish
  <2>5. PICK q : /\ IsGraph(q) /\ Progress(sub, q)
                 /\ DispatchReady(GoTo("returned"), q, run.phase)
    BY <2>2, <2>4, OnCompletedProgress, OnFailedProgress
  <2>6. FramesOver(GoTo("returned"), Len(q))
    BY <2>2, <2>3, <2>5, GrownType DEF Progress, IsGraph
  <2>7. Keeps(GoTo("returned"), stack') /\ faults' \in {faults, faults + 1}
    BY <2>3, <2>5, <2>6, DispatchKeepsLeases DEF Keeps
  <2>8. active' = active
    BY <1>5 DEF Publish
  <2> QED BY <2>3, <2>7, <2>8, KeepsTrans
<1>6. CASE Caught
  <2> DEFINE s == Top.sub
             a == [sub[s] EXCEPT !.status = "failed"]
             b == [sub[s] EXCEPT !.status = "failed", !.reworked = FALSE,
                                 !.repaired = FALSE]
             saved == IF SharedObjects THEN [sub EXCEPT ![s] = a] ELSE [sub EXCEPT ![s] = b]
  <2>1. stack # <<>> /\ Top.pc = "caught" /\ Top.pc \in ExecPc /\ "handled" \in ExecPc
    BY <1>6 DEF Caught, At, Running, ExecPc
  <2>2. /\ IsGraph(sub) /\ s \in 1 .. Len(sub) /\ Len(stack) \in Nat \ {0}
        /\ Top = stack[Len(stack)] /\ Len(sub) \in Nat
    BY <2>1, AfterPlan DEF ExecPc
  <2>3. IsGraph(saved) /\ Len(saved) = Len(sub)
    <3>1. sub[s] \in SubTask
      BY <2>2, SubTypes
    <3>2. a \in SubTask /\ a.deps = sub[s].deps /\ b \in SubTask /\ b.deps = sub[s].deps
      BY <3>1 DEF SubTask, SubTaskStatus
    <3>3. saved = IF SharedObjects THEN [sub EXCEPT ![s] = a] ELSE [sub EXCEPT ![s] = b]
      OBVIOUS
    <3> HIDE DEF a, b, s, saved
    <3> QED BY <2>2, <3>2, <3>3, ReplaceType
  <2>4. OnFailed(GoTo("handled"), saved, s)
    BY <1>6, <2>2 DEF Caught, SavedAsFailed, IsGraph
  <2> HIDE DEF saved, s
  <2>5. ~Top.lease
    BY <2>1, <2>2 DEF LeaseOk, Leased, LeasePlaces
  <2>6. Keeps(stack, GoTo("handled")) /\ FramesOver(GoTo("handled"), Len(sub))
    BY <2>1, <2>5, GoToKeeps
  <2>7. PICK q : /\ IsGraph(q) /\ Progress(saved, q)
                 /\ DispatchReady(GoTo("handled"), q, run.phase)
    BY <2>2, <2>3, <2>4, OnFailedProgress
  <2>8. FramesOver(GoTo("handled"), Len(q))
    BY <2>2, <2>3, <2>6, <2>7, GrownType DEF Progress, IsGraph
  <2>9. Keeps(GoTo("handled"), stack') /\ faults' \in {faults, faults + 1}
    BY <2>6, <2>7, <2>8, DispatchKeepsLeases DEF Keeps
  <2>10. active' = active
    BY <1>6 DEF Caught
  <2> QED BY <2>6, <2>9, <2>10, KeepsTrans
<1> QED BY <1>1, <1>2, <1>3, <1>4, <1>5, <1>6 DEF Next, Step

\* Before the plan is stored no sandbox is registered.
LEMMA PlanKeeps ==
  ASSUME TypeInv, SandboxInv, HandleTaskCreated \/ PlanReady \/ PlanRaises
  PROVE  LeaseOk(stack') /\ active' = {} /\ faults' \in {faults, faults + 1}
<1>1. sub = <<>> /\ active = {} /\ active' = active
  <2>1. CASE HandleTaskCreated
    BY <2>1 DEF HandleTaskCreated, TypeInv, TypeOK, BeforePlan
  <2>2. CASE PlanReady \/ PlanRaises
    <3>1. stack # <<>> /\ Top.pc = "planning" /\ TypeOK
      BY <2>2 DEF PlanReady, PlanRaises, At, Running, TypeInv
    <3>2. Top = stack[Len(stack)] /\ Len(stack) \in Nat \ {0}
      BY <3>1, TopType, TypeOKParts
    <3>3. sub = <<>>
      BY <3>1, <3>2 DEF TypeInv, BeforePlan
    <3> QED BY <2>2, <3>1, <3>3 DEF PlanReady, PlanRaises, TypeOK
  <2> QED BY <2>1, <2>2
<1>2. LeaseOk(<<>>) /\ LeaseOk(<<PlanningFrame>>)
  BY DEF LeaseOk, Leased, PlanningFrame
<1>3. CASE HandleTaskCreated \/ PlanRaises
  BY <1>1, <1>2, <1>3 DEF HandleTaskCreated, PlanRaises
<1>4. CASE PlanReady
  <2>1. PICK p \in Plans :
          DispatchReady(<<>>,
                        [i \in 1 .. Len(p) |->
                           NewSubTask(p[i].role, p[i].deps, p[i].sandbox, 0, 0)],
                        "coordinating")
    BY <1>4 DEF PlanReady
  <2> DEFINE q == [i \in 1 .. Len(p) |->
                     NewSubTask(p[i].role, p[i].deps, p[i].sandbox, 0, 0)]
             callers == <<>>
  <2>2. IsGraph(q) /\ DispatchReady(callers, q, "coordinating")
    BY <2>1, PlanType
  <2> HIDE DEF q
  <2>3. FramesOver(callers, Len(q)) /\ LeaseOk(callers)
    BY <1>2 DEF FramesOver
  <2> HIDE DEF callers
  <2>4. Keeps(callers, stack') /\ faults' \in {faults, faults + 1}
    BY <2>2, <2>3, DispatchKeepsLeases
  <2> QED BY <1>1, <2>4 DEF Keeps
<1> QED BY <1>3, <1>4

\* At most the sandbox of the innermost execution goes astray, and that only
\* when its release raises.
LEMMA StrayStep ==
  ASSUME TypeInv, SandboxInv, Next
  PROVE  /\ LeaseOk(stack')
         /\ \/ /\ Stray(active', stack') \subseteq Stray(active, stack)
               /\ faults' \in {faults, faults + 1}
            \/ \E s : /\ Stray(active', stack') \subseteq Stray(active, stack) \cup {s}
                      /\ faults' = faults + 1
<1>1. LeaseOk(stack)
  BY DEF SandboxInv
<1>2. CASE HandleTaskCreated \/ PlanReady \/ PlanRaises
  BY <1>2, PlanKeeps DEF Stray
<1>3. CASE Acquire \/ Release \/ ReleaseRaises
  <2>1. /\ stack # <<>> /\ Top.pc \in ExecPc
    BY <1>3 DEF Acquire, Release, ReleaseRaises, At, Running, ExecPc
  <2>2. /\ FramesOver(stack, Len(sub)) /\ Len(sub) \in Nat /\ Len(stack) \in Nat \ {0}
        /\ Top = stack[Len(stack)] /\ FrameOver(Top, Len(sub)) /\ stack \in Seq(Frame)
    BY <2>1, AfterPlan DEF FramesOver, ExecPc
  <2>3. CASE Acquire
    <3> DEFINE f == [Top EXCEPT !.pc = "work", !.lease = TRUE]
    <3>1. /\ FrameOver(f, Len(sub)) /\ f.pc = "work" /\ f.sub = Top.sub
          /\ f.lease = TRUE
      BY <2>1, <2>2 DEF FrameOver, Frame, ExecPc
    <3>2. stack' = Replaced(stack, f)
      BY <2>2, <2>3 DEF Acquire, Replaced
    <3> HIDE DEF f
    <3>3. /\ LeaseOk(stack') /\ Held(stack) \subseteq Held(stack') /\ Top.sub \in Held(stack')
      BY <1>1, <2>1, <2>2, <3>1, <3>2, ReplaceKeeps DEF LeasePlaces, Keeps
    <3>4. active' = active \cup {Top.sub} /\ faults' = faults
      BY <2>3 DEF Acquire
    <3> QED BY <3>3, <3>4 DEF Stray
  <2>4. CASE Release \/ ReleaseRaises
    <3>1. PICK pc \in {"caught", "reconcile"} :
            stack' = Replaced(stack, [Top EXCEPT !.pc = pc, !.lease = FALSE])
      <4>1. CASE Release /\ Top.pc = "unwind"
        BY <2>2, <4>1 DEF Release, Replaced
      <4>2. CASE Release /\ Top.pc = "returned"
        BY <2>2, <4>2 DEF Release, Replaced
      <4>3. CASE ReleaseRaises
        BY <2>2, <4>3 DEF ReleaseRaises, Replaced
      <4> QED BY <2>4, <4>1, <4>2, <4>3 DEF Release
    <3> DEFINE f == [Top EXCEPT !.pc = pc, !.lease = FALSE]
    <3>2. /\ FrameOver(f, Len(sub)) /\ f.sub = Top.sub /\ f.lease = FALSE
      BY <2>1, <2>2 DEF FrameOver, Frame, ExecPc
    <3>3. stack' = Replaced(stack, f)
      BY <3>1
    <3> HIDE DEF f
    <3>4. LeaseOk(stack') /\ Held(stack) \subseteq Held(stack') \cup {Top.sub}
      BY <1>1, <2>1, <2>2, <3>2, <3>3, ReplaceKeeps
    <3>5. CASE Release
      <4>1. active' = active \ {Top.sub} /\ faults' = faults
        BY <3>5 DEF Release
      <4> QED BY <3>4, <4>1 DEF Stray
    <3>6. CASE ReleaseRaises
      <4>1. active' = active /\ faults' = faults + 1
        BY <3>6 DEF ReleaseRaises
      <4>2. Stray(active', stack') \subseteq Stray(active, stack) \cup {Top.sub}
        BY <3>4, <4>1 DEF Stray
      <4> QED BY <3>4, <4>1, <4>2
    <3> QED BY <2>4, <3>5, <3>6
  <2> QED BY <1>3, <2>3, <2>4
<1>4. CASE /\ ~HandleTaskCreated /\ ~PlanReady /\ ~PlanRaises
           /\ ~Acquire /\ ~Release /\ ~ReleaseRaises
  BY <1>1, <1>4, QuietKeeps DEF Keeps, Stray
<1> QED BY <1>2, <1>3, <1>4

LEMMA SandboxStep == TypeInv /\ SandboxInv /\ [Next]_vars => SandboxInv'
<1> SUFFICES ASSUME TypeInv, SandboxInv, [Next]_vars PROVE SandboxInv'
  OBVIOUS
<1>1. CASE UNCHANGED vars
  BY <1>1 DEF vars, SandboxInv
<1>2. CASE Next
  <2> DEFINE old == Stray(active, stack)
             new == Stray(active', stack')
  <2>1. /\ LeaseOk(stack')
        /\ \/ new \subseteq old /\ faults' \in {faults, faults + 1}
           \/ \E s : new \subseteq old \cup {s} /\ faults' = faults + 1
    BY <1>2, StrayStep
  <2>2. IsFiniteSet(old) /\ faults \in Nat
    <3>1. old \in SUBSET (1 .. Len(sub)) /\ Len(sub) \in Int /\ faults \in Nat
      <4>1. /\ IsGraph(sub) /\ active \subseteq 1 .. Len(sub) /\ faults \in 0 .. MaxFaults
        BY TypeOKParts DEF TypeInv
      <4>2. Len(sub) \in Int /\ faults \in Nat
        BY <4>1 DEF IsGraph
      <4> QED BY <4>1, <4>2 DEF Stray
    <3>2. IsFiniteSet(1 .. Len(sub))
      BY <3>1, FS_Interval
    <3> QED BY <3>1, <3>2, FS_Subset
  <2>3. Cardinality(old) <= faults /\ Cardinality(old) \in Nat
    BY <2>2, FS_CardinalityType DEF SandboxInv
  <2> HIDE DEF old, new
  <2>4. CASE new \subseteq old /\ faults' \in {faults, faults + 1}
    <3>1. Cardinality(new) <= Cardinality(old) /\ Cardinality(new) \in Nat
      BY <2>2, <2>4, FS_Subset, FS_CardinalityType
    <3> QED BY <2>1, <2>2, <2>3, <2>4, <3>1 DEF SandboxInv, new
  <2>5. ASSUME NEW s, new \subseteq old \cup {s}, faults' = faults + 1
        PROVE  SandboxInv'
    <3>1. /\ IsFiniteSet(old \cup {s})
          /\ Cardinality(old \cup {s}) \in {Cardinality(old), Cardinality(old) + 1}
      BY <2>2, FS_AddElement
    <3>2. Cardinality(new) <= Cardinality(old \cup {s}) /\ Cardinality(new) \in Nat
      BY <2>5, <3>1, FS_Subset, FS_CardinalityType
    <3> QED BY <2>1, <2>2, <2>3, <2>5, <3>1, <3>2 DEF SandboxInv, new
  <2> QED BY <2>1, <2>4, <2>5
<1> QED BY <1>1, <1>2

\* Whatever the graph, the repositories and the errors: every registered
\* sandbox belongs to a pending execution that holds its lease, save at most
\* one per infrastructure error (_execute_in_sandbox's finally clause,
\* SandboxManager.release).
THEOREM SandboxesAccountedForHolds == Spec => []SandboxesAccountedFor
<1>1. Init => SandboxInv
  <2> SUFFICES ASSUME Init PROVE SandboxInv
    OBVIOUS
  <2>1. LeaseOk(stack) /\ Stray(active, stack) = {} /\ faults = 0
    BY DEF Init, LeaseOk, Leased, Stray
  <2> QED BY <2>1, FS_EmptySet DEF SandboxInv
<1>2. TypeInv /\ SandboxInv => SandboxesAccountedFor
  <2> SUFFICES ASSUME TypeInv, SandboxInv PROVE SandboxesAccountedFor
    OBVIOUS
  <2>1. Leased(stack) = {e \in Executions : stack[e].lease}
    BY DEF SandboxInv, LeaseOk, Leased, LeasePlaces, Executions, ExecPc
  <2> QED BY <2>1 DEF SandboxInv, SandboxesAccountedFor, Stray, Held
<1> QED BY <1>1, <1>2, TypeInit, TypeStep, SandboxStep, PTL DEF Spec

-----------------------------------------------------------------------------
(* What scheduling and repairing do to the graph, field by field *)

\* Two states of one subtask that differ in the status at most.
AllButStatus(x, y) ==
  /\ y.role = x.role /\ y.deps = x.deps /\ y.sandbox = x.sandbox
  /\ y.attempt = x.attempt /\ y.source = x.source
  /\ y.decision = x.decision /\ y.verdict = x.verdict
  /\ y.reworked = x.reworked /\ y.repaired = x.repaired

LEMMA SetStatusFields ==
  ASSUME NEW q, IsGraph(q), NEW S, NEW status \in SubTaskStatus
  PROVE  \A s \in 1 .. Len(q) : AllButStatus(q[s], SetStatus(q, S, status)[s])
<1> SUFFICES ASSUME NEW s \in 1 .. Len(q)
             PROVE  AllButStatus(q[s], SetStatus(q, S, status)[s])
  OBVIOUS
<1>1. q[s] \in SubTask
  BY DEF IsGraph
<1>2. SetStatus(q, S, status)[s] = IF s \in S THEN [q[s] EXCEPT !.status = status] ELSE q[s]
  BY DEF SetStatus
<1> QED BY <1>1, <1>2 DEF AllButStatus, SubTask

\* What scheduling does, when the repositories share their objects: ready
\* subtasks are claimed by a new loop, or an exception leaves some behind.
LEMMA ScheduleFields ==
  ASSUME SharedObjects, NEW subs, IsGraph(subs), NEW callers, NEW phase,
         DispatchReady(callers, subs, phase)
  PROVE  /\ IsGraph(sub') /\ Len(sub') = Len(subs)
         /\ \A s \in 1 .. Len(subs) : AllButStatus(subs[s], sub'[s])
         /\ \A s \in 1 .. Len(subs) : s \notin Ready(subs) => sub'[s].status = subs[s].status
         /\ \A s \in Ready(subs) : sub'[s].status \in {"ready", "assigned"}
         /\ \/ /\ Ready(subs) = {} /\ stack' = callers
               /\ raised' = raised /\ faults' = faults
            \/ /\ Ready(subs) # {} /\ stack' = Append(callers, DispatchFrame(Ready(subs)))
               /\ raised' = raised /\ faults' = faults
               /\ \A s \in Ready(subs) : sub'[s].status = "assigned"
            \/ /\ Ready(subs) # {} /\ stack' = callers
               /\ raised' = TRUE /\ faults' = faults + 1
               /\ \E s \in Ready(subs) : sub'[s].status = "ready"
<1>1. /\ Ready(subs) \subseteq 1 .. Len(subs)
      /\ "assigned" \in SubTaskStatus /\ "ready" \in SubTaskStatus
  BY DEF Ready, SubTaskStatus
<1>2. \A s : AllButStatus(subs[s], subs[s])
  BY DEF AllButStatus
<1>3. CASE Dispatch(callers, subs, phase) /\ Ready(subs) = {}
  BY <1>2, <1>3 DEF Dispatch
<1>4. CASE Dispatch(callers, subs, phase) /\ Ready(subs) # {}
  <2>1. /\ sub' = SetStatus(subs, Ready(subs), "assigned")
        /\ stack' = Append(callers, DispatchFrame(Ready(subs)))
        /\ raised' = raised /\ faults' = faults
    BY <1>4 DEF Dispatch
  <2> QED BY <1>1, <1>4, <2>1, SetStatusType, SetStatusFields
<1>5. CASE DispatchRaises(callers, subs, phase)
  <2>1. PICK k \in Ready(subs) :
          /\ stack' = callers /\ raised' = TRUE /\ faults' = faults + 1
          /\ sub' = SetStatus(SetStatus(subs, Ready(subs), "ready"),
                              {s \in Ready(subs) : s < k}, "assigned")
    BY <1>5 DEF DispatchRaises
  <2> DEFINE one == SetStatus(subs, Ready(subs), "ready")
             before == {s \in Ready(subs) : s < k}
             two == SetStatus(one, before, "assigned")
  <2>2. /\ IsGraph(one) /\ Len(one) = Len(subs)
        /\ \A s \in 1 .. Len(subs) :
             /\ one[s].status = IF s \in Ready(subs) THEN "ready" ELSE subs[s].status
             /\ AllButStatus(subs[s], one[s])
    BY <1>1, SetStatusType, SetStatusFields
  <2>3. sub' = two /\ before \subseteq Ready(subs)
    BY <2>1
  <2> HIDE DEF one, before
  <2>4. /\ IsGraph(two) /\ Len(two) = Len(one)
        /\ \A s \in 1 .. Len(one) :
             /\ two[s].status = IF s \in before THEN "assigned" ELSE one[s].status
             /\ AllButStatus(one[s], two[s])
    BY <1>1, <2>2, SetStatusType, SetStatusFields
  <2> HIDE DEF two
  <2>5. \A s \in 1 .. Len(subs) : AllButStatus(subs[s], two[s])
    BY <2>2, <2>4 DEF AllButStatus
  <2>6. k \notin before
    <3>1. k \in Nat
      BY <1>1 DEF IsGraph
    <3> QED BY <3>1 DEF before
  <2>7. two[k].status = "ready"
    BY <1>1, <2>2, <2>4, <2>6
  <2> QED BY <1>1, <2>1, <2>2, <2>3, <2>4, <2>5, <2>7
<1> QED BY <1>3, <1>4, <1>5 DEF DispatchReady

\* The three subtasks of a chain.
ChainAt(q, n, role, deps, attempt, sources) ==
  /\ q[n + 1] = NewSubTask(role, deps, q[n + 1].sandbox, attempt, sources[1])
  /\ q[n + 2] = NewSubTask("tester", {n + 1}, FALSE, attempt, sources[2])
  /\ q[n + 3] = NewSubTask("reviewer", {n + 2}, FALSE, attempt, sources[3])

LEMMA ThreeTyped ==
  ASSUME NEW S, NEW a, NEW b, NEW d, <<a, b, d>> \in Seq(S)
  PROVE  a \in S /\ b \in S /\ d \in S
<1> DEFINE c == <<a, b, d>>
<1>1. Len(c) = 3 /\ c[1] = a /\ c[2] = b /\ c[3] = d /\ c \in Seq(S)
  OBVIOUS
<1> HIDE DEF c
<1>2. c[1] \in S /\ c[2] \in S /\ c[3] \in S
  BY <1>1
<1> QED BY <1>1, <1>2

LEMMA ThreeAppended ==
  ASSUME NEW S, NEW q \in Seq(S), NEW a \in S, NEW b \in S, NEW d \in S
  PROVE  /\ \A i \in 1 .. Len(q) : (q \o <<a, b, d>>)[i] = q[i]
         /\ (q \o <<a, b, d>>)[Len(q) + 1] = a
         /\ (q \o <<a, b, d>>)[Len(q) + 2] = b
         /\ (q \o <<a, b, d>>)[Len(q) + 3] = d
<1> DEFINE c == <<a, b, d>>
<1>1. c \in Seq(S) /\ Len(c) = 3 /\ c[1] = a /\ c[2] = b /\ c[3] = d
  OBVIOUS
<1> HIDE DEF c
<1>2. \A i \in 1 .. Len(q) + Len(c) :
        (q \o c)[i] = IF i <= Len(q) THEN q[i] ELSE c[i - Len(q)]
  BY <1>1, ConcatProperties, Zenon
<1>3. Len(q) \in Nat
  OBVIOUS
<1> QED BY <1>1, <1>2, <1>3 DEF c

LEMMA ChainFields ==
  ASSUME NEW q, IsGraph(q), NEW n, n = Len(q),
         NEW role, NEW deps, NEW sandbox, NEW attempt, NEW sources,
         Chain(n + 1, role, deps, sandbox, attempt, sources) \in Seq(SubTask)
  PROVE  /\ \A s \in 1 .. n :
              (q \o Chain(n + 1, role, deps, sandbox, attempt, sources))[s] = q[s]
         /\ ChainAt(q \o Chain(n + 1, role, deps, sandbox, attempt, sources),
                    n, role, deps, attempt, sources)
<1> DEFINE a == NewSubTask(role, deps, sandbox, attempt, sources[1])
           b == NewSubTask("tester", {n + 1}, FALSE, attempt, sources[2])
           d == NewSubTask("reviewer", {n + 2}, FALSE, attempt, sources[3])
           c == Chain(n + 1, role, deps, sandbox, attempt, sources)
           r == q \o c
<1>0. n \in Nat /\ q \in Seq(SubTask)
  BY DEF IsGraph
<1>1. c = <<a, b, d>>
  <2>1. (n + 1) + 1 = n + 2
    BY <1>0
  <2> QED BY <2>1 DEF Chain
<1>2. a.sandbox = sandbox
  BY DEF NewSubTask
<1> HIDE DEF a, b, d
<1>3. a \in SubTask /\ b \in SubTask /\ d \in SubTask
  <2>1. <<a, b, d>> \in Seq(SubTask)
    BY <1>1
  <2> QED BY <2>1, ThreeTyped
<1>4. /\ \A s \in 1 .. n : r[s] = q[s]
      /\ r[n + 1] = a /\ r[n + 2] = b /\ r[n + 3] = d
  <2> HIDE DEF c
  <2> QED BY <1>0, <1>1, <1>3, ThreeAppended
<1> HIDE DEF r
<1>5. a = NewSubTask(role, deps, r[n + 1].sandbox, attempt, sources[1])
  BY <1>2, <1>4 DEF a
<1>6. ChainAt(r, n, role, deps, attempt, sources)
  BY <1>4, <1>5 DEF ChainAt, b, d
<1> QED BY <1>4, <1>6 DEF r, c

LEMMA WithReworkFields ==
  ASSUME IsGraph(sub), NEW s \in 1 .. Len(sub), NEW t \in 1 .. Len(sub)
  PROVE  LET q == WithRework(s, t)
         IN  /\ IsGraph(q) /\ Len(q) = Len(sub) + 3
             /\ \A k \in 1 .. Len(sub) :
                  q[k] = IF k = s THEN [sub[s] EXCEPT !.reworked = TRUE] ELSE sub[k]
             /\ ChainAt(q, Len(sub), sub[t].role, {s}, sub[s].attempt + 1, <<0, t, 0>>)
<1> DEFINE x == [sub[s] EXCEPT !.reworked = TRUE]
           marked == [sub EXCEPT ![s] = x]
           n == Len(sub)
<1>1. sub \in Seq(SubTask) /\ sub[s] \in SubTask /\ n \in Nat
  BY SubTypes DEF IsGraph
<1>2. x \in SubTask /\ x.deps = sub[s].deps
  BY <1>1 DEF SubTask
<1> HIDE DEF x
<1>3. IsGraph(marked) /\ Len(marked) = n
  BY <1>2, ReplaceType
<1>4. \A k \in 1 .. n : marked[k] = IF k = s THEN x ELSE sub[k]
  BY <1>1
<1>5. WithRework(s, t) = marked \o Chain(n + 1, sub[t].role, {s}, sub[t].sandbox,
                                        sub[s].attempt + 1, <<0, t, 0>>)
  BY DEF WithRework, x
<1>6. Chain(n + 1, sub[t].role, {s}, sub[t].sandbox, sub[s].attempt + 1, <<0, t, 0>>)
        \in Seq(SubTask)
  BY ReworkChainType DEF IsChain
<1>7. IsGraph(WithRework(s, t)) /\ Len(WithRework(s, t)) = n + 3
  BY WithReworkType
<1> HIDE DEF marked
<1>8. /\ \A k \in 1 .. n : WithRework(s, t)[k] = marked[k]
      /\ ChainAt(WithRework(s, t), n, sub[t].role, {s}, sub[s].attempt + 1, <<0, t, 0>>)
  <2> DEFINE N == Len(marked)
             chain == Chain(N + 1, sub[t].role, {s}, sub[t].sandbox,
                            sub[s].attempt + 1, <<0, t, 0>>)
  <2>1. chain \in Seq(SubTask) /\ WithRework(s, t) = marked \o chain
    BY <1>3, <1>5, <1>6
  <2>2. /\ \A k \in 1 .. N : (marked \o chain)[k] = marked[k]
        /\ ChainAt(marked \o chain, N, sub[t].role, {s}, sub[s].attempt + 1, <<0, t, 0>>)
    BY <1>3, <2>1, ChainFields
  <2> QED BY <1>3, <2>1, <2>2
<1> QED BY <1>4, <1>7, <1>8 DEF x

\* Marking a subtask as repaired, before anything is cancelled.
LEMMA WithRepairFields ==
  ASSUME NEW q, IsGraph(q), NEW s \in 1 .. Len(q)
  PROVE  LET r == WithRepair(q, s)
             doomed == {c \in Descendants(q, s) : q[c].status \notin Finished}
         IN  /\ IsGraph(r) /\ Len(r) = Len(q) + 3
             /\ \A k \in 1 .. Len(q) :
                  /\ AllButStatus([q[k] EXCEPT !.repaired = @ \/ k = s], r[k])
                  /\ r[k].status = IF k \in doomed THEN "cancelled" ELSE q[k].status
             /\ ChainAt(r, Len(q), q[s].role, q[s].deps, q[s].attempt + 1, <<s, s, s>>)
<1> DEFINE x == [q[s] EXCEPT !.repaired = TRUE]
           marked == [q EXCEPT ![s] = x]
           doomed == {c \in Descendants(q, s) : q[c].status \notin Finished}
           cut == SetStatus(marked, doomed, "cancelled")
           n == Len(q)
           r == WithRepair(q, s)
<1>1. q \in Seq(SubTask) /\ n \in Nat /\ \A k \in 1 .. n : q[k] \in SubTask
  BY DEF IsGraph
<1>2. x \in SubTask /\ x.deps = q[s].deps /\ x.status = q[s].status
  BY <1>1 DEF SubTask
<1>3. \A k \in 1 .. n : k # s => [q[k] EXCEPT !.repaired = @ \/ k = s] = q[k]
  BY <1>1 DEF SubTask
<1>4. [q[s] EXCEPT !.repaired = @ \/ s = s] = x
  BY <1>1 DEF SubTask
<1> HIDE DEF x
<1>5. IsGraph(marked) /\ Len(marked) = n
  BY <1>2, ReplaceType
<1>6. \A k \in 1 .. n : marked[k] = IF k = s THEN x ELSE q[k]
  BY <1>1
<1>7. r = cut \o Chain(n + 1, q[s].role, q[s].deps, q[s].sandbox,
                       q[s].attempt + 1, <<s, s, s>>)
  BY DEF WithRepair, x
<1>8. Chain(n + 1, q[s].role, q[s].deps, q[s].sandbox, q[s].attempt + 1, <<s, s, s>>)
        \in Seq(SubTask)
  BY RepairChainType DEF IsChain
<1>9. IsGraph(r) /\ Len(r) = n + 3
  BY WithRepairType
<1> HIDE DEF marked
<1>10. "cancelled" \in SubTaskStatus
  BY DEF SubTaskStatus
<1>11. /\ IsGraph(cut) /\ Len(cut) = n
       /\ \A k \in 1 .. n :
            /\ cut[k].status = IF k \in doomed THEN "cancelled" ELSE marked[k].status
            /\ AllButStatus(marked[k], cut[k])
  BY <1>5, <1>10, SetStatusType, SetStatusFields
<1> HIDE DEF cut, doomed, r
<1>12. /\ \A k \in 1 .. n : r[k] = cut[k]
       /\ ChainAt(r, n, q[s].role, q[s].deps, q[s].attempt + 1, <<s, s, s>>)
  <2> DEFINE N == Len(cut)
             chain == Chain(N + 1, q[s].role, q[s].deps, q[s].sandbox,
                            q[s].attempt + 1, <<s, s, s>>)
  <2>1. chain \in Seq(SubTask) /\ r = cut \o chain
    BY <1>7, <1>8, <1>11
  <2>2. /\ \A k \in 1 .. N : (cut \o chain)[k] = cut[k]
        /\ ChainAt(cut \o chain, N, q[s].role, q[s].deps, q[s].attempt + 1, <<s, s, s>>)
    BY <1>11, <2>1, ChainFields
  <2> QED BY <1>11, <2>1, <2>2
<1>13. \A k \in 1 .. n :
         /\ AllButStatus([q[k] EXCEPT !.repaired = @ \/ k = s], r[k])
         /\ r[k].status = IF k \in doomed THEN "cancelled" ELSE q[k].status
  <2> SUFFICES ASSUME NEW k \in 1 .. n
               PROVE  /\ AllButStatus([q[k] EXCEPT !.repaired = @ \/ k = s], r[k])
                      /\ r[k].status = IF k \in doomed THEN "cancelled" ELSE q[k].status
    OBVIOUS
  <2>1. CASE k = s
    <3>1. marked[k] = [q[k] EXCEPT !.repaired = @ \/ k = s] /\ marked[k].status = q[k].status
      BY <1>2, <1>4, <1>6, <2>1
    <3> QED BY <1>11, <1>12, <3>1
  <2>2. CASE k # s
    <3>1. marked[k] = [q[k] EXCEPT !.repaired = @ \/ k = s] /\ marked[k] = q[k]
      BY <1>3, <1>6, <2>2
    <3> QED BY <1>11, <1>12, <3>1
  <2> QED BY <2>1, <2>2
<1> QED BY <1>9, <1>12, <1>13 DEF r, doomed

-----------------------------------------------------------------------------
(* OneChainPerFailure: what a step does to the lineage of the subtasks *)

\* A subtask keeps its role, its dependencies and its place in the chains,
\* and the mark of a repair is not taken back.
SameLineage(x, y) ==
  /\ y.role = x.role /\ y.deps = x.deps
  /\ y.attempt = x.attempt /\ y.source = x.source
  /\ x.repaired => y.repaired

Lineage(q, r) ==
  Len(q) <= Len(r) /\ \A s \in 1 .. Len(q) : SameLineage(q[s], r[s])

\* The repair subtasks of q: those that start a repair chain.
Repairs(q) == {s \in 1 .. Len(q) : q[s].role \in Repairable /\ q[s].source # 0}

\* What a repair subtask repairs is marked, and no two repair the same.
ChainInv(q) ==
  /\ \A s \in Repairs(q) : q[s].source \in 1 .. Len(q) /\ q[q[s].source].repaired
  /\ \A s, t \in Repairs(q) : q[s].source = q[t].source => s = t

\* The marks of a graph that has not grown.
LEMMA LineageKeepsChains ==
  ASSUME NEW q, NEW r, Lineage(q, r), Len(r) = Len(q), ChainInv(q)
  PROVE  ChainInv(r)
<1>1. /\ Repairs(r) = Repairs(q)
      /\ \A s \in Repairs(q) : s \in 1 .. Len(q) /\ r[s].source = q[s].source
  BY DEF Repairs, Lineage, SameLineage
<1> QED BY <1>1 DEF ChainInv, Lineage, SameLineage

\* What a chain does to them: a repair subtask of the graph with the chain is
\* one of the graph before it, or the first of the chain.
LEMMA RepairsGrow ==
  ASSUME NEW q, IsGraph(q), NEW r, Lineage(q, r), Len(r) = Len(q) + 3,
         NEW role, NEW deps, NEW attempt, NEW sources,
         ChainAt(r, Len(q), role, deps, attempt, sources)
  PROVE  /\ \A s \in Repairs(r) : s \in Repairs(q) \/ s = Len(q) + 1
         /\ \A s \in Repairs(q) : s \in 1 .. Len(q) /\ r[s].source = q[s].source
         /\ r[Len(q) + 1].source = sources[1]
<1> DEFINE n == Len(q)
<1>1. n \in Nat /\ \A s \in 1 .. n + 3 : s \in 1 .. n \/ s \in {n + 1, n + 2, n + 3}
  BY DEF IsGraph
<1>2. r[n + 2].role = "tester" /\ r[n + 3].role = "reviewer" /\ r[n + 1].source = sources[1]
  BY DEF ChainAt, NewSubTask
<1>3. "tester" \notin Repairable /\ "reviewer" \notin Repairable
  BY DEF Repairable, Makers
<1>4. \A s \in 1 .. n : r[s].role = q[s].role /\ r[s].source = q[s].source
  BY DEF Lineage, SameLineage
<1> QED BY <1>1, <1>2, <1>3, <1>4 DEF Repairs

\* A rework chain repairs nothing: its first subtask has no source.
LEMMA WithReworkChains ==
  ASSUME IsGraph(sub), NEW s \in 1 .. Len(sub), NEW t \in 1 .. Len(sub), ChainInv(sub)
  PROVE  Lineage(sub, WithRework(s, t)) /\ ChainInv(WithRework(s, t))
<1> DEFINE r == WithRework(s, t)
           n == Len(sub)
<1>0. n \in Nat
  BY DEF IsGraph
<1>1. /\ IsGraph(r) /\ Len(r) = n + 3
      /\ \A k \in 1 .. n : r[k] = IF k = s THEN [sub[s] EXCEPT !.reworked = TRUE] ELSE sub[k]
      /\ ChainAt(r, n, sub[t].role, {s}, sub[s].attempt + 1, <<0, t, 0>>)
  BY WithReworkFields
<1> HIDE DEF r
<1>2. sub[s] \in SubTask
  BY SubTypes
<1>3. SameLineage(sub[s], [sub[s] EXCEPT !.reworked = TRUE])
  BY <1>2 DEF SameLineage, SubTask
<1>4. \A k \in 1 .. n : SameLineage(sub[k], sub[k])
  BY DEF SameLineage
<1>5. Lineage(sub, r)
  BY <1>0, <1>1, <1>3, <1>4 DEF Lineage
<1>6. /\ \A k \in Repairs(r) : k \in Repairs(sub) \/ k = n + 1
      /\ \A k \in Repairs(sub) : k \in 1 .. n /\ r[k].source = sub[k].source
      /\ r[n + 1].source = 0
  BY <1>1, <1>5, RepairsGrow
<1>7. \A k \in Repairs(r) : k \in Repairs(sub)
  BY <1>6 DEF Repairs
<1>8. 1 .. n \subseteq 1 .. Len(r)
  BY <1>0, <1>1
<1>9. ChainInv(r)
  <2>1. ASSUME NEW k \in Repairs(sub)
        PROVE  sub[k].source \in 1 .. n /\ sub[sub[k].source].repaired
    BY DEF ChainInv
  <2>2. \A k \in 1 .. n : sub[k].repaired => r[k].repaired
    BY <1>5 DEF Lineage, SameLineage
  <2>3. \A k \in Repairs(r) : r[k].source \in 1 .. n /\ r[r[k].source].repaired
    BY <1>6, <1>7, <2>1, <2>2
  <2>4. \A k, l \in Repairs(r) : r[k].source = r[l].source => k = l
    BY <1>6, <1>7 DEF ChainInv
  <2> QED BY <1>8, <2>3, <2>4 DEF ChainInv
<1> QED BY <1>5, <1>9 DEF r

\* A repair chain repairs what was not marked.
LEMMA WithRepairChains ==
  ASSUME NEW q, IsGraph(q), NEW s \in 1 .. Len(q), ~q[s].repaired, ChainInv(q)
  PROVE  Lineage(q, WithRepair(q, s)) /\ ChainInv(WithRepair(q, s))
<1> DEFINE r == WithRepair(q, s)
           n == Len(q)
<1>0. n \in Nat
  BY DEF IsGraph
<1>1. /\ IsGraph(r) /\ Len(r) = n + 3
      /\ \A k \in 1 .. n : AllButStatus([q[k] EXCEPT !.repaired = @ \/ k = s], r[k])
      /\ ChainAt(r, n, q[s].role, q[s].deps, q[s].attempt + 1, <<s, s, s>>)
  BY WithRepairFields
<1> HIDE DEF r
<1>2. \A k \in 1 .. n : q[k] \in SubTask
  BY DEF IsGraph
<1>3. \A k \in 1 .. n : SameLineage(q[k], r[k]) /\ (k = s => r[k].repaired)
  BY <1>1, <1>2 DEF SameLineage, SubTask, AllButStatus
<1>4. Lineage(q, r)
  BY <1>0, <1>1, <1>3 DEF Lineage
<1>5. /\ \A k \in Repairs(r) : k \in Repairs(q) \/ k = n + 1
      /\ \A k \in Repairs(q) : k \in 1 .. n /\ r[k].source = q[k].source
      /\ r[n + 1].source = s
  BY <1>1, <1>4, RepairsGrow
<1>6. \A k \in Repairs(q) : q[k].source # s
  BY DEF ChainInv
<1>7. 1 .. n \subseteq 1 .. Len(r)
  BY <1>0, <1>1
<1>8. ChainInv(r)
  <2>1. \A k \in Repairs(r) : r[k].source \in 1 .. n /\ r[r[k].source].repaired
    BY <1>3, <1>5 DEF ChainInv, SameLineage
  <2>2. \A k, l \in Repairs(r) : r[k].source = r[l].source => k = l
    BY <1>5, <1>6 DEF ChainInv
  <2> QED BY <1>7, <2>1, <2>2 DEF ChainInv
<1> QED BY <1>4, <1>8 DEF r

\* Scheduling changes no lineage.
LEMMA ScheduleChains ==
  ASSUME SharedObjects, NEW subs, IsGraph(subs), ChainInv(subs), NEW callers, NEW phase,
         DispatchReady(callers, subs, phase)
  PROVE  ChainInv(sub') /\ Lineage(subs, sub') /\ Len(sub') = Len(subs)
<1>0. Len(subs) \in Nat
  BY DEF IsGraph
<1>1. /\ Len(sub') = Len(subs)
      /\ \A s \in 1 .. Len(subs) : AllButStatus(subs[s], sub'[s])
  BY ScheduleFields
<1>2. Lineage(subs, sub')
  BY <1>0, <1>1 DEF Lineage, SameLineage, AllButStatus
<1> QED BY <1>1, <1>2, LineageKeepsChains

LEMMA LineageTrans ==
  ASSUME NEW q, NEW r, NEW u, IsGraph(q), IsGraph(r), IsGraph(u), Lineage(q, r), Lineage(r, u)
  PROVE  Lineage(q, u)
<1>1. /\ Len(q) \in Nat /\ Len(r) \in Nat /\ Len(u) \in Nat
  BY DEF IsGraph
<1>2. 1 .. Len(q) \subseteq 1 .. Len(r) /\ Len(q) <= Len(u)
  BY <1>1 DEF Lineage
<1> QED BY <1>2 DEF Lineage, SameLineage

\* The orchestrator's handlers, called with a graph whose chains are in order.
LEMMA OnFailedChains ==
  ASSUME SharedObjects, NEW q, IsGraph(q), ChainInv(q), NEW s \in 1 .. Len(q), NEW callers,
         OnFailed(callers, q, s)
  PROVE  ChainInv(sub')
<1>1. CASE WantsRepair(q, s)
  <2> DEFINE r == WithRepair(q, s)
  <2>1. DispatchReady(callers, r, run.phase)
    BY <1>1 DEF OnFailed
  <2>2. ~q[s].repaired
    BY <1>1 DEF WantsRepair
  <2>3. IsGraph(r) /\ ChainInv(r)
    BY <2>2, WithRepairType, WithRepairChains
  <2> HIDE DEF r
  <2> QED BY <2>1, <2>3, ScheduleChains
<1>2. CASE ~WantsRepair(q, s)
  <2>1. DispatchReady(callers, q, run.phase)
    BY <1>2 DEF OnFailed
  <2> QED BY <2>1, ScheduleChains
<1> QED BY <1>1, <1>2

LEMMA OnCompletedChains ==
  ASSUME SharedObjects, IsGraph(sub), ChainInv(sub), NEW s \in 1 .. Len(sub), NEW callers,
         OnCompleted(callers, s)
  PROVE  ChainInv(sub')
<1>1. CASE WantsRework(s)
  <2>1. PICK t \in ReworkTargets(sub, s) :
          DispatchReady(callers, WithRework(s, t), run.phase)
    BY <1>1 DEF OnCompleted
  <2> DEFINE r == WithRework(s, t)
  <2>2. t \in 1 .. Len(sub)
    BY DEF ReworkTargets
  <2>3. IsGraph(r) /\ ChainInv(r)
    BY <2>2, WithReworkType, WithReworkChains
  <2>4. DispatchReady(callers, r, run.phase)
    BY <2>1
  <2> HIDE DEF r
  <2> QED BY <2>3, <2>4, ScheduleChains
<1>2. CASE ~WantsRework(s)
  <2>1. DispatchReady(callers, sub, run.phase)
    BY <1>2 DEF OnCompleted
  <2> QED BY <2>1, ScheduleChains
<1> QED BY <1>1, <1>2

\* What an execution may write to its subtask.
Executed(x, y) ==
  /\ y.role = x.role /\ y.deps = x.deps /\ y.sandbox = x.sandbox
  /\ y.attempt = x.attempt /\ y.source = x.source
  /\ y.reworked = x.reworked /\ y.repaired = x.repaired

LEMMA StatusExecuted ==
  ASSUME NEW x \in SubTask, NEW st \in SubTaskStatus
  PROVE  /\ [x EXCEPT !.status = st] \in SubTask
         /\ Executed(x, [x EXCEPT !.status = st])
BY DEF SubTask, Executed

LEMMA OutcomesExecuted ==
  ASSUME NEW s, sub[s] \in SubTask, NEW r \in Outcomes(s)
  PROVE  Executed(sub[s], r)
<1> DEFINE done(v, d) == [sub[s] EXCEPT !.status = "succeeded",
                                        !.verdict = v, !.decision = d]
           judged == [sub[s] EXCEPT !.status = "failed", !.verdict = "fail"]
           exited == [sub[s] EXCEPT !.status = "failed"]
<1>1. \A v \in {"none", "pass", "fail"}, d \in Decisions \cup {"none"} :
        Executed(sub[s], done(v, d))
  BY DEF SubTask, Executed
<1>2. Executed(sub[s], judged) /\ Executed(sub[s], exited)
  BY DEF SubTask, Executed
<1>3. \/ \E v \in {"none", "pass", "fail"}, d \in Decisions \cup {"none"} : r = done(v, d)
      \/ r = judged
      \/ r = exited
  BY DEF Outcomes
<1> HIDE DEF done, judged, exited
<1> QED BY <1>1, <1>2, <1>3

\* What a step does to the graph, when the repositories share their objects.
LEMMA GraphStep ==
  ASSUME TypeInv, SharedObjects, [Next]_vars
  PROVE  \/ PlanReady /\ sub = <<>>
         \/ sub' = sub
         \/ /\ stack # <<>> /\ Top.pc \in {"begin", "acquire", "work", "caught"}
            /\ Top.sub \in 1 .. Len(sub)
            /\ \E r \in SubTask : /\ Executed(sub[Top.sub], r)
                                  /\ sub' = [sub EXCEPT ![Top.sub] = r]
         \/ /\ Publish
            /\ stack # <<>> /\ Top.pc = "stored" /\ Top.sub \in 1 .. Len(sub)
            /\ \/ OnCompleted(GoTo("returned"), Top.sub)
               \/ OnFailed(GoTo("returned"), sub, Top.sub)
         \/ /\ Caught
            /\ stack # <<>> /\ Top.pc = "caught" /\ Top.sub \in 1 .. Len(sub)
            /\ \E q : /\ q = [sub EXCEPT ![Top.sub] = [sub[Top.sub] EXCEPT !.status = "failed"]]
                      /\ OnFailed(GoTo("handled"), q, Top.sub)
<1>1. ASSUME stack # <<>>, Top.pc \in {"begin", "acquire", "work", "stored", "caught"}
      PROVE  Top.sub \in 1 .. Len(sub) /\ sub[Top.sub] \in SubTask
  <2>1. Top.pc \in ExecPc /\ Top.pc # "planning"
    BY <1>1 DEF ExecPc
  <2>2. IsGraph(sub) /\ Top.sub \in 1 .. Len(sub)
    BY <1>1, <2>1, AfterPlan
  <2> QED BY <2>2 DEF IsGraph
<1>2. CASE Begin
  <2>1. stack # <<>> /\ Top.pc = "begin"
    BY <1>2 DEF Begin, At, Running
  <2>2. StartStatus(Top.sub) \in SubTaskStatus
    BY DEF StartStatus, SubTaskStatus
  <2>3. sub' = [sub EXCEPT ![Top.sub] = [sub[Top.sub] EXCEPT !.status = StartStatus(Top.sub)]]
    BY <1>2 DEF Begin
  <2> QED BY <1>1, <2>1, <2>2, <2>3, StatusExecuted
<1>3. CASE Acquire
  <2>1. stack # <<>> /\ Top.pc = "acquire"
    BY <1>3 DEF Acquire, At, Running
  <2>2. "executing" \in SubTaskStatus
    BY DEF SubTaskStatus
  <2>3. sub' = [sub EXCEPT ![Top.sub] = [sub[Top.sub] EXCEPT !.status = "executing"]]
    BY <1>3 DEF Acquire
  <2> QED BY <1>1, <2>1, <2>2, <2>3, StatusExecuted
<1>4. CASE Work
  <2>1. stack # <<>> /\ Top.pc = "work"
    BY <1>4 DEF Work, At, Running
  <2>2. PICK r \in Outcomes(Top.sub) : sub' = [sub EXCEPT ![Top.sub] = r]
    BY <1>4 DEF Work
  <2>3. r \in SubTask /\ Executed(sub[Top.sub], r)
    BY <1>1, <2>1, OutcomesType, OutcomesExecuted
  <2> QED BY <1>1, <2>1, <2>2, <2>3
<1>5. CASE Publish
  <2>1. stack # <<>> /\ Top.pc = "stored"
    BY <1>5 DEF Publish, At, Running
  <2>2. \/ OnCompleted(GoTo("returned"), Top.sub)
        \/ OnFailed(GoTo("returned"), sub, Top.sub)
    BY <1>5 DEF Publish
  <2> QED BY <1>1, <1>5, <2>1, <2>2
<1>6. CASE Caught
  <2>1. stack # <<>> /\ Top.pc = "caught"
    BY <1>6 DEF Caught, At, Running
  <2>2. OnFailed(GoTo("handled"),
                 [sub EXCEPT ![Top.sub] = [sub[Top.sub] EXCEPT !.status = "failed"]], Top.sub)
    BY <1>6 DEF Caught, SavedAsFailed
  <2> QED BY <1>1, <1>6, <2>1, <2>2
<1>7. CASE PlanReady
  <2>1. stack # <<>> /\ Top.pc = "planning"
    BY <1>7 DEF PlanReady, At, Running
  <2>2. IsGraph(sub) /\ FramesOver(stack, Len(sub))
    BY TypeOKParts DEF TypeInv
  <2>3. sub = <<>>
    BY <2>1, <2>2, TopType DEF TypeInv, BeforePlan
  <2> QED BY <1>7, <2>3
<1>8. CASE \E s \in 1 .. Len(sub) : RunNext(s)
  BY <1>8 DEF RunNext
<1>9. CASE CaughtRaises
  <2>1. stack # <<>> /\ Top.pc = "caught"
    BY <1>9 DEF CaughtRaises, At, Running
  <2>2. "failed" \in SubTaskStatus
    BY DEF SubTaskStatus
  <2>3. sub' = [sub EXCEPT ![Top.sub] = [sub[Top.sub] EXCEPT !.status = "failed"]]
    BY <1>9 DEF CaughtRaises, SavedAsFailed
  <2> QED BY <1>1, <2>1, <2>2, <2>3, StatusExecuted
<1> QED BY <1>2, <1>3, <1>4, <1>5, <1>6, <1>7, <1>8, <1>9
        DEF Next, Step, vars, HandleTaskCreated, PlanRaises, LoopEnds, BodyRaises, Return,
            Release, ReleaseRaises, SummaryRaises, Handled, Unwind, Reconcile,
            ReconcileRaises, DeleteTask

LEMMA ChainStep == TypeInv /\ SharedObjects /\ ChainInv(sub) /\ [Next]_vars => ChainInv(sub')
<1> SUFFICES ASSUME TypeInv, SharedObjects, ChainInv(sub), [Next]_vars
             PROVE  ChainInv(sub')
  OBVIOUS
<1>1. IsGraph(sub) /\ sub \in Seq(SubTask) /\ \A k \in 1 .. Len(sub) : sub[k] \in SubTask
  BY TypeOKParts DEF TypeInv, IsGraph
<1>2. ASSUME NEW k \in 1 .. Len(sub), NEW r \in SubTask, NEW q,
             Executed(sub[k], r), q = [sub EXCEPT ![k] = r]
      PROVE  IsGraph(q) /\ ChainInv(q) /\ Len(q) = Len(sub)
  <2>1. r.deps = sub[k].deps
    BY <1>2 DEF Executed
  <2>2. IsGraph(q) /\ Len(q) = Len(sub)
    BY <1>1, <1>2, <2>1, ReplaceType
  <2>3. \A t \in 1 .. Len(sub) : q[t] = IF t = k THEN r ELSE sub[t]
    BY <1>1, <1>2
  <2>4. Lineage(sub, q)
    <3>1. Len(sub) \in Nat
      BY <1>1
    <3> QED BY <1>2, <2>2, <2>3, <3>1 DEF Lineage, SameLineage, Executed
  <2> QED BY <2>2, <2>4, LineageKeepsChains
<1>3. CASE PlanReady /\ sub = <<>>
  <2>1. PICK p \in Plans :
          DispatchReady(<<>>,
                        [i \in 1 .. Len(p) |->
                           NewSubTask(p[i].role, p[i].deps, p[i].sandbox, 0, 0)],
                        "coordinating")
    BY <1>3 DEF PlanReady
  <2> DEFINE q == [i \in 1 .. Len(p) |->
                     NewSubTask(p[i].role, p[i].deps, p[i].sandbox, 0, 0)]
  <2>2. IsGraph(q) /\ DispatchReady(<<>>, q, "coordinating")
    BY <2>1, PlanType
  <2>3. Len(q) = Len(p)
    <3>1. p \in Seq(PlanItem) /\ q \in Seq(SubTask)
      BY <2>2, PlansAssumption DEF IsGraph
    <3> QED BY <3>1
  <2>4. \A s \in 1 .. Len(p) : q[s].source = 0
    BY DEF NewSubTask
  <2> HIDE DEF q
  <2>5. ChainInv(q)
    BY <2>3, <2>4 DEF ChainInv, Repairs
  <2> QED BY <2>2, <2>5, ScheduleChains
<1>4. CASE sub' = sub
  BY <1>4
<1>5. CASE /\ Top.sub \in 1 .. Len(sub)
           /\ \E r \in SubTask : /\ Executed(sub[Top.sub], r)
                                 /\ sub' = [sub EXCEPT ![Top.sub] = r]
  BY <1>2, <1>5
<1>6. CASE /\ Top.sub \in 1 .. Len(sub)
           /\ \/ OnCompleted(GoTo("returned"), Top.sub)
              \/ OnFailed(GoTo("returned"), sub, Top.sub)
  BY <1>1, <1>6, OnCompletedChains, OnFailedChains
<1>7. CASE /\ Top.sub \in 1 .. Len(sub)
           /\ \E q : /\ q = [sub EXCEPT ![Top.sub] = [sub[Top.sub] EXCEPT !.status = "failed"]]
                     /\ OnFailed(GoTo("handled"), q, Top.sub)
  <2>1. PICK q : /\ q = [sub EXCEPT ![Top.sub] = [sub[Top.sub] EXCEPT !.status = "failed"]]
                 /\ OnFailed(GoTo("handled"), q, Top.sub)
    BY <1>7
  <2>2. "failed" \in SubTaskStatus
    BY DEF SubTaskStatus
  <2> DEFINE r == [sub[Top.sub] EXCEPT !.status = "failed"]
  <2>4. r \in SubTask /\ Executed(sub[Top.sub], r)
    BY <1>1, <1>7, <2>2, StatusExecuted
  <2>5. q = [sub EXCEPT ![Top.sub] = r]
    BY <2>1
  <2> HIDE DEF r
  <2>3. IsGraph(q) /\ ChainInv(q) /\ Len(q) = Len(sub)
    BY <1>2, <1>7, <2>4, <2>5
  <2> QED BY <1>7, <2>1, <2>3, OnFailedChains
<1> QED BY <1>3, <1>4, <1>5, <1>6, <1>7, GraphStep

\* However often one subtask's failure is published, by its exit code and
\* again when its sandbox could not be released, it is repaired once; and no
\* other subtask's chain repairs it (WantsRepair consults the mark).
THEOREM OneChainPerFailureHolds ==
  ASSUME SharedObjects
  PROVE  Spec => []OneChainPerFailure
<1>1. Init => ChainInv(sub)
  <2>1. ASSUME Init PROVE Repairs(sub) = {}
    <3>1. 1 .. Len(sub) = {}
      BY <2>1 DEF Init
    <3> QED BY <3>1 DEF Repairs
  <2> QED BY <2>1 DEF ChainInv
<1>2. TypeInv /\ ChainInv(sub) /\ [Next]_vars => TypeInv' /\ ChainInv(sub')
  BY TypeStep, ChainStep
<1>3. ChainInv(sub) => OneChainPerFailure
  BY DEF ChainInv, Repairs, OneChainPerFailure
<1>4. ChainInv(sub)' <=> ChainInv(sub')
  BY DEF ChainInv, Repairs
<1> QED BY <1>1, <1>2, <1>3, <1>4, TypeInit, PTL DEF Spec

-----------------------------------------------------------------------------
(* What a step does to the stack *)

\* The innermost call returns; the innermost execution moves on.
Pops ==
  /\ stack # <<>> /\ Top.pc \in {"dispatch", "reconcile", "reraise"}
  /\ stack' = Front(stack) /\ sub' = sub
Moves ==
  /\ stack # <<>> /\ Top.pc \in ExecPc
  /\ \E f : /\ FrameOver(f, Len(sub)) /\ f.pc \in ExecPc
            /\ f.sub = Top.sub /\ f.todo = Top.todo
            /\ stack' = Replaced(stack, f)
  /\ Begin \/ Acquire \/ Work \/ CaughtRaises \/ sub' = sub

\* The innermost execution calls the orchestrator, which schedules the graph
\* q: the graph of the state, the failure stored, with a chain if one is due.
Calls(pc, q) ==
  /\ stack # <<>> /\ Top.pc \in {"stored", "caught"} /\ Top.sub \in 1 .. Len(sub)
  /\ IsGraph(q)
  /\ \/ /\ Top.pc = "stored" /\ pc = "returned"
        /\ q = sub
        /\ \/ sub[Top.sub].status = "succeeded" /\ OnCompleted(GoTo(pc), Top.sub)
           \/ sub[Top.sub].status # "succeeded" /\ OnFailed(GoTo(pc), q, Top.sub)
     \/ /\ Top.pc = "caught" /\ pc = "handled"
        /\ q = [sub EXCEPT ![Top.sub] = [sub[Top.sub] EXCEPT !.status = "failed"]]
        /\ OnFailed(GoTo(pc), q, Top.sub)

LEMMA MoveFrame ==
  ASSUME TypeInv, stack # <<>>, Top.pc \in ExecPc, NEW pc \in ExecPc, NEW lease \in BOOLEAN
  PROVE  \E f : /\ FrameOver(f, Len(sub)) /\ f.pc \in ExecPc
                /\ f.sub = Top.sub /\ f.todo = Top.todo
                /\ Replaced(stack, f) = [stack EXCEPT ![Len(stack)] =
                                           [Top EXCEPT !.pc = pc, !.lease = lease]]
<1> DEFINE f == [Top EXCEPT !.pc = pc, !.lease = lease]
<1>1. FrameOver(Top, Len(sub)) /\ Top.sub \in 1 .. Len(sub)
  BY AfterPlan DEF ExecPc
<1>2. FrameOver(f, Len(sub)) /\ f.pc = pc /\ f.sub = Top.sub /\ f.todo = Top.todo
  BY <1>1 DEF FrameOver, Frame
<1>3. Replaced(stack, f) = [stack EXCEPT ![Len(stack)] = f]
  BY DEF Replaced
<1> HIDE DEF f
<1>4. FrameOver(f, Len(sub)) /\ f.pc \in ExecPc
  BY <1>2
<1> QED BY <1>2, <1>3, <1>4 DEF f

LEMMA GoToFrame ==
  ASSUME TypeInv, stack # <<>>, Top.pc \in ExecPc, NEW pc \in ExecPc
  PROVE  \E f : /\ FrameOver(f, Len(sub)) /\ f.pc = pc
                /\ f.sub = Top.sub /\ f.todo = Top.todo
                /\ GoTo(pc) = Replaced(stack, f)
<1> DEFINE f == [Top EXCEPT !.pc = pc]
<1>1. /\ FrameOver(Top, Len(sub)) /\ Top.sub \in 1 .. Len(sub) /\ Top = stack[Len(stack)]
      /\ FramesOver(stack, Len(sub)) /\ Len(stack) \in Nat \ {0}
  BY AfterPlan DEF ExecPc
<1>2. FrameOver(f, Len(sub)) /\ f.pc = pc /\ f.sub = Top.sub /\ f.todo = Top.todo
  BY <1>1 DEF FrameOver, Frame
<1>3. GoTo(pc) = Replaced(stack, f)
  BY <1>1 DEF GoTo, Replaced
<1> HIDE DEF f
<1> QED BY <1>2, <1>3

LEMMA ReleaseMoves == TypeInv /\ (Acquire \/ Release \/ ReleaseRaises) => Moves
<1> SUFFICES ASSUME TypeInv, Acquire \/ Release \/ ReleaseRaises PROVE Moves
  OBVIOUS
<1>1. stack # <<>> /\ Top.pc \in ExecPc
  BY DEF Acquire, Release, ReleaseRaises, At, Running, ExecPc
<1>2. /\ stack \in Seq(Frame) /\ Len(stack) \in Nat \ {0} /\ Top = stack[Len(stack)]
      /\ Top \in Frame
  BY <1>1, AfterPlan DEF ExecPc, FramesOver, FrameOver
<1>3. \E pc \in ExecPc, lease \in BOOLEAN :
        stack' = [stack EXCEPT ![Len(stack)] = [Top EXCEPT !.pc = pc, !.lease = lease]]
  <2>1. CASE Acquire
    <3>1. stack' = [stack EXCEPT ![Len(stack)] = [Top EXCEPT !.pc = "work", !.lease = TRUE]]
      BY <1>2, <2>1 DEF Acquire
    <3> QED BY <3>1 DEF ExecPc
  <2>2. CASE Release
    <3> DEFINE pc == IF Top.pc = "unwind" THEN "caught" ELSE "reconcile"
    <3>1. stack' = [stack EXCEPT ![Len(stack)] = [Top EXCEPT !.pc = pc, !.lease = FALSE]]
      BY <1>2, <2>2 DEF Release
    <3>2. pc \in ExecPc
      BY DEF ExecPc
    <3> QED BY <3>1, <3>2
  <2>3. CASE ReleaseRaises
    <3>1. stack' = [stack EXCEPT ![Len(stack)] = [Top EXCEPT !.pc = "caught", !.lease = FALSE]]
      BY <1>2, <2>3 DEF ReleaseRaises
    <3> QED BY <3>1 DEF ExecPc
  <2> QED BY <2>1, <2>2, <2>3
<1>4. PICK pc \in ExecPc, lease \in BOOLEAN :
        stack' = [stack EXCEPT ![Len(stack)] = [Top EXCEPT !.pc = pc, !.lease = lease]]
  BY <1>3
<1>5. \E f : /\ FrameOver(f, Len(sub)) /\ f.pc \in ExecPc
             /\ f.sub = Top.sub /\ f.todo = Top.todo
             /\ stack' = Replaced(stack, f)
  BY <1>1, <1>4, MoveFrame
<1>6. Acquire \/ sub' = sub
  BY DEF Release, ReleaseRaises
<1> QED BY <1>1, <1>5, <1>6 DEF Moves

LEMMA StackStep ==
  ASSUME TypeInv, SharedObjects, [Next]_vars
  PROVE  \/ /\ HandleTaskCreated \/ PlanRaises
            /\ sub' = sub /\ sub = <<>> /\ stack' \in {<<>>, <<PlanningFrame>>}
         \/ PlanReady /\ sub = <<>>
         \/ stack' = stack /\ sub' = sub
         \/ \E s \in 1 .. Len(sub) : RunNext(s)
         \/ Pops
         \/ Moves
         \/ \E pc \in {"returned", "handled"} : \E q : Calls(pc, q)
<1>1. CASE HandleTaskCreated
  BY <1>1 DEF HandleTaskCreated, TypeInv, BeforePlan
<1>2. CASE PlanReady \/ PlanRaises
  <2>1. stack # <<>> /\ Top.pc = "planning"
    BY <1>2 DEF PlanReady, PlanRaises, At, Running
  <2>2. IsGraph(sub) /\ FramesOver(stack, Len(sub))
    BY TypeOKParts DEF TypeInv
  <2>3. sub = <<>>
    BY <2>1, <2>2, TopType DEF TypeInv, BeforePlan
  <2> QED BY <1>2, <2>3 DEF PlanRaises
<1>3. CASE DeleteTask \/ UNCHANGED vars
  BY <1>3 DEF DeleteTask, vars
<1>4. CASE LoopEnds \/ (Unwind /\ Top.pc = "dispatch") \/ Reconcile \/ ReconcileRaises
  <2>1. Pops
    BY <1>4 DEF Pops, LoopEnds, Unwind, Reconcile, ReconcileRaises, At, Running
  <2> QED BY <2>1
<1>5. CASE \/ Begin \/ Work \/ BodyRaises \/ Return \/ SummaryRaises \/ CaughtRaises
           \/ Handled \/ (Unwind /\ Top.pc # "dispatch")
  <2>1. /\ stack # <<>> /\ Top.pc \in ExecPc
        /\ Begin \/ Work \/ CaughtRaises \/ sub' = sub
    BY <1>5 DEF Begin, Work, BodyRaises, Return, SummaryRaises, CaughtRaises, Handled,
       Unwind, At, Running, ExecPc
  <2>2. \E pc \in ExecPc : stack' = GoTo(pc)
    <3>1. CASE Begin
      BY <3>1 DEF Begin, ExecPc
    <3>2. CASE Work \/ BodyRaises \/ Return
      BY <3>2 DEF Work, BodyRaises, Return, ExecPc
    <3>3. CASE SummaryRaises \/ CaughtRaises \/ Handled
      BY <3>3 DEF SummaryRaises, CaughtRaises, Handled, ExecPc
    <3>4. CASE Unwind /\ Top.pc # "dispatch"
      BY <3>4 DEF Unwind, ExecPc
    <3> QED BY <1>5, <3>1, <3>2, <3>3, <3>4
  <2>3. Moves
    BY <2>1, <2>2, GoToFrame DEF Moves
  <2> QED BY <2>3
<1>6. CASE Publish
  <2>1. stack # <<>> /\ Top.pc = "stored" /\ Top.pc \in ExecPc
    BY <1>6 DEF Publish, At, Running, ExecPc
  <2>2. IsGraph(sub) /\ Top.sub \in 1 .. Len(sub)
    BY <2>1, AfterPlan DEF ExecPc
  <2>3. Calls("returned", sub)
    BY <1>6, <2>1, <2>2 DEF Publish, Calls
  <2> QED BY <2>3
<1>7. CASE Caught
  <2>1. stack # <<>> /\ Top.pc = "caught" /\ Top.pc \in ExecPc
    BY <1>7 DEF Caught, At, Running, ExecPc
  <2>2. IsGraph(sub) /\ Top.sub \in 1 .. Len(sub)
    BY <2>1, AfterPlan DEF ExecPc
  <2> DEFINE q == [sub EXCEPT ![Top.sub] = [sub[Top.sub] EXCEPT !.status = "failed"]]
  <2>3. OnFailed(GoTo("handled"), q, Top.sub)
    BY <1>7 DEF Caught, SavedAsFailed
  <2>4. IsGraph(q)
    <3>1. "failed" \in SubTaskStatus
      BY DEF SubTaskStatus
    <3> QED BY <2>1, <3>1, ExecSubTypes
  <2>5. Calls("handled", q)
    BY <2>1, <2>2, <2>3, <2>4 DEF Calls
  <2> QED BY <2>5
<1>8. CASE Acquire \/ Release \/ ReleaseRaises
  BY <1>8, ReleaseMoves
<1> QED BY <1>1, <1>2, <1>3, <1>4, <1>5, <1>6, <1>7, <1>8 DEF Next, Step

-----------------------------------------------------------------------------
(* StartsOnFinishedInputs *)

Inputs(q, t) == \A d \in q[t].deps : q[d].status = "succeeded"
Busy == {"verifying", "executing", "sandbox_creating"}

\* What waits in a loop can be started: its dependencies are successes, and
\* no execution from the loop up can turn one of them into a failure.
LoopInputs(stk, q) ==
  \A i \in 1 .. Len(stk) : \A t \in stk[i].todo :
    /\ Inputs(q, t)
    /\ \A j \in i .. Len(stk) : stk[j].pc \in ExecPc => stk[j].sub \notin q[t].deps

\* What was started and has not finished has them still.
ExecInputs(stk, q) ==
  \A i \in 1 .. Len(stk) :
    stk[i].pc \in ExecPc /\ q[stk[i].sub].status \notin Finished => Inputs(q, stk[i].sub)

\* A subtask has a status of execution only while it is executed.
BusyIsHeld(stk, q) ==
  \A s \in 1 .. Len(q) :
    q[s].status \in Busy => \E i \in 1 .. Len(stk) : stk[i].pc \in ExecPc /\ stk[i].sub = s

StartInv ==
  /\ ActInv
  /\ LoopInputs(stack, sub) /\ ExecInputs(stack, sub) /\ BusyIsHeld(stack, sub)

\* A graph that grows and loses no success but x; nothing is started in it.
Grows(q, r, x) ==
  /\ Len(q) <= Len(r)
  /\ \A s \in 1 .. Len(q) :
       /\ r[s].deps = q[s].deps
       /\ q[s].status = "succeeded" /\ s # x => r[s].status = "succeeded"
  /\ \A s \in 1 .. Len(r) :
       r[s].status \in Busy => s \in 1 .. Len(q) /\ q[s].status \in Busy

LEMMA GrowsTrans ==
  ASSUME NEW q, NEW r, NEW u, IsGraph(q), IsGraph(r), IsGraph(u), NEW x,
         Grows(q, r, x), Grows(r, u, 0)
  PROVE  Grows(q, u, x)
<1>1. /\ Len(q) \in Nat /\ Len(r) \in Nat /\ Len(u) \in Nat
  BY DEF IsGraph
<1>2. 1 .. Len(q) \subseteq 1 .. Len(r) /\ Len(q) <= Len(u) /\ 0 \notin 1 .. Len(r)
  BY <1>1 DEF Grows
<1> QED BY <1>2 DEF Grows

\* Loops keep their inputs while calls return and the graph grows, although
\* the innermost execution's subtask may fail.
LEMMA LoopInputsReturned ==
  ASSUME NEW q, IsGraph(q), NEW stk, FramesOver(stk, Len(q)), LoopInputs(stk, q),
         NEW r, NEW x, Grows(q, r, x),
         \/ x = 0
         \/ stk # <<>> /\ stk[Len(stk)].pc \in ExecPc /\ x = stk[Len(stk)].sub,
         NEW stk2, stk2 \in Seq(Frame), Returned(stk2, stk)
  PROVE  LoopInputs(stk2, r)
<1> SUFFICES ASSUME NEW i \in 1 .. Len(stk2), NEW t \in stk2[i].todo
             PROVE  /\ Inputs(r, t)
                    /\ \A j \in i .. Len(stk2) :
                         stk2[j].pc \in ExecPc => stk2[j].sub \notin r[t].deps
  BY DEF LoopInputs
<1>1. /\ Len(stk) \in Nat /\ Len(stk2) \in Nat /\ Len(stk2) <= Len(stk) /\ Len(q) \in Nat
      /\ i \in Nat
  BY DEF FramesOver, Returned, IsGraph
<1>2. i \in 1 .. Len(stk) /\ t \in stk[i].todo
  BY <1>1 DEF Returned
<1>3. t \in 1 .. Len(q) /\ q[t].deps \subseteq 1 .. Len(q) /\ r[t].deps = q[t].deps
  BY <1>2 DEF FramesOver, FrameOver, IsGraph, Grows
<1>4. /\ Inputs(q, t)
      /\ \A j \in i .. Len(stk) : stk[j].pc \in ExecPc => stk[j].sub \notin q[t].deps
  BY <1>2 DEF LoopInputs
<1>5. x \notin q[t].deps
  <2>1. CASE x = 0
    BY <1>1, <1>3, <2>1
  <2>2. CASE stk # <<>> /\ stk[Len(stk)].pc \in ExecPc /\ x = stk[Len(stk)].sub
    <3>1. Len(stk) \in i .. Len(stk)
      BY <1>1, <1>2
    <3> QED BY <1>4, <2>2, <3>1
  <2> QED BY <2>1, <2>2
<1>6. Inputs(r, t)
  BY <1>3, <1>4, <1>5 DEF Inputs, Grows
<1>7. \A j \in i .. Len(stk2) : stk2[j].pc \in ExecPc => stk2[j].sub \notin r[t].deps
  <2>1. \A j \in i .. Len(stk2) : j \in 1 .. Len(stk2) /\ j \in i .. Len(stk)
    BY <1>1
  <2> QED BY <1>3, <1>4, <2>1 DEF Returned
<1> QED BY <1>6, <1>7

\* A new loop over what is ready, and a new execution of what was in a loop.
LEMMA LoopInputsCall ==
  ASSUME NEW q, NEW n \in Nat, NEW stk, FramesOver(stk, n), LoopInputs(stk, q),
         NEW f, FrameOver(f, n),
         \A t \in f.todo : Inputs(q, t),
         f.pc \in ExecPc => f.todo = {} /\ q[f.sub].status # "succeeded"
  PROVE  LoopInputs(Append(stk, f), q)
<1> DEFINE new == Append(stk, f)
<1>1. /\ Len(new) = Len(stk) + 1 /\ new[Len(stk) + 1] = f /\ Len(stk) \in Nat
      /\ \A i \in 1 .. Len(stk) : new[i] = stk[i]
  BY AppendFrameType DEF FramesOver
<1> HIDE DEF new
<1> SUFFICES ASSUME NEW i \in 1 .. Len(new), NEW t \in new[i].todo
             PROVE  /\ Inputs(q, t)
                    /\ \A j \in i .. Len(new) :
                         new[j].pc \in ExecPc => new[j].sub \notin q[t].deps
  BY DEF LoopInputs, new
<1>2. CASE i = Len(stk) + 1
  <2>1. \A j \in i .. Len(new) : j = Len(stk) + 1
    BY <1>1, <1>2
  <2> QED BY <1>1, <1>2, <2>1
<1>3. CASE i \in 1 .. Len(stk)
  <2>1. /\ t \in stk[i].todo /\ Inputs(q, t)
        /\ \A j \in i .. Len(stk) : stk[j].pc \in ExecPc => stk[j].sub \notin q[t].deps
    BY <1>1, <1>3 DEF LoopInputs
  <2>2. \A j \in i .. Len(new) : j = Len(stk) + 1 \/ (j \in i .. Len(stk) /\ j \in 1 .. Len(stk))
    BY <1>1, <1>3
  <2>3. f.pc \in ExecPc => f.sub \notin q[t].deps
    BY <2>1 DEF Inputs
  <2> QED BY <1>1, <2>1, <2>2, <2>3
<1>4. i \in 1 .. Len(stk) \/ i = Len(stk) + 1
  BY <1>1
<1> QED BY <1>2, <1>3, <1>4

\* Scheduling.
LEMMA ScheduleInputs ==
  ASSUME SharedObjects, NEW subs, IsGraph(subs),
         NEW callers, FramesOver(callers, Len(subs)), LoopInputs(callers, subs),
         NEW phase, DispatchReady(callers, subs, phase)
  PROVE  /\ LoopInputs(stack', sub') /\ Grows(subs, sub', 0)
         /\ IsGraph(sub') /\ Len(sub') = Len(subs)
         /\ \/ stack' = callers
            \/ stack' = Append(callers, DispatchFrame(Ready(subs)))
<1>1. /\ IsGraph(sub') /\ Len(sub') = Len(subs)
      /\ \A s \in 1 .. Len(subs) : AllButStatus(subs[s], sub'[s])
      /\ \A s \in 1 .. Len(subs) : s \notin Ready(subs) => sub'[s].status = subs[s].status
      /\ \A s \in Ready(subs) : sub'[s].status \in {"ready", "assigned"}
      /\ stack' = callers \/ stack' = Append(callers, DispatchFrame(Ready(subs)))
  BY ScheduleFields
<1>2. /\ Len(subs) \in Nat /\ Ready(subs) \subseteq 1 .. Len(subs)
      /\ \A s \in Ready(subs) : subs[s].status # "succeeded" /\ Inputs(subs, s)
      /\ \A s \in Ready(subs) : subs[s].deps \subseteq 1 .. Len(subs)
  BY DEF IsGraph, Ready, Inputs
<1>3. Grows(subs, sub', 0)
  BY <1>1, <1>2 DEF Grows, AllButStatus, Busy
<1>4. callers \in Seq(Frame) /\ Len(callers) \in Nat /\ Returned(callers, callers)
  BY DEF FramesOver, Returned
<1>5. LoopInputs(callers, sub')
  BY <1>3, <1>4, LoopInputsReturned
<1>6. \A s \in Ready(subs) : Inputs(sub', s)
  BY <1>2, <1>3 DEF Inputs, Grows
<1>7. CASE stack' = Append(callers, DispatchFrame(Ready(subs)))
  <2> DEFINE f == DispatchFrame(Ready(subs))
  <2>1. Ready(subs) \in SUBSET (Nat \ {0})
    BY <1>2
  <2>2. /\ f.todo = Ready(subs) /\ f.pc \notin ExecPc
        /\ FrameOver(f, Len(subs))
    BY <1>2, <2>1 DEF DispatchFrame, Frame, FrameOver, ExecPc
  <2>3. stack' = Append(callers, f)
    BY <1>7
  <2> HIDE DEF f
  <2>4. LoopInputs(Append(callers, f), sub')
    BY <1>2, <1>5, <1>6, <2>2, LoopInputsCall
  <2> QED BY <1>1, <1>3, <2>3, <2>4
<1> QED BY <1>1, <1>3, <1>5, <1>7

\* The graphs the handlers schedule.
LEMMA ChainGrows ==
  ASSUME NEW q, IsGraph(q), NEW r, IsGraph(r), Len(r) = Len(q) + 3,
         \A k \in 1 .. Len(q) :
           /\ r[k].deps = q[k].deps
           /\ \/ r[k].status = q[k].status
              \/ q[k].status \notin Finished /\ r[k].status = "cancelled",
         NEW role, NEW deps, NEW attempt, NEW sources,
         ChainAt(r, Len(q), role, deps, attempt, sources)
  PROVE  Grows(q, r, 0)
<1> DEFINE n == Len(q)
<1>1. n \in Nat /\ \A s \in 1 .. n + 3 : s \in 1 .. n \/ s \in {n + 1, n + 2, n + 3}
  BY DEF IsGraph
<1>2. \A s \in {n + 1, n + 2, n + 3} : r[s].status = "queued"
  BY DEF ChainAt, NewSubTask
<1> QED BY <1>1, <1>2 DEF Grows, Busy, Finished

LEMMA OnCompletedGraph ==
  ASSUME IsGraph(sub), NEW s \in 1 .. Len(sub), NEW callers, OnCompleted(callers, s)
  PROVE  \E q : IsGraph(q) /\ Grows(sub, q, 0) /\ DispatchReady(callers, q, run.phase)
<1>1. CASE WantsRework(s)
  <2>1. PICK t \in ReworkTargets(sub, s) :
          DispatchReady(callers, WithRework(s, t), run.phase)
    BY <1>1 DEF OnCompleted
  <2> DEFINE r == WithRework(s, t)
  <2>2. t \in 1 .. Len(sub)
    BY DEF ReworkTargets
  <2>3. /\ IsGraph(r) /\ Len(r) = Len(sub) + 3
        /\ \A k \in 1 .. Len(sub) :
             r[k] = IF k = s THEN [sub[s] EXCEPT !.reworked = TRUE] ELSE sub[k]
        /\ ChainAt(r, Len(sub), sub[t].role, {s}, sub[s].attempt + 1, <<0, t, 0>>)
    BY <2>2, WithReworkFields
  <2>4. DispatchReady(callers, r, run.phase)
    BY <2>1
  <2> HIDE DEF r
  <2>5. sub[s] \in SubTask
    BY SubTypes
  <2>6. \A k \in 1 .. Len(sub) : r[k].deps = sub[k].deps /\ r[k].status = sub[k].status
    BY <2>3, <2>5 DEF SubTask
  <2>7. Grows(sub, r, 0)
    BY <2>3, <2>6, ChainGrows
  <2> QED BY <2>3, <2>4, <2>7
<1>2. CASE ~WantsRework(s)
  <2>1. DispatchReady(callers, sub, run.phase)
    BY <1>2 DEF OnCompleted
  <2>2. Grows(sub, sub, 0)
    BY DEF Grows, IsGraph
  <2> QED BY <2>1, <2>2
<1> QED BY <1>1, <1>2

LEMMA OnFailedGraph ==
  ASSUME NEW subs, IsGraph(subs), NEW s \in 1 .. Len(subs), NEW callers,
         OnFailed(callers, subs, s)
  PROVE  \E q : IsGraph(q) /\ Grows(subs, q, 0) /\ DispatchReady(callers, q, run.phase)
<1>1. CASE WantsRepair(subs, s)
  <2> DEFINE r == WithRepair(subs, s)
  <2>1. DispatchReady(callers, r, run.phase)
    BY <1>1 DEF OnFailed
  <2>2. /\ IsGraph(r) /\ Len(r) = Len(subs) + 3
        /\ \A k \in 1 .. Len(subs) :
             AllButStatus([subs[k] EXCEPT !.repaired = @ \/ k = s], r[k])
        /\ ChainAt(r, Len(subs), subs[s].role, subs[s].deps, subs[s].attempt + 1,
                   <<s, s, s>>)
    BY WithRepairFields
  <2>3. \A k \in 1 .. Len(subs) :
          \/ r[k].status = subs[k].status
          \/ subs[k].status \notin Finished /\ r[k].status = "cancelled"
    BY WithRepairKeeps
  <2> HIDE DEF r
  <2>4. \A k \in 1 .. Len(subs) : subs[k] \in SubTask
    BY DEF IsGraph
  <2>5. \A k \in 1 .. Len(subs) : r[k].deps = subs[k].deps
    BY <2>2, <2>4 DEF AllButStatus, SubTask
  <2>6. Grows(subs, r, 0)
    BY <2>2, <2>3, <2>5, ChainGrows
  <2> QED BY <2>1, <2>2, <2>6
<1>2. CASE ~WantsRepair(subs, s)
  <2>1. DispatchReady(callers, subs, run.phase)
    BY <1>2 DEF OnFailed
  <2>2. Grows(subs, subs, 0)
    BY DEF Grows, IsGraph
  <2> QED BY <2>1, <2>2
<1> QED BY <1>1, <1>2

\* An execution that waits for a call has finished its subtask.
LEMMA ExecInputsAtTop ==
  ASSUME NEW q, NEW stk, InStep(stk, q),
         stk # <<>> /\ stk[Len(stk)].pc \in ExecPc /\ stk[Len(stk)].pc \notin Calling
           /\ q[stk[Len(stk)].sub].status \notin Finished
           => Inputs(q, stk[Len(stk)].sub)
  PROVE  ExecInputs(stk, q)
<1> SUFFICES ASSUME NEW i \in 1 .. Len(stk), stk[i].pc \in ExecPc,
                    q[stk[i].sub].status \notin Finished
             PROVE  Inputs(q, stk[i].sub)
  BY DEF ExecInputs
<1>1. q[stk[i].sub].status \in StatusAt(stk[i].pc)
  BY DEF InStep
<1>2. stk[i].pc \notin Calling
  BY <1>1 DEF StatusAt, Calling, Finished, ExecPc
<1>3. i = Len(stk)
  BY <1>2 DEF InStep
<1>4. stk # <<>>
  BY <1>3
<1> QED BY <1>2, <1>3, <1>4

StartKept == LoopInputs(stack', sub') /\ ExecInputs(stack', sub') /\ BusyIsHeld(stack', sub')

\* What the property says of a step.
Started ==
  \A s \in 1 .. Len(sub) : sub'[s].status \in Busy => Inputs(sub, s)

\* What is busy has its inputs.
LEMMA BusyInputs ==
  ASSUME StartInv, NEW s \in 1 .. Len(sub), sub[s].status \in Busy
  PROVE  Inputs(sub, s)
BY DEF StartInv, BusyIsHeld, ExecInputs, Busy, Finished

LEMMA PopsStart ==
  ASSUME StartInv, Pops, InStep(stack', sub') PROVE StartKept
<1>1. /\ stack # <<>> /\ Top.pc \in {"dispatch", "reconcile", "reraise"}
      /\ Top.pc # "planning" /\ stack' = Front(stack) /\ sub' = sub /\ TypeInv
      /\ LoopInputs(stack, sub) /\ ExecInputs(stack, sub) /\ BusyIsHeld(stack, sub)
      /\ InStep(stack, sub)
  BY DEF Pops, StartInv, ActInv
<1>2. /\ IsGraph(sub) /\ FramesOver(stack, Len(sub)) /\ Len(sub) \in Nat
      /\ Len(stack) \in Nat \ {0} /\ Top = stack[Len(stack)]
  BY <1>1, AfterPlan
<1> DEFINE stk == Front(stack)
<1>3. /\ FramesOver(stk, Len(sub)) /\ Len(stk) = Len(stack) - 1
      /\ \A i \in 1 .. Len(stk) : i \in 1 .. Len(stack) /\ stk[i] = stack[i]
  BY <1>1, <1>2, FrontType
<1>4. stack' = stk
  BY <1>1
<1> HIDE DEF stk
<1>5. Returned(stk, stack) /\ stk \in Seq(Frame)
  <2>1. stk \in Seq(Frame) /\ Len(stk) <= Len(stack)
    BY <1>2, <1>3 DEF FramesOver
  <2> QED BY <1>3, <2>1 DEF Returned
<1>6. Grows(sub, sub, 0)
  BY <1>2 DEF Grows
<1>7. LoopInputs(stk, sub)
  BY <1>1, <1>2, <1>5, <1>6, LoopInputsReturned
<1>8. ExecInputs(stk, sub)
  BY <1>1, <1>3 DEF ExecInputs
<1>9. BusyIsHeld(stk, sub)
  <2> SUFFICES ASSUME NEW s \in 1 .. Len(sub), sub[s].status \in Busy
               PROVE  \E i \in 1 .. Len(stk) : stk[i].pc \in ExecPc /\ stk[i].sub = s
    BY DEF BusyIsHeld
  <2>1. PICK i \in 1 .. Len(stack) : stack[i].pc \in ExecPc /\ stack[i].sub = s
    BY <1>1 DEF BusyIsHeld
  <2>2. i # Len(stack)
    <3>1. sub[s].status \in StatusAt(stack[i].pc)
      BY <1>1, <2>1 DEF InStep
    <3>2. "dispatch" \notin ExecPc
      BY DEF ExecPc
    <3> QED BY <1>1, <1>2, <2>1, <3>1, <3>2 DEF StatusAt, Busy
  <2>3. i \in 1 .. Len(stk)
    BY <1>2, <1>3, <2>2
  <2> QED BY <1>3, <2>1, <2>3
<1> QED BY <1>1, <1>4, <1>7, <1>8, <1>9 DEF StartKept

LEMMA MovesStart ==
  ASSUME StartInv, SharedObjects, Moves, InStep(stack', sub') PROVE StartKept /\ Started
<1>1. /\ stack # <<>> /\ Top.pc \in ExecPc /\ Top.pc # "planning" /\ TypeInv
      /\ LoopInputs(stack, sub) /\ ExecInputs(stack, sub) /\ BusyIsHeld(stack, sub)
      /\ InStep(stack, sub) /\ ActInv
  BY DEF Moves, StartInv, ActInv, ExecPc
<1>2. PICK f : /\ FrameOver(f, Len(sub)) /\ f.pc \in ExecPc
               /\ f.sub = Top.sub /\ f.todo = Top.todo
               /\ stack' = Replaced(stack, f)
  BY DEF Moves
<1>3. /\ IsGraph(sub) /\ FramesOver(stack, Len(sub)) /\ Len(sub) \in Nat
      /\ Len(stack) \in Nat \ {0} /\ Top = stack[Len(stack)] /\ sub \in Seq(SubTask)
      /\ Top.sub \in 1 .. Len(sub) /\ sub[Top.sub] \in SubTask
      /\ sub[Top.sub].status \in StatusAt(Top.pc)
  BY <1>1, AfterPlan, TopStatus
<1> DEFINE stk == Replaced(stack, f)
           k == Top.sub
<1>4. /\ FramesOver(stk, Len(sub)) /\ Len(stk) = Len(stack)
      /\ \A i \in 1 .. Len(stack) : stk[i] = IF i = Len(stack) THEN f ELSE stack[i]
  BY <1>1, <1>2, <1>3, ReplaceTopType
<1>5. stack' = stk
  BY <1>2
<1> HIDE DEF stk
<1>6. Returned(stk, stack) /\ stk \in Seq(Frame)
  <2>1. \A i \in 1 .. Len(stack) :
          /\ stk[i].todo = stack[i].todo
          /\ stk[i].pc \in ExecPc => stack[i].pc \in ExecPc /\ stk[i].sub = stack[i].sub
    BY <1>1, <1>2, <1>3, <1>4
  <2>2. stk \in Seq(Frame) /\ Len(stk) <= Len(stack)
    BY <1>3, <1>4 DEF FramesOver
  <2> QED BY <1>4, <2>1, <2>2 DEF Returned
\* What the step does to the subtask.
<1>7. /\ Len(sub') = Len(sub)
      /\ \A t \in 1 .. Len(sub) : t # k => sub'[t] = sub[t]
      /\ sub'[k].deps = sub[k].deps
      /\ \/ sub'[k] = sub[k]
         \/ sub[k].status \in {"assigned"} \cup Busy
         \/ sub'[k].status = "failed"
  <2>1. CASE sub' = sub
    BY <2>1
  <2>2. ASSUME NEW r \in SubTask, Executed(sub[k], r), sub' = [sub EXCEPT ![k] = r],
               Top.pc \in {"begin", "acquire", "work"}
        PROVE  /\ Len(sub') = Len(sub)
               /\ \A t \in 1 .. Len(sub) : t # k => sub'[t] = sub[t]
               /\ sub'[k].deps = sub[k].deps
               /\ sub[k].status \in {"assigned"} \cup Busy
    <3>1. sub[k].status \in {"assigned"} \cup Busy
      BY <1>3, <2>2 DEF StatusAt, Busy
    <3>2. /\ Len(sub') = Len(sub) /\ sub'[k] = r
          /\ \A t \in 1 .. Len(sub) : t # k => sub'[t] = sub[t]
      BY <1>3, <2>2
    <3> QED BY <2>2, <3>1, <3>2 DEF Executed
  <2>3. CASE Begin
    <3>1. Top.pc = "begin" /\ StartStatus(k) \in SubTaskStatus
      BY <2>3 DEF Begin, At, StartStatus, SubTaskStatus
    <3>2. sub' = [sub EXCEPT ![k] = [sub[k] EXCEPT !.status = StartStatus(k)]]
      BY <2>3 DEF Begin
    <3> HIDE DEF k
    <3> QED BY <1>3, <2>2, <3>1, <3>2, StatusExecuted DEF k
  <2>4. CASE Acquire
    <3>1. Top.pc = "acquire" /\ "executing" \in SubTaskStatus
      BY <2>4 DEF Acquire, At, SubTaskStatus
    <3>2. sub' = [sub EXCEPT ![k] = [sub[k] EXCEPT !.status = "executing"]]
      BY <2>4 DEF Acquire
    <3> QED BY <1>3, <2>2, <3>1, <3>2, StatusExecuted
  <2>5. CASE Work
    <3>1. Top.pc = "work"
      BY <2>5 DEF Work, At
    <3>2. PICK r \in Outcomes(k) : sub' = [sub EXCEPT ![k] = r]
      BY <2>5 DEF Work
    <3>3. r \in SubTask /\ Executed(sub[k], r)
      BY <1>3, OutcomesType, OutcomesExecuted
    <3> QED BY <2>2, <3>1, <3>2, <3>3
  <2>6. CASE CaughtRaises
    <3> DEFINE r == [sub[k] EXCEPT !.status = "failed"]
    <3>1. sub' = [sub EXCEPT ![k] = r]
      BY <1>3, <2>6 DEF CaughtRaises, SavedAsFailed
    <3>2. r.status = "failed" /\ r.deps = sub[k].deps
      BY <1>3 DEF SubTask
    <3> HIDE DEF r
    <3>3. /\ Len(sub') = Len(sub) /\ sub'[k] = r
          /\ \A t \in 1 .. Len(sub) : t # k => sub'[t] = sub[t]
      BY <1>3, <3>1
    <3> QED BY <3>2, <3>3
  <2> QED BY <2>1, <2>3, <2>4, <2>5, <2>6 DEF Moves
<1>8. \/ Inputs(sub, k)
      \/ sub'[k] = sub[k] /\ sub[k].status \in Finished
      \/ sub'[k].status = "failed"
  <2>1. Len(stack) \in 1 .. Len(stack)
    BY <1>3
  <2>2. sub[k].status \notin Finished => Inputs(sub, k)
    BY <1>1, <1>3, <2>1 DEF ExecInputs
  <2>3. sub'[k] # sub[k] => sub[k].status \notin Finished \/ sub'[k].status = "failed"
    BY <1>7 DEF Busy, Finished
  <2> QED BY <2>2, <2>3
<1>9. \A d \in 1 .. Len(sub) :
        sub[d].status = "succeeded" /\ (d # k \/ sub'[k].status # "failed")
          => sub'[d].status = "succeeded"
  BY <1>7 DEF Busy
<1>10. \A s \in 1 .. Len(sub) : sub'[s].deps = sub[s].deps
  BY <1>7
<1>11. LoopInputs(stk, sub')
  <2> SUFFICES ASSUME NEW i \in 1 .. Len(stk), NEW t \in stk[i].todo
               PROVE  /\ Inputs(sub', t)
                      /\ \A j \in i .. Len(stk) :
                           stk[j].pc \in ExecPc => stk[j].sub \notin sub'[t].deps
    BY DEF LoopInputs
  <2>1. Grows(sub, sub, 0)
    BY <1>3 DEF Grows
  <2>2. LoopInputs(stk, sub)
    BY <1>1, <1>3, <1>6, <2>1, LoopInputsReturned
  <2>3. t \in 1 .. Len(sub) /\ sub[t].deps \subseteq 1 .. Len(sub)
    BY <1>3, <1>4 DEF FramesOver, FrameOver, IsGraph
  <2>4. sub'[t].deps = sub[t].deps
    BY <1>10, <2>3
  <2>5. k \notin sub[t].deps
    <3>1. Len(stk) \in i .. Len(stk) /\ stk[Len(stk)] = f
      BY <1>3, <1>4
    <3> QED BY <1>2, <2>2, <3>1 DEF LoopInputs
  <2> QED BY <1>9, <2>2, <2>3, <2>4, <2>5 DEF LoopInputs, Inputs
<1>12. \A s \in 1 .. Len(sub) :
         Inputs(sub, s) /\ sub'[k].status # "failed" => Inputs(sub', s)
  BY <1>3, <1>9, <1>10 DEF Inputs, IsGraph
<1>13. ExecInputs(stk, sub')
  <2>1. stk[Len(stk)].sub = k
    BY <1>2, <1>3, <1>4
  <2>2. sub'[k].status \notin Finished => Inputs(sub', k)
    BY <1>3, <1>8, <1>12 DEF Finished
  <2> QED BY <1>5, <2>1, <2>2, ExecInputsAtTop
<1>14. BusyIsHeld(stk, sub')
  <2> SUFFICES ASSUME NEW s \in 1 .. Len(sub), sub'[s].status \in Busy
               PROVE  \E i \in 1 .. Len(stk) : stk[i].pc \in ExecPc /\ stk[i].sub = s
    BY <1>7 DEF BusyIsHeld
  <2>1. CASE s = k
    <3>1. Len(stk) \in 1 .. Len(stk) /\ stk[Len(stk)] = f
      BY <1>3, <1>4
    <3> QED BY <1>2, <2>1, <3>1
  <2>2. CASE s # k
    <3>1. sub[s].status \in Busy
      BY <1>7, <2>2
    <3>2. PICK i \in 1 .. Len(stack) : stack[i].pc \in ExecPc /\ stack[i].sub = s
      BY <1>1, <3>1 DEF BusyIsHeld
    <3>3. i # Len(stack)
      BY <1>3, <2>2, <3>2
    <3> QED BY <1>4, <3>2, <3>3
  <2> QED BY <2>1, <2>2
<1>15. Started
  <2> SUFFICES ASSUME NEW s \in 1 .. Len(sub), sub'[s].status \in Busy
               PROVE  Inputs(sub, s)
    BY DEF Started
  <2>1. CASE sub[s].status \in Busy
    BY <2>1, BusyInputs
  <2>2. CASE sub[s].status \notin Busy
    <3>1. s = k
      BY <1>7, <2>2
    <3>2. sub'[k] # sub[k] /\ sub'[k].status # "failed"
      BY <2>2, <3>1 DEF Busy
    <3> QED BY <1>8, <3>1, <3>2
  <2> QED BY <2>1, <2>2
<1> QED BY <1>5, <1>11, <1>13, <1>14, <1>15 DEF StartKept

LEMMA RunNextStart ==
  ASSUME StartInv, SharedObjects, NEW s \in 1 .. Len(sub), RunNext(s), InStep(stack', sub')
  PROVE  StartKept
<1> DEFINE f == [Top EXCEPT !.todo = @ \ {s}]
           looping == Replaced(stack, f)
           g == ExecFrame(s)
<1>1. /\ stack # <<>> /\ Top.pc = "dispatch" /\ Top.pc # "planning" /\ TypeInv
      /\ s \in Top.todo /\ sub' = sub
      /\ LoopInputs(stack, sub) /\ BusyIsHeld(stack, sub)
  BY DEF RunNext, At, Running, ActInv, StartInv
<1>2. /\ IsGraph(sub) /\ FramesOver(stack, Len(sub))
      /\ Len(sub) \in Nat /\ Len(stack) \in Nat \ {0}
      /\ Top = stack[Len(stack)] /\ FrameOver(Top, Len(sub)) /\ stack \in Seq(Frame)
  BY <1>1, AfterPlan DEF FramesOver
<1>3. /\ FrameOver(f, Len(sub)) /\ f.pc = "dispatch" /\ f.todo = Top.todo \ {s}
      /\ f.pc \notin ExecPc
  BY <1>1, <1>2 DEF FrameOver, Frame, ExecPc
<1>4. stack' = IF sub[s].status = "assigned" THEN Append(looping, g) ELSE looping
  BY <1>1, <1>2 DEF RunNext, Replaced
<1>5. FrameOver(g, Len(sub)) /\ g.pc = "begin" /\ g.sub = s /\ g.todo = {} /\ g.pc \in ExecPc
  BY <1>2 DEF FrameOver, ExecFrame, Frame, ExecPc
<1> HIDE DEF f, g
<1>6. /\ FramesOver(looping, Len(sub)) /\ Len(looping) = Len(stack)
      /\ \A i \in 1 .. Len(stack) : looping[i] = IF i = Len(stack) THEN f ELSE stack[i]
  BY <1>1, <1>2, <1>3, ReplaceTopType
<1> HIDE DEF looping
<1>7. LoopInputs(looping, sub)
  <2>1. Returned(looping, stack) /\ looping \in Seq(Frame)
    BY <1>2, <1>3, <1>6 DEF Returned, FramesOver
  <2>2. Grows(sub, sub, 0)
    BY <1>2 DEF Grows
  <2> QED BY <1>1, <1>2, <2>1, <2>2, LoopInputsReturned
<1>8. BusyIsHeld(looping, sub)
  <2> SUFFICES ASSUME NEW t \in 1 .. Len(sub), sub[t].status \in Busy
               PROVE  \E i \in 1 .. Len(looping) : looping[i].pc \in ExecPc /\ looping[i].sub = t
    BY DEF BusyIsHeld
  <2>1. PICK i \in 1 .. Len(stack) : stack[i].pc \in ExecPc /\ stack[i].sub = t
    BY <1>1 DEF BusyIsHeld
  <2>2. i # Len(stack)
    BY <1>1, <1>2, <2>1 DEF ExecPc
  <2> QED BY <1>6, <2>1, <2>2
<1>9. CASE sub[s].status # "assigned"
  <2>1. stack' = looping
    BY <1>4, <1>9
  <2>2. looping[Len(looping)].pc \notin ExecPc
    BY <1>2, <1>3, <1>6
  <2>3. ExecInputs(looping, sub)
    BY <1>1, <2>1, <2>2, ExecInputsAtTop
  <2> QED BY <1>1, <1>7, <1>8, <2>1, <2>3 DEF StartKept
<1>10. CASE sub[s].status = "assigned"
  <2> DEFINE new == Append(looping, g)
  <2>1. stack' = new
    BY <1>4, <1>10
  <2>2. /\ Len(new) = Len(stack) + 1 /\ new[Len(stack) + 1] = g
        /\ \A i \in 1 .. Len(stack) : new[i] = looping[i]
    BY <1>2, <1>5, <1>6, AppendFrameType
  <2>3. LoopInputs(new, sub)
    BY <1>2, <1>5, <1>6, <1>7, <1>10, LoopInputsCall
  <2> HIDE DEF new
  <2>4. Inputs(sub, s)
    <3>1. Len(stack) \in 1 .. Len(stack)
      BY <1>2
    <3> QED BY <1>1, <1>2, <3>1 DEF LoopInputs
  <2>5. ExecInputs(new, sub)
    <3>1. new[Len(new)].sub = s
      BY <1>5, <2>2
    <3> QED BY <1>1, <2>1, <2>4, <3>1, ExecInputsAtTop
  <2>6. BusyIsHeld(new, sub)
    <3>1. \A i \in 1 .. Len(looping) : i \in 1 .. Len(new) /\ new[i] = looping[i]
      BY <1>2, <1>6, <2>2
    <3> QED BY <1>8, <3>1 DEF BusyIsHeld
  <2> QED BY <1>1, <2>1, <2>3, <2>5, <2>6 DEF StartKept
<1> QED BY <1>9, <1>10

LEMMA CallsStart ==
  ASSUME StartInv, SharedObjects, NEW pc \in {"returned", "handled"}, NEW q, Calls(pc, q),
         InStep(stack', sub')
  PROVE  StartKept /\ Started
<1> DEFINE k == Top.sub
<1>1. /\ stack # <<>> /\ Top.pc \in {"stored", "caught"} /\ Top.pc \in ExecPc
      /\ Top.pc # "planning" /\ pc \in ExecPc /\ k \in 1 .. Len(sub) /\ IsGraph(q)
      /\ TypeInv /\ ActInv
      /\ LoopInputs(stack, sub) /\ BusyIsHeld(stack, sub)
  BY DEF Calls, StartInv, ActInv, ExecPc
<1>2. /\ IsGraph(sub) /\ FramesOver(stack, Len(sub)) /\ Len(sub) \in Nat
      /\ Len(stack) \in Nat \ {0} /\ Top = stack[Len(stack)] /\ sub \in Seq(SubTask)
      /\ sub[k] \in SubTask
  BY <1>1, AfterPlan, TopStatus
<1>3. PICK f : /\ FrameOver(f, Len(sub)) /\ f.pc = pc
               /\ f.sub = k /\ f.todo = Top.todo
               /\ GoTo(pc) = Replaced(stack, f)
  BY <1>1, GoToFrame
<1> DEFINE callers == Replaced(stack, f)
<1>4. /\ FramesOver(callers, Len(sub)) /\ Len(callers) = Len(stack)
      /\ \A i \in 1 .. Len(stack) : callers[i] = IF i = Len(stack) THEN f ELSE stack[i]
  BY <1>1, <1>2, <1>3, ReplaceTopType
<1>5. GoTo(pc) = callers
  BY <1>3
<1> HIDE DEF callers
<1>6. Returned(callers, stack) /\ callers \in Seq(Frame)
  <2>1. \A i \in 1 .. Len(stack) :
          /\ callers[i].todo = stack[i].todo
          /\ callers[i].pc \in ExecPc =>
               stack[i].pc \in ExecPc /\ callers[i].sub = stack[i].sub
    BY <1>1, <1>2, <1>3, <1>4
  <2>2. callers \in Seq(Frame) /\ Len(callers) <= Len(stack)
    BY <1>2, <1>4 DEF FramesOver
  <2> QED BY <1>4, <2>1, <2>2 DEF Returned
\* The graph with the failure.
<1>7. /\ Len(q) = Len(sub)
      /\ \A t \in 1 .. Len(sub) : t # k => q[t] = sub[t]
      /\ q[k].deps = sub[k].deps
      /\ q[k].status \in Finished
  <2>1. CASE Top.pc = "stored" /\ q = sub
    <3>1. sub[k].status \in Finished
      BY <1>1, <2>1, TopStatus DEF StatusAt, Finished
    <3> QED BY <2>1, <3>1
  <2>2. CASE q = [sub EXCEPT ![k] = [sub[k] EXCEPT !.status = "failed"]]
    <3> DEFINE r == [sub[k] EXCEPT !.status = "failed"]
    <3>1. r \in SubTask /\ r.deps = sub[k].deps /\ r.status \in Finished
      BY <1>2 DEF SubTask, SubTaskStatus, Finished
    <3>2. q = [sub EXCEPT ![k] = r]
      BY <2>2
    <3> HIDE DEF r, k
    <3> QED BY <1>1, <1>2, <3>1, <3>2
  <2> QED BY <2>1, <2>2 DEF Calls
<1>8. Grows(sub, q, k)
  BY <1>2, <1>7 DEF Grows, Busy, Finished
<1>9. LoopInputs(callers, q)
  BY <1>1, <1>2, <1>6, <1>8, LoopInputsReturned
<1>10. PICK r : IsGraph(r) /\ Grows(q, r, 0) /\ DispatchReady(callers, r, run.phase)
  <2>1. \/ q = sub /\ OnCompleted(callers, k)
        \/ OnFailed(callers, q, k)
    BY <1>5 DEF Calls
  <2> QED BY <1>1, <1>2, <1>7, <2>1, OnCompletedGraph, OnFailedGraph
<1>11. FramesOver(callers, Len(q)) /\ Len(q) \in Nat /\ Len(r) \in Nat
  BY <1>2, <1>4, <1>7, <1>10 DEF IsGraph
<1>12. LoopInputs(callers, r) /\ FramesOver(callers, Len(r))
  <2>1. Returned(callers, callers)
    BY <1>6 DEF Returned, FramesOver
  <2>2. Len(q) <= Len(r)
    BY <1>10 DEF Grows
  <2> QED BY <1>1, <1>6, <1>9, <1>10, <1>11, <2>1, <2>2, LoopInputsReturned, GrownType
<1>13. /\ LoopInputs(stack', sub') /\ Grows(r, sub', 0) /\ IsGraph(sub')
       /\ Len(sub') = Len(r)
       /\ stack' = callers \/ stack' = Append(callers, DispatchFrame(Ready(r)))
  BY <1>10, <1>12, ScheduleInputs
<1>14. Grows(sub, sub', k)
  <2>1. Grows(sub, r, k)
    BY <1>1, <1>2, <1>8, <1>10, GrowsTrans
  <2> QED BY <1>2, <1>10, <1>13, <2>1, GrowsTrans
<1>15. ExecInputs(stack', sub')
  <2>1. CASE stack' = callers
    <3>1. callers[Len(callers)].pc \in Calling
      BY <1>2, <1>3, <1>4 DEF Calling
    <3> QED BY <2>1, <3>1, ExecInputsAtTop
  <2>2. CASE stack' = Append(callers, DispatchFrame(Ready(r)))
    <3>1. stack'[Len(stack')] = DispatchFrame(Ready(r))
      BY <1>6, <2>2
    <3>2. stack'[Len(stack')].pc \notin ExecPc
      BY <3>1 DEF DispatchFrame, ExecPc
    <3> QED BY <3>2, ExecInputsAtTop
  <2> QED BY <1>13, <2>1, <2>2
<1>16. \A i \in 1 .. Len(stack) : i \in 1 .. Len(stack') /\ stack'[i] = callers[i]
  <2>1. CASE stack' = callers
    BY <1>4, <2>1
  <2>2. CASE stack' = Append(callers, DispatchFrame(Ready(r)))
    BY <1>2, <1>4, <1>6, <2>2
  <2> QED BY <1>13, <2>1, <2>2
<1>17. \A s \in 1 .. Len(sub') : sub'[s].status \in Busy =>
         s \in 1 .. Len(sub) /\ sub[s].status \in Busy
  BY <1>14 DEF Grows
<1>18. BusyIsHeld(stack', sub')
  <2> SUFFICES ASSUME NEW s \in 1 .. Len(sub'), sub'[s].status \in Busy
               PROVE  \E i \in 1 .. Len(stack') : stack'[i].pc \in ExecPc /\ stack'[i].sub = s
    BY DEF BusyIsHeld
  <2>1. s \in 1 .. Len(sub) /\ sub[s].status \in Busy
    BY <1>17
  <2>2. PICK i \in 1 .. Len(stack) : stack[i].pc \in ExecPc /\ stack[i].sub = s
    BY <1>1, <2>1 DEF BusyIsHeld
  <2>3. callers[i].pc \in ExecPc /\ callers[i].sub = s
    BY <1>1, <1>2, <1>3, <1>4, <2>2
  <2> QED BY <1>16, <2>2, <2>3
<1>19. Started
  <2> SUFFICES ASSUME NEW s \in 1 .. Len(sub), sub'[s].status \in Busy
               PROVE  Inputs(sub, s)
    BY DEF Started
  <2>1. Len(sub) <= Len(sub') /\ Len(sub') \in Nat
    BY <1>13, <1>14 DEF Grows, IsGraph
  <2>2. sub[s].status \in Busy
    BY <1>2, <1>17, <2>1
  <2> QED BY <2>2, BusyInputs
<1> QED BY <1>13, <1>15, <1>18, <1>19 DEF StartKept

\* The plan is stored: nothing has started, nothing is pending.
LEMMA PlanStart ==
  ASSUME SharedObjects, PlanReady, sub = <<>>, InStep(stack', sub')
  PROVE  StartKept /\ Started
<1>1. PICK p \in Plans :
        DispatchReady(<<>>,
                      [i \in 1 .. Len(p) |->
                         NewSubTask(p[i].role, p[i].deps, p[i].sandbox, 0, 0)],
                      "coordinating")
  BY DEF PlanReady
<1> DEFINE q == [i \in 1 .. Len(p) |->
                   NewSubTask(p[i].role, p[i].deps, p[i].sandbox, 0, 0)]
           callers == <<>>
<1>2. IsGraph(q) /\ DispatchReady(callers, q, "coordinating")
  BY <1>1, PlanType
<1>3. Len(q) = Len(p)
  <2>1. p \in Seq(PlanItem) /\ q \in Seq(SubTask)
    BY <1>2, PlansAssumption DEF IsGraph
  <2> QED BY <2>1
<1>4. \A s \in 1 .. Len(q) : q[s].status = "queued"
  BY <1>3 DEF NewSubTask
<1> HIDE DEF q
<1>5. FramesOver(callers, Len(q)) /\ LoopInputs(callers, q) /\ callers \in Seq(Frame)
  BY DEF FramesOver, LoopInputs
<1>6. 1 .. Len(callers) = {}
  OBVIOUS
<1> HIDE DEF callers
<1>7. /\ LoopInputs(stack', sub') /\ Grows(q, sub', 0) /\ Len(sub') = Len(q)
      /\ stack' = callers \/ stack' = Append(callers, DispatchFrame(Ready(q)))
  BY <1>2, <1>5, ScheduleInputs
<1>8. \A s \in 1 .. Len(sub') : sub'[s].status \notin Busy
  <2>1. "queued" \notin Busy
    BY DEF Busy
  <2> QED BY <1>4, <1>7, <2>1 DEF Grows
<1>9. ExecInputs(stack', sub')
  <2>1. CASE stack' = callers
    BY <1>6, <2>1 DEF ExecInputs
  <2>2. CASE stack' = Append(callers, DispatchFrame(Ready(q)))
    <3>1. stack'[Len(stack')] = DispatchFrame(Ready(q))
      BY <1>5, <2>2
    <3>2. stack'[Len(stack')].pc \notin ExecPc
      BY <3>1 DEF DispatchFrame, ExecPc
    <3> QED BY <3>2, ExecInputsAtTop
  <2> QED BY <1>7, <2>1, <2>2
<1>10. 1 .. Len(sub) = {}
  OBVIOUS
<1> QED BY <1>7, <1>8, <1>9, <1>10 DEF StartKept, BusyIsHeld, Started

LEMMA StartStep ==
  ASSUME StartInv, SharedObjects, [Next]_vars
  PROVE  StartInv' /\ Started
<1>1. ActInv' /\ TypeInv /\ ActInv
  BY ActStep DEF StartInv, ActInv
<1>2. InStep(stack', sub')
  BY <1>1 DEF ActInv, InStep
<1>3. ASSUME sub' = sub PROVE Started
  BY <1>3, BusyInputs DEF Started
<1>4. CASE /\ HandleTaskCreated \/ PlanRaises
           /\ sub' = sub /\ sub = <<>> /\ stack' \in {<<>>, <<PlanningFrame>>}
  <2>1. \A i \in 1 .. Len(stack') : stack'[i] = PlanningFrame
    BY <1>4
  <2>2. PlanningFrame.todo = {} /\ PlanningFrame.pc \notin ExecPc
    BY DEF PlanningFrame, ExecPc
  <2>3. 1 .. Len(sub') = {}
    BY <1>4
  <2>4. StartKept
    BY <2>1, <2>2, <2>3 DEF StartKept, LoopInputs, ExecInputs, BusyIsHeld
  <2> QED BY <1>1, <1>3, <1>4, <2>4 DEF StartInv, StartKept, LoopInputs, ExecInputs,
                                     BusyIsHeld, Inputs
<1>5. CASE PlanReady /\ sub = <<>>
  BY <1>1, <1>2, <1>5, PlanStart DEF StartInv, StartKept, LoopInputs, ExecInputs,
                                     BusyIsHeld, Inputs
<1>6. CASE stack' = stack /\ sub' = sub
  BY <1>1, <1>3, <1>6 DEF StartInv, LoopInputs, ExecInputs, BusyIsHeld, Inputs
<1>7. CASE \E s \in 1 .. Len(sub) : RunNext(s)
  <2>1. StartKept
    BY <1>2, <1>7, RunNextStart
  <2>2. sub' = sub
    BY <1>7 DEF RunNext
  <2> QED BY <1>1, <1>3, <2>1, <2>2 DEF StartInv, StartKept, LoopInputs, ExecInputs,
                                     BusyIsHeld, Inputs
<1>8. CASE Pops
  <2>1. StartKept
    BY <1>2, <1>8, PopsStart
  <2>2. sub' = sub
    BY <1>8 DEF Pops
  <2> QED BY <1>1, <1>3, <2>1, <2>2 DEF StartInv, StartKept, LoopInputs, ExecInputs,
                                     BusyIsHeld, Inputs
<1>9. CASE Moves
  BY <1>1, <1>2, <1>9, MovesStart DEF StartInv, StartKept, LoopInputs, ExecInputs,
                                     BusyIsHeld, Inputs
<1>10. CASE \E pc \in {"returned", "handled"} : \E q : Calls(pc, q)
  BY <1>1, <1>2, <1>10, CallsStart DEF StartInv, StartKept, LoopInputs, ExecInputs,
                                     BusyIsHeld, Inputs
<1> QED BY <1>1, <1>4, <1>5, <1>6, <1>7, <1>8, <1>9, <1>10, StackStep

\* However many calls are nested above the loop in which a subtask waits, and
\* whichever of their subtasks fail meanwhile, it starts only while everything
\* it depends on is a success (the loop does not look again before it runs).
THEOREM StartsOnFinishedInputsHolds ==
  ASSUME SharedObjects
  PROVE  Spec => StartsOnFinishedInputs
<1>1. Init => StartInv
  <2> SUFFICES ASSUME Init PROVE StartInv
    OBVIOUS
  <2>1. ActInv
    BY ActInit
  <2>2. 1 .. Len(stack) = {} /\ 1 .. Len(sub) = {}
    BY DEF Init
  <2> QED BY <2>1, <2>2 DEF StartInv, LoopInputs, ExecInputs, BusyIsHeld
<1>2. StartInv /\ [Next]_vars => StartInv'
  BY StartStep
<1>3. StartInv /\ [Next]_vars =>
        [\A s \in 1 .. Len(sub) :
           sub'[s].status \in {"verifying", "executing", "sandbox_creating"} =>
             \A d \in sub[s].deps : sub[d].status = "succeeded"]_vars
  BY StartStep DEF Started, Busy, Inputs
<1> QED BY <1>1, <1>2, <1>3, PTL DEF Spec, StartsOnFinishedInputs
=============================================================================
