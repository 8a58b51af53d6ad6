----------------------------- MODULE MCClients -----------------------------
(***************************************************************************)
(* One at a time: the calls of the dikong client, a user who pages through *)
(* the history of his sessions, a client of the task API, and a subtask    *)
(* that an agent answers.  The first state chooses, and the others stay as *)
(* they are.                                                               *)
(***************************************************************************)
EXTENDS DikongToken, SessionDirectory, TaskApi, AgentAnswer

VARIABLE kind

clientsVars == <<kind, vars, directoryVars, apiVars, answerVars>>

CallDikong ==
  /\ kind = "token" /\ Next
  /\ UNCHANGED <<kind, directoryVars, apiVars, answerVars>>

\* One batch at a time with one walk, which come to their end; the sessions of
\* others are only there to be left out.
UseDirectory ==
  /\ kind = "directory" /\ UNCHANGED <<kind, vars, apiVars, answerVars>>
  /\ walk.pc # "done" /\ ~walk.strayed /\ batch.pc # "done"
  /\ DirectoryNext
  /\ "idle" \in {batch'.pc, walk'.pc}
  /\ \A s \in Theirs : cache'[s] = cache[s] /\ rows'[s] = rows[s]

UseApi ==
  /\ kind = "api" /\ ApiNext
  /\ UNCHANGED <<kind, vars, directoryVars, answerVars>>

AskAnAgent ==
  /\ kind = "answer" /\ AnswerNext
  /\ UNCHANGED <<kind, vars, directoryVars, apiVars>>

\* What a subtask does not ask for is not told apart.
Distinct ==
  /\ kind # "answer" => turn.kind = "render" /\ ~turn.memory
  /\ turn.kind = "render" => ~turn.sound /\ "artifact_read" \in turn.selected
  /\ turn.kind # "verify" => ~turn.artifacts
  /\ turn.kind # "review" => turn.forced = "none"
  /\ turn.kind # "render" => "memory_lookup" \in turn.selected
  /\ ~turn.memory => {"memory_lookup", "memory_write"} \subseteq turn.selected

ClientsInit ==
  /\ kind \in {"token", "directory", "api", "answer"}
  /\ Init /\ DirectoryInit /\ ApiInit /\ AnswerInit /\ Distinct
  /\ kind # "directory" => \A s \in Sessions : ~Cached(s)
  /\ kind # "api" => durable = {}

ClientsNext == CallDikong \/ UseDirectory \/ UseApi \/ AskAnAgent

ClientsSpec ==
  /\ ClientsInit /\ [][ClientsNext]_clientsVars
  /\ \A c \in Callers :
       WF_clientsVars(kind = "token" /\ Step(c) /\ UNCHANGED <<kind, directoryVars, apiVars, answerVars>>)

\* Every call of the dikong client ends: no failure leaves the lock taken.
EveryCallEnds == kind = "token" => CallsEnd
=============================================================================
