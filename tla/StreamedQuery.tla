---------------------------- MODULE StreamedQuery ----------------------------
(***************************************************************************)
(* A streamed interaction whose data query is answered by the service that *)
(* all sessions share, next to the questions of other sessions.            *)
(***************************************************************************)
EXTENDS FlyReportInteraction, DataQuery

CONSTANT Mine  \* the question of the interaction

ASSUME MineAssumption == Mine \in Streamed

allVars == <<vars, queryVars>>

InitAll == Init /\ QueryInit

\* The runner awaits a thread.
Awaits == query[Mine] \in InService \cup {"submitted", "queued", "asking"}

\* The branch asks for the service after its first check, and the service after
\* its second.
AtQuery(n) == runner = "working" /\ kind = "data_query" /\ left = n

SubmitMine == AtQuery(2) /\ Submit(Mine) /\ UNCHANGED vars

AskMine == AtQuery(1) /\ Ask(Mine) /\ UNCHANGED vars

\* _emit_text2sql_unavailable
Unserved == AtQuery(2) /\ query[Mine] = "unavailable"

\* What each result of the query lets the branch do.
QueryAllows ==
  \/ WorkOn /\ (AtQuery(2) => query[Mine] = "served")
            /\ (AtQuery(1) => query[Mine] = "answered")
  \/ Complete /\ (AtQuery(0) => HasSql(Mine))
  \/ AnswerFails /\ (Unserved \/ (AtQuery(0) /\ ~HasSql(Mine)))

RunnerStepAll ==
  /\ LoopIsFree
  /\ \/ Run \/ Placeholder \/ Classified \/ Check
     \/ QueryAllows
     \/ Raises /\ ~Awaits
     \/ TellFailed \/ Cancelled \/ CloseStream
  /\ UNCHANGED queryVars

\* The questions of other sessions.
Others == Queries \ {Mine}

OtherStep(q) == (Submit(q) \/ Ask(q)) /\ UNCHANGED vars

QueryStep(q) == ThreadStep(q) /\ UNCHANGED vars

GiveUp(q) == TimeOut(q) /\ UNCHANGED vars

ReaderStepAll == LoopIsFree /\ ReaderStep /\ UNCHANGED queryVars

CancellerStepAll(c) == LoopIsFree /\ CancellerStep(c) /\ UNCHANGED queryVars

ClientStep ==
  /\ LoopIsFree
  /\ \/ Connect \/ Disconnect
     \/ \E c \in Cancellers : Cancel(c)
  /\ UNCHANGED queryVars

NextAll ==
  \/ ClientStep \/ ReaderStepAll
  \/ RunnerStepAll \/ SubmitMine \/ AskMine
  \/ \E c \in Cancellers : CancellerStepAll(c)
  \/ \E q \in Others : OtherStep(q)
  \/ \E q \in Queries : QueryStep(q) \/ GiveUp(q)

SpecAll == InitAll /\ [][NextAll]_allVars

\* Threads end and the loop runs what can run; nobody has to ask, and a
\* time-out need not come first.
Fairness ==
  /\ WF_allVars(RunnerStepAll \/ SubmitMine \/ AskMine)
  /\ WF_allVars(ReaderStepAll)
  /\ \A c \in Cancellers : WF_allVars(CancellerStepAll(c))
  /\ \A q \in Queries : WF_allVars(QueryStep(q))
=============================================================================
