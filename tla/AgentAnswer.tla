---------------------------- MODULE AgentAnswer ----------------------------
(***************************************************************************)
(* How a subtask gets an answer or a verdict from an agent: the handler of *)
(* the execution runner, the agent's step, its calls of the model and of   *)
(* tools, and what all of them publish.  An exception leaves the innermost *)
(* call, which may publish its own failure, and goes on to the next.       *)
(*                                                                         *)
(* A publication may raise too, before or after it is recorded: another    *)
(* subscriber of the bus fails.  The agent framework is external: it calls *)
(* the model and tools in turn, and answers some errors of tools itself.   *)
(***************************************************************************)
EXTENDS Integers, FiniteSets, Sequences, SequencesExt

CONSTANTS
  AgentTools,    \* tools for agents (_build_agent_tool_functions)
  MaxQuestions,  \* bound: calls of the model and of tools by an agent
  MaxBreaks        \* bound: publications that raise

ASSUME AnswerAssumption == MaxQuestions \in Nat /\ MaxBreaks \in Nat

\* Tools that the handler uses itself; the policy of the subtask may lack them.
OwnTools == {"artifact_read", "memory_lookup", "memory_write"}

VARIABLES
  turn,       \* where the handler is, and what it knows
  frames,     \* the calls in progress, the innermost last
  raising,    \* an exception is on its way to the innermost, or the handler
  published,  \* the topics of the subtask's events, in order
  questions,
  breaks

answerVars == <<turn, frames, raising, published, questions, breaks>>

Frame(of, tool) == [of |-> of, tool |-> tool]
Event(of, what) == [of |-> of, what |-> what]
Inside(of) == frames # <<>> /\ Last(frames).of = of
Handling(pc) == turn.pc = pc /\ frames = <<>> /\ ~raising

\* The decision of its reviews a task may be sent with, if any: one that is no
\* decision is not refused before it is used.
Forced == {"none", "accept", "rework", "unknown"}

\* kind: what the subtask is; memory: there is a long-term memory; artifacts:
\* those it depends on left some; sound: they succeeded, or, for a review, the
\* verifications among them passed and there is one; forced: the constraint
\* force_review_decisions.
AnswerInit ==
  /\ turn \in [pc : {"idle"}, kind : {"verify", "review", "render"},
               memory : BOOLEAN, selected : SUBSET OwnTools, artifacts : BOOLEAN,
               sound : BOOLEAN, called : {FALSE}, answered : {FALSE},
               forced : Forced, by : {"none"}, good : {FALSE}, status : {"running"},
               remembered : {FALSE}]
  /\ frames = <<>>
  /\ raising = FALSE
  /\ published = <<>>
  /\ questions = 0
  /\ breaks = 0

-----------------------------------------------------------------------------
(* Publishing and raising *)

\* Events of one call in order.  A subscriber that raises cuts them off, with
\* the event it raises on recorded or not.
Publish(events, raises) ==
  \/ /\ published' = published \o events
     /\ raising' = raises
     /\ UNCHANGED breaks
  \/ /\ breaks < MaxBreaks
     /\ breaks' = breaks + 1
     /\ \E n \in 0 .. Len(events) : published' = published \o SubSeq(events, 1, n)
     /\ raising' = TRUE

\* What starts is in progress only once its start is published: the call
\* that publishes it is outside of the try.
Open(of, tool, events) ==
  /\ Publish(<<Event(of, "started")>> \o events, FALSE)
  /\ frames' = IF raising' THEN frames ELSE Append(frames, Frame(of, tool))

\* agent.step.completed alone is published inside of the try.
Close(events) ==
  /\ Publish(<<Event(Last(frames).of, "completed")>> \o events, FALSE)
  /\ frames' = IF raising' /\ Inside("step") THEN frames ELSE Front(frames)

Raises ==
  /\ raising' = TRUE
  /\ UNCHANGED <<frames, published, breaks>>

\* Mutant: _acting has no except clause.
UnwindUntold ==
  /\ raising /\ frames # <<>>
  /\ Publish(IF Inside("acting") THEN <<>> ELSE <<Event(Last(frames).of, "failed")>>,
             ~Inside("step"))
  /\ frames' = Front(frames)
  /\ UNCHANGED <<turn, questions>>

\* The except clauses: each publishes its failure and raises again; a step
\* makes of it a result without an answer.  The failure of a tool is stored as
\* an artifact as well, or that raises instead.
Unwind ==
  /\ raising /\ frames # <<>>
  /\ \E stored \in IF Inside("tool") THEN {<<>>, <<Event("artifact", "created")>>} ELSE {<<>>} :
       Publish(<<Event(Last(frames).of, "failed")>> \o stored, ~Inside("step"))
  /\ frames' = Front(frames)
  /\ UNCHANGED <<turn, questions>>

-----------------------------------------------------------------------------
(* ExecutionRunner._run_tool *)

\* _ensure_tool_allowed, then tool.started.
RunTool(tool) ==
  IF tool \in OwnTools \ turn.selected
    THEN /\ Publish(<<Event("policy", "denied")>>, TRUE)
         /\ UNCHANGED frames
    ELSE Open("tool", tool, <<>>)

\* The tool answers, or raises (Unwind publishes and stores its failure).  Of
\* what is written to the memory only the handler's own summary is told apart.
ToolEnds ==
  /\ Inside("tool") /\ ~raising
  /\ \/ /\ Close(<<>>)
        /\ turn' = [turn EXCEPT !.remembered = @ \/ turn.pc = "telling"]
     \/ Raises /\ UNCHANGED turn
  /\ UNCHANGED questions

-----------------------------------------------------------------------------
(* OmniAgentRunner.run, OmniAgent.reply and _acting, AuditedOpenAIChatModel *)

\* AgentFactory makes the agent, or raises; the agent replies.
StartReply ==
  /\ Inside("step") /\ ~raising /\ ~turn.answered
  /\ Raises \/ Open("reply", "none", <<Event("runtime", "selected")>>)
  /\ UNCHANGED <<turn, questions>>

AskModel ==
  /\ Inside("reply") /\ ~raising /\ questions < MaxQuestions
  /\ Open("llm", "none", <<>>)
  /\ questions' = questions + 1
  /\ UNCHANGED turn

ModelEnds ==
  /\ Inside("llm") /\ ~raising
  /\ Close(<<>>) \/ Raises
  /\ UNCHANGED <<turn, questions>>

Act ==
  /\ Inside("reply") /\ ~raising /\ questions < MaxQuestions
  /\ \E tool \in AgentTools \ (OwnTools \ turn.selected) : Open("acting", tool, <<>>)
  /\ questions' = questions + 1
  /\ turn' = [turn EXCEPT !.called = FALSE]

\* The function of the tool: its arguments may not do, or a script may be
\* denied, before the tool is run.
CallTool ==
  /\ Inside("acting") /\ ~raising /\ ~turn.called
  /\ turn' = [turn EXCEPT !.called = TRUE]
  /\ \/ RunTool(Last(frames).tool)
     \/ /\ Last(frames).tool = "run_skill_script"
        /\ \/ Raises
           \/ Publish(<<Event("policy", "denied")>>, TRUE) /\ UNCHANGED frames
  /\ UNCHANGED questions

\* The framework gives the model the error for an answer.
ErrorIsAnswered ==
  /\ Inside("acting") /\ raising
  /\ raising' = FALSE
  /\ UNCHANGED <<turn, frames, questions, breaks>>
  /\ published' = published

\* tool.completed of the agent (what the runner makes of it is SubtaskWork).
ActingEnds ==
  /\ Inside("acting") /\ ~raising /\ turn.called
  /\ Close(IF Last(frames).tool = "run_skill_script"
             THEN <<Event("skill", "executed")>> ELSE <<>>)
  /\ UNCHANGED <<turn, questions>>

\* The framework ends the reply, or raises by itself.
ReplyEnds ==
  /\ Inside("reply") /\ ~raising
  /\ \/ Close(<<>>) /\ turn' = [turn EXCEPT !.answered = ~raising']
     \/ Raises /\ UNCHANGED turn
  /\ UNCHANGED questions

StepEnds ==
  /\ Inside("step") /\ ~raising /\ turn.answered
  /\ Close(<<>>)
  /\ turn' = [turn EXCEPT !.answered = ~raising']
  /\ UNCHANGED questions
-----------------------------------------------------------------------------
(* _execute_validation_subtask and _execute_omni_agent_subtask *)

Goes(pc) == turn' = [turn EXCEPT !.pc = pc]

StartTurn ==
  /\ Handling("idle")
  /\ Publish(<<Event("subtask", "started")>>, FALSE)
  /\ Goes("preparing")
  /\ UNCHANGED <<frames, questions>>

\* The subtask is made to fail (force_fail_subtask), or needs a file that its
\* runtime cannot make.
Refuse ==
  /\ Handling("preparing")
  /\ Raises
  /\ UNCHANGED <<turn, questions>>

\* A validator reads what it judges; another looks up what is remembered.
Prepare ==
  /\ Handling("preparing")
  /\ IF turn.kind # "render" THEN RunTool("artifact_read")
     ELSE IF turn.memory THEN RunTool("memory_lookup")
     ELSE UNCHANGED <<frames, raising, published, breaks>>
  /\ Goes("prompting") /\ UNCHANGED questions

\* _render_validation_result_with_model begins.
Prompt ==
  /\ Handling("prompting")
  /\ \/ turn.kind = "render" /\ UNCHANGED <<raising, published, breaks>>
     \/ turn.kind # "render" /\ Publish(<<Event("validation", "started")>>, FALSE)
  /\ Goes("asking")
  /\ UNCHANGED <<frames, questions>>

\* _run_omni_agent_prompt
AskAgent ==
  /\ Handling("asking")
  /\ Open("step", "none", <<>>)
  /\ Goes("judging") /\ UNCHANGED questions

IsForced == turn.kind = "review" /\ turn.forced # "none"

\* _build_verification_result, and _build_review_decision: a forced decision
\* stands for the rules.
ByRules == IF IsForced THEN turn.forced = "accept"
           ELSE turn.sound /\ (turn.kind = "verify" => turn.artifacts)

\* ReviewDecisionType raises: there is no such decision.
Undecided == IsForced /\ turn.forced = "unknown"

\* A validator is asked for its verdict in JSON; what it may say instead.
Replies == {"good", "bad", "nothing", "no object", "off schema"}

\* _extract_json_payload, from the first brace to the last, and the schema.
VerdictIn(reply) == IF reply \in {"good", "bad"} THEN reply ELSE "none"

\* The answer has a verdict in the form that was asked for, or the rules
\* decide.
JudgeAnswer ==
  /\ Handling("judging") /\ turn.kind # "render"
  /\ \E reply \in IF turn.answered THEN Replies ELSE {"nothing"} :
       LET verdict == VerdictIn(reply) IN
       /\ turn' = [turn EXCEPT !.pc = "keeping",
                     !.by = IF verdict # "none" THEN "agent"
                            ELSE IF Undecided THEN "none" ELSE "rules",
                     !.good = IF verdict = "none" THEN ByRules
                                                    ELSE verdict = "good"]
       /\ Publish(<<Event("validation", IF verdict = "none" THEN "fallback"
                                                         ELSE "completed")>>,
                  verdict = "none" /\ Undecided)
  /\ UNCHANGED <<frames, questions>>

\* _render_subtask_content: the answer, or the template.
Render ==
  /\ Handling("judging") /\ turn.kind = "render"
  /\ turn' = [turn EXCEPT !.pc = "keeping", !.good = TRUE,
                          !.by = IF turn.answered THEN "agent" ELSE "template"]
  /\ UNCHANGED <<frames, raising, published, questions, breaks>>

\* The subtask is saved and its artifact stored, or that raises.  Only a
\* verification that did not pass fails the subtask.
Keep ==
  /\ Handling("keeping")
  /\ turn' = [turn EXCEPT !.pc = "remembering",
                !.status = IF turn.kind = "verify" /\ ~turn.good
                             THEN "failed" ELSE "succeeded"]
  /\ \/ Publish(<<Event("artifact", "created")>>, FALSE) /\ UNCHANGED frames
     \/ Raises
  /\ UNCHANGED questions

\* _store_memory_for_subtask
Remember ==
  /\ Handling("remembering")
  /\ IF turn.memory /\ turn.status = "succeeded" THEN RunTool("memory_write")
     ELSE UNCHANGED <<frames, raising, published, breaks>>
  /\ Goes("telling") /\ UNCHANGED questions

Tell ==
  /\ Handling("telling")
  /\ Publish(<<Event("subtask", turn.status), Event("subtask", "terminal")>>, FALSE)
  /\ Goes("told")
  /\ UNCHANGED <<frames, questions>>

\* What the memory raises is swallowed by _lookup_memory_context and
\* _store_memory_for_subtask.
Swallow ==
  /\ raising /\ frames = <<>>
  /\ \/ turn.pc = "prompting" /\ turn.kind = "render"
     \/ turn.pc = "telling"
  /\ raising' = FALSE
  /\ UNCHANGED <<turn, frames, published, questions, breaks>>

\* What else is raised ends in the except clause of the handler.
Fail ==
  /\ raising /\ frames = <<>>
  /\ turn.pc \notin {"telling", "ended"}
  /\ ~(turn.pc = "prompting" /\ turn.kind = "render")
  /\ turn' = [turn EXCEPT !.pc = "ended", !.status = "failed"]
  /\ Publish(<<Event("execution", "failed"), Event("subtask", "failed"),
               Event("subtask", "terminal")>>, FALSE)
  /\ UNCHANGED <<frames, questions>>

AnswerNext ==
  \/ StartTurn \/ Refuse \/ Prepare \/ Prompt \/ AskAgent \/ JudgeAnswer \/ Render \/ Keep
  \/ Remember \/ Tell \/ Swallow \/ Fail
  \/ StartReply \/ AskModel \/ ModelEnds \/ Act \/ CallTool \/ ToolEnds
  \/ ErrorIsAnswered \/ ActingEnds \/ ReplyEnds \/ StepEnds \/ Unwind

AnswerSpec == AnswerInit /\ [][AnswerNext]_answerVars

-----------------------------------------------------------------------------
(* Properties *)

Calling == {"step", "reply", "llm", "acting", "tool"}
Ending == {"completed", "failed"}
EventsOf(what) ==
  {i \in DOMAIN published : published[i].of \in Calling /\ published[i].what \in what}

\* The calls that a reader takes for being in progress after one more event.
ReadOn(open, e) ==
  IF e.of \notin Calling THEN open
  ELSE IF e.what = "started" THEN Append(open, e.of)
  ELSE IF open # <<>> /\ Last(open) = e.of THEN Front(open)
  ELSE Append(open, "unknown")

\* The same after all events.
InProgress(events) ==
  LET open[n \in 0 .. Len(events)] ==
        IF n = 0 THEN <<>> ELSE ReadOn(open[n - 1], events[n])
  IN open[Len(events)]

\* Whatever fails, the events tell which calls are in progress: each call ends
\* once, after what it has called, and none is open when the subtask has ended.
\* A publication that breaks costs no more than one call its end.
EventsTellCalls ==
  /\ breaks = 0 => InProgress(published) = [i \in DOMAIN frames |-> frames[i].of]
  /\ Cardinality(EventsOf({"started"})) - Cardinality(EventsOf(Ending))
       <= Len(frames) + breaks

Heard(of, what) == Event(of, what) \in ToSet(published)

\* What counts as the agent's comes from a step that ended well, and a verdict
\* of his was read; a verification without one passes only over artifacts
\* that the subtask was allowed to read, of dependencies that succeeded, and a
\* review accepts over verifications that passed or because it was told to.
VerdictIsGrounded ==
  /\ turn.by = "agent" =>
       Heard("step", "completed") /\ ~Heard("step", "failed")
  /\ turn.kind # "render" /\ turn.by # "none" =>
       /\ "artifact_read" \in turn.selected /\ Heard("tool", "completed")
       /\ turn.by = "rules" /\ turn.good =>
            \/ turn.kind = "review" /\ turn.forced = "accept"
            \/ turn.sound /\ (turn.artifacts \/ turn.kind = "review")
       /\ breaks = 0 => Heard("validation", "completed") = (turn.by = "agent")

\* The summary of a subtask is remembered of a success only, if no publication
\* broke (what an agent writes to the memory itself, it writes before that is
\* known), and the subtask ends with one terminal event, that of its status.
MemoryIsTrue ==
  /\ turn.remembered => turn.memory /\ "memory_write" \in turn.selected
  /\ breaks = 0 =>
       /\ turn.remembered => turn.status = "succeeded"
       /\ turn.pc \in {"told", "ended"} =>
            /\ Heard("subtask", turn.status)
            /\ Cardinality({i \in DOMAIN published :
                              published[i] = Event("subtask", "terminal")}) = 1

\* What the events, the verdict and the memory tell of a subtask that an agent
\* answers is what happened, whatever fails on the way.
AnswerIsAccounted == EventsTellCalls /\ VerdictIsGrounded /\ MemoryIsTrue
=============================================================================
