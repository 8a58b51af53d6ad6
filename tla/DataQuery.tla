------------------------------ MODULE DataQuery ------------------------------
(***************************************************************************)
(* Questions to the database (Text-to-SQL).  All sessions share one        *)
(* service, which the first question builds, one buffer of what was        *)
(* executed, and the threads of the event loop's executor.  A question of  *)
(* a streamed interaction is answered in a thread, with a time-out that    *)
(* the thread does not notice; one of a plain message is answered on the   *)
(* event loop, which does nothing else meanwhile.                          *)
(***************************************************************************)
EXTENDS Naturals, FiniteSets, Sequences, FiniteSetsExt

CONSTANTS
  Streamed,    \* questions of streamed interactions
  Turns,       \* questions of plain messages
  Workers,     \* threads of the executor
  MaxRuns,     \* bound: run_sql calls of one question
  MaxRows      \* text2sql.max_rows

ASSUME QueryAssumption ==
  /\ Streamed \cap Turns = {}
  /\ Workers \in Nat \ {0} /\ MaxRuns \in Nat /\ MaxRows \in Nat \ {0}

Queries == Streamed \cup Turns

VARIABLES
  service,    \* whether _text2sql_service is set
  attempted,  \* _text2sql_init_attempted
  initError,  \* _text2sql_init_error is set
  query,      \* where each question is
  late,       \* questions that timed out and whose threads go on
  captured,   \* SqlCaptureBuffer: what was executed, by conversation
  answer      \* the Text2SqlAnswer of each question

queryVars == <<service, attempted, initError, query, late, captured, answer>>

NoAnswer == [text |-> "none"]

QueryInit ==
  /\ service = FALSE /\ attempted = FALSE /\ initError = FALSE
  /\ query = [q \in Queries |-> "idle"]
  /\ late = {}
  /\ captured = [q \in Queries |-> <<>>]
  /\ answer = [q \in Queries |-> NoAnswer]

-----------------------------------------------------------------------------
(* The event loop and its threads *)

InService == {"looking", "marking", "building", "returning"}

\* A thread is taken until its call returns, whoever still waits for it.
Threads == {q \in Streamed : query[q] \in InService \cup {"asking"}} \cup late

LoopIsFree ==
  \A q \in Turns : query[q] \notin InService \cup {"served", "asking"}

\* to_thread, or the direct call of a plain message.
Call(q, stage, work) ==
  query' = [query EXCEPT ![q] = IF q \in Turns THEN work ELSE stage]

Start(q) ==
  /\ query[q] \in {"submitted", "queued"}
  /\ Cardinality(Threads) < Workers
  /\ query' = [query EXCEPT ![q] =
                 IF @ = "submitted" THEN "looking" ELSE "asking"]
  /\ captured' = IF query[q] = "queued" THEN [captured EXCEPT ![q] = <<>>]
                 ELSE captured
  /\ UNCHANGED <<service, attempted, initError, late, answer>>

-----------------------------------------------------------------------------
(* _get_text2sql_service: nothing locks it, and two threads may be in it *)

Submit(q) ==
  /\ query[q] = "idle" /\ LoopIsFree
  /\ Call(q, "submitted", "looking")
  /\ UNCHANGED <<service, attempted, initError, late, captured, answer>>

\* Mutant: whoever finds an attempt made gives up.
LookForAttempt(q) ==
  /\ query[q] = "looking"
  /\ query' = [query EXCEPT ![q] =
                 IF attempted THEN "unavailable" ELSE "marking"]
  /\ UNCHANGED <<service, attempted, initError, late, captured, answer>>

Look(q) ==
  /\ query[q] = "looking"
  /\ query' = [query EXCEPT ![q] = IF service THEN "returning"
                                   ELSE IF attempted THEN "unavailable"
                                   ELSE "marking"]
  /\ UNCHANGED <<service, attempted, initError, late, captured, answer>>

Mark(q) ==
  /\ query[q] = "marking"
  /\ query' = [query EXCEPT ![q] = "building"]
  /\ attempted' = TRUE
  /\ UNCHANGED <<service, initError, late, captured, answer>>

\* Ten to sixty seconds, or an error that is remembered for good.
Build(q) ==
  /\ query[q] = "building"
  /\ query' = [query EXCEPT ![q] = "returning"]
  /\ \/ service' = TRUE /\ UNCHANGED initError
     \/ service' = FALSE /\ initError' = TRUE
  /\ UNCHANGED <<attempted, late, captured, answer>>

Return(q) ==
  /\ query[q] = "returning"
  /\ query' = [query EXCEPT ![q] = IF service THEN "served" ELSE "unavailable"]
  /\ UNCHANGED <<service, attempted, initError, late, captured, answer>>

-----------------------------------------------------------------------------
(* Text2SqlService.answer *)

\* Mutant: all questions are one conversation.
SharedConversation(q) == CHOOSE first \in Queries : TRUE

\* Every question is a conversation of its own.
Conversation(q) == q

Ask(q) ==
  /\ query[q] = "served" /\ (q \in Turns \/ LoopIsFree)
  /\ Call(q, "queued", "asking")
  /\ captured' = IF q \in Turns
                   THEN [captured EXCEPT ![Conversation(q)] = <<>>]
                   ELSE captured
  /\ UNCHANGED <<service, attempted, initError, late, answer>>

\* GuardedRunSqlTool: a statement is refused, fails, or returns rows, of which
\* the buffer keeps the first.
RunSql(q) ==
  /\ query[q] = "asking" \/ q \in late
  /\ Len(captured[Conversation(q)]) < MaxRuns
  /\ \E guarded, fails \in BOOLEAN, found \in 0 .. MaxRows + 1 :
       LET ran == ~guarded /\ ~fails
           entry == [by |-> q, success |-> ran,
                     rows |-> IF ~ran THEN 0 ELSE Min({found, MaxRows}),
                     cut |-> ran /\ found > MaxRows]
       IN captured' = [captured EXCEPT ![Conversation(q)] = Append(@, entry)]
  /\ UNCHANGED <<service, attempted, initError, query, late, answer>>

\* ask and _to_answer: the last statement that ran, or the SQL in the reply.
ToAnswer(runs, inReply, placeholder) ==
  LET ok == {i \in DOMAIN runs : runs[i].success}
      last == runs[Max(ok)]
  IN [executed |-> ok # {},
      sql |-> IF ok # {} THEN last.by
              ELSE IF inReply THEN "in reply" ELSE "none",
      rows |-> IF ok = {} THEN 0 ELSE last.rows,
      cut |-> ok # {} /\ last.cut,
      truncated |-> ok # {} /\ last.rows >= MaxRows,
      error |-> ok = {} /\ runs # <<>>,
      text |-> IF ok = {} THEN "no data"
               ELSE IF last.rows = 0 THEN "no rows"
               ELSE IF placeholder THEN "rows" ELSE "reply"]

Failure(text) ==
  [executed |-> FALSE, sql |-> "none", rows |-> 0, cut |-> FALSE,
   truncated |-> FALSE, error |-> TRUE, text |-> text]

\* The agent replies, or raises.
Reply(q) ==
  /\ query[q] = "asking"
  /\ query' = [query EXCEPT ![q] = "answered"]
  /\ \/ \E inReply, placeholder \in BOOLEAN :
          answer' = [answer EXCEPT ![q] =
            ToAnswer(captured[Conversation(q)], inReply, placeholder)]
     \/ answer' = [answer EXCEPT ![q] = Failure("none")]
  /\ UNCHANGED <<service, attempted, initError, late, captured>>

\* wait_for gives up; a thread that has started goes on.
TimeOut(q) ==
  /\ q \in Streamed /\ query[q] \in {"queued", "asking"} /\ LoopIsFree
  /\ late' = IF query[q] = "asking" THEN late \cup {q} ELSE late
  /\ query' = [query EXCEPT ![q] = "answered"]
  /\ answer' = [answer EXCEPT ![q] = Failure("too late")]
  /\ UNCHANGED <<service, attempted, initError, captured>>

LateEnd(q) ==
  /\ q \in late
  /\ late' = late \ {q}
  /\ UNCHANGED <<service, attempted, initError, query, captured, answer>>

-----------------------------------------------------------------------------
\* What goes on by itself: threads, and messages that block the loop.
ThreadStep(q) ==
  \/ Start(q)
  \/ Look(q) \/ Mark(q) \/ Build(q) \/ Return(q)
  \/ RunSql(q) \/ Reply(q) \/ LateEnd(q)
  \/ q \in Turns /\ Ask(q)

\* _run_data_query_interaction_impl fails an interaction without any SQL, and
\* completes it if there is some, executed or not.
HasSql(q) == answer[q].sql # "none"

\* The text of a plain message's answer.
TurnReply(q) ==
  IF answer[q].error \/ ~HasSql(q) THEN "error"
  ELSE IF answer[q].executed THEN "rows" ELSE "not executed"

-----------------------------------------------------------------------------
(* Properties *)

\* A user is told that the database cannot be asked only after building the
\* service failed, or while another question is building it; once it is built
\* and no builder failed, nobody is told so.
UnavailableOnlyWhileBuilding ==
  [][\A q \in Queries :
       query[q] # "unavailable" /\ query'[q] = "unavailable" =>
         initError \/ \E p \in Queries \ {q} : query[p] = "building"]_queryVars

\* An answer speaks of what was executed for this question, although all
\* questions write to one buffer and threads go on after their time-out: its
\* rows come from its own last successful statement, the model's words are
\* shown only with rows, rows that were cut off are reported, and an error is
\* one of a question that has no rows.
AnswerIsBacked ==
  \A q \in Queries : query[q] = "answered" =>
    LET a == answer[q]
    IN /\ a.executed => a.sql = q /\ ~a.error
       /\ a.rows # 0 <=> a.text \in {"rows", "reply"}
       /\ a.cut => a.truncated
       /\ a.rows <= MaxRows
       /\ TurnReply(q) = "rows" => a.executed
=============================================================================
