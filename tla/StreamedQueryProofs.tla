------------------------ MODULE StreamedQueryProofs ------------------------
(***************************************************************************)
(* A streamed interaction, for any number of cancel requests and of        *)
(* messages that cannot be stored, and the questions to the database next  *)
(* to it, for any number of questions, threads, statements and rows.       *)
(***************************************************************************)
EXTENDS StreamedQuery, WellFoundedInduction, TLAPS

-----------------------------------------------------------------------------
(* FlyReportInteraction *)

\* The runner has set the status for the last time.
Late == {"failing", "closing", "done", "unclosed"}

\* The runner decides the status once, and nobody else completes or fails an
\* interaction.
Decided ==
  /\ runner \in Late => status \in Terminal
  /\ status \in {"completed", "failed"} => runner \in Late

\* Whatever looks like a cancel goes back to a cancel request.
CancelHasCause ==
  /\ status = "cancelled" \/ runner = "cancelling" => cancelSet
  /\ \A c \in Cancellers : canceller[c] \in {"telling", "closing"} => cancelSet

\* The reader starts the runner; an end mark in its queue comes from a runner
\* that is over or from a cancel.
EndHasCause ==
  /\ reader = "away" => runner = "none"
  /\ ends > 0 => runner = "done" \/ cancelSet

\* What the argument needs to know of the types.
Typed ==
  /\ cancelSet \in BOOLEAN
  /\ canceller \in [Cancellers -> {"idle", "telling", "closing", "done"}]
  /\ told \in Terminal \cup {"none"}
  /\ ends \in Nat
  /\ left \in Nat /\ (runner = "checking" => left > 0)

InteractionInv ==
  /\ Typed
  /\ Decided /\ CancelHasCause /\ EndHasCause
  /\ ToldIsTrue

LEMMA InteractionInit == Init => InteractionInv
<1> SUFFICES ASSUME Init PROVE InteractionInv
  OBVIOUS
<1>1. Typed
  BY DEF Init, Typed, Terminal
<1>2. Decided /\ CancelHasCause
  BY DEF Init, Decided, CancelHasCause, Terminal, Late
<1>3. EndHasCause
  BY DEF Init, EndHasCause
<1>4. ToldIsTrue
  BY DEF Init, ToldIsTrue
<1> QED BY <1>1, <1>2, <1>3, <1>4 DEF InteractionInv

\* The reader and the connection: the status does not move.
LEMMA ReaderKeeps ==
  InteractionInv /\ (Connect \/ Disconnect \/ ReaderStep) => InteractionInv'
<1> SUFFICES ASSUME InteractionInv, Connect \/ Disconnect \/ ReaderStep
             PROVE  InteractionInv'
  OBVIOUS
<1> USE DEF InteractionInv, Typed, Decided, CancelHasCause, EndHasCause, ToldIsTrue,
            Terminal, Late
<1>1. CASE Connect
  BY <1>1 DEF Connect
<1>2. CASE Disconnect
  BY <1>2 DEF Disconnect
<1>3. CASE Started
  BY <1>3 DEF Started, TerminalEvent
\* The end mark came from a runner that is over, whose status is the last one,
\* or there was a cancel.
<1>4. CASE ReadEnd
  BY <1>4 DEF ReadEnd, TerminalEvent
<1> QED BY <1>1, <1>2, <1>3, <1>4 DEF ReaderStep

LEMMA CancelKeeps ==
  ASSUME InteractionInv, NEW c \in Cancellers, Cancel(c) \/ CancellerStep(c)
  PROVE  InteractionInv'
<1> USE DEF InteractionInv, Typed, Decided, CancelHasCause, EndHasCause, ToldIsTrue,
            Terminal, Late
<1>1. CASE Cancel(c)
  BY <1>1 DEF Cancel
<1>2. CASE TellCancelled(c)
  BY <1>2 DEF TellCancelled
<1>3. CASE CloseCancelled(c)
  BY <1>3 DEF CloseCancelled, Close
<1> QED BY <1>1, <1>2, <1>3 DEF CancellerStep

LEMMA RunnerKeeps == InteractionInv /\ RunnerStep => InteractionInv'
<1> SUFFICES ASSUME InteractionInv, RunnerStep PROVE InteractionInv'
  OBVIOUS
<1> USE DEF InteractionInv, Typed, Decided, CancelHasCause, EndHasCause, ToldIsTrue,
            Terminal, Late
<1>1. CASE Run
  BY <1>1 DEF Run
<1>2. CASE Placeholder
  BY <1>2 DEF Placeholder
<1>3. CASE Classified
  BY <1>3 DEF Classified, Checks, Kinds
<1>4. CASE Check
  BY <1>4 DEF Check
<1>5. CASE WorkOn
  BY <1>5 DEF WorkOn
<1>6. CASE Complete
  BY <1>6 DEF Complete
<1>7. CASE AnswerFails
  BY <1>7 DEF AnswerFails
<1>8. CASE Raises
  BY <1>8 DEF Raises
<1>9. CASE TellFailed
  BY <1>9 DEF TellFailed
<1>10. CASE Cancelled
  BY <1>10 DEF Cancelled
<1>11. CASE CloseStream
  BY <1>11 DEF CloseStream, Close
<1> QED
  BY <1>1, <1>2, <1>3, <1>4, <1>5, <1>6, <1>7, <1>8, <1>9, <1>10, <1>11
  DEF RunnerStep

LEMMA InteractionStep == InteractionInv /\ [Next]_vars => InteractionInv'
<1> SUFFICES ASSUME InteractionInv, [Next]_vars PROVE InteractionInv'
  OBVIOUS
<1>1. CASE UNCHANGED vars
  BY <1>1 DEF vars, InteractionInv, Typed, Decided, CancelHasCause, EndHasCause,
              ToldIsTrue
<1> QED BY <1>1, ReaderKeeps, RunnerKeeps, CancelKeeps DEF Next

\* Once the runner is over the interaction is, for any number of cancels and of
\* messages that are not stored.
THEOREM QuietIsTerminalHolds == Spec => []QuietIsTerminal
<1>1. InteractionInv => QuietIsTerminal
  BY DEF InteractionInv, Decided, Late, QuietIsTerminal
<1> QED BY <1>1, InteractionInit, InteractionStep, PTL DEF Spec

\* No reader is told a failure that is none, nor, without a cancel, anything
\* but the end the interaction has.
THEOREM ToldIsTrueHolds == Spec => []ToldIsTrue
<1>1. InteractionInv => ToldIsTrue
  BY DEF InteractionInv
<1> QED BY <1>1, InteractionInit, InteractionStep, PTL DEF Spec

\* However the runner and the cancels overtake each other, the interaction ends
\* and what is told of its end is true (_run_streaming_interaction, cancel).
THEOREM EndIsTrueHolds == Spec => []EndIsTrue
<1>1. QuietIsTerminal /\ ToldIsTrue => EndIsTrue
  BY DEF EndIsTrue
<1> QED BY <1>1, QuietIsTerminalHolds, ToldIsTrueHolds, PTL

-----------------------------------------------------------------------------
(* A cancel in time is honoured *)

\* What a cancel before the last check leaves true for ever: the runner is
\* still before that check, or went another way.
Honoured ==
  /\ cancelSet
  /\ status # "completed"
  /\ BeforeLastCheck \/ runner \in Late \cup {"cancelling", "dead"}

LEMMA HonouredStays == InteractionInv /\ Honoured /\ [Next]_vars => Honoured'
<1> SUFFICES ASSUME InteractionInv, Honoured, [Next]_vars PROVE Honoured'
  OBVIOUS
<1> USE DEF Honoured, BeforeLastCheck, Late
<1>1. CASE Connect \/ Disconnect \/ ReaderStep
  BY <1>1 DEF Connect, Disconnect, ReaderStep, Started, ReadEnd
<1>2. CASE \E c \in Cancellers : Cancel(c) \/ CancellerStep(c)
  BY <1>2 DEF Cancel, CancellerStep, TellCancelled, CloseCancelled
<1>3. CASE Run \/ Placeholder \/ Classified \/ WorkOn
  BY <1>3 DEF Run, Placeholder, Classified, WorkOn
\* The check sees the cancel, whatever the status is by now.
<1>4. CASE Check
  BY <1>4 DEF Check
\* A branch that has a check to come does not complete.
<1>5. ASSUME Complete PROVE FALSE
  <2>1. left \in Nat /\ left > 0 /\ ~(kind = "report" /\ left = 1)
    BY <1>5 DEF Complete, InteractionInv, Typed
  <2> QED BY <1>5, <2>1 DEF Complete
<1>6. CASE AnswerFails \/ Raises \/ TellFailed \/ Cancelled \/ CloseStream
  BY <1>6 DEF AnswerFails, Raises, TellFailed, Cancelled, CloseStream
<1>7. CASE UNCHANGED vars
  BY <1>7 DEF vars
<1> QED BY <1>1, <1>2, <1>3, <1>4, <1>5, <1>6, <1>7 DEF Next, RunnerStep

\* A cancel that is accepted before the runner's last look at it keeps the
\* interaction from completing, also when the runner sets the status back to
\* "streaming" (_ensure_not_cancelled looks at the event too).
THEOREM CancelIsHonouredHolds == Spec => CancelIsHonoured
<1>1. InteractionInv /\ cancelSet /\ BeforeLastCheck => Honoured
  BY DEF InteractionInv, Decided, Honoured, BeforeLastCheck, Late
<1>2. Honoured => status # "completed"
  BY DEF Honoured
<1> QED
  BY <1>1, <1>2, HonouredStays, InteractionInit, InteractionStep, PTL
  DEF Spec, CancelIsHonoured

-----------------------------------------------------------------------------
(* DataQuery *)

\* What happens to the questions.
QueryNext ==
  \E q \in Queries : Submit(q) \/ Ask(q) \/ ThreadStep(q) \/ TimeOut(q)

LEMMA QueryNextStep ==
  [NextAll]_allVars => [QueryNext]_queryVars
  <1>1. Mine \in Queries
    BY MineAssumption DEF Queries
  <1>2. Others \subseteq Queries
    BY DEF Others
  <1> QED
    BY <1>1, <1>2
    DEF NextAll, allVars, ClientStep, ReaderStepAll, RunnerStepAll, SubmitMine,
        AskMine, CancellerStepAll, OtherStep, QueryStep, GiveUp, QueryNext

-----------------------------------------------------------------------------
(* Building the service *)

Stages ==
  InService \cup {"idle", "submitted", "unavailable", "served", "queued",
                  "asking", "answered"}

QueryTypeOK ==
  /\ service \in BOOLEAN /\ attempted \in BOOLEAN /\ initError \in BOOLEAN
  /\ query \in [Queries -> Stages]

\* An attempt that was made succeeded, failed, or is going on.
AttemptIsKnown ==
  attempted => service \/ initError \/ \E p \in Queries : query[p] = "building"

\* Who comes back from building leaves the service or the error.
BuiltOrFailed ==
  \A q \in Queries : query[q] = "returning" => service \/ initError

ServiceInv == QueryTypeOK /\ AttemptIsKnown /\ BuiltOrFailed

LEMMA ServiceInvInit == InitAll => ServiceInv
  <1> SUFFICES ASSUME InitAll PROVE ServiceInv
    OBVIOUS
  <1>1. service \in BOOLEAN /\ attempted \in BOOLEAN /\ initError \in BOOLEAN
    BY DEF InitAll, QueryInit
  <1>2. query \in [Queries -> Stages]
    BY DEF InitAll, QueryInit, Stages
  <1>3. AttemptIsKnown
    BY DEF InitAll, QueryInit, AttemptIsKnown
  <1>4. BuiltOrFailed
    BY DEF InitAll, QueryInit, BuiltOrFailed
  <1> QED
    BY <1>1, <1>2, <1>3, <1>4 DEF ServiceInv, QueryTypeOK

LEMMA ServiceInvStep == ServiceInv /\ [QueryNext]_queryVars => ServiceInv'
  <1> SUFFICES ASSUME ServiceInv, [QueryNext]_queryVars PROVE ServiceInv'
    OBVIOUS
  <1> USE DEF ServiceInv, QueryTypeOK, AttemptIsKnown, BuiltOrFailed, Stages, InService
  <1>1. CASE UNCHANGED queryVars
    BY <1>1 DEF queryVars
  <1>2. ASSUME NEW q \in Queries, Submit(q) PROVE ServiceInv'
    BY <1>2 DEF Submit, Call
  <1>3. ASSUME NEW q \in Queries, Ask(q) PROVE ServiceInv'
    BY <1>3 DEF Ask, Call
  <1>4. ASSUME NEW q \in Queries, ThreadStep(q) PROVE ServiceInv'
    <2>1. CASE Start(q)
      BY <2>1 DEF Start
    <2>2. CASE Look(q)
      BY <2>2 DEF Look
    <2>3. CASE Mark(q)
      BY <2>3 DEF Mark
    <2>4. CASE Build(q)
      BY <2>4 DEF Build
    <2>5. CASE Return(q)
      BY <2>5 DEF Return
    <2>6. CASE RunSql(q)
      BY <2>6 DEF RunSql
    <2>7. CASE Reply(q)
      BY <2>7 DEF Reply
    <2>8. CASE LateEnd(q)
      BY <2>8 DEF LateEnd
    <2> QED
      BY <1>3, <1>4, <2>1, <2>2, <2>3, <2>4, <2>5, <2>6, <2>7, <2>8 DEF ThreadStep
  <1>5. ASSUME NEW q \in Queries, TimeOut(q) PROVE ServiceInv'
    BY <1>5 DEF TimeOut
  <1> QED
    BY <1>1, <1>2, <1>3, <1>4, <1>5 DEF QueryNext

LEMMA UnavailableStep ==
  ASSUME ServiceInv, [QueryNext]_queryVars,
         NEW q \in Queries, query[q] # "unavailable", query'[q] = "unavailable"
  PROVE  initError \/ \E p \in Queries \ {q} : query[p] = "building"
  <1> USE DEF ServiceInv, QueryTypeOK
  <1>1. PICK p \in Queries : Submit(p) \/ Ask(p) \/ ThreadStep(p) \/ TimeOut(p)
    BY DEF QueryNext, queryVars
  <1>2. CASE Look(p)
    BY <1>2 DEF Look, AttemptIsKnown
  <1>3. CASE Return(p)
    BY <1>3 DEF Return, BuiltOrFailed
  <1>4. CASE Submit(p)
    BY <1>4 DEF Submit, Call
  <1>5. CASE Ask(p)
    BY <1>5 DEF Ask, Call
  <1>6. CASE Start(p)
    BY <1>6 DEF Start
  <1>7. CASE Mark(p) \/ Build(p)
    BY <1>7 DEF Mark, Build
  <1>8. CASE RunSql(p) \/ Reply(p) \/ LateEnd(p) \/ TimeOut(p)
    BY <1>8 DEF RunSql, Reply, LateEnd, TimeOut
  <1> QED
    BY <1>1, <1>2, <1>3, <1>4, <1>5, <1>6, <1>7, <1>8 DEF ThreadStep

\* _get_text2sql_service, which nothing locks: for any number of questions and
\* threads, nobody is told that the database cannot be asked unless building
\* the service failed once or goes on for another question.
THEOREM UnavailableOnlyWhileBuildingHolds ==
  SpecAll => UnavailableOnlyWhileBuilding
  <1>1. ServiceInv /\ [NextAll]_allVars => ServiceInv'
    BY QueryNextStep, ServiceInvStep
  <1>2. ServiceInv /\ [NextAll]_allVars =>
          [\A q \in Queries :
             query[q] # "unavailable" /\ query'[q] = "unavailable" =>
               initError \/ \E p \in Queries \ {q} : query[p] = "building"]_queryVars
    BY QueryNextStep, UnavailableStep
  <1> QED
    BY ServiceInvInit, <1>1, <1>2, PTL DEF SpecAll, UnavailableOnlyWhileBuilding

-----------------------------------------------------------------------------
(* What was executed, and what the answers make of it *)

\* The last of some positions of a list is one of them.
LEMMA LastIsMember ==
  ASSUME NEW n \in Nat, NEW T, T \subseteq 1 .. n, T # {}
  PROVE  Max(T) \in T
  <1> DEFINE Below == {n - t : t \in T}
             Less == OpToRel(<, Nat)
  <1>1. Below \subseteq Nat /\ Below # {}
    <2>1. \A t \in T : n - t \in Nat
      OBVIOUS
    <2> QED
      BY <2>1
  <1>2. IsWellFoundedOn(Less, Nat)
    BY NatLessThanWellFounded
  <1> HIDE DEF Less, Below
  <1>3. PICK low \in Below : \A b \in Below : ~ (<<b, low>> \in Less)
    BY <1>1, <1>2, WFMin
  <1>4. PICK t \in T : low = n - t
    BY DEF Below
  <1>5. ASSUME NEW u \in T PROVE t >= u
    <2>1. n - u \in Below /\ n - u \in Nat /\ n - t \in Nat
      BY <1>5 DEF Below
    <2>2. ~ (n - u < n - t)
      BY <1>3, <1>4, <2>1 DEF Less, OpToRel
    <2> QED
      BY <1>5, <2>2
  <1> QED
    BY <1>4, <1>5 DEF Max

\* Every entry is its conversation's own, and was cut only at the limit.
CapturedOK ==
  /\ captured \in [Queries -> Seq([by : Queries, success : BOOLEAN,
                                  rows : Nat, cut : BOOLEAN])]
  /\ \A q \in Queries : \A i \in DOMAIN captured[q] :
       LET run == captured[q][i]
       IN run.by = q /\ run.rows \in 0 .. MaxRows /\ (run.cut => run.rows = MaxRows)

AnswerInv ==
  /\ query \in [Queries -> Stages]
  /\ DOMAIN answer = Queries
  /\ CapturedOK
  /\ AnswerIsBacked

LEMMA AnswerInvInit == InitAll => AnswerInv
  <1> SUFFICES ASSUME InitAll PROVE AnswerInv
    OBVIOUS
  <1>1. query \in [Queries -> Stages] /\ DOMAIN answer = Queries
    BY DEF InitAll, QueryInit, Stages
  <1>2. CapturedOK
    BY DEF InitAll, QueryInit, CapturedOK
  <1>3. AnswerIsBacked
    BY DEF InitAll, QueryInit, AnswerIsBacked
  <1> QED
    BY <1>1, <1>2, <1>3 DEF AnswerInv

\* What AnswerIsBacked says of one answer.
Backed(q, a) ==
  /\ a.executed => a.sql = q /\ ~a.error
  /\ a.rows # 0 <=> a.text \in {"rows", "reply"}
  /\ a.cut => a.truncated
  /\ a.rows <= MaxRows

LEMMA BackedIsEnough ==
  AnswerIsBacked <=> \A q \in Queries : query[q] = "answered" => Backed(q, answer[q])
  BY DEF AnswerIsBacked, TurnReply, HasSql, Backed

LEMMA ToAnswerIsBacked ==
  ASSUME CapturedOK, NEW q \in Queries,
         NEW inReply \in BOOLEAN, NEW placeholder \in BOOLEAN
  PROVE  Backed(q, ToAnswer(captured[q], inReply, placeholder))
  <1> DEFINE runs == captured[q]
             ok == {i \in DOMAIN runs : runs[i].success}
             last == runs[Max(ok)]
  <1>1. MaxRows \in Nat \ {0}
    BY QueryAssumption
  <1>2. runs \in Seq([by : Queries, success : BOOLEAN, rows : Nat, cut : BOOLEAN])
    BY DEF CapturedOK
  <1>3. Len(runs) \in Nat /\ ok \subseteq 1 .. Len(runs)
    BY <1>2
  <1> DEFINE a == ToAnswer(runs, inReply, placeholder)
  <1> SUFFICES Backed(q, a)
    OBVIOUS
  <1>4. CASE ok = {}
    <2>1. a.rows = 0
      BY <1>4 DEF ToAnswer
    <2>6. a.text = "no data"
      BY <1>4 DEF ToAnswer
    <2>2. ~a.executed
      BY <1>4, Zenon DEF ToAnswer
    <2>3. ~a.cut
      BY <1>4, Zenon DEF ToAnswer
    <2> HIDE DEF a
    <2>4. a.rows <= MaxRows
      BY <1>1, <2>1
    <2>5. a.text \notin {"rows", "reply"}
      BY <2>6
    <2> QED
      BY <2>1, <2>2, <2>3, <2>4, <2>5, Zenon DEF Backed
  <1>5. CASE ok # {}
    <2>1. Max(ok) \in ok
      BY <1>3, <1>5, LastIsMember
    <2>2. Max(ok) \in DOMAIN runs
      BY <2>1
    <2>3. last.by = q /\ last.rows \in 0 .. MaxRows
      BY <2>2 DEF CapturedOK
    <2>4. last.cut => last.rows = MaxRows
      BY <2>2 DEF CapturedOK
    <2>6. a.sql = last.by /\ a.rows = last.rows
      BY <1>5 DEF ToAnswer
    <2>7. a.text = IF last.rows = 0 THEN "no rows"
                   ELSE IF placeholder THEN "rows" ELSE "reply"
      BY <1>5 DEF ToAnswer
    <2>8. ~a.error
      BY <1>5, Zenon DEF ToAnswer
    <2>9. a.cut => last.cut
      BY <1>5, Zenon DEF ToAnswer
    <2>10. last.rows >= MaxRows => a.truncated
      BY <1>5, Zenon DEF ToAnswer
    <2> HIDE DEF a, last
    <2>11. a.rows <= MaxRows
      BY <1>1, <2>3, <2>6
    <2>13. a.rows # 0 <=> a.text \in {"rows", "reply"}
      BY <1>1, <2>3, <2>6, <2>7
    <2>12. last.cut => last.rows >= MaxRows
      BY <1>1, <2>4
    <2> QED
      BY <2>3, <2>6, <2>8, <2>9, <2>10, <2>11, <2>12, <2>13, Zenon DEF Backed
  <1> QED
    BY <1>4, <1>5

LEMMA LimitIsNotNegative == 0 <= MaxRows
  <1>1. MaxRows \in Nat \ {0}
    BY QueryAssumption
  <1> QED
    BY <1>1

LEMMA FailureIsBacked ==
  ASSUME NEW q \in Queries, NEW text \in {"none", "too late"}
  PROVE  Backed(q, Failure(text))
  <1> DEFINE a == Failure(text)
  <1>1. a.rows = 0
    BY DEF Failure
  <1>2. a.text = text
    BY DEF Failure
  <1>3. ~a.executed
    BY Zenon DEF Failure
  <1>4. ~a.cut
    BY Zenon DEF Failure
  <1>5. a.rows <= MaxRows
    BY <1>1, LimitIsNotNegative
  <1>6. text \notin {"rows", "reply"}
    OBVIOUS
  <1> HIDE DEF a
  <1>7. Backed(q, a)
    BY <1>1, <1>2, <1>3, <1>4, <1>5, <1>6, Zenon DEF Backed
  <1> QED
    BY <1>7 DEF a

\* A step that answers nothing.
LEMMA AnswersKept ==
  ASSUME AnswerIsBacked, answer' = answer,
         \A p \in Queries : query'[p] = "answered" => query[p] = "answered"
  PROVE  AnswerIsBacked'
  BY DEF AnswerIsBacked, TurnReply, HasSql

LEMMA RunSqlKeepsAnswers ==
  ASSUME AnswerInv, NEW q \in Queries, RunSql(q)
  PROVE  AnswerInv'
  <1> USE DEF AnswerInv
  <1>1. query' = query /\ answer' = answer
    BY DEF RunSql
  <1>2. AnswerIsBacked'
    BY <1>1, AnswersKept
  <1>3. PICK guarded \in BOOLEAN, fails \in BOOLEAN, found \in 0 .. MaxRows + 1 :
          captured' = [captured EXCEPT ![q] = Append(@,
            [by |-> q, success |-> ~guarded /\ ~fails,
             rows |-> IF ~ (~guarded /\ ~fails) THEN 0 ELSE Min({found, MaxRows}),
             cut |-> ~guarded /\ ~fails /\ found > MaxRows])]
    BY DEF RunSql, Conversation
  <1>4. MaxRows \in Nat
    BY QueryAssumption
  <1> DEFINE ran == ~guarded /\ ~fails
             few == Min({found, MaxRows})
             entry == [by |-> q, success |-> ran,
                       rows |-> IF ~ran THEN 0 ELSE few,
                       cut |-> ran /\ found > MaxRows]
  <1>5. few \in 0 .. MaxRows /\ (found > MaxRows => few = MaxRows)
    BY <1>4 DEF Min
  <1> HIDE DEF few
  <1>6. entry.rows \in 0 .. MaxRows
    BY <1>4, <1>5
  <1>7. entry.by = q
    OBVIOUS
  <1>8. entry.cut => entry.rows = MaxRows
    <2>1. entry.cut => ran /\ found > MaxRows
      BY Zenon
    <2>2. ran => entry.rows = few
      BY Zenon
    <2> QED
      BY <1>5, <2>1, <2>2
  <1>9. entry \in [by : Queries, success : BOOLEAN, rows : Nat, cut : BOOLEAN]
    <2>1. entry.rows \in Nat
      BY <1>4, <1>6
    <2> QED
      BY <2>1
  <1> HIDE DEF entry
  <1>10. captured' = [captured EXCEPT ![q] = Append(@, entry)]
    BY <1>3 DEF entry, few
  <1>11. CapturedOK'
    BY <1>6, <1>7, <1>8, <1>9, <1>10 DEF CapturedOK
  <1> QED
    BY <1>1, <1>2, <1>11

LEMMA AnswerInvStep == AnswerInv /\ [QueryNext]_queryVars => AnswerInv'
  <1> SUFFICES ASSUME AnswerInv, [QueryNext]_queryVars PROVE AnswerInv'
    OBVIOUS
  <1> USE DEF AnswerInv
  <1>1. CASE UNCHANGED queryVars
    BY <1>1 DEF queryVars, CapturedOK, AnswerIsBacked, TurnReply, HasSql
  <1>2. ASSUME NEW q \in Queries,
               Submit(q) \/ Ask(q) \/ Start(q) \/ Look(q) \/ Mark(q) \/ Build(q)
                 \/ Return(q) \/ LateEnd(q)
        PROVE  AnswerInv'
    <2>1. answer' = answer
      BY <1>2 DEF Submit, Ask, Start, Look, Mark, Build, Return, LateEnd
    <2>2. captured' = captured \/ captured' = [captured EXCEPT ![q] = <<>>]
      BY <1>2 DEF Submit, Ask, Start, Look, Mark, Build, Return, LateEnd,
                  Conversation
    <2>3. CapturedOK'
      <3>1. CASE captured' = captured
        BY <3>1 DEF CapturedOK
      <3>2. CASE captured' = [captured EXCEPT ![q] = <<>>]
        BY <3>2 DEF CapturedOK
      <3> QED
        BY <2>2, <3>1, <3>2
    <2>4. /\ query' \in [Queries -> Stages]
          /\ \A p \in Queries : query'[p] = "answered" => query[p] = "answered"
      <3> USE DEF Stages, InService
      <3>1. CASE Submit(q) \/ Ask(q)
        BY <3>1 DEF Submit, Ask, Call
      <3>2. CASE Start(q) \/ Look(q)
        BY <3>2 DEF Start, Look
      <3>3. CASE Mark(q) \/ Build(q) \/ Return(q) \/ LateEnd(q)
        BY <3>3 DEF Mark, Build, Return, LateEnd
      <3> QED
        BY <1>2, <3>1, <3>2, <3>3
    <2>5. AnswerIsBacked'
      BY <2>1, <2>4, AnswersKept
    <2> QED
      BY <2>1, <2>3, <2>4, <2>5
  <1>3. ASSUME NEW q \in Queries, RunSql(q) PROVE AnswerInv'
    BY <1>3, RunSqlKeepsAnswers
  <1>4. ASSUME NEW q \in Queries, Reply(q) \/ TimeOut(q) PROVE AnswerInv'
    <2>1. captured' = captured /\ query' = [query EXCEPT ![q] = "answered"]
      BY <1>4 DEF Reply, TimeOut
    <2>2. PICK a : answer' = [answer EXCEPT ![q] = a] /\ Backed(q, a)
      <3>1. CASE Reply(q)
        BY <3>1, ToAnswerIsBacked, FailureIsBacked DEF Reply, Conversation
      <3>2. CASE TimeOut(q)
        BY <3>2, FailureIsBacked DEF TimeOut
      <3> QED
        BY <1>4, <3>1, <3>2
    <2>3. \A p \in Queries :
            query'[p] = "answered" =>
              IF p = q THEN answer'[p] = a
              ELSE answer'[p] = answer[p] /\ query[p] = "answered"
      BY <2>1, <2>2
    <2>4. \A p \in Queries : query'[p] = "answered" => Backed(p, answer'[p])
      BY <2>2, <2>3, BackedIsEnough
    <2>5. AnswerIsBacked'
      BY <2>4 DEF AnswerIsBacked, Backed, TurnReply, HasSql
    <2>6. query' \in [Queries -> Stages] /\ DOMAIN answer' = Queries
      BY <2>1, <2>2 DEF Stages
    <2>7. CapturedOK'
      BY <2>1 DEF CapturedOK
    <2> QED
      BY <2>5, <2>6, <2>7
  <1> QED
    BY <1>1, <1>2, <1>3, <1>4 DEF QueryNext, ThreadStep

\* SqlCaptureBuffer and _to_answer: for any number of questions, statements and
\* rows, and whatever threads still run after their time-out, an answer's rows
\* and SQL are those of its own question, and rows that were cut off are said
\* to be.
THEOREM AnswerIsBackedHolds == SpecAll => []AnswerIsBacked
  <1>1. AnswerInv /\ [NextAll]_allVars => AnswerInv'
    BY QueryNextStep, AnswerInvStep
  <1>2. AnswerInv => AnswerIsBacked
    BY DEF AnswerInv
  <1> QED
    BY AnswerInvInit, <1>1, <1>2, PTL DEF SpecAll
=============================================================================
