---------------------------- MODULE RecordsProofs ----------------------------
(***************************************************************************)
(* What holds of records that come about in pieces, for any number of      *)
(* writers, messages, requests and restarts: the replay of a run, the      *)
(* messages of a FlyReport session, what the session keeps of its turns,   *)
(* its reports and the decisions that allow them, and what a call of a     *)
(* skill script leaves; and the six kinds of records together.             *)
(***************************************************************************)
EXTENDS MCRecords, DataProofs

-----------------------------------------------------------------------------
(***************************************************************************)
(* The replay of a run and its reader (RunStream)                          *)
(***************************************************************************)
StreamTypeOK ==
  /\ replay \in Seq(Events) /\ pending \in Seq(Events) /\ got \in Seq(Events)
  /\ sent \in [Writers -> Nat] /\ from \in Nat /\ cursor \in Nat
  /\ repository = "memory" => copy = [w \in Writers |-> NoCopy]

\* The reader has nothing yet, or the replay from its cursor on.
ReaderInStep ==
  /\ cursor = from + Len(got)
  /\ got = <<>> \/ (cursor <= Len(replay) /\ got = SubSeq(replay, from + 1, cursor))

\* Every event that was published and is not pending is in the replay.
NothingLost ==
  \A w \in Writers : \A n \in 1 .. sent[w] :
    LET e == [by |-> w, n |-> n] IN e \in ToSet(replay) \/ e \in ToSet(pending)

StreamInv ==
  repository = "memory" => StreamTypeOK /\ ReaderInStep /\ NothingLost

\* What was read stays what the replay has.
LEMMA ReplayGrows ==
  ASSUME StreamTypeOK, ReaderInStep, NEW e \in Events, replay' = Append(replay, e),
         UNCHANGED readerVars
  PROVE  ReaderInStep' /\ replay' \in Seq(Events)
<1>1. got' = got /\ cursor' = cursor /\ from' = from
  BY DEF readerVars
<1>2. /\ replay \in Seq(Events) /\ from \in Nat /\ cursor \in Nat /\ got \in Seq(Events)
      /\ Len(replay) \in Nat /\ Len(got) \in Nat
  BY LenProperties DEF StreamTypeOK
<1>3. /\ Append(replay, e) \in Seq(Events) /\ Len(Append(replay, e)) = Len(replay) + 1
      /\ \A i \in 1 .. Len(replay) : Append(replay, e)[i] = replay[i]
  BY <1>2, AppendHas
<1>4. CASE got = <<>>
  BY <1>1, <1>2, <1>3, <1>4 DEF ReaderInStep
<1>5. CASE got # <<>>
  <2>1. cursor <= Len(replay) /\ got = SubSeq(replay, from + 1, cursor)
    BY <1>5 DEF ReaderInStep
  <2> DEFINE long == Append(replay, e)
             a == SubSeq(long, from + 1, cursor)
             b == SubSeq(replay, from + 1, cursor)
  <2>2. a = b
    <3>1. /\ \A i \in from + 1 .. cursor : i \in 1 .. Len(replay)
          /\ \A i \in from + 1 .. cursor : replay[i] \in Events /\ long[i] = replay[i]
          /\ \A i \in 1 .. cursor - (from + 1) + 1 : (from + 1) + i - 1 \in from + 1 .. cursor
          /\ from + 1 \in Int /\ cursor \in Int
      BY <1>2, <1>3, <2>1
    <3> HIDE DEF long
    <3>2. /\ a \in Seq(Events) /\ Len(a) = IF from + 1 <= cursor THEN cursor - (from + 1) + 1 ELSE 0
          /\ \A i \in 1 .. cursor - (from + 1) + 1 : a[i] = long[(from + 1) + i - 1]
      BY <3>1, SubSeqProperties
    <3>3. /\ b \in Seq(Events) /\ Len(b) = IF from + 1 <= cursor THEN cursor - (from + 1) + 1 ELSE 0
          /\ \A i \in 1 .. cursor - (from + 1) + 1 : b[i] = replay[(from + 1) + i - 1]
      BY <3>1, SubSeqProperties
    <3> HIDE DEF a, b
    <3>4. Len(a) = Len(b) /\ \A i \in 1 .. Len(a) : a[i] = b[i]
      BY <1>2, <3>1, <3>2, <3>3
    <3> QED BY <3>2, <3>3, <3>4, SeqEqual
  <2> QED BY <1>1, <1>2, <1>3, <2>1, <2>2 DEF ReaderInStep
<1> QED BY <1>3, <1>4, <1>5

\* A page goes on where the one before ended.
LEMMA PageGoesOn ==
  ASSUME StreamTypeOK, ReaderInStep, Page, UNCHANGED <<from, replay>>
  PROVE  ReaderInStep' /\ got' \in Seq(Events) /\ cursor' \in Nat
<1> DEFINE last == IF cursor + PageLimit < Len(replay) THEN cursor + PageLimit
                   ELSE Len(replay)
           more == SubSeq(replay, cursor + 1, last)
<1>1. /\ replay \in Seq(Events) /\ from \in Nat /\ cursor \in Nat /\ got \in Seq(Events)
      /\ Len(replay) \in Nat /\ Len(got) \in Nat /\ PageLimit \in Nat \ {0}
  BY LenProperties, StreamAssumption DEF StreamTypeOK
<1>2. got' = got \o more /\ cursor' = cursor + Len(more) /\ from' = from /\ replay' = replay
  BY DEF Page, Entries
<1>3. last \in Nat /\ last <= Len(replay) /\ (cursor <= Len(replay) => cursor <= last)
  BY <1>1
<1>4. cursor = from + Len(got)
  BY DEF ReaderInStep
<1> HIDE DEF last
<1>5. /\ more \in Seq(Events)
      /\ Len(more) = IF cursor + 1 <= last THEN last - (cursor + 1) + 1 ELSE 0
      /\ \A i \in 1 .. last - cursor : more[i] = replay[cursor + i]
  <2>1. SubSeq(replay, cursor + 1, last) \in Seq(Events)
    BY <1>1, <1>3, SubSeqProperties
  <2>2. Len(more) = IF cursor + 1 <= last THEN last - (cursor + 1) + 1 ELSE 0
    BY <1>1, <1>3, SubSeqProperties
  <2>3. \A i \in 1 .. last - cursor : more[i] = replay[cursor + i]
    <3> TAKE i \in 1 .. last - cursor
    <3>1. i \in 1 .. last - (cursor + 1) + 1 /\ cursor + 1 + i - 1 = cursor + i
      BY <1>1, <1>3
    <3> QED BY <1>1, <1>3, <2>2, <3>1, SubSeqProperties
  <2> QED BY <2>1, <2>2, <2>3
<1> HIDE DEF more
<1>6. /\ got \o more \in Seq(Events) /\ Len(got \o more) = Len(got) + Len(more)
      /\ Len(more) \in Nat
      /\ \A i \in 1 .. Len(got) + Len(more) :
           (got \o more)[i] = IF i <= Len(got) THEN got[i] ELSE more[i - Len(got)]
  BY <1>1, <1>5, ConcatProperties, LenProperties
<1>7. CASE cursor >= last
  <2>1. Len(more) = 0
    BY <1>1, <1>3, <1>5, <1>7
  <2>2. got \o more = got
    BY <1>1, <1>5, <2>1
  <2> QED BY <1>1, <1>2, <2>1, <2>2 DEF ReaderInStep
<1>8. CASE cursor < last
  <2>1. Len(more) = last - cursor /\ cursor' = last
    BY <1>1, <1>2, <1>3, <1>5, <1>8
  <2>2. \A i \in 1 .. Len(got) : got[i] = replay[from + i]
    <3>1. CASE got = <<>>
      BY <3>1
    <3>2. CASE got # <<>>
      BY <1>1, <1>4, <3>2 DEF ReaderInStep
    <3> QED BY <3>1, <3>2
  <2>3. Len(got) + Len(more) = last - from /\ from + 1 <= last
    BY <1>1, <1>3, <1>4, <1>8, <2>1
  <2>4. \A i \in 1 .. last - from : (got \o more)[i] = replay[from + i]
    <3> TAKE i \in 1 .. last - from
    <3>1. i \in 1 .. Len(got) + Len(more) /\ i \in Int
      BY <2>3
    <3>2. CASE i <= Len(got)
      BY <1>1, <1>3, <1>6, <2>2, <3>1, <3>2
    <3>3. CASE i > Len(got)
      <4>1. i - Len(got) \in 1 .. last - cursor /\ cursor + (i - Len(got)) = from + i
        BY <1>1, <1>3, <1>4, <3>3
      <4>2. (got \o more)[i] = more[i - Len(got)]
        BY <1>1, <1>6, <3>1, <3>3
      <4> QED BY <1>5, <4>1, <4>2
    <3>4. i <= Len(got) \/ i > Len(got)
      BY <1>1, <3>1
    <3> QED BY <3>2, <3>3, <3>4
  <2> DEFINE all == SubSeq(replay, from + 1, last)
  <2>5. /\ all \in Seq(Events) /\ Len(all) = last - from
        /\ \A i \in 1 .. last - from : all[i] = replay[from + i]
    <3>1. all \in Seq(Events) /\ Len(all) = last - from
      BY <1>1, <1>3, <2>3, SubSeqProperties
    <3>2. \A i \in 1 .. last - from : all[i] = replay[from + i]
      <4> TAKE i \in 1 .. last - from
      <4>1. i \in 1 .. last - (from + 1) + 1 /\ from + 1 + i - 1 = from + i
        BY <1>1, <1>3
      <4> QED BY <1>1, <1>3, <2>3, <4>1, SubSeqProperties
    <3> QED BY <3>1, <3>2
  <2> HIDE DEF all
  <2>6. got \o more = all
    BY <1>6, <2>3, <2>4, <2>5, SeqEqual
  <2> QED BY <1>1, <1>2, <1>3, <1>6, <2>1, <2>3, <2>6 DEF ReaderInStep, all
<1>9. cursor >= last \/ cursor < last
  BY <1>1, <1>3
<1> QED BY <1>1, <1>2, <1>6, <1>7, <1>8, <1>9

\* A list without its last.
LEMMA FrontAndLast ==
  ASSUME NEW S, NEW s \in Seq(S), s # <<>>
  PROVE  /\ Front(s) \in Seq(S) /\ Last(s) \in S
         /\ ToSet(s) = ToSet(Front(s)) \cup {Last(s)}
<1> DEFINE n == Len(s)
           f == Front(s)
<1>1. /\ n \in Nat \ {0} /\ DOMAIN s = 1 .. n /\ \A i \in 1 .. n : s[i] \in S
  BY EmptySeq, LenProperties
<1>2. f \in Seq(S) /\ Len(f) = n - 1 /\ \A i \in 1 .. n - 1 : f[i] = s[i]
  <2>1. \A i \in 1 .. n - 1 : s[i] \in S /\ 1 + i - 1 = i
    BY <1>1
  <2>2. 1 \in Int /\ n - 1 \in Int /\ (n - 1) - 1 + 1 = n - 1
    BY <1>1
  <2>3. /\ SubSeq(s, 1, n - 1) \in Seq(S)
        /\ Len(SubSeq(s, 1, n - 1)) = IF 1 <= n - 1 THEN (n - 1) - 1 + 1 ELSE 0
        /\ \A i \in 1 .. (n - 1) - 1 + 1 : SubSeq(s, 1, n - 1)[i] = s[1 + i - 1]
    BY <2>1, <2>2, SubSeqProperties
  <2> QED BY <1>1, <2>1, <2>2, <2>3 DEF Front
<1>3. /\ DOMAIN f = 1 .. n - 1 /\ Last(s) = s[n]
  BY <1>2, LenProperties DEF Last
<1> HIDE DEF n, f
<1>4. /\ n \in 1 .. n /\ \A i \in 1 .. n : i \in 1 .. n - 1 \/ i = n
      /\ \A i \in 1 .. n - 1 : i \in 1 .. n
  BY <1>1
<1>5. ToSet(s) = {s[i] : i \in 1 .. n} /\ ToSet(f) = {f[i] : i \in 1 .. n - 1}
  BY <1>1, <1>3 DEF ToSet
<1>6. ToSet(s) \subseteq ToSet(f) \cup {Last(s)}
  BY <1>2, <1>3, <1>4, <1>5
<1>7. ToSet(f) \cup {Last(s)} \subseteq ToSet(s)
  BY <1>2, <1>3, <1>4, <1>5
<1> QED BY <1>1, <1>2, <1>3, <1>4, <1>6, <1>7 DEF f

LEMMA StreamInit ==
  ASSUME Init
  PROVE  StreamInv
<1> DEFINE first == [by |-> "run", n |-> 1]
<1>1. first \in Events
  BY DEF Events, Writers
<1> HIDE DEF first
<1>2. /\ replay = <<>> /\ pending = <<first>> /\ got = <<>> /\ from \in Nat /\ cursor = from
      /\ sent = [w \in Writers |-> IF w = "run" THEN 1 ELSE 0]
      /\ copy = [w \in Writers |-> NoCopy]
  BY StreamAssumption DEF Init, first
<1>3. StreamTypeOK
  BY <1>1, <1>2 DEF StreamTypeOK
<1>4. ReaderInStep
  BY <1>2 DEF ReaderInStep
<1>5. NothingLost
  <2>1. ToSet(pending) = {first}
    BY <1>2 DEF ToSet
  <2>2. SUFFICES ASSUME NEW w \in Writers, NEW n \in 1 .. sent[w]
                 PROVE  [by |-> w, n |-> n] = first
    BY <2>1, <2>2 DEF NothingLost
  <2>3. w = "run" /\ n = 1
    BY <1>2, <2>2
  <2> QED BY <2>3 DEF first
<1> QED BY <1>3, <1>4, <1>5 DEF StreamInv

\* An event is recorded, in memory.
LEMMA RecordAppends ==
  ASSUME StreamTypeOK, repository = "memory", NEW w \in Writers, NEW e, Record(w, e)
  PROVE  replay' = Append(replay, e) /\ copy' = copy
<1>1. copy[w] = NoCopy
  BY DEF StreamTypeOK
<1>2. ~copy[w][1]
  BY <1>1 DEF NoCopy
<1> QED BY <1>2 DEF Record

\* What is counted and either recorded or pending.
LEMMA OneMoreSent ==
  ASSUME StreamTypeOK, NothingLost, NEW w \in Writers,
         sent' = [sent EXCEPT ![w] = @ + 1],
         ToSet(replay) \cup ToSet(pending) \cup {[by |-> w, n |-> sent[w] + 1]}
           \subseteq ToSet(replay)' \cup ToSet(pending)'
  PROVE  NothingLost'
<1> DEFINE all == ToSet(replay) \cup ToSet(pending)
           one == [by |-> w, n |-> sent[w] + 1]
<1>1. \A v \in Writers : \A n \in 1 .. sent[v] : [by |-> v, n |-> n] \in all
  BY DEF NothingLost
<1>2. sent[w] \in Nat /\ sent \in [Writers -> Nat]
  BY DEF StreamTypeOK
<1>3. all \subseteq ToSet(replay)' \cup ToSet(pending)' /\ one \in ToSet(replay)' \cup ToSet(pending)'
  OBVIOUS
<1>4. \A v \in Writers : sent'[v] = IF v = w THEN sent[w] + 1 ELSE sent[v]
  BY <1>2
<1>5. \A n \in 1 .. sent[w] + 1 : n \in 1 .. sent[w] \/ n = sent[w] + 1
  BY <1>2
<1> HIDE DEF all
<1>6. ASSUME NEW v \in Writers, NEW n \in 1 .. sent'[v]
      PROVE  [by |-> v, n |-> n] \in ToSet(replay)' \cup ToSet(pending)'
  <2>1. CASE v = w
    <3>1. n \in 1 .. sent[w] \/ n = sent[w] + 1
      BY <1>4, <1>5, <1>6, <2>1
    <3> QED BY <1>1, <1>3, <2>1, <3>1
  <2>2. CASE v # w
    <3>1. n \in 1 .. sent[v]
      BY <1>4, <1>6, <2>2
    <3> QED BY <1>1, <1>3, <3>1
  <2> QED BY <2>1, <2>2
<1> QED BY <1>6 DEF NothingLost

\* Nothing is sent, and what was there is.
LEMMA NoMoreSent ==
  ASSUME NothingLost, UNCHANGED sent,
         ToSet(replay) \cup ToSet(pending) \subseteq ToSet(replay)' \cup ToSet(pending)'
  PROVE  NothingLost'
<1>1. \A v \in Writers : \A n \in 1 .. sent[v] :
        [by |-> v, n |-> n] \in ToSet(replay) \cup ToSet(pending)
  BY DEF NothingLost
<1>2. \A v \in Writers : \A n \in 1 .. sent[v] :
        [by |-> v, n |-> n] \in ToSet(replay)' \cup ToSet(pending)'
  BY <1>1
<1>3. sent' = sent
  OBVIOUS
<1> QED BY <1>2, <1>3 DEF NothingLost

\* What one writer sends more of.
LEMMA SentType ==
  ASSUME StreamTypeOK, NEW w \in Writers
  PROVE  /\ [sent EXCEPT ![w] = @ + 1] \in [Writers -> Nat]
         /\ [by |-> w, n |-> sent[w] + 1] \in Events
<1>1. sent \in [Writers -> Nat] /\ sent[w] \in Nat
  BY DEF StreamTypeOK
<1> QED BY <1>1 DEF Events

LEMMA StreamStep ==
  ASSUME StreamInv, [Next]_vars
  PROVE  StreamInv'
<1> SUFFICES ASSUME repository' = "memory"
             PROVE  StreamTypeOK' /\ ReaderInStep' /\ NothingLost'
  BY DEF StreamInv
<1>1. repository = "memory"
  BY DEF Next, RunSteps, ReaderSteps, vars
<1>2. StreamTypeOK /\ ReaderInStep /\ NothingLost
  BY <1>1 DEF StreamInv
<1> USE <1>1, <1>2
<1>3. /\ replay \in Seq(Events) /\ pending \in Seq(Events) /\ got \in Seq(Events)
      /\ sent \in [Writers -> Nat] /\ from \in Nat /\ cursor \in Nat
      /\ copy = [w \in Writers |-> NoCopy]
  BY DEF StreamTypeOK
<1>4. \A w \in Writers : ~Read(w)
  BY DEF Read
<1>5. "run" \in Writers /\ Candidates \subseteq Writers
  BY DEF Writers
\* Nothing but what the actions of the run say.
<1>6. ASSUME UNCHANGED <<readerVars, replay, pending, sent, copy>>
      PROVE  StreamTypeOK' /\ ReaderInStep' /\ NothingLost'
  BY <1>6 DEF StreamTypeOK, ReaderInStep, NothingLost, readerVars
\* An event that is recorded.
<1>7. ASSUME NEW w \in Writers, NEW e \in Events, Record(w, e), UNCHANGED readerVars,
             pending' \in Seq(Events), sent' \in [Writers -> Nat]
      PROVE  StreamTypeOK' /\ ReaderInStep' /\ ToSet(replay)' = ToSet(replay) \cup {e}
  <2>1. replay' = Append(replay, e) /\ copy' = copy
    BY <1>7, RecordAppends
  <2>2. ReaderInStep' /\ replay' \in Seq(Events)
    BY <1>7, <2>1, ReplayGrows
  <2>3. ToSet(replay)' = ToSet(replay) \cup {e}
    BY <1>3, <1>7, <2>1, AppendHas
  <2>4. StreamTypeOK'
    BY <1>3, <1>7, <2>1, <2>2 DEF StreamTypeOK, readerVars
  <2> QED BY <2>2, <2>3, <2>4
<1>8. ASSUME NEW c \in Candidates, CandidateRecord(c), UNCHANGED readerVars
      PROVE  StreamTypeOK' /\ ReaderInStep' /\ NothingLost'
  <2> DEFINE e == [by |-> c, n |-> sent[c] + 1]
  <2>1. /\ Record(c, e) /\ sent' = [sent EXCEPT ![c] = @ + 1] /\ pending' = pending
    BY <1>8 DEF CandidateRecord
  <2>2. c \in Writers /\ e \in Events /\ sent' \in [Writers -> Nat]
    BY <1>5, <2>1, SentType
  <2>3. StreamTypeOK' /\ ReaderInStep' /\ ToSet(replay)' = ToSet(replay) \cup {e}
    BY <1>3, <1>7, <1>8, <2>1, <2>2
  <2>4. ToSet(replay) \cup ToSet(pending) \cup {e} \subseteq ToSet(replay)' \cup ToSet(pending)'
    BY <2>1, <2>3
  <2> QED BY <2>1, <2>2, <2>3, <2>4, OneMoreSent
<1>9. ASSUME Publish, UNCHANGED readerVars
      PROVE  StreamTypeOK' /\ ReaderInStep' /\ NothingLost'
  <2> DEFINE e == [by |-> "run", n |-> sent["run"] + 1]
  <2>1. /\ pending' = Append(pending, e) /\ sent' = [sent EXCEPT !["run"] = @ + 1]
        /\ replay' = replay /\ copy' = copy
    BY <1>9 DEF Publish, Pushed
  <2>2. e \in Events /\ sent' \in [Writers -> Nat]
    BY <1>5, <2>1, SentType
  <2> HIDE DEF e
  <2>3. pending' \in Seq(Events) /\ ToSet(pending)' = ToSet(pending) \cup {e}
    BY <1>3, <2>1, <2>2, AppendHas
  <2>4. StreamTypeOK' /\ ReaderInStep'
    BY <1>3, <1>9, <2>1, <2>2, <2>3 DEF StreamTypeOK, ReaderInStep, readerVars
  <2>5. ToSet(replay) \cup ToSet(pending) \cup {e} \subseteq ToSet(replay)' \cup ToSet(pending)'
    BY <2>1, <2>3
  <2> QED BY <1>5, <2>1, <2>4, <2>5, OneMoreSent DEF e
<1>10. ASSUME RunRecord, UNCHANGED readerVars
       PROVE  StreamTypeOK' /\ ReaderInStep' /\ NothingLost'
  <2>1. /\ pending # <<>> /\ Record("run", Last(pending)) /\ pending' = Front(pending)
        /\ sent' = sent
    BY <1>10 DEF RunRecord
  <2>2. /\ Front(pending) \in Seq(Events) /\ Last(pending) \in Events
        /\ ToSet(pending) = ToSet(Front(pending)) \cup {Last(pending)}
    BY <1>3, <2>1, FrontAndLast
  <2>3. StreamTypeOK' /\ ReaderInStep' /\ ToSet(replay)' = ToSet(replay) \cup {Last(pending)}
    BY <1>3, <1>5, <1>7, <1>10, <2>1, <2>2
  <2>4. ToSet(replay) \cup ToSet(pending) \subseteq ToSet(replay)' \cup ToSet(pending)'
    BY <2>1, <2>2, <2>3
  <2> QED BY <2>1, <2>3, <2>4, NoMoreSent
<1>11. ASSUME VerdictRecord, UNCHANGED readerVars
       PROVE  StreamTypeOK' /\ ReaderInStep' /\ NothingLost'
  <2> DEFINE e == [by |-> "run", n |-> sent["run"] + 1]
  <2>1. /\ Record("run", e) /\ sent' = [sent EXCEPT !["run"] = @ + 1] /\ pending' = pending
    BY <1>11 DEF VerdictRecord
  <2>2. e \in Events /\ sent' \in [Writers -> Nat]
    BY <1>5, <2>1, SentType
  <2>3. StreamTypeOK' /\ ReaderInStep' /\ ToSet(replay)' = ToSet(replay) \cup {e}
    BY <1>3, <1>5, <1>7, <1>11, <2>1, <2>2
  <2>4. ToSet(replay) \cup ToSet(pending) \cup {e} \subseteq ToSet(replay)' \cup ToSet(pending)'
    BY <2>1, <2>3
  <2> QED BY <1>5, <2>1, <2>3, <2>4, OneMoreSent
<1>12. ASSUME RunSteps
       PROVE  StreamTypeOK' /\ ReaderInStep' /\ NothingLost'
  <2>1. UNCHANGED readerVars
    BY <1>12 DEF RunSteps
  <2>2. ~RunRead /\ ~VerdictRead /\ \A c \in Candidates : ~CandidateRead(c)
    BY <1>4, <1>5 DEF RunRead, VerdictRead, CandidateRead
  <2>3. CASE PlanDone \/ Settle
    BY <1>6, <2>1, <2>3 DEF PlanDone, Settle
  <2>4. CASE Publish \/ RunRecord \/ VerdictRecord
    BY <1>9, <1>10, <1>11, <2>1, <2>4
  <2>5. CASE \E c \in Candidates : CandidateRecord(c)
    BY <1>8, <2>1, <2>5
  <2> QED BY <1>12, <2>2, <2>3, <2>4, <2>5 DEF RunSteps, RunStep, CandidateStep
<1>13. ASSUME ReaderSteps
       PROVE  StreamTypeOK' /\ ReaderInStep' /\ NothingLost'
  <2>1. UNCHANGED <<replay, pending, sent, copy>>
    BY <1>13 DEF ReaderSteps, runVars
  <2>2. CASE Ask
    BY <1>6, <2>1, <2>2 DEF Ask, readerVars, StreamTypeOK, ReaderInStep, NothingLost
  <2>3. CASE ReadPage \/ ReadLast
    <3>1. Page /\ UNCHANGED <<from, replay>>
      BY <2>1, <2>3 DEF ReadPage, ReadLast
    <3>2. ReaderInStep' /\ got' \in Seq(Events) /\ cursor' \in Nat
      BY <3>1, PageGoesOn
    <3> QED BY <1>3, <2>1, <3>1, <3>2 DEF StreamTypeOK, NothingLost
  <2> QED BY <1>13, <2>2, <2>3 DEF ReaderSteps, ReaderStep
<1>14. CASE UNCHANGED vars
  BY <1>6, <1>14 DEF vars, runVars, readerVars
<1> QED BY <1>12, <1>13, <1>14 DEF Next

LEMMA StreamAlways == Spec => []StreamInv
<1>1. Init => StreamInv
  BY StreamInit
<1>2. StreamInv /\ [Next]_vars => StreamInv'
  BY StreamStep
<1> QED BY <1>1, <1>2, PTL DEF Spec

(* With the in-memory repository a reader of the stream is sent the replay   *)
(* from its cursor on, nothing twice and nothing left out (RunStream).       *)
THEOREM StreamIsReplayHolds == Spec => []StreamIsReplay
<1>1. StreamInv => StreamIsReplay
  <2> SUFFICES ASSUME StreamInv, repository = "memory"
               PROVE  \/ cursor > Len(replay) /\ got = <<>>
                      \/ /\ cursor = from + Len(got)
                         /\ got = SubSeq(replay, from + 1, cursor)
    BY DEF StreamIsReplay
  <2>1. StreamTypeOK /\ ReaderInStep
    BY DEF StreamInv
  <2>2. replay \in Seq(Events) /\ Len(replay) \in Nat /\ from \in Nat /\ cursor \in Nat
    BY <2>1, LenProperties DEF StreamTypeOK
  <2>3. CASE got = <<>>
    <3>1. Len(got) = 0 /\ cursor = from
      BY <2>1, <2>2, <2>3 DEF ReaderInStep
    <3>2. SubSeq(replay, from + 1, cursor) = <<>>
      <4>1. from + 1 \in Int /\ cursor \in Int /\ cursor < from + 1
        BY <2>2, <3>1
      <4> QED BY <4>1, SubSeqEmpty
    <3> QED BY <2>2, <2>3, <3>1, <3>2
  <2>4. CASE got # <<>>
    BY <2>1, <2>4 DEF ReaderInStep
  <2> QED BY <2>3, <2>4
<1> QED BY <1>1, StreamAlways, PTL

(* With the in-memory repository every event that a run and its candidates   *)
(* published is in its replay when the run is over (RunStream).              *)
THEOREM RecordedInMemory == Spec => [](repository = "memory" => EveryEventRecorded)
<1>1. StreamInv => (repository = "memory" => EveryEventRecorded)
  <2> SUFFICES ASSUME StreamInv, repository = "memory", pending = <<>>,
                      NEW w \in Writers, NEW n \in 1 .. sent[w]
               PROVE  Contains(replay, [by |-> w, n |-> n])
    BY DEF EveryEventRecorded
  <2>1. StreamTypeOK /\ NothingLost
    BY DEF StreamInv
  <2>2. [by |-> w, n |-> n] \in ToSet(replay) \/ [by |-> w, n |-> n] \in ToSet(pending)
    BY <2>1 DEF NothingLost
  <2>3. ToSet(pending) = {}
    BY DEF ToSet
  <2>4. replay \in Seq(Events) /\ DOMAIN replay = 1 .. Len(replay)
    BY <2>1, LenProperties DEF StreamTypeOK
  <2> QED BY <2>2, <2>3, <2>4 DEF ToSet, Contains
<1> QED BY <1>1, StreamAlways, PTL

-----------------------------------------------------------------------------
(***************************************************************************)
(* The messages of a FlyReport session and who reads them (Conversation)   *)
(***************************************************************************)
Statuses == {"none", "pending", "streaming"} \cup Terminal
Rows     == [status : Statuses, count : Nat]
Messages == [of : Interactions, seq : Nat, time : Nat \ {0}]
WriterStates == [pc : {"gone", "ready", "failing", "saying", "inserting", "counting"},
             message : Messages \cup {NoMessage}]

TalkTypeOK ==
  /\ open \in BOOLEAN
  /\ live \in [Interactions -> Rows] /\ counted \in [Interactions -> Rows]
  /\ dumped \in [Recorders -> [Interactions -> Rows]]
  /\ sequence \in [Interactions -> Nat]
  /\ said \in Seq(Messages) /\ messages \subseteq Messages /\ IsFiniteSet(messages)
  /\ writer \in [Recorders -> [Interactions -> WriterStates]]
  /\ renumbered \subseteq Interactions /\ clock \in Nat

\* A writer has a message of its interaction as long as it records it, and it is
\* stored when the interaction is about to be.
WriterInStep(w, i) ==
  /\ Recording(w, i) => writer[w][i].message \in Messages /\ writer[w][i].message.of = i
  /\ ~Recording(w, i) => writer[w][i].message = NoMessage
  /\ writer[w][i].pc # "gone" => live[i] # NoRow
  /\ writer[w][i].pc = "inserting" => dumped[w][i] = NoRow
  /\ dumped[w][i] # NoRow => live[i] # NoRow /\ dumped[w][i].status # "none"
  /\ writer[w][i].pc = "counting" /\ open => writer[w][i].message \in messages

\* What was dumped for a row and is not committed: nothing, or what the object has,
\* in one place.
Latest(i) ==
  \/ counted[i] = live[i] /\ \A w \in Recorders : dumped[w][i] = NoRow
  \/ \E w \in Recorders :
       dumped[w][i] = live[i] /\ \A v \in Recorders \ {w} : dumped[v][i] = NoRow

\* The object counts what is stored, and its row has what the object has unless
\* that is still to be committed, or another dump may be the last.
CountInStep(i) ==
  /\ live[i].status = "none" => live[i] = NoRow
  /\ counted[i].status = "none" => counted[i] = NoRow
  /\ open /\ i \in renumbered => counted[i] # NoRow
  /\ Undisturbed(i) =>
       IF live[i] = NoRow THEN counted[i].count = Cardinality(Of(i))
       ELSE /\ live[i].count = Cardinality(Of(i))
            /\ i \notin overlapped => Latest(i)
            /\ \A w \in Recorders :
                 writer[w][i].pc # "gone" /\ dumped[w][i] = NoRow => counted[i] # NoRow

\* Numbers are given once as long as they are counted from the first.
NumbersInStep(i) ==
  Undisturbed(i) /\ i \notin renumbered =>
    /\ \A x \in Of(i) : x.seq <= sequence[i]
    /\ \A w \in Recorders : writer[w][i].pc = "inserting" =>
         /\ writer[w][i].message.seq <= sequence[i]
         /\ \A x \in Of(i) : x.seq # writer[w][i].message.seq
         /\ \A v \in Recorders \ {w} :
              writer[v][i].pc = "inserting" =>
                writer[v][i].message.seq # writer[w][i].message.seq
    /\ i \notin refused
    /\ \A k \in DOMAIN said : said[k].of = i =>
         said[k] \in messages \/ \E w \in Recorders : writer[w][i].message = said[k]

TalkInv ==
  /\ TalkTypeOK /\ ShownIsStored
  /\ \A i \in Interactions :
       /\ \A w \in Recorders : WriterInStep(w, i)
       /\ CountInStep(i) /\ NumbersInStep(i)

\* What a step for i does at most to the rest.
OnlyFor(i) ==
  /\ open' = open /\ renumbered' = renumbered
  /\ \A j \in Interactions \ {i} :
       /\ live'[j] = live[j] /\ counted'[j] = counted[j] /\ sequence'[j] = sequence[j]
       /\ \A w \in Recorders : writer'[w][j] = writer[w][j] /\ dumped'[w][j] = dumped[w][j]
       /\ j \in overlapped' <=> j \in overlapped
  /\ messages \subseteq messages' /\ \A x \in messages' \ messages : x.of = i
  /\ \A k \in DOMAIN said' : said'[k].of # i => \E l \in DOMAIN said : said[l] = said'[k]
  /\ disturbed \subseteq disturbed' /\ disturbed' \subseteq disturbed \cup {i}
  /\ refused' \subseteq refused \cup {i}

LEMMA OthersStay ==
  ASSUME TalkInv, NEW i \in Interactions, OnlyFor(i), NEW j \in Interactions, j # i
  PROVE  (\A w \in Recorders : WriterInStep(w, j)') /\ CountInStep(j)' /\ NumbersInStep(j)'
<1>1. /\ (\A w \in Recorders : WriterInStep(w, j)) /\ CountInStep(j) /\ NumbersInStep(j)
  BY DEF TalkInv
<1>2. /\ open' = open /\ renumbered' = renumbered
      /\ live'[j] = live[j] /\ counted'[j] = counted[j] /\ sequence'[j] = sequence[j]
      /\ \A w \in Recorders : writer'[w][j] = writer[w][j] /\ dumped'[w][j] = dumped[w][j]
      /\ (j \in overlapped' <=> j \in overlapped)
      /\ messages \subseteq messages' /\ (j \in refused' => j \in refused)
      /\ \A k \in DOMAIN said' : said'[k].of = j => \E l \in DOMAIN said : said[l] = said'[k]
  BY DEF OnlyFor
<1>3. Undisturbed(j)' => Undisturbed(j)
  BY DEF OnlyFor, Undisturbed
<1>4. Of(j)' = Of(j)
  BY DEF OnlyFor, Of
<1>5. \A w \in Recorders : WriterInStep(w, j)'
  BY <1>1, <1>2 DEF WriterInStep, Recording
<1>6. CountInStep(j)'
  <2>1. Latest(j)' <=> Latest(j)
    BY <1>2 DEF Latest
  <2> QED BY <1>1, <1>2, <1>3, <1>4, <2>1 DEF CountInStep
<1>7. NumbersInStep(j)'
  <2> SUFFICES ASSUME Undisturbed(j)', j \notin renumbered'
               PROVE  NumbersInStep(j)'
    BY DEF NumbersInStep
  <2>1. /\ \A x \in Of(j) : x.seq <= sequence[j]
        /\ \A w \in Recorders : writer[w][j].pc = "inserting" =>
             /\ writer[w][j].message.seq <= sequence[j]
             /\ \A x \in Of(j) : x.seq # writer[w][j].message.seq
             /\ \A v \in Recorders \ {w} :
                  writer[v][j].pc = "inserting" =>
                    writer[v][j].message.seq # writer[w][j].message.seq
        /\ j \notin refused
        /\ \A k \in DOMAIN said : said[k].of = j =>
             said[k] \in messages \/ \E w \in Recorders : writer[w][j].message = said[k]
    BY <1>1, <1>2, <1>3 DEF NumbersInStep
  <2>2. \A k \in DOMAIN said' : said'[k].of = j =>
          said'[k] \in messages' \/ \E w \in Recorders : writer'[w][j].message = said'[k]
    <3> TAKE k \in DOMAIN said'
    <3> HAVE said'[k].of = j
    <3>1. PICK l \in DOMAIN said : said[l] = said'[k]
      BY <1>2
    <3>2. said[l] \in messages \/ \E w \in Recorders : writer[w][j].message = said[l]
      BY <2>1, <3>1
    <3> QED BY <1>2, <3>1, <3>2
  <2> QED BY <1>2, <1>4, <2>1, <2>2 DEF NumbersInStep
<1> QED BY <1>5, <1>6, <1>7

\* What the step has to keep, then, is what is said of i.
LEMMA ForOne ==
  ASSUME TalkInv, NEW i \in Interactions, OnlyFor(i), TalkTypeOK', ShownIsStored',
         \A w \in Recorders : WriterInStep(w, i)', CountInStep(i)', NumbersInStep(i)'
  PROVE  TalkInv'
<1>1. \A j \in Interactions :
        (\A w \in Recorders : WriterInStep(w, j)') /\ CountInStep(j)' /\ NumbersInStep(j)'
  <2> TAKE j \in Interactions
  <2>1. CASE j = i
    BY <2>1
  <2>2. CASE j # i
    BY <2>2, OthersStay
  <2> QED BY <2>1, <2>2
<1> QED BY <1>1 DEF TalkInv

-----------------------------------------------------------------------------
(* What the parts of a step do *)

LEMMA TalkInitInv ==
  ASSUME TalkInit
  PROVE  TalkInv
<1>1. /\ open = TRUE /\ live = [i \in Interactions |-> NoRow] /\ counted = live
      /\ dumped = [w \in Recorders |-> live]
      /\ sequence = [i \in Interactions |-> 0] /\ said = <<>> /\ messages = {}
      /\ writer = [w \in Recorders |-> [i \in Interactions |-> Gone]]
      /\ shown = {} /\ refused = {} /\ disturbed = {} /\ renumbered = {} /\ clock = 0
  BY DEF TalkInit
<1>2. NoRow \in Rows /\ Gone \in WriterStates /\ IsFiniteSet({}) /\ <<>> \in Seq(Messages)
  BY FS_EmptySet DEF NoRow, Rows, Statuses, Gone, WriterStates
<1>3. TalkTypeOK
  BY <1>1, <1>2 DEF TalkTypeOK
<1>4. ShownIsStored
  BY <1>1 DEF ShownIsStored
<1>5. ASSUME NEW i \in Interactions
      PROVE  (\A w \in Recorders : WriterInStep(w, i)) /\ CountInStep(i) /\ NumbersInStep(i)
  <2>1. Of(i) = {} /\ Cardinality(Of(i)) = 0
    BY <1>1, FS_EmptySet DEF Of
  <2>2. /\ live[i] = NoRow /\ counted[i] = NoRow
        /\ \A w \in Recorders : writer[w][i] = Gone /\ dumped[w][i] = NoRow
    BY <1>1
  <2>3. \A w \in Recorders : WriterInStep(w, i)
    BY <2>2 DEF WriterInStep, Recording, Gone
  <2>4. CountInStep(i)
    BY <1>1, <2>1, <2>2 DEF CountInStep, NoRow
  <2>5. NumbersInStep(i)
    BY <1>1, <2>1, <2>2 DEF NumbersInStep, Gone
  <2> QED BY <2>3, <2>4, <2>5
<1> QED BY <1>3, <1>4, <1>5 DEF TalkInv

LEMMA UpdateDoes ==
  ASSUME TalkTypeOK, NEW w \in Recorders, NEW i \in Interactions, NEW object \in Rows,
         Update(w, i, object)
  PROVE  /\ live' \in [Interactions -> Rows] /\ live'[i] = object
         /\ dumped' \in [Recorders -> [Interactions -> Rows]] /\ dumped'[w][i] = object
         /\ \A v \in Recorders \ {w} : dumped'[v][i] = dumped[v][i]
         /\ \A j \in Interactions \ {i} :
              /\ live'[j] = live[j] /\ \A v \in Recorders : dumped'[v][j] = dumped[v][j]
              /\ j \in overlapped' <=> j \in overlapped
         /\ i \notin overlapped' => \A v \in Recorders \ {w} : dumped[v][i] = NoRow
<1>1. /\ live \in [Interactions -> Rows] /\ dumped \in [Recorders -> [Interactions -> Rows]]
  BY DEF TalkTypeOK
<1>2. live' = [live EXCEPT ![i] = object] /\ dumped' = [dumped EXCEPT ![w][i] = object]
  BY DEF Update
<1>3. overlapped' = IF \E v \in Recorders \ {w} : dumped[v][i] # NoRow
                    THEN overlapped \cup {i} ELSE overlapped \ {i}
  BY DEF Update
<1>4. /\ \A j \in Interactions \ {i} : j \in overlapped' <=> j \in overlapped
      /\ i \notin overlapped' => \A v \in Recorders \ {w} : dumped[v][i] = NoRow
  BY <1>3
<1>5. /\ live' \in [Interactions -> Rows] /\ live'[i] = object
      /\ \A j \in Interactions \ {i} : live'[j] = live[j]
  BY <1>1, <1>2
<1>6. /\ dumped' \in [Recorders -> [Interactions -> Rows]] /\ dumped'[w][i] = object
      /\ \A v \in Recorders \ {w} : dumped'[v][i] = dumped[v][i]
      /\ \A j \in Interactions \ {i} : \A v \in Recorders : dumped'[v][j] = dumped[v][j]
  BY <1>1, <1>2
<1> QED BY <1>4, <1>5, <1>6

LEMMA BeginDoes ==
  ASSUME TalkTypeOK, NEW w \in Recorders, NEW i \in Interactions, Begin(w, i)
  PROVE  \E m \in Messages :
           /\ m.of = i /\ m.seq = sequence[i] + 1 /\ m.time = clock + 1
           /\ clock' = clock + 1 /\ clock' \in Nat
           /\ sequence' \in [Interactions -> Nat] /\ sequence'[i] = sequence[i] + 1
           /\ \A j \in Interactions \ {i} : sequence'[j] = sequence[j]
           /\ said' = Append(said, m) /\ said' \in Seq(Messages)
           /\ writer' \in [Recorders -> [Interactions -> WriterStates]]
           /\ writer'[w][i].pc = "inserting" /\ writer'[w][i].message = m
           /\ \A v \in Recorders, j \in Interactions :
                v # w \/ j # i => writer'[v][j] = writer[v][j]
<1> DEFINE m == [of |-> i, seq |-> sequence[i] + 1, time |-> clock + 1]
           new == [pc |-> "inserting", message |-> m]
<1>1. /\ sequence \in [Interactions -> Nat] /\ said \in Seq(Messages) /\ clock \in Nat
      /\ writer \in [Recorders -> [Interactions -> WriterStates]]
  BY DEF TalkTypeOK
<1>2. m \in Messages /\ m.of = i /\ m.seq = sequence[i] + 1 /\ m.time = clock + 1
  BY <1>1 DEF Messages
<1>3. /\ clock' = clock + 1 /\ sequence' = [sequence EXCEPT ![i] = m.seq]
      /\ said' = Append(said, m) /\ writer' = [writer EXCEPT ![w][i] = new]
  BY DEF Begin, NextNumber
<1> HIDE DEF m
<1>4. new \in WriterStates /\ new.pc = "inserting" /\ new.message = m
  BY <1>2 DEF WriterStates
<1> HIDE DEF new
<1>5. /\ writer' \in [Recorders -> [Interactions -> WriterStates]]
      /\ writer'[w][i] = new
      /\ \A v \in Recorders, j \in Interactions :
           v # w \/ j # i => writer'[v][j] = writer[v][j]
  BY <1>1, <1>3, <1>4
<1>6. /\ sequence' \in [Interactions -> Nat] /\ sequence'[i] = sequence[i] + 1
      /\ \A j \in Interactions \ {i} : sequence'[j] = sequence[j]
      /\ clock' \in Nat
  BY <1>1, <1>2, <1>3
<1>7. said' \in Seq(Messages)
  BY <1>1, <1>2, <1>3
<1> QED BY <1>2, <1>3, <1>4, <1>5, <1>6, <1>7

\* The list with one more.
LEMMA SaidGrows ==
  ASSUME NEW S, NEW s \in Seq(S), NEW m \in S
  PROVE  /\ DOMAIN s = 1 .. Len(s) /\ Len(s) \in Nat
         /\ DOMAIN Append(s, m) = 1 .. Len(s) + 1
         /\ \A k \in DOMAIN Append(s, m) :
              \/ k \in DOMAIN s /\ Append(s, m)[k] = s[k]
              \/ k = Len(s) + 1 /\ Append(s, m)[k] = m
         /\ \A k \in DOMAIN s : k \in DOMAIN Append(s, m) /\ Append(s, m)[k] = s[k]
<1>1. /\ DOMAIN s = 1 .. Len(s) /\ Len(s) \in Nat /\ DOMAIN Append(s, m) = 1 .. Len(s) + 1
      /\ \A k \in 1 .. Len(s) : Append(s, m)[k] = s[k]
      /\ Append(s, m)[Len(s) + 1] = m
  OBVIOUS
<1>2. \A k \in 1 .. Len(s) + 1 : k \in 1 .. Len(s) \/ k = Len(s) + 1
  BY <1>1
<1>3. \A k \in 1 .. Len(s) : k \in 1 .. Len(s) + 1
  BY <1>1
<1> QED BY <1>1, <1>2, <1>3

\* A writer that is not recording begins a message, for an object that is there.
LEMMA BeginKeeps ==
  ASSUME TalkInv, NEW w \in Recorders, NEW i \in Interactions, Begin(w, i),
         ~Recording(w, i), live[i] # NoRow, dumped[w][i] = NoRow, writer[w][i].pc # "gone",
         UNCHANGED <<open, live, counted, dumped, messages, shown, refused, disturbed,
                     renumbered, overlapped>>
  PROVE  TalkInv'
<1>1. TalkTypeOK
  BY DEF TalkInv
<1>2. PICK m \in Messages :
        /\ m.of = i /\ m.seq = sequence[i] + 1 /\ m.time = clock + 1
        /\ clock' = clock + 1 /\ clock' \in Nat
        /\ sequence' \in [Interactions -> Nat] /\ sequence'[i] = sequence[i] + 1
        /\ \A j \in Interactions \ {i} : sequence'[j] = sequence[j]
        /\ said' = Append(said, m) /\ said' \in Seq(Messages)
        /\ writer' \in [Recorders -> [Interactions -> WriterStates]]
        /\ writer'[w][i].pc = "inserting" /\ writer'[w][i].message = m
        /\ \A v \in Recorders, j \in Interactions :
             v # w \/ j # i => writer'[v][j] = writer[v][j]
  BY <1>1, BeginDoes
<1>3. said \in Seq(Messages) /\ sequence[i] \in Nat /\ messages \subseteq Messages
  BY <1>1 DEF TalkTypeOK
<1>4. \A k \in DOMAIN said' : \/ k \in DOMAIN said /\ said'[k] = said[k]
                              \/ said'[k] = m
  BY <1>2, <1>3, SaidGrows
<1>5. /\ (\A v \in Recorders : WriterInStep(v, i)) /\ NumbersInStep(i) /\ ShownIsStored
  BY DEF TalkInv
<1>6. TalkTypeOK'
  BY <1>1, <1>2 DEF TalkTypeOK
<1>11. CountInStep(i)'
  <2>1. Of(i)' = Of(i) /\ Undisturbed(i)' = Undisturbed(i) /\ Latest(i)' = Latest(i)
    BY DEF Of, Undisturbed, Latest
  <2>2. CountInStep(i)
    BY DEF TalkInv
  <2>3. \A v \in Recorders : writer'[v][i].pc # "gone" => writer[v][i].pc # "gone"
    BY <1>2
  <2> QED BY <2>1, <2>2, <2>3 DEF CountInStep
<1>7. ShownIsStored'
  BY <1>5 DEF ShownIsStored
<1>8. \A v \in Recorders : WriterInStep(v, i)'
  <2> TAKE v \in Recorders
  <2>1. CASE v = w
    BY <1>2, <2>1 DEF WriterInStep, Recording
  <2>2. CASE v # w
    <3>1. writer'[v][i] = writer[v][i] /\ messages' = messages /\ open' = open
      BY <1>2, <2>2
    <3> QED BY <1>5, <3>1 DEF WriterInStep, Recording
  <2> QED BY <2>1, <2>2
<1>9. OnlyFor(i)
  <2>1. \A k \in DOMAIN said' : said'[k].of # i => \E l \in DOMAIN said : said[l] = said'[k]
    BY <1>2, <1>4
  <2> QED BY <1>2, <2>1 DEF OnlyFor
<1>10. NumbersInStep(i)'
  <2> SUFFICES ASSUME Undisturbed(i)', i \notin renumbered'
               PROVE  NumbersInStep(i)'
    BY DEF NumbersInStep
  <2>0. Undisturbed(i) /\ i \notin renumbered
    BY DEF Undisturbed
  <2>1. /\ \A x \in Of(i) : x.seq <= sequence[i]
        /\ \A v \in Recorders : writer[v][i].pc = "inserting" =>
             /\ writer[v][i].message.seq <= sequence[i]
             /\ \A x \in Of(i) : x.seq # writer[v][i].message.seq
             /\ \A u \in Recorders \ {v} :
                  writer[u][i].pc = "inserting" =>
                    writer[u][i].message.seq # writer[v][i].message.seq
        /\ i \notin refused
        /\ \A k \in DOMAIN said : said[k].of = i =>
             said[k] \in messages \/ \E v \in Recorders : writer[v][i].message = said[k]
    BY <1>5, <2>0 DEF NumbersInStep
  <2>2. Of(i)' = Of(i) /\ \A x \in Of(i) : x.seq \in Nat
    BY <1>3 DEF Of, Messages
  <2>3. \A v \in Recorders : writer[v][i].pc = "inserting" => writer[v][i].message.seq \in Nat
    BY <1>5 DEF WriterInStep, Recording, Messages
  <2>4. \A x \in Of(i)' : x.seq <= sequence'[i] /\ x.seq # m.seq
    BY <1>2, <1>3, <2>1, <2>2
  <2>5. ASSUME NEW v \in Recorders, writer'[v][i].pc = "inserting"
        PROVE  /\ writer'[v][i].message.seq <= sequence'[i]
               /\ \A x \in Of(i)' : x.seq # writer'[v][i].message.seq
               /\ \A u \in Recorders \ {v} :
                    writer'[u][i].pc = "inserting" =>
                      writer'[u][i].message.seq # writer'[v][i].message.seq
    <3>1. CASE v = w
      <4>1. \A u \in Recorders \ {w} : writer'[u][i] = writer[u][i]
        BY <1>2
      <4>2. \A u \in Recorders \ {w} :
              writer[u][i].pc = "inserting" => writer[u][i].message.seq # m.seq
        <5> TAKE u \in Recorders \ {w}
        <5> HAVE writer[u][i].pc = "inserting"
        <5>1. writer[u][i].message.seq <= sequence[i] /\ writer[u][i].message.seq \in Nat
          BY <2>1, <2>3
        <5> QED BY <1>2, <1>3, <5>1
      <4>3. writer'[v][i].message = m /\ m.seq = sequence'[i] /\ sequence'[i] \in Nat
        BY <1>2, <1>3, <3>1
      <4>4. writer'[v][i].message.seq <= sequence'[i]
        BY <4>3
      <4>5. \A u \in Recorders \ {v} :
              writer'[u][i].pc = "inserting" =>
                writer'[u][i].message.seq # writer'[v][i].message.seq
        BY <3>1, <4>1, <4>2, <4>3
      <4> QED BY <2>4, <4>3, <4>4, <4>5
    <3>2. CASE v # w
      <4>1. writer'[v][i] = writer[v][i]
        BY <1>2, <3>2
      <4>2. writer[v][i].message.seq <= sequence[i] /\ writer[v][i].message.seq \in Nat
        BY <2>1, <2>3, <2>5, <4>1
      <4>3. ASSUME NEW u \in Recorders \ {v}, writer'[u][i].pc = "inserting"
            PROVE  writer'[u][i].message.seq # writer'[v][i].message.seq
        <5>1. CASE u = w
          BY <1>2, <1>3, <4>1, <4>2, <5>1
        <5>2. CASE u # w
          <6>1. writer'[u][i] = writer[u][i]
            BY <1>2, <5>2
          <6> QED BY <2>1, <2>5, <4>1, <4>3, <6>1
        <5> QED BY <5>1, <5>2
      <4> QED BY <1>2, <1>3, <2>1, <2>2, <2>5, <4>1, <4>2, <4>3
    <3> QED BY <3>1, <3>2
  <2>6. \A k \in DOMAIN said' : said'[k].of = i =>
          said'[k] \in messages' \/ \E v \in Recorders : writer'[v][i].message = said'[k]
    <3> TAKE k \in DOMAIN said'
    <3> HAVE said'[k].of = i
    <3>1. CASE said'[k] = m
      BY <1>2, <3>1
    <3>2. CASE k \in DOMAIN said /\ said'[k] = said[k]
      <4>1. CASE said[k] \in messages
        BY <3>2, <4>1
      <4>2. CASE \E v \in Recorders : writer[v][i].message = said[k]
        <5>1. PICK v \in Recorders : writer[v][i].message = said[k]
          BY <4>2
        \* The writer that begins had no message.
        <5>2. v # w
          <6>1. writer[w][i].message = NoMessage
            BY <1>5 DEF WriterInStep
          <6>2. said[k] \in Messages
            BY <1>3, <3>2
          <6> QED BY <5>1, <6>1, <6>2 DEF NoMessage, Messages
        <5> QED BY <1>2, <3>2, <5>1, <5>2
      <4> QED BY <2>1, <3>2, <4>1, <4>2
    <3> QED BY <1>4, <3>1, <3>2
  <2>7. i \notin refused'
    BY <2>1
  <2> QED BY <2>4, <2>5, <2>6, <2>7 DEF NumbersInStep
<1> QED BY <1>6, <1>7, <1>8, <1>9, <1>10, <1>11, ForOne

\* A writer says what comes next.
LEMMA SaysKeeps ==
  ASSUME TalkInv, NEW w \in Recorders, NEW i \in Interactions, Say(w, i)
  PROVE  TalkInv'
<1>1. /\ writer[w][i].pc \in {"ready", "saying"} /\ dumped[w][i] = NoRow /\ Begin(w, i)
      /\ UNCHANGED <<open, live, counted, dumped, messages, shown, refused, disturbed,
                     renumbered, overlapped>>
  BY DEF Say
<1>2. WriterInStep(w, i)
  BY DEF TalkInv
<1> QED BY <1>1, <1>2, BeginKeeps DEF WriterInStep, Recording

\* A writer that is not recording stores an object that counts what is there.
LEMMA StoreRowKeeps ==
  ASSUME TalkInv, NEW w \in Recorders, NEW i \in Interactions, NEW object \in Rows,
         NEW pc \in {"gone", "ready", "saying"}, StoreRow(w, i, object, pc), ~Recording(w, i),
         object.status # "none", Undisturbed(i) => object.count = Cardinality(Of(i)),
         Undisturbed(i) =>
           \A v \in Recorders \ {w} :
             writer[v][i].pc # "gone" /\ dumped[v][i] = NoRow => counted[i] # NoRow
  PROVE  TalkInv'
<1>1. /\ dumped[w][i] = NoRow /\ Update(w, i, object)
      /\ writer' = [writer EXCEPT ![w][i].pc = pc]
      /\ UNCHANGED <<open, counted, sequence, said, messages, shown, refused, disturbed,
                     renumbered, clock>>
  BY DEF StoreRow
<1>2. /\ TalkTypeOK /\ ShownIsStored /\ CountInStep(i) /\ NumbersInStep(i)
      /\ \A v \in Recorders : WriterInStep(v, i)
  BY DEF TalkInv
<1>3. writer \in [Recorders -> [Interactions -> WriterStates]]
  BY <1>2 DEF TalkTypeOK
<1>4. /\ writer' \in [Recorders -> [Interactions -> WriterStates]]
      /\ writer'[w][i].pc = pc /\ writer'[w][i].message = writer[w][i].message
      /\ \A v \in Recorders, j \in Interactions :
           v # w \/ j # i => writer'[v][j] = writer[v][j]
  <2>1. /\ writer[w][i] \in WriterStates
        /\ writer' = [writer EXCEPT ![w] = [writer[w] EXCEPT ![i] = [writer[w][i] EXCEPT !.pc = pc]]]
    BY <1>1, <1>3
  <2> DEFINE new == [writer[w][i] EXCEPT !.pc = pc]
  <2>2. new \in WriterStates /\ new.pc = pc /\ new.message = writer[w][i].message
    BY <2>1 DEF WriterStates
  <2> HIDE DEF new
  <2>3. writer' = [writer EXCEPT ![w] = [writer[w] EXCEPT ![i] = new]]
    BY <2>1 DEF new
  <2> QED BY <1>3, <2>2, <2>3
<1>5. /\ live' \in [Interactions -> Rows] /\ live'[i] = object
      /\ dumped' \in [Recorders -> [Interactions -> Rows]] /\ dumped'[w][i] = object
      /\ \A v \in Recorders \ {w} : dumped'[v][i] = dumped[v][i]
      /\ \A j \in Interactions \ {i} :
           /\ live'[j] = live[j] /\ \A v \in Recorders : dumped'[v][j] = dumped[v][j]
           /\ j \in overlapped' <=> j \in overlapped
      /\ i \notin overlapped' => \A v \in Recorders \ {w} : dumped[v][i] = NoRow
  BY <1>1, <1>2, UpdateDoes
<1>6. object # NoRow
  BY DEF NoRow
<1>7. TalkTypeOK'
  BY <1>1, <1>2, <1>4, <1>5 DEF TalkTypeOK
<1>8. ShownIsStored'
  BY <1>1, <1>2 DEF ShownIsStored
<1>9. \A v \in Recorders : WriterInStep(v, i)'
  <2> TAKE v \in Recorders
  <2>1. CASE v = w
    BY <1>2, <1>4, <1>5, <1>6, <2>1 DEF WriterInStep, Recording
  <2>2. CASE v # w
    <3>1. /\ writer'[v][i] = writer[v][i] /\ messages' = messages /\ open' = open
          /\ dumped'[v][i] = dumped[v][i] /\ live'[i] # NoRow
      BY <1>1, <1>4, <1>5, <1>6, <2>2
    <3> QED BY <1>2, <3>1 DEF WriterInStep, Recording
  <2> QED BY <2>1, <2>2
<1>10. OnlyFor(i)
  BY <1>1, <1>4, <1>5 DEF OnlyFor
<1>11. CountInStep(i)'
  <2>1. Of(i)' = Of(i) /\ Undisturbed(i)' = Undisturbed(i)
    BY <1>1 DEF Of, Undisturbed
  <2>2. i \notin overlapped' => Latest(i)'
    BY <1>5 DEF Latest
  <2>3. ASSUME Undisturbed(i), NEW v \in Recorders, writer'[v][i].pc # "gone",
               dumped'[v][i] = NoRow
        PROVE  counted'[i] # NoRow
    <3>1. v # w
      BY <1>5, <1>6, <2>3
    <3> QED BY <1>1, <1>4, <1>5, <2>3, <3>1
  <2> QED BY <1>1, <1>2, <1>5, <1>6, <2>1, <2>2, <2>3 DEF CountInStep
<1>12. NumbersInStep(i)'
  <2>1. /\ Undisturbed(i)' = Undisturbed(i)
        /\ Of(i)' = Of(i) /\ sequence' = sequence /\ refused' = refused /\ said' = said
        /\ messages' = messages /\ renumbered' = renumbered
    BY <1>1 DEF Of, Undisturbed
  <2>2. \A v \in Recorders : writer'[v][i].message = writer[v][i].message
    <3> TAKE v \in Recorders
    <3>1. CASE v = w
      BY <1>4, <3>1
    <3>2. CASE v # w
      BY <1>4, <3>2
    <3> QED BY <3>1, <3>2
  <2>3. \A v \in Recorders : writer'[v][i].pc = "inserting" => writer[v][i].pc = "inserting"
    <3> TAKE v \in Recorders
    <3>1. CASE v = w
      BY <1>4, <3>1
    <3>2. CASE v # w
      BY <1>4, <3>2
    <3> QED BY <3>1, <3>2
  <2> QED BY <1>2, <2>1, <2>2, <2>3 DEF NumbersInStep
<1> QED BY <1>7, <1>8, <1>9, <1>10, <1>11, <1>12, ForOne

\* start_streaming_message.
LEMMA StartKeeps ==
  ASSUME TalkInv, NEW i \in Interactions, StartStreaming(i)
  PROVE  TalkInv'
<1> DEFINE object == [status |-> "pending", count |-> 0]
<1>1. live[i] = NoRow /\ counted[i] = NoRow /\ StoreRow("runner", i, object, "saying")
  BY DEF StartStreaming
<1>2. /\ TalkTypeOK /\ CountInStep(i) /\ \A w \in Recorders : WriterInStep(w, i)
  BY DEF TalkInv
<1>3. object \in Rows /\ object.status # "none" /\ "runner" \in Recorders
  BY DEF Rows, Statuses, Recorders
<1>4. Undisturbed(i) => object.count = Cardinality(Of(i))
  BY <1>1, <1>2 DEF CountInStep, NoRow
<1> HIDE DEF object
<1>5. \A w \in Recorders : writer[w][i].pc = "gone"
  BY <1>1, <1>2 DEF WriterInStep
<1>6. ~Recording("runner", i)
  BY <1>3, <1>5 DEF Recording
<1> QED BY <1>1, <1>3, <1>4, <1>5, <1>6, StoreRowKeeps

\* The runner's status.
LEMMA SetsKeeps ==
  ASSUME TalkInv, NEW i \in Interactions, NEW s \in Terminal \cup {"streaming"},
         RunnerSets(i, s)
  PROVE  TalkInv'
<1> DEFINE object == [live[i] EXCEPT !.status = s]
           pc == IF writer["runner"][i].pc = "failing" THEN "saying"
                 ELSE IF s \in Terminal THEN "gone" ELSE "ready"
<1>1. writer["runner"][i].pc \in {"ready", "failing"} /\ StoreRow("runner", i, object, pc)
  BY DEF RunnerSets
<1>2. /\ TalkTypeOK /\ CountInStep(i) /\ WriterInStep("runner", i) /\ "runner" \in Recorders
  BY DEF TalkInv, Recorders
<1>3. ~Recording("runner", i) /\ live[i] # NoRow /\ live[i] \in Rows
  BY <1>1, <1>2 DEF WriterInStep, Recording, TalkTypeOK
<1>4. object \in Rows /\ object.status # "none" /\ object.count = live[i].count
  BY <1>3 DEF Rows, Statuses, Terminal
<1>5. Undisturbed(i) => object.count = Cardinality(Of(i))
  BY <1>2, <1>3, <1>4 DEF CountInStep
<1>6. pc \in {"gone", "ready", "saying"}
  OBVIOUS
<1>7. Undisturbed(i) =>
        \A v \in Recorders \ {"runner"} :
          writer[v][i].pc # "gone" /\ dumped[v][i] = NoRow => counted[i] # NoRow
  BY <1>2, <1>3 DEF CountInStep
<1> HIDE DEF object, pc
<1> QED BY <1>1, <1>2, <1>3, <1>4, <1>5, <1>6, <1>7, StoreRowKeeps

\* cancel_interaction.
LEMMA CancelKeeps ==
  ASSUME TalkInv, NEW i \in Interactions, Cancel(i)
  PROVE  TalkInv'
<1> DEFINE object == [InteractionOf(i) EXCEPT !.status = "cancelled"]
<1>1. /\ writer["cancel"][i].pc = "gone" /\ InteractionOf(i) # NoRow
      /\ StoreRow("cancel", i, object, "saying")
  BY DEF Cancel
<1>2. TalkTypeOK /\ CountInStep(i) /\ "cancel" \in Recorders /\ WriterInStep("runner", i)
  BY DEF TalkInv, Recorders
<1>3. InteractionOf(i) \in Rows
  BY <1>2 DEF TalkTypeOK, InteractionOf
<1>4. object \in Rows /\ object.status # "none" /\ object.count = InteractionOf(i).count
  BY <1>3 DEF Rows, Statuses, Terminal
<1>5. Undisturbed(i) => object.count = Cardinality(Of(i))
  BY <1>2, <1>4 DEF CountInStep, InteractionOf
<1>6. Undisturbed(i) =>
        \A v \in Recorders \ {"cancel"} :
          writer[v][i].pc # "gone" /\ dumped[v][i] = NoRow => counted[i] # NoRow
  <2>1. CASE live[i] = NoRow
    BY <1>2, <2>1 DEF Recorders, WriterInStep
  <2>2. CASE live[i] # NoRow
    BY <1>2, <2>2 DEF CountInStep
  <2> QED BY <2>1, <2>2
<1> HIDE DEF object
<1>7. ~Recording("cancel", i)
  BY <1>1 DEF Recording
<1> QED BY <1>1, <1>2, <1>4, <1>5, <1>6, <1>7, StoreRowKeeps

\* A dump becomes the row.
LEMMA CommitKeeps ==
  ASSUME TalkInv, NEW w \in Recorders, NEW i \in Interactions, Commit(w, i)
  PROVE  TalkInv'
<1> DEFINE object == dumped[w][i]
<1>1. /\ object # NoRow /\ dumped' = [dumped EXCEPT ![w][i] = NoRow]
      /\ UNCHANGED <<open, live, sequence, said, messages, writer, shown, refused,
                     renumbered, overlapped, clock>>
  BY DEF Commit
<1>2. /\ TalkTypeOK /\ ShownIsStored /\ CountInStep(i) /\ NumbersInStep(i)
      /\ \A v \in Recorders : WriterInStep(v, i)
  BY DEF TalkInv
<1>3. /\ counted \in [Interactions -> Rows] /\ object \in Rows /\ NoRow \in Rows
      /\ dumped \in [Recorders -> [Interactions -> Rows]]
  BY <1>2 DEF TalkTypeOK, NoRow, Rows, Statuses
<1>4. PICK ok \in BOOLEAN :
        /\ disturbed' = IF ok THEN disturbed ELSE disturbed \cup {i}
        /\ counted' = IF ok /\ open THEN [counted EXCEPT ![i] = object] ELSE counted
  BY DEF Commit, Attempt
<1>5. /\ object.status # "none" /\ live[i] # NoRow
  BY <1>1, <1>2 DEF WriterInStep
<1> HIDE DEF object
<1>6. /\ dumped' \in [Recorders -> [Interactions -> Rows]] /\ dumped'[w][i] = NoRow
      /\ \A v \in Recorders \ {w} : dumped'[v][i] = dumped[v][i]
      /\ \A j \in Interactions \ {i} : \A v \in Recorders : dumped'[v][j] = dumped[v][j]
  BY <1>1, <1>3
<1>7. /\ counted' \in [Interactions -> Rows]
      /\ \A j \in Interactions \ {i} : counted'[j] = counted[j]
      /\ counted'[i] = object \/ (counted'[i] = counted[i] /\ ~(open /\ i \notin disturbed'))
      /\ disturbed \subseteq disturbed' /\ disturbed' \subseteq disturbed \cup {i}
  BY <1>3, <1>4
<1>8. TalkTypeOK'
  BY <1>1, <1>2, <1>6, <1>7 DEF TalkTypeOK
<1>9. ShownIsStored'
  BY <1>1, <1>2 DEF ShownIsStored
<1>10. \A v \in Recorders : WriterInStep(v, i)'
  <2>1. \A v \in Recorders : dumped'[v][i] = NoRow \/ dumped'[v][i] = dumped[v][i]
    BY <1>6
  <2> QED BY <1>1, <1>2, <2>1 DEF WriterInStep, Recording
<1>11. OnlyFor(i)
  BY <1>1, <1>6, <1>7 DEF OnlyFor
<1>12. Undisturbed(i)' => Undisturbed(i) /\ counted'[i] = object
  BY <1>1, <1>7 DEF Undisturbed
<1>13. CountInStep(i)'
  <2>1. Of(i)' = Of(i) /\ live'[i] = live[i] /\ object # NoRow
    BY <1>1 DEF Of
  <2>2. ASSUME Undisturbed(i)', i \notin overlapped' PROVE Latest(i)'
    <3>1. Latest(i)
      BY <1>1, <1>2, <1>5, <1>12, <2>2 DEF CountInStep
    <3>2. object = live[i] /\ \A v \in Recorders \ {w} : dumped[v][i] = NoRow
      BY <1>1, <3>1 DEF Latest, object
    <3> QED BY <1>1, <1>6, <1>12, <2>2, <3>2 DEF Latest
  <2>3. /\ counted'[i].status = "none" => counted'[i] = NoRow
        /\ open' /\ i \in renumbered' => counted'[i] # NoRow
    BY <1>1, <1>2, <1>5, <1>7, <2>1 DEF CountInStep
  <2> QED BY <1>2, <1>5, <1>12, <2>1, <2>2, <2>3 DEF CountInStep
<1>14. NumbersInStep(i)'
  <2>1. Of(i)' = Of(i)
    BY <1>1 DEF Of
  <2> QED BY <1>1, <1>2, <1>12, <2>1 DEF NumbersInStep
<1> QED BY <1>8, <1>9, <1>10, <1>11, <1>13, <1>14, ForOne

\* The interaction is stored with its count.
LEMMA DeliverKeeps ==
  ASSUME TalkInv, NEW w \in Recorders, NEW i \in Interactions, Deliver(w, i)
  PROVE  TalkInv'
<1> DEFINE pc == IF w = "runner" THEN "ready" ELSE "gone"
           new == [Gone EXCEPT !.pc = pc]
<1>1. /\ writer[w][i].pc = "counting" /\ dumped[w][i] = NoRow
      /\ shown' \subseteq shown \cup {writer[w][i].message}
      /\ writer' = [writer EXCEPT ![w][i] = new]
      /\ UNCHANGED <<open, live, counted, dumped, sequence, said, messages, refused,
                     disturbed, renumbered, overlapped, clock>>
  BY DEF Deliver
<1>2. /\ TalkTypeOK /\ CountInStep(i) /\ NumbersInStep(i) /\ ShownIsStored
      /\ \A v \in Recorders : WriterInStep(v, i)
  BY DEF TalkInv
<1>3. live[i] # NoRow
  BY <1>1, <1>2 DEF WriterInStep
<1>5. new \in WriterStates /\ new.pc \in {"gone", "ready"} /\ new.message = NoMessage
  BY DEF WriterStates, Gone
<1> HIDE DEF pc, new
<1>6. /\ writer' \in [Recorders -> [Interactions -> WriterStates]]
      /\ writer'[w][i] = new
      /\ \A v \in Recorders, j \in Interactions :
           v # w \/ j # i => writer'[v][j] = writer[v][j]
  BY <1>1, <1>2, <1>5 DEF TalkTypeOK
<1>7. CountInStep(i)'
  <2>1. Of(i)' = Of(i) /\ Undisturbed(i)' = Undisturbed(i) /\ Latest(i)' = Latest(i)
    BY <1>1 DEF Of, Undisturbed, Latest
  <2>2. Undisturbed(i) => counted[i] # NoRow
    BY <1>1, <1>2, <1>3 DEF CountInStep
  <2> QED BY <1>1, <1>2, <1>3, <2>1, <2>2 DEF CountInStep
<1>8. TalkTypeOK'
  BY <1>1, <1>2, <1>6 DEF TalkTypeOK
<1>9. ShownIsStored'
  BY <1>1, <1>2 DEF ShownIsStored, WriterInStep
<1>10. \A v \in Recorders : WriterInStep(v, i)'
  <2> TAKE v \in Recorders
  <2>1. CASE v = w
    BY <1>1, <1>2, <1>3, <1>5, <1>6, <2>1 DEF WriterInStep, Recording
  <2>2. CASE v # w
    <3>1. writer'[v][i] = writer[v][i]
      BY <1>1, <1>6, <2>2
    <3> QED BY <1>1, <1>2, <3>1 DEF WriterInStep, Recording
  <2> QED BY <2>1, <2>2
<1>11. OnlyFor(i)
  BY <1>1, <1>6 DEF OnlyFor
<1>12. NumbersInStep(i)'
  <2> SUFFICES ASSUME Undisturbed(i)', i \notin renumbered'
               PROVE  NumbersInStep(i)'
    BY DEF NumbersInStep
  <2>0. /\ Undisturbed(i) /\ i \notin renumbered /\ open
    BY <1>1 DEF Undisturbed
  <2>1. /\ \A x \in Of(i) : x.seq <= sequence[i]
        /\ \A v \in Recorders : writer[v][i].pc = "inserting" =>
             /\ writer[v][i].message.seq <= sequence[i]
             /\ \A x \in Of(i) : x.seq # writer[v][i].message.seq
             /\ \A u \in Recorders \ {v} :
                  writer[u][i].pc = "inserting" =>
                    writer[u][i].message.seq # writer[v][i].message.seq
        /\ i \notin refused
        /\ \A k \in DOMAIN said : said[k].of = i =>
             said[k] \in messages \/ \E v \in Recorders : writer[v][i].message = said[k]
    BY <1>2, <2>0 DEF NumbersInStep
  <2>2. /\ Of(i)' = Of(i) /\ sequence' = sequence /\ refused' = refused /\ said' = said
        /\ messages' = messages
    BY <1>1 DEF Of
  <2>3. \A v \in Recorders :
          writer'[v][i].pc = "inserting" => v # w /\ writer'[v][i] = writer[v][i]
    <3> TAKE v \in Recorders
    <3>1. CASE v = w
      BY <1>5, <1>6, <3>1
    <3>2. CASE v # w
      BY <1>6, <3>2
    <3> QED BY <3>1, <3>2
  <2>4. \A k \in DOMAIN said : said[k].of = i =>
          said[k] \in messages \/ \E v \in Recorders : writer'[v][i].message = said[k]
    <3> TAKE k \in DOMAIN said
    <3> HAVE said[k].of = i
    <3>1. CASE \E v \in Recorders : writer[v][i].message = said[k]
      <4>1. PICK v \in Recorders : writer[v][i].message = said[k]
        BY <3>1
      <4>2. CASE v = w
        BY <1>1, <1>2, <2>0, <4>1, <4>2 DEF WriterInStep
      <4>3. CASE v # w
        BY <1>6, <4>1, <4>3
      <4> QED BY <4>2, <4>3
    <3> QED BY <2>1, <3>1
  <2> QED BY <2>1, <2>2, <2>3, <2>4 DEF NumbersInStep
<1> QED BY <1>7, <1>8, <1>9, <1>10, <1>11, <1>12, ForOne

\* A message is inserted.
LEMMA InsertedKeeps ==
  ASSUME TalkInv, NEW w \in Recorders, NEW i \in Interactions, NEW m,
         m = writer[w][i].message, writer[w][i].pc = "inserting", Insertable(m),
         messages' = messages \cup {m}, Update(w, i, [live[i] EXCEPT !.count = @ + 1]),
         writer' = [writer EXCEPT ![w][i].pc = "counting"],
         UNCHANGED <<open, counted, sequence, said, shown, refused, disturbed, renumbered, clock>>
  PROVE  TalkInv'
<1> DEFINE new == [writer[w][i] EXCEPT !.pc = "counting"]
<1>1. /\ TalkTypeOK /\ CountInStep(i) /\ NumbersInStep(i) /\ ShownIsStored
      /\ \A v \in Recorders : WriterInStep(v, i)
  BY DEF TalkInv
<1>2. /\ writer[w][i] \in WriterStates /\ live[i] \in Rows /\ IsFiniteSet(messages)
      /\ messages \subseteq Messages /\ live \in [Interactions -> Rows]
      /\ counted \in [Interactions -> Rows]
      /\ writer \in [Recorders -> [Interactions -> WriterStates]]
  BY <1>1 DEF TalkTypeOK
<1>3. /\ m \in Messages /\ m.of = i /\ live[i] # NoRow /\ live[i].status # "none"
  BY <1>1 DEF WriterInStep, Recording, CountInStep
<1>4. /\ new \in WriterStates /\ new.pc = "counting" /\ new.message = m
  BY <1>2 DEF WriterStates
<1>5. writer' = [writer EXCEPT ![w][i] = new]
  BY <1>2
<1> HIDE DEF new
<1>6. /\ writer' \in [Recorders -> [Interactions -> WriterStates]]
      /\ writer'[w][i] = new
      /\ \A v \in Recorders, j \in Interactions :
           v # w \/ j # i => writer'[v][j] = writer[v][j]
  BY <1>2, <1>4, <1>5
<1> DEFINE object == [live[i] EXCEPT !.count = @ + 1]
<1>17. object \in Rows /\ object.status = live[i].status /\ object.count = live[i].count + 1
  BY <1>2 DEF Rows
<1>18. Update(w, i, object)
  OBVIOUS
<1> HIDE DEF object
<1>19. /\ live' \in [Interactions -> Rows] /\ live'[i] = object
       /\ dumped' \in [Recorders -> [Interactions -> Rows]] /\ dumped'[w][i] = object
       /\ \A v \in Recorders \ {w} : dumped'[v][i] = dumped[v][i]
       /\ \A j \in Interactions \ {i} :
            /\ live'[j] = live[j] /\ \A v \in Recorders : dumped'[v][j] = dumped[v][j]
            /\ j \in overlapped' <=> j \in overlapped
       /\ i \notin overlapped' => \A v \in Recorders \ {w} : dumped[v][i] = NoRow
  BY <1>1, <1>17, <1>18, UpdateDoes
<1>7. /\ live' \in [Interactions -> Rows] /\ live'[i].status = live[i].status
      /\ live'[i].count = live[i].count + 1
      /\ \A j \in Interactions \ {i} : live'[j] = live[j]
  BY <1>17, <1>19
<1>8. IsFiniteSet(messages') /\ messages' \subseteq Messages
  BY <1>2, <1>3, FS_AddElement
<1>9. TalkTypeOK'
  BY <1>1, <1>6, <1>7, <1>8, <1>19 DEF TalkTypeOK
<1>10. ShownIsStored'
  BY <1>1 DEF ShownIsStored
<1>11. \A v \in Recorders : WriterInStep(v, i)'
  <2>1. live'[i] # NoRow
    BY <1>3, <1>7 DEF NoRow
  <2> TAKE v \in Recorders
  <2>2. CASE v = w
    BY <1>3, <1>4, <1>6, <1>17, <1>19, <2>1, <2>2 DEF WriterInStep, Recording
  <2>3. CASE v # w
    <3>1. /\ writer'[v][i] = writer[v][i] /\ messages \subseteq messages' /\ open' = open
          /\ dumped'[v][i] = dumped[v][i]
      BY <1>6, <1>19, <2>3
    <3> QED BY <1>1, <2>1, <3>1 DEF WriterInStep, Recording
  <2> QED BY <2>2, <2>3
<1>12. OnlyFor(i)
  BY <1>3, <1>6, <1>7, <1>19 DEF OnlyFor
<1>13. Of(i)' = Of(i) \cup {m} /\ m \notin Of(i) /\ IsFiniteSet(Of(i))
  <2>1. \A x \in messages : x.of = i => x.seq # m.seq
    BY <1>3 DEF Insertable
  <2>2. m \notin Of(i) /\ Of(i)' = Of(i) \cup {m}
    BY <1>3, <2>1 DEF Of
  <2>3. Of(i) \in SUBSET messages
    BY DEF Of
  <2> QED BY <1>2, <2>2, <2>3, FS_Subset
<1>14. Cardinality(Of(i)') = Cardinality(Of(i)) + 1
  BY <1>13, FS_AddElement
<1>15. CountInStep(i)'
  <2>1. live'[i] # NoRow /\ live'[i].status # "none"
    BY <1>3, <1>7 DEF NoRow
  <2>2. /\ Undisturbed(i)' = Undisturbed(i) /\ counted'[i] = counted[i]
        /\ open' = open /\ renumbered' = renumbered
    BY DEF Undisturbed
  <2>3. Undisturbed(i) => live'[i].count = Cardinality(Of(i)')
    BY <1>1, <1>3, <1>7, <1>14 DEF CountInStep
  <2>4. Cardinality(Of(i)') = Cardinality(Of(i))'
    OBVIOUS
  <2>5. i \notin overlapped' => Latest(i)'
    BY <1>19 DEF Latest
  <2>6. counted[i] # NoRow
    BY <1>3 DEF Insertable
  <2> QED BY <1>1, <2>1, <2>2, <2>3, <2>4, <2>5, <2>6 DEF CountInStep
<1>16. NumbersInStep(i)'
  <2> SUFFICES ASSUME Undisturbed(i)', i \notin renumbered'
               PROVE  NumbersInStep(i)'
    BY DEF NumbersInStep
  <2>0. /\ Undisturbed(i) /\ i \notin renumbered
    BY DEF Undisturbed
  <2>1. /\ \A x \in Of(i) : x.seq <= sequence[i]
        /\ \A v \in Recorders : writer[v][i].pc = "inserting" =>
             /\ writer[v][i].message.seq <= sequence[i]
             /\ \A x \in Of(i) : x.seq # writer[v][i].message.seq
             /\ \A u \in Recorders \ {v} :
                  writer[u][i].pc = "inserting" =>
                    writer[u][i].message.seq # writer[v][i].message.seq
        /\ i \notin refused
        /\ \A k \in DOMAIN said : said[k].of = i =>
             said[k] \in messages \/ \E v \in Recorders : writer[v][i].message = said[k]
    BY <1>1, <2>0 DEF NumbersInStep
  <2>2. sequence' = sequence /\ refused' = refused /\ said' = said /\ messages \subseteq messages'
    OBVIOUS
  <2>3. \A x \in Of(i)' : x.seq <= sequence[i]
    BY <1>13, <2>1
  <2>4. \A v \in Recorders :
          writer'[v][i].pc = "inserting" => v # w /\ writer'[v][i] = writer[v][i]
    <3> TAKE v \in Recorders
    <3>1. CASE v = w
      BY <1>4, <1>6, <3>1
    <3>2. CASE v # w
      BY <1>6, <3>2
    <3> QED BY <3>1, <3>2
  <2>5. ASSUME NEW v \in Recorders, writer'[v][i].pc = "inserting"
        PROVE  /\ writer'[v][i].message.seq <= sequence[i]
               /\ \A x \in Of(i)' : x.seq # writer'[v][i].message.seq
               /\ \A u \in Recorders \ {v} :
                    writer'[u][i].pc = "inserting" =>
                      writer'[u][i].message.seq # writer'[v][i].message.seq
    <3>1. v # w /\ writer'[v][i] = writer[v][i] /\ writer[v][i].pc = "inserting"
      BY <2>4, <2>5
    <3>2. m.seq # writer[v][i].message.seq
      BY <2>1, <3>1
    <3>3. \A x \in Of(i)' : x.seq # writer[v][i].message.seq
      BY <1>13, <2>1, <3>1, <3>2
    <3>4. ASSUME NEW u \in Recorders \ {v}, writer'[u][i].pc = "inserting"
          PROVE  writer'[u][i].message.seq # writer'[v][i].message.seq
      BY <2>1, <2>4, <3>1, <3>4
    <3> QED BY <2>1, <3>1, <3>3, <3>4
  <2>6. \A k \in DOMAIN said : said[k].of = i =>
          said[k] \in messages' \/ \E v \in Recorders : writer'[v][i].message = said[k]
    <3> TAKE k \in DOMAIN said
    <3> HAVE said[k].of = i
    <3>1. CASE \E v \in Recorders : writer[v][i].message = said[k]
      <4>1. PICK v \in Recorders : writer[v][i].message = said[k]
        BY <3>1
      <4>2. CASE v = w
        BY <4>1, <4>2
      <4>3. CASE v # w
        BY <1>6, <4>1, <4>3
      <4> QED BY <4>2, <4>3
    <3> QED BY <2>1, <3>1
  <2> QED BY <2>1, <2>2, <2>3, <2>5, <2>6 DEF NumbersInStep
<1> QED BY <1>9, <1>10, <1>11, <1>12, <1>15, <1>16, ForOne

\* A message is lost: the write did not work, or there was nothing to write to.
LEMMA LostKeeps ==
  ASSUME TalkInv, NEW w \in Recorders, NEW i \in Interactions, NEW ok \in BOOLEAN,
         writer[w][i].pc = "inserting", Attempt(ok, i),
         ~(ok /\ Insertable(writer[w][i].message)),
         NEW pc \in {"gone", "failing"}, writer' = [writer EXCEPT ![w][i] = [Gone EXCEPT !.pc = pc]],
         refused' \subseteq refused \cup {i},
         UNCHANGED <<messages, live, open, counted, dumped, sequence, said, shown, renumbered,
                     overlapped, clock>>
  PROVE  TalkInv'
<1> DEFINE new == [Gone EXCEPT !.pc = pc]
<1>1. /\ TalkTypeOK /\ CountInStep(i) /\ NumbersInStep(i) /\ ShownIsStored
      /\ \A v \in Recorders : WriterInStep(v, i)
  BY DEF TalkInv
<1>2. writer \in [Recorders -> [Interactions -> WriterStates]] /\ sequence[i] \in Nat
  BY <1>1 DEF TalkTypeOK
<1>3. new \in WriterStates /\ new.pc \in {"gone", "failing"} /\ new.message = NoMessage
  BY DEF WriterStates, Gone
<1>4. writer' = [writer EXCEPT ![w][i] = new]
  OBVIOUS
<1> HIDE DEF new
<1>5. /\ writer' \in [Recorders -> [Interactions -> WriterStates]]
      /\ writer'[w][i] = new
      /\ \A v \in Recorders, j \in Interactions :
           v # w \/ j # i => writer'[v][j] = writer[v][j]
  BY <1>2, <1>3, <1>4
<1>6. /\ disturbed \subseteq disturbed' /\ disturbed' \subseteq disturbed \cup {i}
      /\ i \notin disturbed' => ok /\ i \notin disturbed
  BY DEF Attempt
\* It is lost only if it was disturbed: its number is new, and its row is there.
<1>7. Undisturbed(i)' => i \in renumbered
  <2> SUFFICES ASSUME Undisturbed(i)', i \notin renumbered
               PROVE  FALSE
    OBVIOUS
  <2>1. Undisturbed(i) /\ ok /\ open
    BY <1>6 DEF Undisturbed
  <2>2. live[i] # NoRow /\ writer[w][i].message.of = i
    BY <1>1 DEF WriterInStep, Recording
  <2>4. counted[i] # NoRow
    BY <1>1, <2>1, <2>2 DEF CountInStep, WriterInStep
  <2>5. \A x \in Of(i) : x.seq # writer[w][i].message.seq
    BY <1>1, <2>1 DEF NumbersInStep
  <2>6. Insertable(writer[w][i].message)
    BY <2>1, <2>2, <2>4, <2>5 DEF Insertable, Of
  <2> QED BY <2>1, <2>6
<1>8. TalkTypeOK'
  BY <1>1, <1>5 DEF TalkTypeOK
<1>9. ShownIsStored'
  BY <1>1 DEF ShownIsStored
<1>10. \A v \in Recorders : WriterInStep(v, i)'
  <2>1. live'[i] # NoRow
    BY <1>1 DEF WriterInStep
  <2> TAKE v \in Recorders
  <2>2. CASE v = w
    BY <1>1, <1>3, <1>5, <2>1, <2>2 DEF WriterInStep, Recording
  <2>3. CASE v # w
    <3>1. writer'[v][i] = writer[v][i] /\ messages' = messages /\ open' = open /\ dumped' = dumped
      BY <1>5, <2>3
    <3>2. WriterInStep(v, i) /\ (Recording(v, i)' <=> Recording(v, i))
      BY <1>1, <3>1 DEF Recording
    <3>3. /\ Recording(v, i) => writer[v][i].message \in Messages /\ writer[v][i].message.of = i
          /\ ~Recording(v, i) => writer[v][i].message = NoMessage
          /\ writer[v][i].pc = "counting" /\ open => writer[v][i].message \in messages
          /\ writer[v][i].pc = "inserting" => dumped[v][i] = NoRow
          /\ dumped[v][i] # NoRow => dumped[v][i].status # "none"
      BY <3>2 DEF WriterInStep
    <3>4. Recording(v, i)' => writer'[v][i].message \in Messages /\ writer'[v][i].message.of = i
      BY <3>1, <3>2, <3>3
    <3>5. ~Recording(v, i)' => writer'[v][i].message = NoMessage
      BY <3>1, <3>2, <3>3
    <3>6. writer'[v][i].pc = "counting" /\ open' => writer'[v][i].message \in messages'
      BY <3>1, <3>3
    <3>7. /\ writer'[v][i].pc = "inserting" => dumped'[v][i] = NoRow
          /\ dumped'[v][i] # NoRow => dumped'[v][i].status # "none"
      BY <3>1, <3>3
    <3> QED BY <2>1, <3>4, <3>5, <3>6, <3>7 DEF WriterInStep
  <2> QED BY <2>2, <2>3
<1>11. OnlyFor(i)
  BY <1>5, <1>6 DEF OnlyFor
<1>12. CountInStep(i)'
  <2>1. \A v \in Recorders : writer'[v][i].pc # "gone" => writer[v][i].pc # "gone"
    <3> TAKE v \in Recorders
    <3>1. CASE v = w
      BY <3>1
    <3>2. CASE v # w
      BY <1>5, <3>2
    <3> QED BY <3>1, <3>2
  <2>2. Of(i)' = Of(i) /\ (Undisturbed(i)' => Undisturbed(i)) /\ Latest(i)' = Latest(i)
    BY <1>6 DEF Of, Undisturbed, Latest
  <2>3. /\ live' = live /\ counted' = counted /\ open' = open /\ renumbered' = renumbered
        /\ dumped' = dumped /\ overlapped' = overlapped
    OBVIOUS
  <2> QED BY <1>1, <2>1, <2>2, <2>3 DEF CountInStep
<1>13. NumbersInStep(i)'
  BY <1>7 DEF NumbersInStep
<1> QED BY <1>8, <1>9, <1>10, <1>11, <1>12, <1>13, ForOne

LEMMA InsertKeeps ==
  ASSUME TalkInv, NEW w \in Recorders, NEW i \in Interactions, Insert(w, i)
  PROVE  TalkInv'
<1> DEFINE m == writer[w][i].message
<1>1. /\ writer[w][i].pc = "inserting"
      /\ UNCHANGED <<open, counted, sequence, said, shown, renumbered, clock>>
  BY DEF Insert
<1>2. PICK ok \in BOOLEAN :
        /\ Attempt(ok, i)
        /\ IF ok /\ Insertable(m)
           THEN /\ messages' = messages \cup {m}
                /\ Update(w, i, [live[i] EXCEPT !.count = @ + 1])
                /\ writer' = [writer EXCEPT ![w][i].pc = "counting"]
                /\ UNCHANGED refused
           ELSE /\ \E pc \in IF w = "runner" THEN {"gone", "failing"} ELSE {"gone"} :
                     writer' = [writer EXCEPT ![w][i] = [Gone EXCEPT !.pc = pc]]
                /\ refused' = IF w = "cancel" THEN refused \cup {i} ELSE refused
                /\ UNCHANGED <<messages, live, dumped, overlapped>>
  BY DEF Insert
<1>3. CASE ok /\ Insertable(m)
  <2>1. disturbed' = disturbed
    BY <1>2, <1>3 DEF Attempt
  <2> QED BY <1>1, <1>2, <1>3, <2>1, InsertedKeeps
<1>4. CASE ~(ok /\ Insertable(m))
  <2>1. PICK pc \in {"gone", "failing"} : writer' = [writer EXCEPT ![w][i] = [Gone EXCEPT !.pc = pc]]
    BY <1>2, <1>4
  <2>2. refused' \subseteq refused \cup {i} /\ UNCHANGED <<messages, live, dumped, overlapped>>
    BY <1>2, <1>4
  <2> QED BY <1>1, <1>2, <1>4, <2>1, <2>2, LostKeeps
<1> QED BY <1>3, <1>4

\* The session is deleted: nothing is promised any longer.
LEMMA DropKeeps ==
  ASSUME TalkInv, DropSession
  PROVE  TalkInv'
<1>1. /\ open' = FALSE /\ messages' = {} /\ counted' = [i \in Interactions |-> NoRow]
      /\ UNCHANGED <<live, dumped, sequence, said, writer, shown, refused, disturbed,
                     renumbered, overlapped, clock>>
  BY DEF DropSession
<1>2. TalkTypeOK
  BY DEF TalkInv
<1>3. NoRow \in Rows /\ IsFiniteSet({})
  BY FS_EmptySet DEF NoRow, Rows, Statuses
<1>4. TalkTypeOK'
  BY <1>1, <1>2, <1>3 DEF TalkTypeOK
<1>5. ShownIsStored'
  BY <1>1 DEF ShownIsStored
<1>6. ASSUME NEW i \in Interactions
      PROVE  (\A w \in Recorders : WriterInStep(w, i)') /\ CountInStep(i)' /\ NumbersInStep(i)'
  <2>1. (\A w \in Recorders : WriterInStep(w, i)) /\ CountInStep(i)
    BY DEF TalkInv
  <2>2. ~Undisturbed(i)'
    BY <1>1 DEF Undisturbed
  <2>3. \A w \in Recorders : WriterInStep(w, i)'
    BY <1>1, <2>1 DEF WriterInStep, Recording
  <2>4. CountInStep(i)'
    BY <1>1, <2>1, <2>2 DEF CountInStep
  <2> QED BY <2>2, <2>3, <2>4 DEF NumbersInStep
<1> QED BY <1>4, <1>5, <1>6 DEF TalkInv

\* The process ends.
LEMMA RestartKeeps ==
  ASSUME TalkInv, TalkRestart
  PROVE  TalkInv'
<1>1. /\ renumbered' = {i \in Interactions : counted[i] # NoRow}
      /\ disturbed' = disturbed \cup Cut
      /\ live' = [i \in Interactions |-> NoRow]
      /\ dumped' = [w \in Recorders |-> live']
      /\ sequence' = [i \in Interactions |-> 0] /\ said' = <<>>
      /\ writer' = [w \in Recorders |-> [i \in Interactions |-> Gone]]
      /\ UNCHANGED <<open, counted, messages, shown, refused, clock>>
  BY DEF TalkRestart
<1>3. TalkTypeOK /\ ShownIsStored
  BY DEF TalkInv
<1>7. NoRow \in Rows /\ Gone \in WriterStates /\ <<>> \in Seq(Messages)
  BY DEF NoRow, Rows, Statuses, WriterStates, Gone
<1>8. TalkTypeOK'
  BY <1>1, <1>3, <1>7 DEF TalkTypeOK
<1>9. ShownIsStored'
  BY <1>1, <1>3 DEF ShownIsStored
<1>10. ASSUME NEW i \in Interactions
       PROVE  (\A w \in Recorders : WriterInStep(w, i)') /\ CountInStep(i)' /\ NumbersInStep(i)'
  <2>1. CountInStep(i) /\ NumbersInStep(i)
    BY DEF TalkInv
  <2>2. /\ live'[i] = NoRow /\ counted'[i] = counted[i] /\ said' = <<>> /\ open' = open
        /\ \A w \in Recorders : writer'[w][i] = Gone /\ dumped'[w][i] = NoRow
        /\ i \in renumbered' <=> counted[i] # NoRow
    BY <1>1
  <2>3. /\ Of(i)' = Of(i)
        /\ Undisturbed(i)' =>
             Undisturbed(i) /\ i \notin overlapped /\ \A w \in Recorders : dumped[w][i] = NoRow
    BY <1>1 DEF Undisturbed, Of, Cut
  <2>4. \A w \in Recorders : WriterInStep(w, i)'
    BY <2>2 DEF WriterInStep, Recording, Gone
  <2>5. Undisturbed(i)' => counted[i].count = Cardinality(Of(i))
    <3> HAVE Undisturbed(i)'
    <3>1. CASE live[i] = NoRow
      BY <2>1, <2>3, <3>1 DEF CountInStep
    <3>2. CASE live[i] # NoRow
      BY <2>1, <2>3, <3>2 DEF CountInStep, Latest, Recorders
    <3> QED BY <3>1, <3>2
  <2>6. CountInStep(i)'
    BY <2>1, <2>2, <2>3, <2>5 DEF CountInStep, NoRow
  <2>7. NumbersInStep(i)'
    <3> SUFFICES ASSUME Undisturbed(i)', i \notin renumbered'
                 PROVE  NumbersInStep(i)'
      BY DEF NumbersInStep
    <3>1. counted[i] = NoRow /\ Undisturbed(i) /\ Of(i)' = Of(i) /\ open
      BY <2>2, <2>3 DEF Undisturbed
    <3>2. Cardinality(Of(i)) = 0 /\ IsFiniteSet(Of(i))
      <4>1. Of(i) \in SUBSET messages /\ IsFiniteSet(messages)
        BY <1>3 DEF Of, TalkTypeOK
      <4> QED BY <2>5, <3>1, <4>1, FS_Subset DEF NoRow
    <3>3. Of(i)' = {}
      BY <3>1, <3>2, FS_EmptySet
    <3>4. i \notin renumbered
      BY <2>1, <3>1 DEF CountInStep
    <3>5. i \notin refused'
      BY <1>1, <2>1, <3>1, <3>4 DEF NumbersInStep
    <3>6. \A w \in Recorders : writer'[w][i].pc # "inserting"
      BY <2>2 DEF Gone
    <3> QED BY <2>2, <3>3, <3>5, <3>6 DEF NumbersInStep
  <2> QED BY <2>4, <2>6, <2>7
<1> QED BY <1>8, <1>9, <1>10 DEF TalkInv

LEMMA TalkStep ==
  ASSUME TalkInv, [TalkNext]_talkVars
  PROVE  TalkInv'
<1>1. ASSUME NEW i \in Interactions, StartStreaming(i) \/ Cancel(i)
      PROVE  TalkInv'
  BY <1>1, StartKeeps, CancelKeeps
<1>2. ASSUME NEW i \in Interactions, NEW s \in Terminal \cup {"streaming"}, RunnerSets(i, s)
      PROVE  TalkInv'
  BY <1>2, SetsKeeps
<1>3. ASSUME NEW i \in Interactions, NEW w \in Recorders,
             Say(w, i) \/ Insert(w, i) \/ Commit(w, i) \/ Deliver(w, i)
      PROVE  TalkInv'
  BY <1>3, SaysKeeps, InsertKeeps, CommitKeeps, DeliverKeeps
<1>4. CASE DropSession \/ TalkRestart
  BY <1>4, DropKeeps, RestartKeeps
<1>5. CASE UNCHANGED talkVars
  <2>1. /\ UNCHANGED <<open, live, counted, dumped, sequence, said, messages, writer, shown>>
        /\ UNCHANGED <<refused, disturbed, renumbered, overlapped, clock>>
    BY <1>5 DEF talkVars
  <2>2. TalkTypeOK' /\ ShownIsStored'
    BY <2>1 DEF TalkInv, TalkTypeOK, ShownIsStored
  <2>3. ASSUME NEW i \in Interactions
        PROVE  (\A w \in Recorders : WriterInStep(w, i)') /\ CountInStep(i)' /\ NumbersInStep(i)'
    <3>1. (\A w \in Recorders : WriterInStep(w, i)) /\ CountInStep(i) /\ NumbersInStep(i)
      BY DEF TalkInv
    <3>2. Of(i)' = Of(i) /\ Undisturbed(i)' = Undisturbed(i) /\ Latest(i)' = Latest(i)
      BY <2>1 DEF Of, Undisturbed, Latest
    <3> QED BY <2>1, <3>1, <3>2 DEF WriterInStep, CountInStep, NumbersInStep, Recording
  <2> QED BY <2>2, <2>3 DEF TalkInv
<1> QED BY <1>1, <1>2, <1>3, <1>4, <1>5 DEF TalkNext

LEMMA TalkAlways == TalkSpec => []TalkInv
<1>1. TalkInit => TalkInv
  BY TalkInitInv
<1>2. TalkInv /\ [TalkNext]_talkVars => TalkInv'
  BY TalkStep
<1> QED BY <1>1, <1>2, PTL DEF TalkSpec

(* A message that the reader of a stream was sent is stored as long as the   *)
(* session is, whatever fails and whenever the process ends (Conversation).  *)
THEOREM ShownIsStoredHolds == TalkSpec => []ShownIsStored
<1>1. TalkInv => ShownIsStored
  BY DEF TalkInv
<1> QED BY <1>1, TalkAlways, PTL

(* No message of an undisturbed interaction is lost, and no cancel that      *)
(* holds is answered with an error, unless numbers began anew (Conversation).*)
THEOREM NothingUnsaidHolds == TalkSpec => []NothingUnsaid
<1>1. TalkInv => NothingUnsaid
  BY DEF TalkInv, NumbersInStep, NothingUnsaid
<1> QED BY <1>1, TalkAlways, PTL

(* An interaction counts what is stored of it, and so does its row, unless    *)
(* its last dump overlapped an earlier one (Conversation).                   *)
THEOREM CountsAgreeHolds == TalkSpec => []CountsAgree
<1>1. TalkInv => CountsAgree
  <2> SUFFICES ASSUME TalkInv, NEW i \in Interactions, Undisturbed(i)
               PROVE  /\ live[i] # NoRow => live[i].count = Cardinality(Of(i))
                      /\ i \notin overlapped /\ (\A w \in Recorders : dumped[w][i] = NoRow) =>
                           /\ counted[i].count = Cardinality(Of(i))
                           /\ live[i] # NoRow => live[i] = counted[i]
    BY DEF CountsAgree
  <2>1. CountInStep(i)
    BY DEF TalkInv
  <2> QED BY <2>1 DEF CountInStep, Latest, Recorders
<1> QED BY <1>1, TalkAlways, PTL

-----------------------------------------------------------------------------
(* The messages, as they are listed *)

\* Messages can be put in order.
Timed(S) ==
  /\ IsFiniteSet(S) /\ \A e \in S : e.time \in Nat
  /\ \A d, e \in S : d.time = e.time => d = e

LEMMA EarlierCount ==
  ASSUME NEW S, IsFiniteSet(S), NEW k
  PROVE  /\ IsFiniteSet({x \in S : x.time < k.time})
         /\ Cardinality({x \in S : x.time < k.time}) \in Nat
         /\ Cardinality(S) \in Nat
         /\ Cardinality({x \in S : x.time < k.time}) <= Cardinality(S)
<1>1. {x \in S : x.time < k.time} \in SUBSET S
  OBVIOUS
<1> QED BY <1>1, FS_Subset, FS_CardinalityType

\* Who is earlier has fewer that are earlier.
LEMMA EarlierHasFewer ==
  ASSUME NEW S, Timed(S), NEW d \in S, NEW e \in S
  PROVE  /\ Earlier(e, S) \in Nat /\ Earlier(d, S) \in Nat /\ Earlier(e, S) < Cardinality(S)
         /\ Cardinality(S) \in Nat
         /\ d.time < e.time => Earlier(d, S) < Earlier(e, S)
         /\ Earlier(d, S) < Earlier(e, S) => d.time < e.time
         /\ Earlier(d, S) = Earlier(e, S) => d = e
<1>0. /\ IsFiniteSet(S) /\ \A x \in S : x.time \in Nat
      /\ \A x, y \in S : x.time = y.time => x = y
  BY DEF Timed
<1> DEFINE Over(x) == {y \in S : y.time < x.time}
<1>1. \A x \in S : /\ IsFiniteSet(Over(x)) /\ Cardinality(Over(x)) \in Nat
                   /\ Cardinality(S) \in Nat /\ Cardinality(Over(x)) <= Cardinality(S)
                   /\ Earlier(x, S) = Cardinality(Over(x))
  BY <1>0, EarlierCount DEF Earlier
<1>2. \A x \in S : Earlier(x, S) < Cardinality(S)
  <2> TAKE x \in S
  <2>1. Over(x) \in SUBSET S /\ x \notin Over(x)
    BY <1>0
  <2>2. Over(x) # S
    BY <2>1
  <2>3. Cardinality(Over(x)) # Cardinality(S)
    BY <1>0, <2>1, <2>2, FS_Subset
  <2> QED BY <1>1, <2>3
<1>3. \A x, y \in S : x.time < y.time => Earlier(x, S) < Earlier(y, S)
  <2> TAKE x, y \in S
  <2> HAVE x.time < y.time
  <2>1. Over(x) \in SUBSET Over(y)
    BY <1>0
  <2>2. x \in Over(y) /\ x \notin Over(x)
    BY <1>0
  <2>3. Over(x) # Over(y)
    BY <2>2
  <2> HIDE DEF Over
  <2>4. Cardinality(Over(x)) <= Cardinality(Over(y)) /\ Cardinality(Over(x)) # Cardinality(Over(y))
    BY <1>1, <2>1, <2>3, FS_Subset
  <2> QED BY <1>1, <2>4
<1> HIDE DEF Over
<1>4. Earlier(e, S) \in Nat /\ Earlier(d, S) \in Nat
  BY <1>1
<1>5. d.time < e.time \/ e.time < d.time \/ d = e
  BY <1>0
<1>6. Earlier(d, S) < Earlier(e, S) => d.time < e.time
  BY <1>3, <1>4, <1>5
<1>7. Earlier(d, S) = Earlier(e, S) => d = e
  BY <1>3, <1>4, <1>5
<1> QED BY <1>1, <1>2, <1>3, <1>4, <1>6, <1>7

\* Every rank is taken.
LEMMA EveryPlace ==
  ASSUME NEW S, Timed(S), NEW n \in Nat, n < Cardinality(S)
  PROVE  \E e \in S : Earlier(e, S) = n
<1> DEFINE N == Cardinality(S)
           f == [e \in S |-> Earlier(e, S)]
<1>1. N \in Nat /\ IsFiniteSet(S)
  BY FS_CardinalityType DEF Timed
<1>2. /\ \A e \in S : Earlier(e, S) \in 0 .. N - 1
      /\ \A d, e \in S : Earlier(d, S) = Earlier(e, S) => d = e
  BY <1>1, EarlierHasFewer
<1>3. f \in Injection(S, 0 .. N - 1)
  <2>1. f \in [S -> 0 .. N - 1] /\ \A d, e \in S : f[d] = f[e] => d = e
    BY <1>2
  <2> HIDE DEF f
  <2> QED BY <2>1 DEF Injection, IsInjective
<1>4. IsFiniteSet(0 .. N - 1) /\ Cardinality(0 .. N - 1) = N
  <2>1. 0 \in Int /\ N - 1 \in Int
    BY <1>1
  <2>2. /\ IsFiniteSet(0 .. N - 1)
        /\ Cardinality(0 .. N - 1) = IF 0 > N - 1 THEN 0 ELSE (N - 1) - 0 + 1
    BY <2>1, FS_Interval
  <2> HIDE DEF N
  <2> QED BY <1>1, <2>2
<1> HIDE DEF f
<1>5. f \in Surjection(S, 0 .. N - 1)
  BY <1>3, <1>4, FS_Injection
<1>6. n \in 0 .. N - 1
  BY <1>1
<1>7. \E e \in S : f[e] = n
  BY <1>5, <1>6 DEF Surjection
<1> QED BY <1>7 DEF f

\* In order: each once, the oldest first.
LEMMA ByTimeIs ==
  ASSUME NEW S, Timed(S)
  PROVE  LET page == ByTime(S) IN
         /\ page \in Seq(S) /\ Len(page) = Cardinality(S) /\ Cardinality(S) \in Nat
         /\ DOMAIN page = 1 .. Cardinality(S)
         /\ \A e \in S : \E i \in 1 .. Cardinality(S) : page[i] = e
         /\ \A i, j \in 1 .. Cardinality(S) : i < j => page[i].time < page[j].time
<1> DEFINE N == Cardinality(S)
           nth(i) == CHOOSE e \in S : Earlier(e, S) = i - 1
           page == [i \in 1 .. N |-> nth(i)]
<1>0. N \in Nat
  BY FS_CardinalityType DEF Timed
<1>1. \A i \in 1 .. N : nth(i) \in S /\ Earlier(nth(i), S) = i - 1
  <2> TAKE i \in 1 .. N
  <2>1. i - 1 \in Nat /\ i - 1 < N
    BY <1>0
  <2>2. \E e \in S : Earlier(e, S) = i - 1
    BY <2>1, EveryPlace
  <2> QED BY <2>2
<1> HIDE DEF nth
<1>2. page \in Seq(S) /\ Len(page) = N /\ DOMAIN page = 1 .. N
  <2>1. page \in [1 .. N -> S]
    BY <1>1
  <2> HIDE DEF page
  <2>2. page \in Seq(S)
    BY <1>0, <2>1
  <2> QED BY <1>0, <2>1, <2>2
<1>3. \A e \in S : \E i \in 1 .. N : page[i] = e
  <2> TAKE e \in S
  <2>1. Earlier(e, S) \in Nat /\ Earlier(e, S) < N
    BY EarlierHasFewer
  <2>2. PICK i \in 1 .. N : Earlier(e, S) = i - 1
    <3>1. Earlier(e, S) + 1 \in 1 .. N /\ Earlier(e, S) = (Earlier(e, S) + 1) - 1
      BY <1>0, <2>1
    <3> QED BY <3>1
  <2>3. nth(i) = e
    BY <1>1, <2>2, EarlierHasFewer
  <2> QED BY <2>3
<1>4. \A i, j \in 1 .. N : i < j => page[i].time < page[j].time
  <2> TAKE i, j \in 1 .. N
  <2> HAVE i < j
  <2>1. Earlier(nth(i), S) < Earlier(nth(j), S)
    BY <1>0, <1>1
  <2>2. nth(i).time < nth(j).time
    BY <1>1, <2>1, EarlierHasFewer
  <2> QED BY <2>2
<1>5. ByTime(S) = page
  BY DEF ByTime, nth
<1> HIDE DEF page
<1> QED BY <1>0, <1>2, <1>3, <1>4, <1>5


\* What is stored or being recorded.
Known ==
  {m \in Messages :
     \/ m \in messages
     \/ \E w \in Recorders, i \in Interactions : Recording(w, i) /\ m = writer[w][i].message}

\* Every message was begun at a time of its own, after all that were said, and
\* as long as the process has not ended all of them were.
TimesInStep ==
  /\ \A m \in Known : m.time <= clock
  /\ \A m, n \in Known : m.time = n.time => m = n
  /\ \A k \in DOMAIN said : said[k].time <= clock
  /\ \A k, l \in DOMAIN said : k < l => said[k].time < said[l].time
  /\ open /\ renumbered = {} => \A m \in Known : \E k \in DOMAIN said : said[k] = m

ListInv == TalkInv /\ TimesInStep

LEMMA ListInit ==
  ASSUME TalkInit
  PROVE  ListInv
<1>1. TalkInv
  BY TalkInitInv
<1>2. messages = {} /\ said = <<>> /\ writer = [w \in Recorders |-> [i \in Interactions |-> Gone]]
  BY DEF TalkInit
<1>3. Known = {}
  BY <1>2 DEF Known, Recording, Gone
<1>4. DOMAIN said = {}
  BY <1>2
<1> QED BY <1>1, <1>3, <1>4 DEF ListInv, TimesInStep

\* A message is begun.
LEMMA BeginTimes ==
  ASSUME ListInv, NEW w \in Recorders, NEW i \in Interactions, Begin(w, i),
         UNCHANGED <<open, messages, renumbered>>
  PROVE  TimesInStep'
<1>1. TalkTypeOK /\ TimesInStep
  BY DEF ListInv, TalkInv
<1>2. PICK m \in Messages :
        /\ m.time = clock + 1 /\ clock' = clock + 1 /\ said' = Append(said, m)
        /\ writer'[w][i].pc = "inserting" /\ writer'[w][i].message = m
        /\ \A v \in Recorders, j \in Interactions :
             v # w \/ j # i => writer'[v][j] = writer[v][j]
  BY <1>1, BeginDoes
<1>3. clock \in Nat /\ said \in Seq(Messages)
  BY <1>1 DEF TalkTypeOK
<1>4. /\ DOMAIN said = 1 .. Len(said) /\ Len(said) \in Nat /\ DOMAIN said' = 1 .. Len(said) + 1
      /\ \A k \in DOMAIN said' : \/ k \in DOMAIN said /\ said'[k] = said[k]
                                 \/ k = Len(said) + 1 /\ said'[k] = m
      /\ \A k \in DOMAIN said : k \in DOMAIN said' /\ said'[k] = said[k]
  BY <1>2, <1>3, SaidGrows
<1>5. Known' \subseteq Known \cup {m}
  <2> SUFFICES ASSUME NEW x \in Known' PROVE x \in Known \cup {m}
    OBVIOUS
  <2>1. CASE x \in messages'
    BY <2>1 DEF Known
  <2>2. CASE \E v \in Recorders, j \in Interactions : Recording(v, j)' /\ x = writer'[v][j].message
    <3>1. PICK v \in Recorders, j \in Interactions : Recording(v, j)' /\ x = writer'[v][j].message
      BY <2>2
    <3>2. CASE v = w /\ j = i
      BY <1>2, <3>1, <3>2
    <3>3. CASE v # w \/ j # i
      <4>1. writer'[v][j] = writer[v][j]
        BY <1>2, <3>3
      <4> QED BY <3>1, <4>1 DEF Known, Recording
    <3> QED BY <3>2, <3>3
  <2> QED BY <2>1, <2>2 DEF Known
<1>6. /\ \A x \in Known : x.time \in Nat /\ x.time <= clock
      /\ \A k \in DOMAIN said : said[k].time \in Nat /\ said[k].time <= clock
  <2>1. \A x \in Messages : x.time \in Nat
    BY DEF Messages
  <2>2. \A k \in DOMAIN said : said[k] \in Messages
    BY <1>3
  <2> QED BY <1>1, <2>1, <2>2 DEF Known, TimesInStep
<1>7. \A x \in Known' : x.time <= clock'
  BY <1>2, <1>3, <1>5, <1>6
<1>8. \A x, y \in Known' : x.time = y.time => x = y
  <2> TAKE x, y \in Known'
  <2>1. CASE x \in Known /\ y \in Known
    BY <1>1, <2>1 DEF TimesInStep
  <2>2. CASE x = m \/ y = m
    BY <1>2, <1>3, <1>5, <1>6, <2>2
  <2> QED BY <1>5, <2>1, <2>2
<1>9. \A k \in DOMAIN said' : said'[k].time <= clock'
  BY <1>2, <1>3, <1>4, <1>6
<1>10. \A k, l \in DOMAIN said' : k < l => said'[k].time < said'[l].time
  <2> TAKE k, l \in DOMAIN said'
  <2> HAVE k < l
  <2>1. k \in DOMAIN said /\ said'[k] = said[k]
    BY <1>4
  <2>2. CASE l \in DOMAIN said /\ said'[l] = said[l]
    BY <1>1, <2>1, <2>2 DEF TimesInStep
  <2>3. CASE said'[l] = m
    BY <1>2, <1>3, <1>6, <2>1, <2>3
  <2> QED BY <1>4, <2>2, <2>3
<1>11. open' /\ renumbered' = {} => \A x \in Known' : \E k \in DOMAIN said' : said'[k] = x
  <2> HAVE open' /\ renumbered' = {}
  <2> TAKE x \in Known'
  <2>1. CASE x \in Known
    <3>1. PICK k \in DOMAIN said : said[k] = x
      BY <1>1, <2>1 DEF TimesInStep
    <3> QED BY <1>4, <3>1
  <2>2. CASE x = m
    <3>1. Len(said) + 1 \in DOMAIN said' /\ Len(said) + 1 \notin DOMAIN said
      BY <1>4
    <3>2. said'[Len(said) + 1] = m
      BY <1>4, <3>1
    <3> QED BY <2>2, <3>1, <3>2
  <2> QED BY <1>5, <2>1, <2>2
<1> QED BY <1>7, <1>8, <1>9, <1>10, <1>11 DEF TimesInStep

\* Nothing is begun, and nothing comes back.
LEMMA QuietTimes ==
  ASSUME ListInv, Known' \subseteq Known, UNCHANGED <<said, clock, renumbered>>, open' => open
  PROVE  TimesInStep'
<1>1. TimesInStep /\ said' = said /\ clock' = clock /\ renumbered' = renumbered
  BY DEF ListInv
<1> QED BY <1>1 DEF TimesInStep

LEMMA RestartTimes ==
  ASSUME ListInv, TalkRestart
  PROVE  TimesInStep'
<1>1. /\ renumbered' = {i \in Interactions : counted[i] # NoRow} /\ renumbered' # renumbered
      /\ said' = <<>> /\ writer' = [w \in Recorders |-> [i \in Interactions |-> Gone]]
      /\ open' = open /\ clock' = clock /\ messages' = messages
  BY DEF TalkRestart
<1>3. TimesInStep /\ TalkTypeOK
  BY DEF ListInv, TalkInv
<1>4. Known' \subseteq Known
  BY <1>1 DEF Known, Recording, Gone
<1>5. ~(open' /\ renumbered' = {})
  <2> SUFFICES ASSUME open, renumbered' = {}
               PROVE  FALSE
    BY <1>1
  <2>1. PICK i \in renumbered : TRUE
    BY <1>1
  <2>2. i \in Interactions => CountInStep(i)
    BY DEF ListInv, TalkInv
  <2>3. CASE i \in Interactions
    BY <1>1, <2>1, <2>2, <2>3 DEF CountInStep
  <2>4. CASE i \notin Interactions
    BY <1>3, <2>1, <2>4 DEF TalkTypeOK
  <2> QED BY <2>3, <2>4
<1>6. DOMAIN said' = {}
  BY <1>1
<1> QED BY <1>1, <1>3, <1>4, <1>5, <1>6 DEF TimesInStep

LEMMA TimesStep ==
  ASSUME ListInv, [TalkNext]_talkVars
  PROVE  TimesInStep'
<1>2. TalkTypeOK /\ writer \in [Recorders -> [Interactions -> WriterStates]]
  BY DEF ListInv, TalkInv, TalkTypeOK
<1>1. ASSUME NEW w \in Recorders, NEW i \in Interactions, Say(w, i)
      PROVE  TimesInStep'
  <2>1. Begin(w, i) /\ UNCHANGED <<open, messages, renumbered>>
    BY <1>1 DEF Say
  <2> QED BY <2>1, BeginTimes
\* A writer that is not recording stores an object.
<1>3. ASSUME NEW w \in Recorders, NEW i \in Interactions, NEW object,
             NEW pc \in {"gone", "ready", "saying"}, StoreRow(w, i, object, pc), ~Recording(w, i)
      PROVE  TimesInStep'
  <2>1. /\ writer' = [writer EXCEPT ![w][i].pc = pc]
        /\ UNCHANGED <<open, said, messages, renumbered, clock>>
    BY <1>3 DEF StoreRow
  <2>2. \A v \in Recorders, j \in Interactions :
          Recording(v, j)' => Recording(v, j) /\ writer'[v][j] = writer[v][j]
    <3> TAKE v \in Recorders, j \in Interactions
    <3>1. CASE v = w /\ j = i
      BY <1>2, <2>1, <3>1 DEF Recording, WriterStates
    <3>2. CASE v # w \/ j # i
      BY <1>2, <2>1, <3>2 DEF Recording
    <3> QED BY <3>1, <3>2
  <2>3. Known' \subseteq Known
    BY <2>1, <2>2 DEF Known
  <2> QED BY <2>1, <2>3, QuietTimes
<1>8. ASSUME NEW i \in Interactions,
             \/ StartStreaming(i) \/ Cancel(i)
             \/ \E s \in Terminal \cup {"streaming"} : RunnerSets(i, s)
      PROVE  TimesInStep'
  <2>1. "runner" \in Recorders /\ "cancel" \in Recorders
    BY DEF Recorders
  <2>2. CASE StartStreaming(i)
    <3>1. WriterInStep("runner", i)
      BY <2>1 DEF ListInv, TalkInv
    <3>2. ~Recording("runner", i)
      BY <2>2, <3>1 DEF StartStreaming, WriterInStep, Recording
    <3> QED BY <1>3, <2>1, <2>2, <3>2 DEF StartStreaming
  <2>3. CASE Cancel(i)
    <3>1. ~Recording("cancel", i)
      BY <2>3 DEF Cancel, Recording
    <3> QED BY <1>3, <2>1, <2>3, <3>1 DEF Cancel
  <2>4. ASSUME NEW s \in Terminal \cup {"streaming"}, RunnerSets(i, s)
        PROVE  TimesInStep'
    <3> DEFINE pc == IF writer["runner"][i].pc = "failing" THEN "saying"
                     ELSE IF s \in Terminal THEN "gone" ELSE "ready"
    <3>1. pc \in {"gone", "ready", "saying"} /\ ~Recording("runner", i)
      BY <2>4 DEF RunnerSets, Recording
    <3>2. StoreRow("runner", i, [live[i] EXCEPT !.status = s], pc)
      BY <2>4 DEF RunnerSets
    <3> HIDE DEF pc
    <3> QED BY <1>3, <2>1, <3>1, <3>2
  <2> QED BY <1>8, <2>2, <2>3, <2>4
<1>4. ASSUME NEW w \in Recorders, NEW i \in Interactions, Deliver(w, i)
      PROVE  TimesInStep'
  <2>1. /\ writer' = [writer EXCEPT ![w][i] =
                        [Gone EXCEPT !.pc = IF w = "runner" THEN "ready" ELSE "gone"]]
        /\ UNCHANGED <<open, said, messages, renumbered, clock>>
    BY <1>4 DEF Deliver
  <2>2. \A v \in Recorders, j \in Interactions :
          Recording(v, j)' => Recording(v, j) /\ writer'[v][j] = writer[v][j]
    <3> TAKE v \in Recorders, j \in Interactions
    <3>1. CASE v = w /\ j = i
      BY <1>2, <2>1, <3>1 DEF Recording, Gone
    <3>2. CASE v # w \/ j # i
      BY <1>2, <2>1, <3>2 DEF Recording
    <3> QED BY <3>1, <3>2
  <2>3. Known' \subseteq Known
    <3> SUFFICES ASSUME NEW x \in Known' PROVE x \in Known
      OBVIOUS
    <3>1. CASE x \in messages'
      BY <2>1, <3>1 DEF Known
    <3>2. CASE \E v \in Recorders, j \in Interactions : Recording(v, j)' /\ x = writer'[v][j].message
      BY <2>2, <3>2 DEF Known
    <3> QED BY <3>1, <3>2 DEF Known
  <2> QED BY <2>1, <2>3, QuietTimes
<1>5. ASSUME NEW w \in Recorders, NEW i \in Interactions, Insert(w, i)
      PROVE  TimesInStep'
  <2>1. UNCHANGED <<open, said, renumbered, clock>> /\ writer[w][i].pc = "inserting"
    BY <1>5 DEF Insert
  <2>2. \/ /\ messages' = messages \cup {writer[w][i].message}
           /\ writer' = [writer EXCEPT ![w][i].pc = "counting"]
        \/ /\ messages' = messages
           /\ \E pc \in {"gone", "failing"} : writer' = [writer EXCEPT ![w][i] = [Gone EXCEPT !.pc = pc]]
    BY <1>5 DEF Insert
  <2>3. Recording(w, i)
    BY <2>1 DEF Recording
  <2>4. \A v \in Recorders, j \in Interactions :
          Recording(v, j)' => Recording(v, j) /\ writer'[v][j].message = writer[v][j].message
    <3> TAKE v \in Recorders, j \in Interactions
    <3>1. CASE v = w /\ j = i
      <4>1. CASE writer' = [writer EXCEPT ![w][i].pc = "counting"]
        BY <1>2, <2>3, <3>1, <4>1 DEF WriterStates
      <4>2. CASE \E pc \in {"gone", "failing"} : writer' = [writer EXCEPT ![w][i] = [Gone EXCEPT !.pc = pc]]
        BY <1>2, <3>1, <4>2 DEF Recording, Gone
      <4> QED BY <2>2, <4>1, <4>2
    <3>2. CASE v # w \/ j # i
      BY <1>2, <2>2, <3>2 DEF Recording
    <3> QED BY <3>1, <3>2
  <2>5. Known' \subseteq Known
    BY <2>2, <2>3, <2>4 DEF Known
  <2> QED BY <2>1, <2>5, QuietTimes
<1>9. ASSUME NEW w \in Recorders, NEW i \in Interactions, Commit(w, i)
      PROVE  TimesInStep'
  <2>1. UNCHANGED <<open, messages, said, writer, renumbered, clock>>
    BY <1>9 DEF Commit
  <2>2. Known' \subseteq Known
    BY <2>1 DEF Known, Recording
  <2> QED BY <2>1, <2>2, QuietTimes
<1>6. CASE DropSession
  <2>1. open' = FALSE /\ messages' = {} /\ UNCHANGED <<said, writer, renumbered, clock>>
    BY <1>6 DEF DropSession
  <2>2. Known' \subseteq Known
    BY <2>1 DEF Known, Recording
  <2> QED BY <2>1, <2>2, QuietTimes
<1>7. CASE UNCHANGED talkVars
  <2>1. UNCHANGED <<open, messages, said, writer, renumbered, clock>>
    BY <1>7 DEF talkVars
  <2>2. Known' \subseteq Known
    BY <2>1 DEF Known, Recording
  <2> QED BY <2>1, <2>2, QuietTimes
<1> QED BY <1>1, <1>4, <1>5, <1>6, <1>7, <1>8, <1>9, RestartTimes DEF TalkNext

LEMMA ListAlways == TalkSpec => []ListInv
<1>1. TalkInit => ListInv
  BY ListInit
<1>2. ListInv /\ [TalkNext]_talkVars => ListInv'
  BY TalkStep, TimesStep DEF ListInv
<1> QED BY <1>1, <1>2, PTL DEF TalkSpec

\* What a page that is not full, or is cut off, has of a list.
LEMMA ClippedIs ==
  ASSUME NEW S, NEW q \in Seq(S)
  PROVE  LET p == IF Len(q) < MessagePage THEN Len(q) ELSE MessagePage IN
         /\ Clipped(q) \in Seq(S) /\ Len(Clipped(q)) = p /\ p \in Nat
         /\ \A k \in 1 .. p : Clipped(q)[k] = q[k]
<1> DEFINE p == IF Len(q) < MessagePage THEN Len(q) ELSE MessagePage
<1>1. /\ Len(q) \in Nat /\ MessagePage \in Nat /\ p \in Nat /\ p <= Len(q)
      /\ \A k \in 1 .. Len(q) : q[k] \in S
  BY ConversationAssumption, LenProperties
<1> HIDE DEF p
<1>2. \A k \in 1 .. p : q[k] \in S /\ 1 + k - 1 = k
  BY <1>1
<1>3. 1 \in Int /\ p \in Int /\ p - 1 + 1 = p
  BY <1>1
<1>4. /\ SubSeq(q, 1, p) \in Seq(S)
      /\ Len(SubSeq(q, 1, p)) = IF 1 <= p THEN p - 1 + 1 ELSE 0
      /\ \A k \in 1 .. p - 1 + 1 : SubSeq(q, 1, p)[k] = q[1 + k - 1]
  BY <1>2, <1>3, SubSeqProperties
<1>5. Clipped(q) = SubSeq(q, 1, p)
  BY DEF Clipped, p
<1>6. Len(SubSeq(q, 1, p)) = p
  BY <1>1, <1>4
<1>7. \A k \in 1 .. p : SubSeq(q, 1, p)[k] = q[k]
  BY <1>2, <1>3, <1>4
<1> QED BY <1>1, <1>4, <1>5, <1>6, <1>7 DEF p

(* Who lists the messages page by page reads the oldest ones, each once, and *)
(* then nothing (Conversation).                                              *)
THEOREM ListsTheOldestHolds == TalkSpec => []ListsTheOldest
<1>1. ListInv => ListsTheOldest
  <2> DEFINE first == ListMessages(NoMessage)
             next == NextCursor(first)
             q == ByTime(messages)
             N == Cardinality(messages)
             p == IF Len(q) < MessagePage THEN Len(q) ELSE MessagePage
  <2> SUFFICES ASSUME ListInv, open, messages # {}, renumbered = {}, disturbed = {},
                      \A i \in Interactions : Quiet(i)
               PROVE  /\ Range(first) \subseteq messages
                      /\ \A m \in messages : m \notin Range(first) =>
                           \A x \in Range(first) : x.time < m.time
                      /\ next # NoMessage => ListMessages(next) = <<>>
    BY DEF ListsTheOldest
  <2>1. /\ TalkInv /\ TimesInStep /\ TalkTypeOK
        /\ said \in Seq(Messages) /\ messages \subseteq Messages /\ IsFiniteSet(messages)
    BY DEF ListInv, TalkInv, TalkTypeOK
  <2>2. messages \subseteq Known /\ \A m \in Messages : m.time \in Nat \ {0} /\ m # NoMessage
    BY <2>1 DEF Known, Messages, NoMessage
  <2>3. Timed(messages)
    BY <2>1, <2>2 DEF Timed, TimesInStep
  <2>4. /\ q \in Seq(messages) /\ Len(q) = N /\ N \in Nat /\ DOMAIN q = 1 .. N
        /\ \A e \in messages : \E i \in 1 .. N : q[i] = e
        /\ \A i, j \in 1 .. N : i < j => q[i].time < q[j].time
    BY <2>3, ByTimeIs
  <2>5. first = Clipped(q)
    <3>1. {m \in messages : NoMessage = NoMessage \/ m.time < NoMessage.time} = messages
      OBVIOUS
    <3> QED BY <3>1 DEF ListMessages
  <2> HIDE DEF q, N
  <2>6. /\ Clipped(q) \in Seq(messages) /\ Len(Clipped(q)) = p /\ p \in Nat
        /\ \A k \in 1 .. p : Clipped(q)[k] = q[k]
    BY <2>4, ClippedIs
  <2>7. p <= N /\ p >= 1 /\ MessagePage \in Nat
    <3>1. N >= 1
      <4>1. PICK e \in messages : TRUE
        OBVIOUS
      <4>2. PICK i \in 1 .. N : q[i] = e
        BY <2>4
      <4> QED BY <2>4, <4>2
    <3> QED BY <2>4, <3>1, ConversationAssumption
  <2>8. Range(first) = {q[k] : k \in 1 .. p}
    BY <2>5, <2>6, LenProperties DEF Range
  <2> HIDE DEF p, first
  <2>9. Range(first) \subseteq messages
    BY <2>4, <2>6, <2>7, <2>8
  <2>10. ASSUME NEW m \in messages, m \notin Range(first), NEW x \in Range(first)
         PROVE  x.time < m.time
    <3>1. PICK i \in 1 .. N : q[i] = m
      BY <2>4
    <3>2. PICK k \in 1 .. p : q[k] = x
      BY <2>8
    <3>3. i \notin 1 .. p
      BY <2>8, <2>10, <3>1
    <3>4. k \in 1 .. N /\ k < i
      BY <2>4, <2>6, <2>7, <3>1, <3>2, <3>3
    <3> QED BY <2>4, <3>1, <3>2, <3>4
  <2>11. ASSUME next # NoMessage PROVE ListMessages(next) = <<>>
    <3>1. next = q[1] /\ 1 \in 1 .. N /\ q[1] \in messages
      <4>1. next = first[1]
        BY <2>11 DEF NextCursor
      <4>2. 1 \in 1 .. p
        BY <2>6, <2>7
      <4>3. 1 \in 1 .. N
        BY <2>4, <2>7
      <4> QED BY <2>4, <2>5, <2>6, <4>1, <4>2, <4>3
    \* What is said first is stored, so it is the oldest that is.
    <3>2. \A k \in DOMAIN said : said[k] \in messages
      <4> TAKE k \in DOMAIN said
      <4>0. said[k] \in Messages
        BY <2>1
      <4>1. said[k] \in Messages /\ said[k].of \in Interactions
        BY <4>0 DEF Messages
      <4>2. Undisturbed(said[k].of) /\ said[k].of \notin renumbered
        BY <4>1 DEF Undisturbed
      <4>3. NumbersInStep(said[k].of) /\ \A w \in Recorders : WriterInStep(w, said[k].of)
        BY <2>1, <4>1 DEF TalkInv
      <4>4. \A w \in Recorders : writer[w][said[k].of].message = NoMessage
        BY <4>1, <4>3 DEF WriterInStep, Quiet
      <4>5. said[k] # NoMessage
        BY <2>2, <4>1
      <4> QED BY <4>2, <4>3, <4>4, <4>5 DEF NumbersInStep
    <3>3. PICK k \in DOMAIN said : said[k] = q[1]
      BY <2>1, <2>2, <3>1 DEF TimesInStep
    <3>4. DOMAIN said = 1 .. Len(said) /\ Len(said) \in Nat
      BY <2>1, LenProperties
    <3>5. k = 1
      <4> SUFFICES ASSUME k # 1 PROVE FALSE
        OBVIOUS
      <4>1. 1 \in DOMAIN said /\ 1 < k
        BY <3>4
      <4>2. said[1].time < q[1].time
        BY <2>1, <3>3, <4>1 DEF TimesInStep
      <4>3. PICK j \in 1 .. N : q[j] = said[1]
        BY <2>4, <3>2, <4>1
      <4>4. q[1].time \in Nat /\ said[1].time \in Nat
        BY <2>1, <2>2, <3>1, <3>2, <4>1
      <4>5. CASE j = 1
        BY <4>2, <4>3, <4>4, <4>5
      <4>6. CASE j # 1
        <5>1. 1 < j
          BY <2>4, <4>6
        <5>2. q[1].time < q[j].time
          BY <2>4, <3>1, <5>1
        <5> QED BY <4>2, <4>3, <4>4, <5>2
      <4> QED BY <4>5, <4>6
    <3>6. {x \in messages : q[1] = NoMessage \/ x.time < q[1].time} = {}
      <4>1. q[1] # NoMessage
        BY <2>1, <2>2, <3>1
      <4>2. ASSUME NEW x \in messages, x.time < q[1].time PROVE FALSE
        <5>1. PICK j \in 1 .. N : q[j] = x
          BY <2>4
        <5>2. q[1].time \in Nat /\ x.time \in Nat
          BY <2>1, <2>2, <3>1
        <5>3. CASE j = 1
          BY <4>2, <5>1, <5>2, <5>3
        <5>4. CASE j # 1
          <6>1. 1 < j
            BY <2>4, <5>4
          <6>2. q[1].time < q[j].time
            BY <2>4, <3>1, <6>1
          <6> QED BY <4>2, <5>1, <5>2, <6>2
        <5> QED BY <5>3, <5>4
      <4> QED BY <4>1, <4>2
    <3>7. {l \in DOMAIN said : said[l] = q[1]} = {1}
      <4>1. ASSUME NEW l \in DOMAIN said, said[l] = q[1] PROVE l = 1
        <5> SUFFICES ASSUME l # 1 PROVE FALSE
          OBVIOUS
        <5>1. 1 < l /\ 1 \in DOMAIN said
          BY <3>4
        <5>2. said[1].time < said[l].time
          BY <2>1, <5>1 DEF TimesInStep
        <5>3. said[1] = q[1]
          BY <3>3, <3>5
        <5>4. q[1].time \in Nat
          BY <2>1, <2>2, <3>1
        <5> QED BY <4>1, <5>2, <5>3, <5>4
      <4> QED BY <3>3, <3>5, <4>1
    <3> DEFINE known == {l \in DOMAIN said : said[l] = q[1]}
    <3>8. (CHOOSE l \in known : TRUE) = 1
      BY <3>7
    <3>9. SubSeq(said, 1, 1 - 1) = <<>>
      <4>1. 1 \in Int /\ 1 - 1 \in Int /\ 1 - 1 < 1
        OBVIOUS
      <4> QED BY <4>1, SubSeqEmpty
    <3>10. ListMessages(q[1]) = Clipped(SubSeq(said, 1, 1 - 1))
      BY <3>6, <3>7, <3>8 DEF ListMessages
    <3>11. Clipped(<<>>) = <<>>
      <4>1. Clipped(<<>>) = SubSeq(<<>>, 1, 0)
        BY ConversationAssumption DEF Clipped
      <4>2. 0 \in Int /\ 1 \in Int /\ 0 < 1
        OBVIOUS
      <4> QED BY <4>1, <4>2, SubSeqEmpty
    <3> QED BY <3>1, <3>9, <3>10, <3>11
  <2> QED BY <2>9, <2>10, <2>11
<1> QED BY <1>1, ListAlways, PTL

(* What a client is shown of the messages of a session is what is kept of    *)
(* them: the four theorems above together (Conversation).                    *)
THEOREM TalkIsKeptHolds == TalkSpec => []TalkIsKept
<1>1. ShownIsStored /\ NothingUnsaid /\ CountsAgree /\ ListsTheOldest => TalkIsKept
  BY DEF TalkIsKept
<1> QED BY <1>1, ShownIsStoredHolds, NothingUnsaidHolds, CountsAgreeHolds, ListsTheOldestHolds, PTL
-----------------------------------------------------------------------------
(***************************************************************************)
(* What a session keeps (SessionArchive)                                   *)
(***************************************************************************)
States == {"parsing", "clarifying", "previewing"} \cup Ended
Kinds == {"wordprocessing", "markdown", "none"}
Artifacts ==
  [revision : Nat, format : ReportFormats \cup {"none"}, report : Nat, of : Nat, type : Kinds]
Memos ==
  [turns : Seq(Nat), artifacts : Seq(Artifacts), state : States, revision : Nat, ctx : Nat,
   asked : BOOLEAN]
Payloads == [artifacts : Seq(Artifacts), state : States, revision : Nat, asked : BOOLEAN]
Stages == {"parsing", "allowed", "denied", "rendering", "delivering"}
WriteLists ==
  {<<"turn", "session">>, <<"turn">>, <<"session">>, <<"audit">>, <<"artifact", "session">>,
   <<"artifact", "turn", "session">>}
WriteTasks ==
  [pc : Stages \cup {"begin", "writing"}, op : {"send", "cancel", "report", "confirm"}, rec : 1 .. 2,
   format : ReportFormats \cup {"none"}, question : Nat \ {0}, turn : Nat,
   writes : WriteLists \cup {<<>>}, then : Stages \cup {"idle"},
   artifact : Artifacts \cup {<<>>}]
Files == [name : [revision : Nat, format : ReportFormats \cup {"none"}], report : Nat]
Audits == [question : Nat, allowed : BOOLEAN]

ArchiveTypeOK ==
  /\ memos \in [1 .. 2 -> Memos] /\ current \in 0 .. 2
  /\ row \in Payloads \cup {NoSession} /\ loads \subseteq Payloads
  /\ turnRows \in Seq(Nat) /\ artifactRows \in Seq(Artifacts) /\ auditRows \in Seq(Audits)
  /\ folder \subseteq Files /\ announced \subseteq Artifacts
  /\ task \in WriteTasks \cup {NoTask}
  /\ turnNo \in Nat /\ unaudited \subseteq Nat /\ stale \in BOOLEAN

Busy == task # NoTask

\* What the request does when the writes are made.
Stage == IF task.pc = "writing" THEN task.then ELSE task.pc
Left(what) == what \in Range(task.writes)

\* The questions that reports may answer.
Allowed == {d.question : d \in {x \in Range(auditRows) : x.allowed}} \cup unaudited

\* The place of a request, and what it still has to write.
TaskInStep ==
  Busy =>
    /\ task.pc = "writing" <=> task.writes # <<>>
    /\ Left("audit") => task.then \in {"allowed", "denied"}
    /\ Left("artifact") => task.then = "delivering"
    /\ Stage = "parsing" \/ Left("audit") => task.question <= turnNo
    /\ task.then = "parsing" => task.writes \in {<<>>, <<"turn">>}
    /\ Left("turn") => task.turn <= turnNo /\ task.turn \in Range(memos[task.rec].turns)
    /\ current \notin {0, task.rec} => memos[current].turns = <<>>
    /\ task.op = "report" => task.format \in ReportFormats
    /\ task.op = "cancel" => Stage = "idle"

\* Turns are stored in order.
TurnsInStep ==
  /\ Rising(turnRows) /\ \A t \in Range(turnRows) : t <= turnNo
  /\ Busy /\ Left("turn") => \A t \in Range(turnRows) : t < task.turn
  /\ row = NoSession => turnRows = <<>> /\ artifactRows = <<>>
  /\ \A k \in 1 .. 2 :
       /\ Rising(memos[k].turns)
       /\ \A t \in Range(memos[k].turns) :
            /\ t <= turnNo
            /\ t \in Range(turnRows) \cup unsaid \/ (Busy /\ task.turn = t /\ Left("turn"))
  /\ current # 0 =>
       \A t \in Range(turnRows) \ Range(memos[current].turns) :
         \A u \in Range(memos[current].turns) : t < u

\* Decisions are stored in order, before what they allow.
DecisionsInStep ==
  /\ \A i, j \in DOMAIN auditRows : i < j => auditRows[i].question < auditRows[j].question
  /\ \A d \in Range(auditRows) : d.question <= turnNo
  /\ Busy /\ (Stage = "parsing" \/ Left("audit")) =>
       \A d \in Range(auditRows) : d.question < task.question
  /\ Busy /\ Stage = "allowed" /\ ~Left("audit") => task.question \in Allowed
  /\ \A k \in 1 .. 2 : memos[k].ctx \in Allowed \cup {0}
  /\ Busy /\ Stage = "rendering" => memos[task.rec].ctx # 0 /\ task.op \in {"report", "confirm"}
  /\ \A f \in folder : f.report \in Allowed
  /\ \A a \in announced : a.report \in Allowed

InFolder(a) == [name |-> ReportName(a), report |-> a.report] \in folder
Typed(a) == a.type # "none" => a.type = MediaType(a.format)
NotNewer(r) == \A a \in Range(r.artifacts) : a.revision <= r.revision

\* What is to be announced.
DeliveryInStep ==
  Busy /\ Stage = "delivering" =>
    LET a == task.artifact
        r == memos[task.rec]
    IN /\ a \in Artifacts /\ a.report \in Allowed /\ Typed(a)
       /\ a.revision = r.revision /\ a.report = r.ctx
       /\ current = task.rec =>
            /\ a \in Range(r.artifacts) /\ InFolder(a)
            /\ ~Left("session") /\ ~stale /\ row # NoSession => a \in Range(row.artifacts)

AnnouncedInStep ==
  /\ \A k \in 1 .. 2 : NotNewer(memos[k])
  /\ \A r \in loads : NotNewer(r)
  /\ row # NoSession => NotNewer(row)
  /\ \A f, g \in folder : f.name = g.name => f = g
  /\ Busy /\ task.rec # current => announced = {}
  /\ announced # {} /\ current = 0 => 
       row # NoSession /\ announced \subseteq Range(row.artifacts) /\ loads \subseteq {row}
  /\ announced # {} /\ ~stale /\ row # NoSession => announced \subseteq Range(row.artifacts)
  /\ \A a \in announced :
       /\ InFolder(a) /\ Typed(a)
       /\ current # 0 =>
            /\ a \in Range(memos[current].artifacts)
            /\ a.revision = memos[current].revision =>
                 memos[current].ctx \in {0, a.report}

ArchiveInv ==
  ArchiveTypeOK /\ TaskInStep /\ TurnsInStep /\ DecisionsInStep /\ DeliveryInStep
  /\ AnnouncedInStep

-----------------------------------------------------------------------------
(* Lists *)

\* The writes that are left when one of them is made.
LEMMA WritesLeft ==
  ASSUME NEW w \in WriteLists
  PROVE  /\ w # <<>> /\ Head(w) \in Range(w)
         /\ Len(w) > 1 => Tail(w) \in WriteLists /\ Range(Tail(w)) = Range(w) \ {Head(w)}
         /\ ~(Len(w) > 1) => Range(w) = {Head(w)}
<1>1. CASE w = <<"turn", "session">>
  <2>1. Tail(w) = <<"session">> /\ Head(w) = "turn" /\ Len(w) = 2 /\ Range(w) = {"turn", "session"}
    BY <1>1 DEF Range
  <2> QED BY <1>1, <2>1 DEF WriteLists, Range
<1>2. CASE w = <<"turn">> \/ w = <<"session">> \/ w = <<"audit">>
  <2>1. Len(w) = 1 /\ Range(w) = {Head(w)} /\ w # <<>>
    BY <1>2 DEF Range
  <2> QED BY <2>1
<1>3. CASE w = <<"artifact", "session">>
  <2>1. /\ Tail(w) = <<"session">> /\ Head(w) = "artifact" /\ Len(w) = 2
        /\ Range(w) = {"artifact", "session"}
    BY <1>3 DEF Range
  <2> QED BY <1>3, <2>1 DEF WriteLists, Range
<1>4. CASE w = <<"artifact", "turn", "session">>
  <2>1. /\ Tail(w) = <<"turn", "session">> /\ Head(w) = "artifact" /\ Len(w) = 3
        /\ Range(w) = {"artifact", "turn", "session"}
    BY <1>4 DEF Range
  <2>2. Range(<<"turn", "session">>) = {"turn", "session"}
    BY DEF Range
  <2> QED BY <1>4, <2>1, <2>2 DEF WriteLists
<1> QED BY <1>1, <1>2, <1>3, <1>4 DEF WriteLists

LEMMA WritesAre ==
  /\ Range(<<"turn", "session">>) = {"turn", "session"} /\ Range(<<"turn">>) = {"turn"}
  /\ Range(<<"audit">>) = {"audit"} /\ Range(<<"artifact", "session">>) = {"artifact", "session"}
  /\ Range(<<"artifact", "turn", "session">>) = {"artifact", "turn", "session"}
  /\ Range(<<>>) = {}
<1>1. Range(<<"turn", "session">>) = {"turn", "session"} /\ Range(<<"turn">>) = {"turn"}
  BY DEF Range
<1>2. Range(<<"audit">>) = {"audit"} /\ Range(<<"artifact", "session">>) = {"artifact", "session"}
  BY DEF Range
<1>3. Range(<<"artifact", "turn", "session">>) = {"artifact", "turn", "session"} /\ Range(<<>>) = {}
  BY DEF Range
<1> QED BY <1>1, <1>2, <1>3

\* A list with one more.
LEMMA OneMore ==
  ASSUME NEW S, NEW s \in Seq(S), NEW e \in S
  PROVE  /\ Append(s, e) \in Seq(S) /\ Range(Append(s, e)) = Range(s) \cup {e}
         /\ DOMAIN s = 1 .. Len(s) /\ Len(s) \in Nat /\ DOMAIN Append(s, e) = 1 .. Len(s) + 1
         /\ \A k \in DOMAIN Append(s, e) :
              \/ k \in DOMAIN s /\ Append(s, e)[k] = s[k]
              \/ k = Len(s) + 1 /\ Append(s, e)[k] = e
<1> DEFINE a == Append(s, e)
           n == Len(s)
<1>1. /\ a \in Seq(S) /\ DOMAIN s = 1 .. n /\ n \in Nat /\ DOMAIN a = 1 .. n + 1
      /\ \A k \in 1 .. n : a[k] = s[k]
      /\ a[n + 1] = e
  OBVIOUS
<1> HIDE DEF a, n
<1>2. /\ \A k \in 1 .. n + 1 : k \in 1 .. n \/ k = n + 1
      /\ \A k \in 1 .. n : k \in 1 .. n + 1
      /\ n + 1 \in 1 .. n + 1
  BY <1>1
<1>3. Range(a) = Range(s) \cup {e}
  <2>1. \A k \in DOMAIN a : a[k] \in Range(s) \cup {e}
    <3> TAKE k \in DOMAIN a
    <3>1. CASE k \in 1 .. n
      BY <1>1, <3>1 DEF Range
    <3>2. CASE k = n + 1
      BY <1>1, <3>2
    <3> QED BY <1>1, <1>2, <3>1, <3>2
  <2>2. \A k \in DOMAIN s : s[k] \in Range(a)
    BY <1>1, <1>2 DEF Range
  <2>3. e \in Range(a)
    BY <1>1, <1>2 DEF Range
  <2> QED BY <2>1, <2>2, <2>3 DEF Range
<1> QED BY <1>1, <1>2, <1>3 DEF a, n

LEMMA RisesOn ==
  ASSUME NEW s \in Seq(Nat), Rising(s), NEW e \in Nat, \A t \in Range(s) : t < e
  PROVE  Rising(Append(s, e))
<1>1. /\ DOMAIN s = 1 .. Len(s) /\ Len(s) \in Nat /\ DOMAIN Append(s, e) = 1 .. Len(s) + 1
      /\ \A k \in DOMAIN Append(s, e) :
           \/ k \in DOMAIN s /\ Append(s, e)[k] = s[k]
           \/ k = Len(s) + 1 /\ Append(s, e)[k] = e
  BY OneMore
<1> DEFINE a == Append(s, e)
<1> HIDE DEF a
<1>2. ASSUME NEW i \in DOMAIN a, NEW j \in DOMAIN a, i < j
      PROVE  a[i] < a[j]
  <2>1. i \in DOMAIN s /\ a[i] = s[i]
    BY <1>1, <1>2 DEF a
  <2>2. s[i] \in Range(s)
    BY <2>1 DEF Range
  <2>3. CASE j \in DOMAIN s /\ a[j] = s[j]
    BY <1>2, <2>1, <2>3 DEF Rising
  <2>4. CASE a[j] = e
    BY <2>1, <2>2, <2>4
  <2> QED BY <1>1, <2>3, <2>4 DEF a
<1> QED BY <1>2 DEF Rising, a

-----------------------------------------------------------------------------
(* What the parts of a step do *)

LEMMA ArchiveTypes ==
  /\ NewMemo \in Memos /\ Unused \in [1 .. 2 -> Memos] /\ \A k \in 1 .. 2 : Unused[k] = NewMemo
  /\ \A p \in Payloads :
       /\ Restored(p) \in Memos /\ p # NoSession /\ Restored(p).turns = <<>>
       /\ Restored(p).artifacts = p.artifacts /\ Restored(p).revision = p.revision
       /\ Restored(p).ctx = 0
  /\ NewMemo.turns = <<>> /\ NewMemo.artifacts = <<>> /\ NewMemo.ctx = 0
  /\ \A m \in Memos : SessionPayload(m) \in Payloads
  /\ \A t \in WriteTasks : t # NoTask
  /\ NoTask.pc = "idle" /\ ReportFormats \subseteq {"docx", "markdown"}
<1>1. NewMemo \in Memos
  BY DEF NewMemo, Memos, States
<1>2. Unused \in [1 .. 2 -> Memos] /\ \A k \in 1 .. 2 : Unused[k] = NewMemo
  <2>1. \A k \in 1 .. 2 : k = 1 \/ k = 2
    OBVIOUS
  <2>2. Unused[1] = NewMemo /\ Unused[2] = NewMemo /\ DOMAIN Unused = 1 .. 2
    BY DEF Unused
  <2>3. \A k \in 1 .. 2 : Unused[k] = NewMemo
    BY <2>1, <2>2
  <2>4. Unused \in Seq({NewMemo}) /\ Len(Unused) = 2
    BY DEF Unused
  <2>5. Unused = [k \in 1 .. 2 |-> Unused[k]]
    BY <2>4
  <2> QED BY <1>1, <2>3, <2>5
<1>3. \A p \in Payloads : Restored(p) \in Memos
  BY <1>1 DEF Restored, Payloads, Memos, NewMemo
<1>8. \A p \in Payloads :
        /\ Restored(p).turns = <<>> /\ Restored(p).artifacts = p.artifacts
        /\ Restored(p).revision = p.revision /\ Restored(p).ctx = 0
  BY DEF Restored, NewMemo
<1>9. NewMemo.turns = <<>> /\ NewMemo.artifacts = <<>> /\ NewMemo.ctx = 0
  BY DEF NewMemo
<1>4. \A p \in Payloads : p # NoSession
  BY DEF NoSession, Payloads, States, Ended
<1>5. \A m \in Memos : SessionPayload(m) \in Payloads
  BY DEF SessionPayload, Memos, Payloads
<1>6. \A t \in WriteTasks : t # NoTask
  BY DEF WriteTasks, NoTask, Stages
<1>7. NoTask.pc = "idle" /\ ReportFormats \subseteq {"docx", "markdown"}
  BY ArchiveAssumption DEF NoTask
<1> QED BY <1>1, <1>2, <1>3, <1>4, <1>5, <1>6, <1>7, <1>8, <1>9

\* A request is one of the tasks.
LEMMA BusyIs ==
  ASSUME ArchiveTypeOK
  PROVE  /\ Busy <=> task \in WriteTasks
         /\ Busy <=> task.pc # "idle"
         /\ Busy => task.rec \in 1 .. 2 /\ Mine \in Memos /\ Mine = memos[task.rec]
<1>1. task \in WriteTasks \cup {NoTask} /\ memos \in [1 .. 2 -> Memos]
  BY DEF ArchiveTypeOK
<1>2. \A t \in WriteTasks : t.pc # "idle" /\ t.rec \in 1 .. 2
  BY DEF WriteTasks, Stages
<1> QED BY <1>1, <1>2, ArchiveTypes DEF Busy, Mine

\* A write is made: what is left is the rest.
LEMMA WrittenDoes ==
  ASSUME ArchiveTypeOK, TaskInStep, NEW what, Writing(what), Written
  PROVE  /\ Busy /\ Left(what) /\ task' \in WriteTasks \cup {NoTask}
         /\ Busy' =>
              /\ task' \in WriteTasks /\ Stage' = Stage /\ task'.rec = task.rec /\ task'.op = task.op
              /\ task'.question = task.question /\ task'.turn = task.turn
              /\ task'.then = task.then /\ task'.artifact = task.artifact
              /\ task'.format = task.format
              /\ Range(task'.writes) = Range(task.writes) \ {what}
              /\ (task'.pc = "writing" <=> task'.writes # <<>>)
              /\ task'.then = "parsing" => task'.writes \in {<<>>, <<"turn">>}
         /\ Busy' \/ Range(task.writes) = {what}
<1>1. task.pc = "writing" /\ Head(task.writes) = what
  BY DEF Writing
<1>2. Busy /\ task \in WriteTasks
  BY <1>1, BusyIs
<1>3. task.writes \in WriteLists
  BY <1>1, <1>2 DEF WriteTasks, TaskInStep
<1>4. /\ task.writes # <<>> /\ what \in Range(task.writes)
      /\ Len(task.writes) > 1 =>
           /\ Tail(task.writes) \in WriteLists
           /\ Range(Tail(task.writes)) = Range(task.writes) \ {what}
      /\ ~(Len(task.writes) > 1) => Range(task.writes) = {what}
  BY <1>1, <1>3, WritesLeft
<1>5. CASE Len(task.writes) > 1
  <2>1. task' = [task EXCEPT !.writes = Tail(@)]
    BY <1>5 DEF Written
  <2>2. Tail(task.writes) # <<>>
    BY <1>4, <1>5, WritesLeft
  <2>3. /\ task' \in WriteTasks /\ task'.writes = Tail(task.writes) /\ task'.pc = "writing"
        /\ task'.rec = task.rec /\ task'.op = task.op /\ task'.question = task.question
        /\ task'.turn = task.turn /\ task'.then = task.then /\ task'.artifact = task.artifact
        /\ task'.format = task.format
    BY <1>1, <1>2, <1>4, <1>5, <2>1 DEF WriteTasks
  <2>4. Stage' = Stage
    BY <1>1, <2>3 DEF Stage
  <2>5. task.then # "parsing"
    <3>1. task.then = "parsing" => task.writes = <<"turn">>
      BY <1>2, <1>4 DEF TaskInStep
    <3>2. \A w : w = <<"turn">> => ~(Len(w) > 1)
      OBVIOUS
    <3> QED BY <1>5, <3>1, <3>2
  <2>6. Busy'
    BY <2>3, ArchiveTypes DEF Busy
  <2> QED BY <1>2, <1>4, <1>5, <2>2, <2>3, <2>4, <2>5, <2>6 DEF Left
<1>6. CASE ~(Len(task.writes) > 1) /\ task.then = "idle"
  <2>1. task' = NoTask
    BY <1>6 DEF Written
  <2> QED BY <1>2, <1>4, <1>6, <2>1 DEF Left, Busy
<1>7. CASE ~(Len(task.writes) > 1) /\ task.then # "idle"
  <2>1. task' = [task EXCEPT !.writes = <<>>, !.pc = task.then]
    BY <1>7 DEF Written
  <2>2. task.then \in Stages
    BY <1>2, <1>7 DEF WriteTasks
  <2>3. /\ task' \in WriteTasks /\ task'.writes = <<>> /\ task'.pc = task.then
        /\ task'.rec = task.rec /\ task'.op = task.op /\ task'.question = task.question
        /\ task'.turn = task.turn /\ task'.then = task.then /\ task'.artifact = task.artifact
        /\ task'.format = task.format
    BY <1>2, <2>1, <2>2 DEF WriteTasks
  <2>4. Stage' = Stage /\ task'.pc # "writing"
    BY <1>1, <2>2, <2>3 DEF Stage, Stages
  <2>5. Range(task'.writes) = {}
    BY <2>3, WritesAre
  <2> QED BY <1>2, <1>4, <1>7, <2>3, <2>4, <2>5 DEF Left
<1> QED BY <1>5, <1>6, <1>7

\* Something is said.
LEMMA SaysDoes ==
  ASSUME ArchiveTypeOK, NEW n \in 1 .. 2, NEW r \in Memos, NEW of \in WriteTasks,
         NEW writes \in WriteLists, NEW then \in Stages \cup {"idle"},
         Says(n, r, of, writes, then)
  PROVE  /\ turnNo' = turnNo + 1 /\ turnNo' \in Nat
         /\ memos' \in [1 .. 2 -> Memos] /\ memos'[n].turns = Append(r.turns, turnNo + 1)
         /\ memos'[n].artifacts = r.artifacts /\ memos'[n].state = r.state
         /\ memos'[n].revision = r.revision /\ memos'[n].ctx = r.ctx
         /\ \A k \in 1 .. 2 : k # n => memos'[k] = memos[k]
         /\ task' \in WriteTasks /\ Busy' /\ Stage' = then /\ task'.pc = "writing"
         /\ task'.turn = turnNo + 1 /\ task'.writes = writes /\ task'.then = then
         /\ task'.op = of.op /\ task'.rec = of.rec /\ task'.format = of.format
         /\ task'.question = of.question /\ task'.artifact = of.artifact
<1>1. turnNo \in Nat /\ memos \in [1 .. 2 -> Memos]
  BY DEF ArchiveTypeOK
<1>2. /\ turnNo' = turnNo + 1
      /\ memos' = [memos EXCEPT ![n] = [r EXCEPT !.turns = Append(@, turnNo + 1)]]
      /\ task' = [of EXCEPT !.pc = "writing", !.turn = turnNo + 1, !.writes = writes, !.then = then]
  BY DEF Says
<1> DEFINE m == [r EXCEPT !.turns = Append(@, turnNo + 1)]
<1>3. Append(r.turns, turnNo + 1) \in Seq(Nat)
  <2>1. r.turns \in Seq(Nat) /\ turnNo + 1 \in Nat
    BY <1>1 DEF Memos
  <2> QED BY <2>1
<1>4. /\ m \in Memos /\ m.turns = Append(r.turns, turnNo + 1) /\ m.artifacts = r.artifacts
      /\ m.state = r.state /\ m.revision = r.revision /\ m.ctx = r.ctx
  BY <1>3 DEF Memos
<1> HIDE DEF m
<1>5. memos' = [memos EXCEPT ![n] = m]
  BY <1>2 DEF m
<1>6. /\ task' \in WriteTasks /\ task'.pc = "writing" /\ task'.turn = turnNo + 1
      /\ task'.writes = writes /\ task'.then = then
      /\ task'.op = of.op /\ task'.rec = of.rec /\ task'.format = of.format
      /\ task'.question = of.question /\ task'.artifact = of.artifact
  <2> DEFINE number == turnNo + 1
  <2>1. number \in Nat
    BY <1>1
  <2> HIDE DEF number
  <2>2. task' = [of EXCEPT !.pc = "writing", !.turn = number, !.writes = writes, !.then = then]
    BY <1>2 DEF number
  <2>3. task' \in WriteTasks
    BY <2>1, <2>2 DEF WriteTasks
  <2>4. /\ task'.pc = "writing" /\ task'.turn = number
        /\ task'.writes = writes /\ task'.then = then
    BY <2>2 DEF WriteTasks
  <2>5. /\ task'.op = of.op /\ task'.rec = of.rec /\ task'.format = of.format
        /\ task'.question = of.question /\ task'.artifact = of.artifact
    BY <2>2 DEF WriteTasks
  <2> QED BY <2>3, <2>4, <2>5 DEF number
<1>7. Busy' /\ Stage' = then
  BY <1>6, ArchiveTypes DEF Busy, Stage
<1>8. /\ memos' \in [1 .. 2 -> Memos] /\ memos'[n] = m
      /\ \A k \in 1 .. 2 : k # n => memos'[k] = memos[k]
  BY <1>1, <1>4, <1>5
<1>9. turnNo' = turnNo + 1 /\ turnNo' \in Nat
  BY <1>1, <1>2
<1> QED BY <1>4, <1>6, <1>7, <1>8, <1>9

\* What a file is listed as, and the folder with it.
LEMMA RecordIs ==
  ASSUME ArchiveTypeOK, TaskInStep, Busy
  PROVE  /\ ArtifactRecord \in Artifacts /\ Typed(ArtifactRecord)
         /\ ArtifactRecord.revision = memos[task.rec].revision
         /\ ArtifactRecord.report = memos[task.rec].ctx
<1>1. task \in WriteTasks /\ Mine \in Memos /\ Mine = memos[task.rec]
  BY BusyIs
<1>2. /\ ArtifactRecord.revision = Mine.revision /\ ArtifactRecord.format = task.format
      /\ ArtifactRecord.report = Mine.ctx
      /\ ArtifactRecord.type = IF task.op = "report" THEN ContentType(task.format) ELSE "none"
  BY DEF ArtifactRecord
<1>3. CASE task.op = "report"
  <2>1. task.format = "docx" \/ task.format = "markdown"
    BY <1>3, ArchiveTypes DEF TaskInStep
  <2>2. /\ ContentType(task.format) \in {"wordprocessing", "markdown"}
        /\ ContentType(task.format) = MediaType(task.format)
    BY <2>1 DEF ContentType, MediaType
  <2>3. Typed(ArtifactRecord)
    BY <1>2, <1>3, <2>2 DEF Typed
  <2>4. ArtifactRecord \in Artifacts
    BY <1>1, <1>3, <2>2 DEF ArtifactRecord, Artifacts, Memos, WriteTasks, Kinds
  <2> QED BY <1>1, <1>2, <2>3, <2>4
<1>4. CASE task.op # "report"
  <2>1. Typed(ArtifactRecord)
    BY <1>2, <1>4 DEF Typed
  <2>2. ArtifactRecord \in Artifacts
    BY <1>1, <1>4 DEF ArtifactRecord, Artifacts, Memos, WriteTasks, Kinds
  <2> QED BY <1>1, <1>2, <2>1, <2>2
<1> QED BY <1>3, <1>4

LEMMA FilesAre ==
  ASSUME ArchiveTypeOK, NEW a \in Artifacts
  PROVE  /\ FilesWith(a) \subseteq Files
         /\ [name |-> ReportName(a), report |-> a.report] \in FilesWith(a)
         /\ \A f \in FilesWith(a) :
              \/ f \in folder /\ f.name # ReportName(a)
              \/ f = [name |-> ReportName(a), report |-> a.report]
         /\ \A f \in folder : f.name # ReportName(a) => f \in FilesWith(a)
<1>1. [name |-> ReportName(a), report |-> a.report] \in Files
  BY DEF Files, ReportName, Artifacts
<1> QED BY <1>1 DEF FilesWith, ArchiveTypeOK

\* Saying something keeps the place of the request and the order of the turns.
LEMMA SayingKeeps ==
  ASSUME ArchiveTypeOK, TaskInStep, TurnsInStep, NEW n \in 1 .. 2, NEW r \in Memos,
         NEW of \in WriteTasks, NEW writes \in WriteLists, NEW then \in Stages \cup {"idle"},
         Says(n, r, of, writes, then), r.turns = memos[n].turns, of.rec = n,
         Busy => task.rec = n /\ ~Left("turn"), ~Busy => current = n,
         "turn" \in Range(writes), "audit" \notin Range(writes),
         "artifact" \in Range(writes) => then = "delivering",
         then = "parsing" => writes = <<"turn">> /\ of.question <= turnNo + 1,
         of.op = "report" => of.format \in ReportFormats, of.op = "cancel" => then = "idle",
         UNCHANGED <<current, row, turnRows, artifactRows, unsaid>>
  PROVE  TaskInStep' /\ TurnsInStep'
<1>1. /\ turnNo' = turnNo + 1 /\ turnNo' \in Nat
      /\ memos' \in [1 .. 2 -> Memos] /\ memos'[n].turns = Append(r.turns, turnNo + 1)
      /\ \A k \in 1 .. 2 : k # n => memos'[k] = memos[k]
      /\ task' \in WriteTasks /\ Busy' /\ Stage' = then /\ task'.pc = "writing"
      /\ task'.turn = turnNo + 1 /\ task'.writes = writes /\ task'.then = then
      /\ task'.op = of.op /\ task'.rec = of.rec /\ task'.format = of.format
      /\ task'.question = of.question /\ task'.rec = n
  <2>1. /\ turnNo' = turnNo + 1 /\ turnNo' \in Nat
        /\ memos' \in [1 .. 2 -> Memos] /\ memos'[n].turns = Append(r.turns, turnNo + 1)
        /\ \A k \in 1 .. 2 : k # n => memos'[k] = memos[k]
    BY SaysDoes
  <2>2. task' \in WriteTasks /\ Busy' /\ Stage' = then /\ task'.pc = "writing"
    BY SaysDoes
  <2>3. task'.turn = turnNo + 1 /\ task'.writes = writes /\ task'.then = then
    BY SaysDoes
  <2>4. /\ task'.op = of.op /\ task'.rec = of.rec /\ task'.format = of.format
        /\ task'.question = of.question
    BY SaysDoes
  <2> QED BY <2>1, <2>2, <2>3, <2>4
<1>2. /\ turnNo \in Nat /\ memos \in [1 .. 2 -> Memos] /\ current \in 0 .. 2
      /\ turnRows \in Seq(Nat)
  BY DEF ArchiveTypeOK
<1>3. r.turns \in Seq(Nat) /\ \A k \in 1 .. 2 : memos[k].turns \in Seq(Nat)
  BY <1>2 DEF Memos
<1>4. \A t \in Range(r.turns) : t \in Nat /\ t <= turnNo
  <2>1. \A t \in Range(r.turns) : t \in Nat
    BY <1>3 DEF Range
  <2> QED BY <2>1 DEF TurnsInStep
<1>5. /\ Rising(memos'[n].turns)
      /\ Range(memos'[n].turns) = Range(r.turns) \cup {turnNo + 1}
  <2>1. Rising(r.turns) /\ \A t \in Range(r.turns) : t < turnNo + 1
    BY <1>2, <1>4 DEF TurnsInStep
  <2> DEFINE number == turnNo + 1
  <2>2. number \in Nat /\ \A t \in Range(r.turns) : t < number
    BY <1>2, <2>1
  <2>3. memos'[n].turns = Append(r.turns, number)
    BY <1>1
  <2> HIDE DEF number
  <2>4. Range(Append(r.turns, number)) = Range(r.turns) \cup {number}
    <3>1. r.turns \in Seq(Nat) /\ number \in Nat
      BY <1>3, <2>2
    <3> QED BY ONLY <3>1, OneMore
  <2>5. Rising(Append(r.turns, number))
    BY <1>3, <2>1, <2>2, RisesOn
  <2> QED BY <2>3, <2>4, <2>5 DEF number
<1>6. \A t \in Range(turnRows) : t \in Nat /\ t <= turnNo
  <2>1. \A t \in Range(turnRows) : t \in Nat
    BY <1>2 DEF Range
  <2> QED BY <2>1 DEF TurnsInStep
<1>7. writes # <<>>
  BY WritesLeft
<1>8. \A k \in 1 .. 2 : k # n /\ k = current => Busy
  OBVIOUS
<1>9. TaskInStep'
  <2>1. Left("turn")' /\ ~Left("audit")' /\ (Left("artifact")' => task'.then = "delivering")
    BY <1>1 DEF Left
  <2>2. (Stage = "parsing" \/ Left("audit"))' => task'.question <= turnNo'
    BY <1>1, <2>1
  <2>3. task'.then = "parsing" => task'.writes \in {<<>>, <<"turn">>}
    BY <1>1
  <2>4. task'.turn <= turnNo' /\ task'.turn \in Range(memos'[task'.rec].turns)
    <3>1. task'.turn <= turnNo'
      BY <1>1, <1>2
    <3>2. task'.turn \in Range(memos'[n].turns)
      BY <1>1, <1>5
    <3> QED BY <1>1, <3>1, <3>2
  <2>5. current' \notin {0, task'.rec} => memos'[current'].turns = <<>>
    BY <1>1, <1>2, <1>8 DEF TaskInStep
  <2> QED BY <1>1, <1>7, <2>1, <2>2, <2>3, <2>4, <2>5 DEF TaskInStep
<1>10. Rising(turnRows') /\ \A t \in Range(turnRows') : t <= turnNo'
  BY <1>1, <1>2, <1>6 DEF TurnsInStep
<1>11. \A t \in Range(turnRows') : t < task'.turn
  BY <1>1, <1>2, <1>6
<1>12. row' = NoSession => turnRows' = <<>> /\ artifactRows' = <<>>
  BY DEF TurnsInStep
<1>13. ASSUME NEW k \in 1 .. 2
       PROVE  /\ Rising(memos'[k].turns)
              /\ \A t \in Range(memos'[k].turns) :
                   /\ t <= turnNo'
                   /\ \/ t \in Range(turnRows') \cup unsaid'
                      \/ Busy' /\ task'.turn = t /\ Left("turn")'
  <2>1. \A t \in Range(memos[k].turns) : t <= turnNo /\ t \in Range(turnRows) \cup unsaid /\ t \in Nat
    <3>1. \A t \in Range(memos[k].turns) : t \in Nat
      BY <1>3 DEF Range
    <3> QED BY <3>1 DEF TurnsInStep
  <2>2. CASE k = n
    <3>1. Left("turn")' /\ Busy' /\ task'.turn = turnNo + 1
      BY <1>1 DEF Left
    <3>2. ASSUME NEW t \in Range(memos'[n].turns)
          PROVE  /\ t <= turnNo'
                 /\ \/ t \in Range(turnRows) \cup unsaid
                    \/ Busy' /\ task'.turn = t /\ Left("turn")'
      <4>1. CASE t = turnNo + 1
        BY <1>1, <1>2, <3>1, <4>1
      <4>2. CASE t \in Range(memos[n].turns)
        BY <1>1, <1>2, <2>1, <2>2, <4>2
      <4> QED BY <1>5, <3>2, <4>1, <4>2
    <3> QED BY <1>5, <2>2, <3>2
  <2>3. CASE k # n
    <3>1. memos'[k] = memos[k] /\ Rising(memos[k].turns)
      BY <1>1, <2>3 DEF TurnsInStep
    <3>2. \A t \in Range(memos[k].turns) : t <= turnNo'
      BY <1>1, <1>2, <2>1
    <3> QED BY <2>1, <3>1, <3>2
  <2> QED BY <2>2, <2>3
<1>14. ASSUME current' # 0, NEW t \in Range(turnRows') \ Range(memos'[current'].turns),
              NEW u \in Range(memos'[current'].turns)
       PROVE  t < u
  <2>1. CASE current = n
    <3>1. t \in Range(turnRows) \ Range(memos[n].turns) /\ t <= turnNo /\ t \in Nat
      BY <1>5, <1>6, <1>14, <2>1
    <3>2. CASE u = turnNo + 1
      BY <1>2, <3>1, <3>2
    <3>3. CASE u \in Range(memos[n].turns)
      BY <1>14, <2>1, <3>1, <3>3 DEF TurnsInStep
    <3> QED BY <1>5, <1>14, <2>1, <3>2, <3>3
  <2>2. CASE current # n
    <3>1. memos'[current'] = memos[current]
      BY <1>1, <1>2, <1>14, <2>2
    <3> QED BY <1>14, <3>1 DEF TurnsInStep
  <2> QED BY <2>1, <2>2
<1>15. TurnsInStep'
  BY <1>10, <1>11, <1>12, <1>13, <1>14 DEF TurnsInStep
<1> QED BY <1>9, <1>15

\* Nothing is said.
LEMMA StillInOrder ==
  ASSUME ArchiveTypeOK, TurnsInStep, \A k \in 1 .. 2 : memos'[k].turns = memos[k].turns,
         UNCHANGED <<current, turnRows, unsaid, turnNo>>,
         row' = NoSession => row = NoSession /\ artifactRows' = artifactRows,
         (Busy /\ Left("turn"))' <=> Busy /\ Left("turn"),
         (Busy /\ Left("turn"))' => task'.turn = task.turn
  PROVE  TurnsInStep'
<1>1. Rising(turnRows') /\ \A t \in Range(turnRows') : t <= turnNo'
  BY DEF TurnsInStep
<1>2. (Busy /\ Left("turn"))' => \A t \in Range(turnRows') : t < task'.turn
  BY DEF TurnsInStep
<1>3. row' = NoSession => turnRows' = <<>> /\ artifactRows' = <<>>
  BY DEF TurnsInStep
<1>4. ASSUME NEW k \in 1 .. 2
      PROVE  /\ Rising(memos'[k].turns)
             /\ \A t \in Range(memos'[k].turns) :
                  /\ t <= turnNo'
                  /\ \/ t \in Range(turnRows') \cup unsaid'
                     \/ Busy' /\ task'.turn = t /\ Left("turn")'
  BY DEF TurnsInStep
<1>5. current' # 0 =>
        \A t \in Range(turnRows') \ Range(memos'[current'].turns) :
          \A u \in Range(memos'[current'].turns) : t < u
  <2>1. current # 0 => memos'[current'].turns = memos[current].turns
    BY DEF ArchiveTypeOK
  <2> QED BY <2>1 DEF TurnsInStep
<1> QED BY <1>1, <1>2, <1>3, <1>4, <1>5 DEF TurnsInStep

\* A write keeps the place of the request.
LEMMA WritesKeep ==
  ASSUME ArchiveTypeOK, TaskInStep, NEW what, Writing(what), Written,
         UNCHANGED <<memos, current, turnNo>>
  PROVE  TaskInStep'
<1> SUFFICES ASSUME Busy'
             PROVE  TaskInStep'
  BY DEF TaskInStep
<1>1. /\ Busy /\ Left(what) /\ task' \in WriteTasks /\ Stage' = Stage /\ task'.rec = task.rec
      /\ task'.op = task.op
      /\ task'.question = task.question /\ task'.turn = task.turn
      /\ task'.then = task.then /\ task'.format = task.format
      /\ Range(task'.writes) = Range(task.writes) \ {what}
      /\ (task'.pc = "writing" <=> task'.writes # <<>>)
      /\ task'.then = "parsing" => task'.writes \in {<<>>, <<"turn">>}
  BY WrittenDoes
<1>2. Left("audit")' => Left("audit")
  BY <1>1 DEF Left
<1>3. Left("turn")' => Left("turn")
  BY <1>1 DEF Left
<1>4. Left("turn")' => task'.turn <= turnNo' /\ task'.turn \in Range(memos'[task'.rec].turns)
  BY <1>1, <1>3 DEF TaskInStep
<1>5. current' \notin {0, task'.rec} => memos'[current'].turns = <<>>
  BY <1>1 DEF TaskInStep
<1>6. (Stage = "parsing" \/ Left("audit"))' => task'.question <= turnNo'
  BY <1>1, <1>2 DEF TaskInStep
<1>7. /\ Left("audit")' => task'.then \in {"allowed", "denied"}
      /\ Left("artifact")' => task'.then = "delivering"
  <2>1. Left("artifact")' => Left("artifact")
    BY <1>1 DEF Left
  <2> QED BY <1>1, <1>2, <2>1 DEF TaskInStep
<1>8. /\ task'.op = "report" => task'.format \in ReportFormats
      /\ task'.op = "cancel" => Stage' = "idle"
  BY <1>1 DEF TaskInStep
<1> QED BY <1>1, <1>4, <1>5, <1>6, <1>7, <1>8 DEF TaskInStep

\* No decision is made.
LEMMA DecisionsStill ==
  ASSUME ArchiveTypeOK, DecisionsInStep, UNCHANGED <<auditRows, unaudited>>,
         turnNo' \in Nat, turnNo <= turnNo',
         \A k \in 1 .. 2 : memos'[k].ctx \in Allowed \cup {0},
         \A f \in folder' : f.report \in Allowed, \A a \in announced' : a.report \in Allowed,
         (Busy /\ (Stage = "parsing" \/ Left("audit")))' =>
           \A d \in Range(auditRows) : d.question < task'.question,
         (Busy /\ Stage = "allowed" /\ ~Left("audit"))' => task'.question \in Allowed,
         (Busy /\ Stage = "rendering")' =>
           memos'[task'.rec].ctx # 0 /\ task'.op \in {"report", "confirm"}
  PROVE  DecisionsInStep'
<1>1. Allowed' = Allowed
  BY DEF Allowed
<1>2. \A i, j \in DOMAIN auditRows' : i < j => auditRows'[i].question < auditRows'[j].question
  BY DEF DecisionsInStep
<1>3. \A d \in Range(auditRows) : d.question \in Nat /\ d.question <= turnNo
  <2>1. \A d \in Range(auditRows) : d \in Audits
    BY DEF ArchiveTypeOK, Range
  <2> QED BY <2>1 DEF DecisionsInStep, Audits
<1>4. \A d \in Range(auditRows') : d.question <= turnNo'
  <2>1. turnNo \in Nat
    BY DEF ArchiveTypeOK
  <2> QED BY <1>3, <2>1
<1>5. (Busy /\ (Stage = "parsing" \/ Left("audit")))' =>
        \A d \in Range(auditRows') : d.question < task'.question
  OBVIOUS
<1> QED BY <1>1, <1>2, <1>4, <1>5 DEF DecisionsInStep

\* The same is announced.
LEMMA AnnouncedStill ==
  ASSUME ArchiveTypeOK, AnnouncedInStep, UNCHANGED <<current, announced, row, stale, loads>>,
         \A k \in 1 .. 2 : NotNewer(memos'[k]),
         current # 0 /\ announced # {} =>
           /\ Range(memos[current].artifacts) \subseteq Range(memos'[current].artifacts)
           /\ \/ /\ memos'[current].revision = memos[current].revision
                 /\ memos'[current].ctx = memos[current].ctx
              \/ memos'[current].revision = memos[current].revision + 1,
         \A f, g \in folder' : f.name = g.name => f = g,
         \A a \in announced : InFolder(a)',
         Busy' /\ task'.rec # current => announced = {}
  PROVE  AnnouncedInStep'
<1>1. \A r \in loads' : NotNewer(r)
  BY DEF AnnouncedInStep
<1>2. row' # NoSession => NotNewer(row')
  BY DEF AnnouncedInStep
<1>3. /\ announced' # {} /\ current' = 0 =>
           row' # NoSession /\ announced' \subseteq Range(row'.artifacts) /\ loads' \subseteq {row'}
      /\ announced' # {} /\ ~stale' /\ row' # NoSession =>
           announced' \subseteq Range(row'.artifacts)
  BY DEF AnnouncedInStep
<1>4. ASSUME NEW a \in announced', current' # 0
      PROVE  /\ a \in Range(memos'[current'].artifacts)
             /\ a.revision = memos'[current'].revision => memos'[current'].ctx \in {0, a.report}
  <2>1. /\ a \in Range(memos[current].artifacts)
        /\ a.revision = memos[current].revision => memos[current].ctx \in {0, a.report}
        /\ NotNewer(memos[current])
    BY <1>4 DEF AnnouncedInStep, ArchiveTypeOK
  <2>2. a.revision \in Nat /\ memos[current].revision \in Nat
    BY <1>4 DEF ArchiveTypeOK, Artifacts, Memos
  <2>3. a.revision <= memos[current].revision
    BY <2>1 DEF NotNewer
  <2>4. a \in Range(memos'[current].artifacts)
    BY <1>4, <2>1
  <2>5. CASE memos'[current].revision = memos[current].revision /\ memos'[current].ctx = memos[current].ctx
    BY <2>1, <2>4, <2>5
  <2>6. CASE memos'[current].revision = memos[current].revision + 1
    BY <2>2, <2>3, <2>4, <2>6
  <2> QED BY <1>4, <2>5, <2>6
<1>5. \A a \in announced' : InFolder(a)' /\ Typed(a)
  BY DEF AnnouncedInStep
<1>6. Busy' /\ task'.rec # current' => announced' = {}
  OBVIOUS
<1>7. \A a \in announced' :
       /\ InFolder(a)' /\ Typed(a)
       /\ current' # 0 =>
            /\ a \in Range(memos'[current'].artifacts)
            /\ a.revision = memos'[current'].revision =>
                 memos'[current'].ctx \in {0, a.report}
  BY <1>4, <1>5
<1> QED BY <1>1, <1>2, <1>3, <1>6, <1>7 DEF AnnouncedInStep

\* A request may begin.
LEMMA RequestIs ==
  ASSUME ArchiveTypeOK, MayBegin, NEW op \in {"send", "cancel", "report", "confirm"},
         NEW format \in ReportFormats \cup {"none"}
  PROVE  /\ ~Busy /\ current \in 1 .. 2 /\ RequestFor(op, format) \in WriteTasks
         /\ RequestFor(op, format).op = op /\ RequestFor(op, format).rec = current
         /\ RequestFor(op, format).format = format
         /\ RequestFor(op, format).question = turnNo + 1
         /\ RequestFor(op, format).writes = <<>> /\ RequestFor(op, format).then = "idle"
<1>1. ~Busy /\ current \in 1 .. 2 /\ turnNo \in Nat
  BY DEF MayBegin, Busy, ArchiveTypeOK
<1>2. RequestFor(op, format) \in WriteTasks
  BY <1>1 DEF RequestFor, WriteTasks
<1> QED BY <1>1, <1>2 DEF RequestFor

-----------------------------------------------------------------------------
(* What is said *)

LEMMA SpeakKeeps ==
  ASSUME ArchiveInv, NEW n \in 1 .. 2, NEW r \in Memos,
         NEW of \in WriteTasks, NEW writes \in WriteLists, NEW then \in {"idle", "parsing", "rendering"},
         Says(n, r, of, writes, then), r.turns = memos[n].turns, of.rec = n,
         Busy => task.rec = n /\ ~Left("turn"), ~Busy => current = n,
         "turn" \in Range(writes), "audit" \notin Range(writes),
         "artifact" \notin Range(writes),
         then = "parsing" => writes = <<"turn">> /\ of.question = turnNo + 1,
         of.op = "report" => of.format \in ReportFormats, of.op = "cancel" => then = "idle",
         r.artifacts = memos[n].artifacts,
         \/ r.revision = memos[n].revision /\ r.ctx = memos[n].ctx
         \/ r.revision = memos[n].revision + 1 /\ r.ctx \in Allowed,
         then = "rendering" => r.ctx # 0 /\ of.op \in {"report", "confirm"},
         UNCHANGED <<folder, Elsewhere>>
  PROVE  ArchiveInv'
<1> USE DEF ArchiveInv
<1> then \in Stages \cup {"idle"}
  BY DEF Stages
<1>1. /\ turnNo' = turnNo + 1 /\ turnNo' \in Nat
      /\ memos' \in [1 .. 2 -> Memos]
      /\ memos'[n].artifacts = r.artifacts /\ memos'[n].revision = r.revision
      /\ memos'[n].ctx = r.ctx
      /\ \A k \in 1 .. 2 : k # n => memos'[k] = memos[k]
  BY SaysDoes
<1>2. task' \in WriteTasks /\ Busy' /\ Stage' = then /\ task'.pc = "writing"
  BY SaysDoes
<1>3. task'.writes = writes /\ task'.op = of.op /\ task'.rec = n /\ task'.question = of.question
  <2>1. task'.rec = of.rec
    BY SaysDoes
  <2>2. task'.writes = writes /\ task'.op = of.op /\ task'.question = of.question
    BY SaysDoes
  <2> QED BY <2>1, <2>2
<1>4. UNCHANGED <<keeping, current, row, turnRows, artifactRows, auditRows, loads, removing,
                  announced, unsaid, unaudited, stale, archiveFaults, folder>>
  BY DEF Elsewhere, tables, notes
<1>5. ArchiveTypeOK'
  BY <1>1, <1>2, <1>4 DEF ArchiveTypeOK
<1>6. turnNo \in Nat
  BY DEF ArchiveTypeOK
<1>7. TaskInStep' /\ TurnsInStep'
  <2>1. then = "parsing" => writes = <<"turn">> /\ of.question <= turnNo + 1
    BY <1>6
  <2> QED BY <1>4, <2>1, SayingKeeps
<1>8. DecisionsInStep'
  <2>1. \A k \in 1 .. 2 : memos'[k].ctx \in Allowed \cup {0}
    BY <1>1 DEF DecisionsInStep
  <2>2. ~Left("audit")'
    BY <1>3 DEF Left
  <2>3. ASSUME then = "parsing", NEW d \in Range(auditRows)
        PROVE  d.question < task'.question
    <3>1. d \in Audits /\ d.question <= turnNo
      BY DEF DecisionsInStep, ArchiveTypeOK, Range
    <3> QED BY <1>3, <1>6, <2>3, <3>1 DEF Audits
  <2>4. then = "rendering" => memos'[task'.rec].ctx # 0 /\ task'.op \in {"report", "confirm"}
    BY <1>1, <1>3
  <2>5. turnNo <= turnNo'
    BY <1>1, <1>6
  <2>6. /\ \A f \in folder' : f.report \in Allowed
        /\ \A a \in announced' : a.report \in Allowed
    BY <1>4 DEF DecisionsInStep
  <2>7. Stage' # "allowed"
    BY <1>2
  <2> QED BY <1>1, <1>2, <1>4, <2>1, <2>2, <2>3, <2>4, <2>5, <2>6, <2>7, DecisionsStill
<1>9. DeliveryInStep'
  BY <1>2 DEF DeliveryInStep
<1>10. AnnouncedInStep'
  <2>1. memos \in [1 .. 2 -> Memos] /\ current \in 0 .. 2
    BY DEF ArchiveTypeOK
  <2>2. \A k \in 1 .. 2 : NotNewer(memos'[k])
    <3>1. NotNewer(memos'[n])
      <4>1. NotNewer(memos[n]) /\ memos[n].revision \in Nat /\ memos[n].artifacts \in Seq(Artifacts)
        BY <2>1 DEF AnnouncedInStep, Memos
      <4>2. \A a \in Range(memos[n].artifacts) : a.revision \in Nat
        <5>1. \A a \in Range(memos[n].artifacts) : a \in Artifacts
          BY <4>1 DEF Range
        <5> QED BY <5>1 DEF Artifacts
      <4>3. memos'[n].revision \in {memos[n].revision, memos[n].revision + 1}
        BY <1>1
      <4> QED BY <1>1, <4>1, <4>2, <4>3 DEF NotNewer
    <3> QED BY <1>1, <3>1 DEF AnnouncedInStep
  <2>3. current # 0 /\ announced # {} => current = n
    BY <2>1 DEF AnnouncedInStep
  <2>4. current # 0 /\ announced # {} =>
          /\ Range(memos[current].artifacts) \subseteq Range(memos'[current].artifacts)
          /\ \/ /\ memos'[current].revision = memos[current].revision
                /\ memos'[current].ctx = memos[current].ctx
             \/ memos'[current].revision = memos[current].revision + 1
    BY <1>1, <2>3
  <2>5. /\ \A f, g \in folder' : f.name = g.name => f = g
        /\ \A a \in announced : InFolder(a)'
    BY <1>4 DEF AnnouncedInStep, InFolder
  <2>6. Busy' /\ task'.rec # current => announced = {}
    BY <1>3 DEF AnnouncedInStep
  <2> QED BY <1>4, <2>2, <2>4, <2>5, <2>6, AnnouncedStill
<1> QED BY <1>5, <1>7, <1>8, <1>9, <1>10

\* A request that is not writing.
LEMMA Working ==
  ASSUME ArchiveTypeOK, TaskInStep, task.pc \in Stages
  PROVE  /\ Busy /\ task \in WriteTasks /\ Stage = task.pc /\ task.writes = <<>>
         /\ \A what : ~Left(what)
         /\ task.rec \in 1 .. 2 /\ Mine \in Memos /\ Mine = memos[task.rec]
<1>1. task.pc # "idle" /\ task.pc # "writing"
  BY DEF Stages
<1>2. /\ Busy /\ task \in WriteTasks /\ task.rec \in 1 .. 2 /\ Mine \in Memos
      /\ Mine = memos[task.rec]
  BY <1>1, BusyIs
<1>3. task.writes = <<>> /\ Stage = task.pc
  BY <1>1, <1>2 DEF TaskInStep, Stage
<1>4. \A what : ~Left(what)
  BY <1>3, WritesAre DEF Left
<1> QED BY <1>2, <1>3, <1>4

LEMMA ChatKeeps ==
  ASSUME ArchiveInv, Chat \/ CancelArchive
  PROVE  ArchiveInv'
<1>1. ArchiveTypeOK
  BY DEF ArchiveInv
<1>2. PICK op \in {"send", "cancel"} :
        \E state \in States :
          /\ MayBegin
          /\ Says(current, [memos[current] EXCEPT !.state = state], RequestFor(op, "none"),
                  <<"turn", "session">>, "idle")
          /\ UNCHANGED <<folder, Elsewhere>>
  <2>1. CASE Chat
    <3>1. MayBegin
      BY <2>1 DEF Chat
    <3>2. current \in 1 .. 2 /\ memos[current] \in Memos
      BY <1>1, <3>1 DEF MayBegin, ArchiveTypeOK
    <3>3. /\ memos[current] = [memos[current] EXCEPT !.state = memos[current].state]
          /\ memos[current].state \in States
      BY <3>2 DEF Memos
    <3>4. Says(current, [memos[current] EXCEPT !.state = memos[current].state],
               RequestFor("send", "none"), <<"turn", "session">>, "idle")
      BY <2>1, <3>3 DEF Chat
    <3> QED BY <2>1, <3>1, <3>3, <3>4 DEF Chat
  <2>2. CASE CancelArchive
    <3>1. "cancelled" \in States
      BY DEF States, Ended
    <3> QED BY <2>2, <3>1 DEF CancelArchive
  <2> QED BY <2>1, <2>2
<1>3. PICK state \in States :
          /\ MayBegin
          /\ Says(current, [memos[current] EXCEPT !.state = state], RequestFor(op, "none"),
                  <<"turn", "session">>, "idle")
          /\ UNCHANGED <<folder, Elsewhere>>
  BY <1>2
<1> DEFINE r == [memos[current] EXCEPT !.state = state]
           of == RequestFor(op, "none")
           writes == <<"turn", "session">>
<1>4. /\ ~Busy /\ current \in 1 .. 2 /\ of \in WriteTasks /\ of.op = op /\ of.rec = current
  BY <1>1, <1>3, RequestIs
<1>5. memos[current] \in Memos
  BY <1>1, <1>4 DEF ArchiveTypeOK
<1>6. /\ r \in Memos /\ r.turns = memos[current].turns /\ r.artifacts = memos[current].artifacts
      /\ r.revision = memos[current].revision /\ r.ctx = memos[current].ctx
  BY <1>5 DEF Memos
<1>7. /\ writes \in WriteLists /\ "turn" \in Range(writes) /\ "audit" \notin Range(writes)
      /\ "artifact" \notin Range(writes)
  BY WritesAre DEF WriteLists
<1>8. of.op # "report"
  BY <1>2, <1>4
<1>9. Says(current, r, of, writes, "idle")
  BY <1>3
<1> HIDE DEF r, of, writes
<1> QED BY <1>3, <1>4, <1>6, <1>7, <1>8, <1>9, SpeakKeeps

LEMMA DriveKeeps ==
  ASSUME ArchiveInv, NEW op \in {"send", "report", "confirm"},
         NEW format \in ReportFormats \cup {"none"},
         op = "report" => format \in ReportFormats, Drive(op, format)
  PROVE  ArchiveInv'
<1>1. ArchiveTypeOK
  BY DEF ArchiveInv
<1> DEFINE r == [memos[current] EXCEPT !.state = "parsing", !.asked = TRUE]
           of == RequestFor(op, format)
           writes == <<"turn">>
<1>2. MayBegin /\ Says(current, r, of, writes, "parsing") /\ UNCHANGED <<folder, Elsewhere>>
  BY DEF Drive
<1>3. /\ ~Busy /\ current \in 1 .. 2 /\ of \in WriteTasks /\ of.op = op /\ of.rec = current
      /\ of.format = format /\ of.question = turnNo + 1
  BY <1>1, <1>2, RequestIs
<1>4. memos[current] \in Memos
  BY <1>1, <1>3 DEF ArchiveTypeOK
<1>5. /\ r \in Memos /\ r.turns = memos[current].turns /\ r.artifacts = memos[current].artifacts
      /\ r.revision = memos[current].revision /\ r.ctx = memos[current].ctx
  BY <1>4 DEF Memos, States
<1>6. /\ writes \in WriteLists /\ "turn" \in Range(writes) /\ "audit" \notin Range(writes)
      /\ "artifact" \notin Range(writes)
      /\ writes = <<"turn">>
  BY WritesAre DEF WriteLists
<1>7. of.op # "cancel" /\ (of.op = "report" => of.format \in ReportFormats)
  BY <1>3
<1> HIDE DEF r, of, writes
<1> QED BY <1>2, <1>3, <1>5, <1>6, <1>7, SpeakKeeps

LEMMA AskBackKeeps ==
  ASSUME ArchiveInv, AskBack
  PROVE  ArchiveInv'
<1>1. ArchiveTypeOK /\ TaskInStep /\ task.pc = "parsing" /\ "parsing" \in Stages
  BY DEF ArchiveInv, AskBack, Stages
<1>2. /\ Busy /\ task \in WriteTasks /\ \A what : ~Left(what)
      /\ task.rec \in 1 .. 2 /\ Mine \in Memos /\ Mine = memos[task.rec]
  BY <1>1, Working
<1> DEFINE r == [Mine EXCEPT !.state = "clarifying"]
           writes == <<"turn", "session">>
<1>3. Says(task.rec, r, task, writes, "idle") /\ UNCHANGED <<folder, Elsewhere>>
  BY DEF AskBack
<1>4. /\ r \in Memos /\ r.turns = Mine.turns /\ r.artifacts = Mine.artifacts
      /\ r.revision = Mine.revision /\ r.ctx = Mine.ctx
  BY <1>2 DEF Memos, States
<1>5. /\ writes \in WriteLists /\ "turn" \in Range(writes) /\ "audit" \notin Range(writes)
      /\ "artifact" \notin Range(writes)
  BY WritesAre DEF WriteLists
<1>6. task.op = "report" => task.format \in ReportFormats
  BY <1>1, <1>2 DEF TaskInStep
<1> HIDE DEF r, writes
<1> QED BY <1>2, <1>3, <1>4, <1>5, <1>6, SpeakKeeps

LEMMA ComposeKeeps ==
  ASSUME ArchiveInv, Compose
  PROVE  ArchiveInv'
<1>1. ArchiveTypeOK /\ TaskInStep /\ task.pc = "allowed" /\ "allowed" \in Stages
  BY DEF ArchiveInv, Compose, Stages
<1>2. /\ Busy /\ task \in WriteTasks /\ Stage = "allowed" /\ \A what : ~Left(what)
      /\ task.rec \in 1 .. 2 /\ Mine \in Memos /\ Mine = memos[task.rec]
  BY <1>1, Working
<1> DEFINE r == [Mine EXCEPT !.state = "previewing", !.ctx = task.question, !.revision = @ + 1]
           writes == <<"turn", "session">>
           then == IF task.op = "send" THEN "idle" ELSE "rendering"
<1>3. Says(task.rec, r, task, writes, then) /\ UNCHANGED <<folder, Elsewhere>>
  BY DEF Compose
<1>4. task.question \in Nat \ {0} /\ task.question \in Allowed
  BY <1>2 DEF ArchiveInv, DecisionsInStep, WriteTasks
<1>5. /\ r \in Memos /\ r.turns = Mine.turns /\ r.artifacts = Mine.artifacts
      /\ r.revision = Mine.revision + 1 /\ r.ctx = task.question
  <2> DEFINE number == Mine.revision + 1
             question == task.question
  <2>1. number \in Nat /\ question \in Nat
    BY <1>2, <1>4 DEF Memos
  <2>2. r = [Mine EXCEPT !.state = "previewing", !.ctx = question, !.revision = number]
    BY <1>2 DEF Memos
  <2> HIDE DEF r, number, question
  <2>3. r \in Memos
    BY <1>2, <2>1, <2>2 DEF Memos, States
  <2>4. r.turns = Mine.turns /\ r.artifacts = Mine.artifacts /\ r.revision = number /\ r.ctx = question
    BY <1>2, <2>2 DEF Memos
  <2> QED BY <2>3, <2>4 DEF number, question
<1>6. /\ writes \in WriteLists /\ "turn" \in Range(writes) /\ "audit" \notin Range(writes)
      /\ "artifact" \notin Range(writes)
  BY WritesAre DEF WriteLists
<1>7. /\ task.op = "report" => task.format \in ReportFormats
      /\ task.op # "cancel"
  BY <1>1, <1>2 DEF TaskInStep
<1>8. task.op \in {"send", "cancel", "report", "confirm"}
  BY <1>2 DEF WriteTasks
<1>9. then \in {"idle", "rendering"} /\ (then = "rendering" => task.op \in {"report", "confirm"})
  BY <1>7, <1>8
<1> HIDE DEF r, writes, then
<1> QED BY <1>2, <1>3, <1>4, <1>5, <1>6, <1>7, <1>9, SpeakKeeps

-----------------------------------------------------------------------------
(* What is done without a word *)

\* The request goes on and the session stays.
LEMMA PassOn ==
  ASSUME ArchiveInv, task.pc \in Stages,
         NEW of \in WriteTasks, task' = of, of.rec = task.rec, of.op = task.op,
         of.format = task.format, of.question = task.question,
         of.pc = "writing" <=> of.writes # <<>>, "turn" \notin Range(of.writes),
         "audit" \in Range(of.writes) => of.then \in {"allowed", "denied"} /\ task.pc = "parsing",
         "artifact" \in Range(of.writes) => of.then = "delivering",
         of.then # "parsing", of.pc # "parsing",
         of.pc = "writing" => of.then # "idle",
         of.pc = "writing" \/ of.pc = "rendering",
         UNCHANGED <<current, turnNo>>, \A k \in 1 .. 2 : memos'[k].turns = memos[k].turns
  PROVE  TaskInStep'
<1>1. TaskInStep /\ ArchiveTypeOK
  BY DEF ArchiveInv
<1>2. /\ Busy /\ task \in WriteTasks /\ Stage = task.pc /\ \A what : ~Left(what)
      /\ task.rec \in 1 .. 2
  BY <1>1, Working
<1>3. /\ (of.pc = "writing" <=> of.writes # <<>>) /\ ~Left("turn")'
      /\ Left("artifact")' => of.then = "delivering"
  BY DEF Left
<1>4. Left("audit")' => of.then \in {"allowed", "denied"} /\ task.pc = "parsing"
  BY DEF Left
<1>5. Stage' # "parsing"
  BY DEF Stage
<1>6. Left("audit")' => of.question <= turnNo'
  BY <1>2, <1>4 DEF TaskInStep, ArchiveInv
<1>7. current' \notin {0, of.rec} => memos'[current'].turns = <<>>
  BY <1>1, <1>2 DEF TaskInStep, ArchiveTypeOK
<1>8. of.op = "report" => of.format \in ReportFormats
  BY <1>1, <1>2 DEF TaskInStep
<1>9. of.op # "cancel"
  BY <1>1, <1>2 DEF TaskInStep, Stages
<1> QED BY <1>3, <1>4, <1>5, <1>6, <1>7, <1>8, <1>9 DEF TaskInStep

LEMMA GateKeeps ==
  ASSUME ArchiveInv, Gate
  PROVE  ArchiveInv'
<1>1. /\ ArchiveTypeOK /\ TaskInStep /\ TurnsInStep /\ DecisionsInStep /\ AnnouncedInStep
      /\ task.pc = "parsing" /\ "parsing" \in Stages
  BY DEF ArchiveInv, Gate, Stages
<1>2. /\ Busy /\ task \in WriteTasks /\ Stage = "parsing" /\ \A what : ~Left(what)
      /\ task.rec \in 1 .. 2
  BY <1>1, Working
<1>3. PICK decision \in {"allowed", "denied"} :
        task' = [task EXCEPT !.pc = "writing", !.writes = <<"audit">>, !.then = decision]
  BY DEF Gate
<1>4. UNCHANGED <<keeping, memos, current, row, turnRows, artifactRows, auditRows, loads, removing,
                  announced, unsaid, unaudited, stale, archiveFaults, folder, turnNo>>
  BY DEF Gate, Elsewhere, tables, notes
<1>5. <<"audit">> \in WriteLists /\ Range(<<"audit">>) = {"audit"} /\ <<"audit">> # <<>>
  BY WritesAre, WritesLeft DEF WriteLists
<1>6. /\ task' \in WriteTasks /\ task'.pc = "writing" /\ task'.writes = <<"audit">>
      /\ task'.then = decision /\ task'.rec = task.rec /\ task'.op = task.op
      /\ task'.format = task.format /\ task'.question = task.question
  BY <1>2, <1>3, <1>5 DEF WriteTasks, Stages
<1>7. Busy' /\ Left("audit")' /\ ~Left("turn")' /\ Stage' = decision
  BY <1>5, <1>6, ArchiveTypes DEF Busy, Left, Stage
<1>8. ArchiveTypeOK'
  BY <1>1, <1>4, <1>6 DEF ArchiveTypeOK
<1>9. TaskInStep'
  <2>1. /\ \A k \in 1 .. 2 : memos'[k].turns = memos[k].turns
        /\ "turn" \notin Range(task'.writes) /\ "artifact" \notin Range(task'.writes) /\ task'.writes # <<>>
        /\ task'.then \in {"allowed", "denied"}
    BY <1>4, <1>5, <1>6
  <2> QED BY <1>1, <1>4, <1>6, <2>1, PassOn
<1>10. TurnsInStep'
  BY <1>1, <1>2, <1>4, <1>7, StillInOrder
<1>11. DecisionsInStep'
  <2>1. turnNo \in Nat /\ turnNo <= turnNo
    BY <1>1 DEF ArchiveTypeOK
  <2>2. \A d \in Range(auditRows) : d.question < task'.question
    BY <1>1, <1>2, <1>6 DEF DecisionsInStep
  <2>3. /\ \A k \in 1 .. 2 : memos'[k].ctx \in Allowed \cup {0}
        /\ \A f \in folder' : f.report \in Allowed
        /\ \A a \in announced' : a.report \in Allowed
    BY <1>1, <1>4 DEF DecisionsInStep
  <2> QED BY <1>1, <1>4, <1>7, <2>1, <2>2, <2>3, DecisionsStill
<1>12. DeliveryInStep'
  BY <1>7 DEF DeliveryInStep
<1>13. AnnouncedInStep'
  <2>1. \A a : InFolder(a)' <=> InFolder(a)
    BY <1>4 DEF InFolder
  <2>2. /\ \A k \in 1 .. 2 : NotNewer(memos'[k])
        /\ \A f, g \in folder' : f.name = g.name => f = g
        /\ \A a \in announced : InFolder(a)'
        /\ Busy' /\ task'.rec # current => announced = {}
    BY <1>1, <1>2, <1>4, <1>6, <2>1 DEF AnnouncedInStep
  <2> QED BY <1>1, <1>4, <2>2, AnnouncedStill
<1> QED BY <1>8, <1>9, <1>10, <1>11, <1>12, <1>13 DEF ArchiveInv

LEMMA FailsKeeps ==
  ASSUME ArchiveInv, PipelineFails
  PROVE  ArchiveInv'
<1>1. /\ ArchiveTypeOK /\ TaskInStep /\ TurnsInStep /\ DecisionsInStep /\ AnnouncedInStep
      /\ task.pc \in Stages
  BY DEF ArchiveInv, PipelineFails, Stages
<1>2. /\ Busy /\ task \in WriteTasks /\ \A what : ~Left(what)
      /\ task.rec \in 1 .. 2
  BY <1>1, Working
<1>3. PICK more \in {0, 1} :
        memos' = [memos EXCEPT ![task.rec].state = "failed", ![task.rec].revision = @ + more]
  BY DEF PipelineFails
<1>4. /\ task' = NoTask
      /\ UNCHANGED <<keeping, current, row, turnRows, artifactRows, auditRows, loads, removing,
                     announced, unsaid, unaudited, stale, archiveFaults, folder, turnNo>>
  BY DEF PipelineFails, Elsewhere, tables, notes
<1>5. memos \in [1 .. 2 -> Memos] /\ memos[task.rec] \in Memos
  BY <1>1, <1>2 DEF ArchiveTypeOK
<1> DEFINE n == task.rec
<1>6. n \in 1 .. 2 /\ memos' = [memos EXCEPT ![n].state = "failed", ![n].revision = @ + more]
  BY <1>2, <1>3
<1> HIDE DEF n
<1>7. memos[n].revision \in Nat /\ memos[n].revision + more \in Nat /\ memos[n] \in Memos
  BY <1>5, <1>6 DEF Memos
<1>8. /\ memos'[n].turns = memos[n].turns /\ memos'[n].artifacts = memos[n].artifacts
      /\ memos'[n].revision = memos[n].revision + more /\ memos'[n].ctx = memos[n].ctx
  BY <1>5, <1>6 DEF Memos
<1>9. /\ memos' \in [1 .. 2 -> Memos]
      /\ \A k \in 1 .. 2 : k # n => memos'[k] = memos[k]
  BY <1>5, <1>6, <1>7 DEF Memos, States, Ended
<1>10. ~Busy'
  BY <1>4 DEF Busy
<1>11. ArchiveTypeOK'
  BY <1>1, <1>4, <1>9 DEF ArchiveTypeOK
<1>12. TaskInStep' /\ DeliveryInStep'
  BY <1>10 DEF TaskInStep, DeliveryInStep
<1>13. TurnsInStep'
  <2>1. \A k \in 1 .. 2 : memos'[k].turns = memos[k].turns
    BY <1>8, <1>9
  <2> QED BY <1>1, <1>2, <1>4, <1>10, <2>1, StillInOrder
<1>14. DecisionsInStep'
  <2>1. turnNo \in Nat /\ turnNo <= turnNo
    BY <1>1 DEF ArchiveTypeOK
  <2>2. \A k \in 1 .. 2 : memos'[k].ctx \in Allowed \cup {0}
    BY <1>1, <1>2, <1>8, <1>9 DEF DecisionsInStep
  <2>3. /\ \A f \in folder' : f.report \in Allowed
        /\ \A a \in announced' : a.report \in Allowed
    BY <1>1, <1>4 DEF DecisionsInStep
  <2> QED BY <1>1, <1>4, <1>10, <2>1, <2>2, <2>3, DecisionsStill
<1>15. AnnouncedInStep'
  <2>1. \A a : InFolder(a)' <=> InFolder(a)
    BY <1>4 DEF InFolder
  <2>2. /\ \A f, g \in folder' : f.name = g.name => f = g
        /\ \A a \in announced : InFolder(a)'
    BY <1>1, <1>4, <2>1 DEF AnnouncedInStep
  <2>3. \A k \in 1 .. 2 : NotNewer(memos'[k])
    <3>1. NotNewer(memos[n]) /\ memos[n].revision \in Nat
      BY <1>1, <1>6, <1>7 DEF AnnouncedInStep
    <3>2. \A a \in Range(memos[n].artifacts) : a.revision \in Nat
      <4>1. \A a \in Range(memos[n].artifacts) : a \in Artifacts
        BY <1>7 DEF Range, Memos
      <4> QED BY <4>1 DEF Artifacts
    <3>3. NotNewer(memos'[n])
      BY <1>7, <1>8, <3>1, <3>2 DEF NotNewer
    <3> QED BY <1>1, <1>9, <3>3 DEF AnnouncedInStep
  <2>4. current # 0 /\ announced # {} => current = n
    BY <1>1, <1>2 DEF AnnouncedInStep, n
  <2>5. current # 0 /\ announced # {} =>
           /\ Range(memos[current].artifacts) \subseteq Range(memos'[current].artifacts)
           /\ \/ /\ memos'[current].revision = memos[current].revision
                 /\ memos'[current].ctx = memos[current].ctx
              \/ memos'[current].revision = memos[current].revision + 1
    BY <1>7, <1>8, <1>9, <2>4
  <2> QED BY <1>1, <1>4, <1>10, <2>2, <2>3, <2>5, AnnouncedStill
<1> QED BY <1>11, <1>12, <1>13, <1>14, <1>15 DEF ArchiveInv

LEMMA ConfirmKeeps ==
  ASSUME ArchiveInv, NEW format \in ReportFormats, ConfirmPreview(format)
  PROVE  ArchiveInv'
<1>1. /\ ArchiveTypeOK /\ TaskInStep /\ TurnsInStep /\ DecisionsInStep /\ AnnouncedInStep
      /\ MayBegin /\ memos[current].ctx # 0
  BY DEF ArchiveInv, ConfirmPreview
<1> DEFINE of == RequestFor("confirm", format)
<1>2. /\ ~Busy /\ current \in 1 .. 2 /\ of \in WriteTasks /\ of.op = "confirm" /\ of.rec = current
      /\ of.format = format /\ of.writes = <<>> /\ of.then = "idle"
  BY <1>1, RequestIs
<1> HIDE DEF of
<1>3. /\ task' = [of EXCEPT !.pc = "rendering"]
      /\ UNCHANGED <<keeping, memos, current, row, turnRows, artifactRows, auditRows, loads, removing,
                  announced, unsaid, unaudited, stale, archiveFaults, folder, turnNo>>
  BY DEF ConfirmPreview, Elsewhere, tables, notes, of
<1>4. /\ task' \in WriteTasks /\ task'.pc = "rendering" /\ task'.op = "confirm" /\ task'.rec = current
      /\ task'.writes = <<>> /\ task'.then = "idle"
  BY <1>2, <1>3 DEF WriteTasks, Stages
<1>5. Busy' /\ ~Left("audit")' /\ ~Left("turn")' /\ ~Left("artifact")' /\ Stage' = "rendering"
  BY <1>4, ArchiveTypes, WritesAre DEF Busy, Left, Stage
<1>6. ArchiveTypeOK'
  BY <1>1, <1>3, <1>4 DEF ArchiveTypeOK
<1>7. TaskInStep'
  BY <1>3, <1>4, <1>5 DEF TaskInStep
<1>8. TurnsInStep'
  BY <1>1, <1>2, <1>3, <1>5, StillInOrder
<1>9. DecisionsInStep'
  <2>1. turnNo \in Nat /\ turnNo <= turnNo
    BY <1>1 DEF ArchiveTypeOK
  <2>2. /\ \A k \in 1 .. 2 : memos'[k].ctx \in Allowed \cup {0}
        /\ \A f \in folder' : f.report \in Allowed
        /\ \A a \in announced' : a.report \in Allowed
    BY <1>1, <1>3 DEF DecisionsInStep
  <2>3. memos'[task'.rec].ctx # 0 /\ task'.op \in {"report", "confirm"}
    BY <1>1, <1>3, <1>4
  <2> QED BY <1>1, <1>3, <1>5, <2>1, <2>2, <2>3, DecisionsStill
<1>10. DeliveryInStep'
  BY <1>5 DEF DeliveryInStep
<1>11. AnnouncedInStep'
  <2>1. \A a : InFolder(a)' <=> InFolder(a)
    BY <1>3 DEF InFolder
  <2>2. /\ \A k \in 1 .. 2 : NotNewer(memos'[k])
        /\ \A f, g \in folder' : f.name = g.name => f = g
        /\ \A a \in announced : InFolder(a)'
        /\ Busy' /\ task'.rec # current => announced = {}
    BY <1>1, <1>2, <1>3, <1>4, <2>1 DEF AnnouncedInStep
  <2> QED BY <1>1, <1>3, <2>2, AnnouncedStill
<1> QED BY <1>6, <1>7, <1>8, <1>9, <1>10, <1>11 DEF ArchiveInv

\* The folder with a report that is allowed: what was announced is still there.
LEMMA FolderKeeps ==
  ASSUME ArchiveInv, task.pc = "rendering", folder' = FilesWith(ArtifactRecord)
  PROVE  /\ folder' \subseteq Files /\ \A f, g \in folder' : f.name = g.name => f = g
         /\ \A f \in folder' : f.report \in Allowed
         /\ \A a \in announced : InFolder(a)'
         /\ [name |-> ReportName(ArtifactRecord), report |-> ArtifactRecord.report] \in folder'
         /\ ArtifactRecord.report \in Allowed
<1>1. /\ ArchiveTypeOK /\ TaskInStep /\ DecisionsInStep /\ AnnouncedInStep
      /\ task.pc \in Stages
  BY DEF ArchiveInv, Stages
<1>2. Busy /\ Stage = "rendering" /\ task.rec \in 1 .. 2
  BY <1>1, Working
<1> DEFINE new == ArtifactRecord
           n == task.rec
           file == [name |-> ReportName(new), report |-> new.report]
<1>3. new \in Artifacts /\ new.revision = memos[n].revision /\ new.report = memos[n].ctx
  BY <1>1, <1>2, RecordIs
<1>4. /\ folder' \subseteq Files /\ file \in folder'
      /\ \A f \in folder' : (f \in folder /\ f.name # ReportName(new)) \/ f = file
      /\ \A f \in folder : f.name # ReportName(new) => f \in folder'
  BY <1>1, <1>3, FilesAre
<1> HIDE DEF new, n
<1>5. new.report \in Allowed /\ new.report # 0
  BY <1>1, <1>2, <1>3 DEF DecisionsInStep, n
<1>6. file.name = ReportName(new) /\ file.report = new.report
  OBVIOUS
<1> HIDE DEF file
<1>7. \A f, g \in folder' : f.name = g.name => f = g
  BY <1>1, <1>4, <1>6 DEF AnnouncedInStep
<1>8. \A f \in folder' : f.report \in Allowed
  BY <1>1, <1>4, <1>5, <1>6 DEF DecisionsInStep
<1>9. ASSUME NEW a \in announced
      PROVE  InFolder(a)'
  <2>1. InFolder(a) /\ a \in Artifacts
    BY <1>1 DEF AnnouncedInStep, ArchiveTypeOK
  <2> DEFINE old == [name |-> ReportName(a), report |-> a.report]
  <2>2. old.name = ReportName(a) /\ old.report = a.report /\ old \in folder
    BY <2>1 DEF InFolder
  <2>3. CASE ReportName(a) # ReportName(new)
    BY <1>4, <2>2, <2>3 DEF InFolder
  <2>4. CASE ReportName(a) = ReportName(new)
    <3>1. a.revision = new.revision
      BY <2>4 DEF ReportName
    <3>2. current = n /\ n # 0
      BY <1>1, <1>2 DEF AnnouncedInStep, n
    <3>3. memos[n].ctx \in {0, a.report}
      BY <1>1, <1>3, <3>1, <3>2 DEF AnnouncedInStep
    <3>4. a.report = new.report
      BY <1>3, <1>5, <3>3
    <3>5. old = file
      BY <2>4, <3>4 DEF file
    <3> QED BY <1>4, <3>5 DEF InFolder
  <2> QED BY <2>3, <2>4
<1>10. [name |-> ReportName(new), report |-> new.report] \in folder'
  BY <1>4 DEF file
<1> QED BY <1>4, <1>5, <1>7, <1>8, <1>9, <1>10 DEF new

\* The file is listed, and to be delivered.
LEMMA RenderedKeeps ==
  ASSUME ArchiveInv, task.pc = "rendering", folder' = FilesWith(ArtifactRecord),
         memos' \in [1 .. 2 -> Memos],
         memos'[task.rec].artifacts = Append(memos[task.rec].artifacts, ArtifactRecord),
         memos'[task.rec].revision = memos[task.rec].revision,
         memos'[task.rec].ctx = memos[task.rec].ctx,
         \A k \in 1 .. 2 : k # task.rec => memos'[k] = memos[k],
         task' \in WriteTasks, task'.rec = task.rec, task'.artifact = ArtifactRecord,
         task'.pc = "writing", task'.then = "delivering",
         "session" \in Range(task'.writes), "audit" \notin Range(task'.writes),
         turnNo' \in Nat, turnNo <= turnNo', UNCHANGED Elsewhere
  PROVE  ArchiveTypeOK' /\ DecisionsInStep' /\ DeliveryInStep' /\ AnnouncedInStep'
<1>1. /\ ArchiveTypeOK /\ TaskInStep /\ DecisionsInStep /\ AnnouncedInStep
      /\ task.pc \in Stages
  BY DEF ArchiveInv, Stages
<1>2. Busy /\ Stage = "rendering" /\ task.rec \in 1 .. 2
  BY <1>1, Working
<1> DEFINE new == ArtifactRecord
           n == task.rec
<1>3. /\ new \in Artifacts /\ Typed(new) /\ new.revision = memos[n].revision
      /\ new.report = memos[n].ctx
  BY <1>1, <1>2, RecordIs
<1>4. /\ folder' \subseteq Files /\ \A f, g \in folder' : f.name = g.name => f = g
      /\ \A f \in folder' : f.report \in Allowed
      /\ \A a \in announced : InFolder(a)'
      /\ [name |-> ReportName(new), report |-> new.report] \in folder' /\ new.report \in Allowed
  BY FolderKeeps
<1>5. UNCHANGED <<keeping, current, row, turnRows, artifactRows, auditRows, loads, removing,
                  announced, unsaid, unaudited, stale, archiveFaults>>
  BY DEF Elsewhere, tables, notes
<1>6. Busy' /\ Stage' = "delivering" /\ ~Left("audit")' /\ Left("session")'
  BY ArchiveTypes DEF Busy, Stage, Left
<1>7. /\ memos'[n].artifacts = Append(memos[n].artifacts, new) /\ memos'[n].ctx = memos[n].ctx
      /\ memos'[n].revision = memos[n].revision /\ task'.rec = n /\ task'.artifact = new
      /\ n \in 1 .. 2 /\ \A k \in 1 .. 2 : k # n => memos'[k] = memos[k]
  BY <1>2
<1> HIDE DEF new, n
<1>8. /\ memos[n].artifacts \in Seq(Artifacts) /\ memos[n].revision \in Nat /\ current \in 0 .. 2
  BY <1>1, <1>7 DEF ArchiveTypeOK, Memos
<1>9. Range(memos'[n].artifacts) = Range(memos[n].artifacts) \cup {new}
  BY <1>3, <1>7, <1>8, OneMore
<1>10. ArchiveTypeOK'
  BY <1>1, <1>4, <1>5 DEF ArchiveTypeOK
<1>11. DecisionsInStep'
  <2>1. \A k \in 1 .. 2 : memos'[k].ctx \in Allowed \cup {0}
    BY <1>1, <1>7 DEF DecisionsInStep
  <2>2. \A a \in announced' : a.report \in Allowed
    BY <1>1, <1>5 DEF DecisionsInStep
  <2> QED BY <1>1, <1>4, <1>5, <1>6, <2>1, <2>2, DecisionsStill
<1>12. DeliveryInStep'
  <2>1. Allowed' = Allowed
    BY <1>5 DEF Allowed
  <2>2. /\ new.revision = memos'[n].revision /\ new.report = memos'[n].ctx
        /\ new \in Range(memos'[n].artifacts)
    BY <1>3, <1>7, <1>9
  <2>3. InFolder(task.artifact)' /\ Typed(task'.artifact)
    BY <1>3, <1>4, <1>7 DEF InFolder
  <2> QED BY <1>3, <1>4, <1>6, <1>7, <2>1, <2>2, <2>3 DEF DeliveryInStep
<1>13. AnnouncedInStep'
  <2>1. \A k \in 1 .. 2 : NotNewer(memos'[k])
    <3>1. NotNewer(memos[n])
      BY <1>1, <1>7 DEF AnnouncedInStep
    <3>2. NotNewer(memos'[n])
      BY <1>3, <1>7, <1>8, <1>9, <3>1 DEF NotNewer
    <3> QED BY <1>1, <1>7, <3>2 DEF AnnouncedInStep
  <2>2. current # 0 /\ announced # {} => current = n
    BY <1>1, <1>2 DEF AnnouncedInStep, n
  <2>3. current # 0 /\ announced # {} =>
           /\ Range(memos[current].artifacts) \subseteq Range(memos'[current].artifacts)
           /\ \/ /\ memos'[current].revision = memos[current].revision
                 /\ memos'[current].ctx = memos[current].ctx
              \/ memos'[current].revision = memos[current].revision + 1
    BY <1>7, <1>9, <2>2
  <2>4. Busy' /\ task'.rec # current => announced = {}
    BY <1>1, <1>2, <1>7 DEF AnnouncedInStep, n
  <2> QED BY <1>1, <1>4, <1>5, <2>1, <2>3, <2>4, AnnouncedStill
<1> QED BY <1>10, <1>11, <1>12, <1>13

LEMMA RenderReportKeeps ==
  ASSUME ArchiveInv, RenderReport
  PROVE  ArchiveInv'
<1>1. /\ ArchiveTypeOK /\ TaskInStep /\ TurnsInStep
      /\ task.pc = "rendering" /\ task.op = "report" /\ "rendering" \in Stages
  BY DEF ArchiveInv, RenderReport, Stages
<1>2. /\ Busy /\ task \in WriteTasks /\ \A what : ~Left(what)
      /\ task.rec \in 1 .. 2 /\ Mine \in Memos
  BY <1>1, Working
<1> DEFINE new == ArtifactRecord
           n == task.rec
           writes == <<"artifact", "session">>
<1>3. new \in Artifacts
  BY <1>1, <1>2, RecordIs
<1>4. /\ memos' = [memos EXCEPT ![n].artifacts = Append(@, new)]
      /\ task' = [task EXCEPT !.pc = "writing", !.artifact = new, !.writes = writes,
                              !.then = "delivering"]
      /\ folder' = FilesWith(new)
      /\ UNCHANGED <<turnNo, Elsewhere>>
  BY DEF RenderReport
<1>5. UNCHANGED <<current, row, turnRows, artifactRows, unsaid>>
  BY <1>4 DEF Elsewhere, tables, notes
<1>6. writes \in WriteLists /\ Range(writes) = {"artifact", "session"} /\ writes # <<>>
  BY WritesAre, WritesLeft DEF WriteLists
<1> HIDE DEF new, n, writes
<1>7. memos \in [1 .. 2 -> Memos] /\ n \in 1 .. 2 /\ memos[n] \in Memos
  BY <1>1, <1>2 DEF ArchiveTypeOK, n
<1>8. Append(memos[n].artifacts, new) \in Seq(Artifacts)
  <2>1. memos[n].artifacts \in Seq(Artifacts)
    BY <1>7 DEF Memos
  <2> QED BY <1>3, <2>1
<1>9. /\ memos' \in [1 .. 2 -> Memos] /\ memos'[n].artifacts = Append(memos[n].artifacts, new)
      /\ \A k \in 1 .. 2 : k # n => memos'[k] = memos[k]
  BY <1>4, <1>7, <1>8 DEF Memos
<1>10. /\ memos'[n].revision = memos[n].revision /\ memos'[n].ctx = memos[n].ctx
       /\ memos'[n].turns = memos[n].turns
  BY <1>4, <1>7 DEF Memos
<1>11. \A k \in 1 .. 2 : memos'[k].turns = memos[k].turns
  BY <1>9, <1>10
<1>12. task' \in WriteTasks
  BY <1>2, <1>3, <1>4, <1>6 DEF WriteTasks, Stages
<1>13. /\ task'.pc = "writing" /\ task'.writes = writes
       /\ task'.then = "delivering" /\ task'.rec = task.rec /\ task'.op = task.op
       /\ task'.format = task.format /\ task'.question = task.question
       /\ task'.artifact = new
  BY <1>2, <1>4 DEF WriteTasks
<1>14. ~Left("turn")'
  BY <1>6, <1>13 DEF Left
<1>15. TaskInStep'
  <2>1. "turn" \notin Range(task'.writes) /\ "audit" \notin Range(task'.writes) /\ task'.writes # <<>>
    BY <1>6, <1>13
  <2> QED BY <1>1, <1>4, <1>5, <1>11, <1>12, <1>13, <2>1, PassOn
<1>16. TurnsInStep'
  BY <1>1, <1>2, <1>4, <1>5, <1>11, <1>14, StillInOrder
<1>17. ArchiveTypeOK' /\ DecisionsInStep' /\ DeliveryInStep' /\ AnnouncedInStep'
  <2>1. "session" \in Range(task'.writes) /\ "audit" \notin Range(task'.writes)
    BY <1>6, <1>13
  <2>2. turnNo' \in Nat /\ turnNo <= turnNo'
    BY <1>1, <1>4 DEF ArchiveTypeOK
  <2> QED BY <1>1, <1>4, <1>9, <1>10, <1>12, <1>13, <2>1, <2>2, RenderedKeeps DEF new, n
<1> QED BY <1>15, <1>16, <1>17 DEF ArchiveInv

LEMMA RenderConfirmedKeeps ==
  ASSUME ArchiveInv, RenderConfirmed
  PROVE  ArchiveInv'
<1>1. /\ ArchiveTypeOK /\ TaskInStep /\ TurnsInStep
      /\ task.pc = "rendering" /\ task.op = "confirm" /\ "rendering" \in Stages
  BY DEF ArchiveInv, RenderConfirmed, Stages
<1>2. /\ Busy /\ task \in WriteTasks /\ \A what : ~Left(what)
      /\ task.rec \in 1 .. 2 /\ Mine \in Memos /\ Mine = memos[task.rec]
  BY <1>1, Working
<1> DEFINE new == ArtifactRecord
           n == task.rec
           writes == <<"artifact", "turn", "session">>
           list == Append(memos[n].artifacts, new)
           r == [Mine EXCEPT !.state = "archived", !.artifacts = list]
           of == [task EXCEPT !.artifact = new]
<1>3. new \in Artifacts
  BY <1>1, <1>2, RecordIs
<1>4. /\ Says(n, r, of, writes, "delivering") /\ folder' = FilesWith(new) /\ UNCHANGED Elsewhere
  <2>1. r = [Mine EXCEPT !.state = "archived", !.artifacts = Append(@, new)]
    BY <1>2 DEF Memos
  <2> QED BY <2>1 DEF RenderConfirmed
<1>5. UNCHANGED <<current, row, turnRows, artifactRows, unsaid>>
  BY <1>4 DEF Elsewhere, tables, notes
<1>6. writes \in WriteLists /\ Range(writes) = {"artifact", "turn", "session"}
  BY WritesAre DEF WriteLists
<1> HIDE DEF new, n, writes, list
<1>7. list \in Seq(Artifacts)
  <2>1. memos[n].artifacts \in Seq(Artifacts)
    BY <1>2 DEF Memos, n
  <2> QED BY <1>3, <2>1 DEF list
<1>8. /\ r \in Memos /\ r.turns = Mine.turns /\ r.artifacts = list
      /\ r.revision = Mine.revision /\ r.ctx = Mine.ctx
  BY <1>2, <1>7 DEF Memos, States, Ended
<1>9. /\ of \in WriteTasks /\ of.op = task.op /\ of.rec = task.rec /\ of.format = task.format
      /\ of.artifact = new
  BY <1>2, <1>3 DEF WriteTasks
<1> HIDE DEF r, of
<1>10. n \in 1 .. 2 /\ "delivering" \in Stages \cup {"idle"}
  BY <1>2 DEF n, Stages
<1>11. /\ turnNo' = turnNo + 1 /\ turnNo' \in Nat
       /\ memos' \in [1 .. 2 -> Memos]
       /\ memos'[n].artifacts = r.artifacts /\ memos'[n].revision = r.revision
       /\ memos'[n].ctx = r.ctx
       /\ \A k \in 1 .. 2 : k # n => memos'[k] = memos[k]
  BY <1>1, <1>4, <1>6, <1>8, <1>9, <1>10, SaysDoes
<1>12. /\ task' \in WriteTasks /\ task'.pc = "writing" /\ task'.writes = writes
       /\ task'.then = "delivering" /\ task'.rec = of.rec /\ task'.artifact = of.artifact
  BY <1>1, <1>4, <1>6, <1>8, <1>9, <1>10, SaysDoes
<1>13. TaskInStep' /\ TurnsInStep'
  <2>1. of.op # "report" /\ of.op # "cancel" /\ of.rec = n /\ r.turns = memos[n].turns
        /\ "turn" \in Range(writes) /\ "audit" \notin Range(writes)
        /\ Busy /\ task.rec = n /\ ~Left("turn")
    BY <1>1, <1>2, <1>6, <1>8, <1>9 DEF n
  <2> QED BY <1>1, <1>4, <1>5, <1>6, <1>8, <1>9, <1>10, <2>1, SayingKeeps
<1>14. ArchiveTypeOK' /\ DecisionsInStep' /\ DeliveryInStep' /\ AnnouncedInStep'
  <2>1. "session" \in Range(task'.writes) /\ "audit" \notin Range(task'.writes)
    BY <1>6, <1>12
  <2>2. turnNo <= turnNo'
    BY <1>1, <1>11 DEF ArchiveTypeOK
  <2>3. /\ memos'[task.rec].artifacts = Append(memos[task.rec].artifacts, ArtifactRecord)
        /\ memos'[task.rec].revision = memos[task.rec].revision
        /\ memos'[task.rec].ctx = memos[task.rec].ctx
        /\ \A k \in 1 .. 2 : k # task.rec => memos'[k] = memos[k]
    BY <1>2, <1>8, <1>11 DEF list, n, new
  <2>4. task'.rec = task.rec /\ task'.artifact = ArtifactRecord /\ folder' = FilesWith(ArtifactRecord)
    BY <1>4, <1>9, <1>12 DEF new
  <2> QED BY <1>1, <1>4, <1>11, <1>12, <2>1, <2>2, <2>3, <2>4, RenderedKeeps
<1> QED BY <1>13, <1>14 DEF ArchiveInv

LEMMA RenderFailsKeeps ==
  ASSUME ArchiveInv, RenderFails
  PROVE  ArchiveInv'
<1>1. /\ ArchiveTypeOK /\ TaskInStep /\ TurnsInStep /\ DecisionsInStep /\ AnnouncedInStep
      /\ task.pc = "rendering" /\ task.pc \in Stages
  BY DEF ArchiveInv, RenderFails, Stages
<1>2. /\ Busy /\ task \in WriteTasks /\ \A what : ~Left(what)
      /\ task.rec \in 1 .. 2
  BY <1>1, Working
<1>3. /\ folder' = folder \/ folder' = FilesWith(ArtifactRecord)
      /\ memos' = [memos EXCEPT ![task.rec].state = "failed"] \/ memos' = memos
      /\ task' = NoTask
      /\ UNCHANGED <<keeping, current, row, turnRows, artifactRows, auditRows, loads, removing,
                     announced, unsaid, unaudited, stale, archiveFaults, turnNo>>
  BY DEF RenderFails, Elsewhere, tables, notes
<1>4. memos \in [1 .. 2 -> Memos]
  BY <1>1 DEF ArchiveTypeOK
<1>5. /\ memos' \in [1 .. 2 -> Memos]
      /\ \A k \in 1 .. 2 :
           /\ memos'[k].turns = memos[k].turns /\ memos'[k].artifacts = memos[k].artifacts
           /\ memos'[k].revision = memos[k].revision /\ memos'[k].ctx = memos[k].ctx
  <2> DEFINE n == task.rec
  <2>1. CASE memos' = memos
    BY <1>4, <2>1
  <2>2. CASE memos' = [memos EXCEPT ![n].state = "failed"]
    <3>1. n \in 1 .. 2 /\ memos' = [memos EXCEPT ![n].state = "failed"]
      BY <1>2, <2>2
    <3> HIDE DEF n
    <3>2. /\ memos'[n].turns = memos[n].turns /\ memos'[n].artifacts = memos[n].artifacts
          /\ memos'[n].revision = memos[n].revision /\ memos'[n].ctx = memos[n].ctx
      BY <1>4, <3>1 DEF Memos
    <3>3. memos' \in [1 .. 2 -> Memos] /\ \A k \in 1 .. 2 : k # n => memos'[k] = memos[k]
      BY <1>4, <3>1 DEF Memos, States, Ended
    <3> QED BY <3>2, <3>3
  <2> QED BY <1>3, <2>1, <2>2
<1>6. /\ folder' \subseteq Files /\ \A f, g \in folder' : f.name = g.name => f = g
      /\ \A f \in folder' : f.report \in Allowed
      /\ \A a \in announced : InFolder(a)'
  <2>1. CASE folder' = folder
    <3>1. \A a : InFolder(a)' <=> InFolder(a)
      BY <2>1 DEF InFolder
    <3> QED BY <1>1, <2>1, <3>1 DEF ArchiveTypeOK, AnnouncedInStep, DecisionsInStep
  <2>2. CASE folder' = FilesWith(ArtifactRecord)
    BY <1>1, <2>2, FolderKeeps
  <2> QED BY <1>3, <2>1, <2>2
<1>7. ~Busy'
  BY <1>3 DEF Busy
<1>8. ArchiveTypeOK'
  BY <1>1, <1>3, <1>5, <1>6 DEF ArchiveTypeOK
<1>9. TaskInStep' /\ DeliveryInStep'
  BY <1>7 DEF TaskInStep, DeliveryInStep
<1>10. TurnsInStep'
  BY <1>1, <1>2, <1>3, <1>5, <1>7, StillInOrder
<1>11. DecisionsInStep'
  <2>1. turnNo' \in Nat /\ turnNo <= turnNo'
    BY <1>1, <1>3 DEF ArchiveTypeOK
  <2>2. \A k \in 1 .. 2 : memos'[k].ctx \in Allowed \cup {0}
    BY <1>1, <1>5 DEF DecisionsInStep
  <2>3. \A a \in announced' : a.report \in Allowed
    BY <1>1, <1>3 DEF DecisionsInStep
  <2> QED BY <1>1, <1>3, <1>6, <1>7, <2>1, <2>2, <2>3, DecisionsStill
<1>12. AnnouncedInStep'
  <2>1. \A k \in 1 .. 2 : NotNewer(memos'[k])
    BY <1>1, <1>5 DEF AnnouncedInStep, NotNewer
  <2>2. current \in 0 .. 2
    BY <1>1 DEF ArchiveTypeOK
  <2>3. current # 0 =>
           /\ Range(memos[current].artifacts) \subseteq Range(memos'[current].artifacts)
           /\ \/ /\ memos'[current].revision = memos[current].revision
                 /\ memos'[current].ctx = memos[current].ctx
              \/ memos'[current].revision = memos[current].revision + 1
    BY <1>5, <2>2
  <2> QED BY <1>1, <1>3, <1>6, <1>7, <2>1, <2>3, AnnouncedStill
<1> QED BY <1>8, <1>9, <1>10, <1>11, <1>12 DEF ArchiveInv

LEMMA DeliveringKeeps ==
  ASSUME ArchiveInv, DeliverArtifact
  PROVE  ArchiveInv'
<1>1. /\ ArchiveTypeOK /\ TaskInStep /\ TurnsInStep /\ DecisionsInStep /\ AnnouncedInStep
      /\ DeliveryInStep /\ task.pc = "delivering" /\ task.pc \in Stages
  BY DEF ArchiveInv, DeliverArtifact, Stages
<1>2. /\ Busy /\ task \in WriteTasks /\ \A what : ~Left(what) /\ Stage = "delivering"
      /\ task.rec \in 1 .. 2
  BY <1>1, Working
<1>3. /\ task' = NoTask
      /\ UNCHANGED <<keeping, memos, current, row, turnRows, artifactRows, auditRows, folder, loads,
                     removing, turnNo, unsaid, unaudited, stale, archiveFaults>>
      /\ announced' = announced \/ (current = task.rec /\ announced' = announced \cup {task.artifact})
  BY DEF DeliverArtifact, tables
<1> DEFINE new == task.artifact
           n == task.rec
<1>4. /\ new \in Artifacts /\ new.report \in Allowed /\ Typed(new)
      /\ new.revision = memos[n].revision /\ new.report = memos[n].ctx
      /\ current = n =>
           /\ new \in Range(memos[n].artifacts) /\ InFolder(new)
           /\ ~stale /\ row # NoSession => new \in Range(row.artifacts)
  BY <1>1, <1>2 DEF DeliveryInStep
<1>5. n \in 1 .. 2
  BY <1>2
<1>6. announced' = announced \/ (current = n /\ announced' = announced \cup {new})
  BY <1>3
<1> HIDE DEF new, n
<1>7. ~Busy'
  BY <1>3 DEF Busy
<1>8. ArchiveTypeOK'
  BY <1>1, <1>3, <1>4, <1>6 DEF ArchiveTypeOK
<1>9. TaskInStep' /\ DeliveryInStep'
  BY <1>7 DEF TaskInStep, DeliveryInStep
<1>10. TurnsInStep'
  BY <1>1, <1>2, <1>3, <1>7, StillInOrder
<1>11. DecisionsInStep'
  <2>1. turnNo' \in Nat /\ turnNo <= turnNo'
    BY <1>1, <1>3 DEF ArchiveTypeOK
  <2>2. /\ \A k \in 1 .. 2 : memos'[k].ctx \in Allowed \cup {0}
        /\ \A f \in folder' : f.report \in Allowed
    BY <1>1, <1>3 DEF DecisionsInStep
  <2>3. \A a \in announced' : a.report \in Allowed
    BY <1>1, <1>4, <1>6 DEF DecisionsInStep
  <2> QED BY <1>1, <1>3, <1>7, <2>1, <2>2, <2>3, DecisionsStill
<1>12. AnnouncedInStep'
  <2>1. \A a : InFolder(a)' <=> InFolder(a)
    BY <1>3 DEF InFolder
  <2>2. /\ \A k \in 1 .. 2 : NotNewer(memos'[k])
        /\ \A r \in loads' : NotNewer(r)
        /\ row' # NoSession => NotNewer(row')
        /\ \A f, g \in folder' : f.name = g.name => f = g
    BY <1>1, <1>3 DEF AnnouncedInStep
  <2>3. announced' # {} /\ current' = 0 =>
          row' # NoSession /\ announced' \subseteq Range(row'.artifacts) /\ loads' \subseteq {row'}
    BY <1>1, <1>3, <1>5, <1>6 DEF AnnouncedInStep
  <2>4. announced' # {} /\ ~stale' /\ row' # NoSession => announced' \subseteq Range(row'.artifacts)
    BY <1>1, <1>3, <1>4, <1>6 DEF AnnouncedInStep
  <2>5. ASSUME NEW a \in announced'
        PROVE  /\ InFolder(a) /\ Typed(a)
               /\ current # 0 =>
                    /\ a \in Range(memos[current].artifacts)
                    /\ a.revision = memos[current].revision =>
                         memos[current].ctx \in {0, a.report}
    <3>1. CASE a \in announced
      BY <1>1, <3>1 DEF AnnouncedInStep
    <3>2. CASE current = n /\ a = new
      BY <1>4, <3>2
    <3> QED BY <1>6, <2>5, <3>1, <3>2
  <2> QED BY <1>3, <1>7, <2>1, <2>2, <2>3, <2>4, <2>5 DEF AnnouncedInStep
<1> QED BY <1>8, <1>9, <1>10, <1>11, <1>12 DEF ArchiveInv

-----------------------------------------------------------------------------
(* What is stored *)

\* A write of something else than the session leaves what is to be delivered.
LEMMA StillDelivers ==
  ASSUME DeliveryInStep, UNCHANGED <<memos, current, row, folder, stale, auditRows, unaudited>>,
         Busy' => /\ Busy /\ Stage' = Stage /\ task'.rec = task.rec
                  /\ task'.artifact = task.artifact /\ (Left("session")' <=> Left("session"))
  PROVE  DeliveryInStep'
<1> SUFFICES ASSUME Busy', Stage' = "delivering"
             PROVE  DeliveryInStep'
  BY DEF DeliveryInStep
<1>1. Allowed' = Allowed
  BY DEF Allowed
<1>2. InFolder(task.artifact)' <=> InFolder(task.artifact)
  BY DEF InFolder
<1>3. /\ Busy /\ Stage = "delivering" /\ task'.rec = task.rec
      /\ task'.artifact = task.artifact /\ (Left("session")' <=> Left("session"))
  OBVIOUS
<1> QED BY <1>1, <1>2, <1>3 DEF DeliveryInStep

\* Nor does it decide anything, unless it is the decision.
LEMMA WritesDecideNothing ==
  ASSUME ArchiveTypeOK, TaskInStep, DecisionsInStep, NEW what, what # "audit", Writing(what), Written,
         UNCHANGED <<memos, auditRows, unaudited, folder, announced, turnNo>>
  PROVE  DecisionsInStep'
<1>1. Busy' =>
        /\ Busy /\ task' \in WriteTasks /\ Stage' = Stage /\ task'.rec = task.rec /\ task'.op = task.op
        /\ task'.question = task.question
        /\ Range(task'.writes) = Range(task.writes) \ {what}
  BY WrittenDoes
<1>2. Busy' => (Left("audit")' <=> Left("audit"))
  BY <1>1 DEF Left
<1>3. /\ \A k \in 1 .. 2 : memos'[k].ctx \in Allowed \cup {0}
      /\ \A f \in folder' : f.report \in Allowed
      /\ \A a \in announced' : a.report \in Allowed
  BY DEF DecisionsInStep
<1>4. (Busy /\ (Stage = "parsing" \/ Left("audit")))' =>
         \A d \in Range(auditRows) : d.question < task'.question
  BY <1>1, <1>2 DEF DecisionsInStep
<1>5. (Busy /\ Stage = "allowed" /\ ~Left("audit"))' => task'.question \in Allowed
  BY <1>1, <1>2 DEF DecisionsInStep
<1>6. (Busy /\ Stage = "rendering")' =>
         memos'[task'.rec].ctx # 0 /\ task'.op \in {"report", "confirm"}
  BY <1>1 DEF DecisionsInStep
<1>7. turnNo' \in Nat /\ turnNo <= turnNo'
  BY DEF ArchiveTypeOK
<1> QED BY <1>3, <1>4, <1>5, <1>6, <1>7, DecisionsStill

LEMMA PersistTurnKeeps ==
  ASSUME ArchiveInv, PersistTurn
  PROVE  ArchiveInv'
<1>1. /\ ArchiveTypeOK /\ TaskInStep /\ TurnsInStep /\ DecisionsInStep /\ AnnouncedInStep
      /\ DeliveryInStep /\ Writing("turn") /\ Written
  BY DEF ArchiveInv, PersistTurn
<1>2. /\ Busy /\ Left("turn") /\ task' \in WriteTasks \cup {NoTask}
      /\ Busy' =>
           /\ task' \in WriteTasks /\ Stage' = Stage /\ task'.rec = task.rec /\ task'.op = task.op
           /\ task'.question = task.question /\ task'.artifact = task.artifact
           /\ Range(task'.writes) = Range(task.writes) \ {"turn"}
  BY <1>1, WrittenDoes
<1>3. UNCHANGED <<keeping, memos, current, row, artifactRows, auditRows, folder, loads,
                  removing, turnNo, announced, unaudited, stale>>
  BY DEF PersistTurn
<1>4. \/ row # NoSession /\ turnRows' = Append(turnRows, task.turn) /\ unsaid' = unsaid
      \/ turnRows' = turnRows /\ unsaid' = unsaid \cup {task.turn}
  <2>1. PICK ok \in BOOLEAN :
          /\ IF ok THEN TurnInserted(task.turn) ELSE UNCHANGED turnRows
          /\ unsaid' = IF ok /\ row # NoSession THEN unsaid ELSE unsaid \cup {task.turn}
    BY DEF PersistTurn
  <2> QED BY <2>1 DEF TurnInserted
<1>5. /\ task \in WriteTasks /\ task.turn \in Nat /\ turnNo \in Nat /\ turnRows \in Seq(Nat)
      /\ current \in 0 .. 2 /\ task.rec \in 1 .. 2
  <2>1. task \in WriteTasks
    BY <1>1, <1>2, BusyIs
  <2> QED BY <1>1, <2>1 DEF WriteTasks, ArchiveTypeOK
<1>6. /\ task.turn <= turnNo /\ task.turn \in Range(memos[task.rec].turns)
      /\ \A t \in Range(turnRows) : t < task.turn
  BY <1>1, <1>2 DEF TaskInStep, TurnsInStep
<1>7. /\ turnRows' \in Seq(Nat) /\ Rising(turnRows')
      /\ Range(turnRows) \subseteq Range(turnRows')
      /\ Range(turnRows') \subseteq Range(turnRows) \cup {task.turn}
      /\ task.turn \in Range(turnRows') \cup unsaid'
      /\ Range(turnRows) \cup unsaid \subseteq Range(turnRows') \cup unsaid'
  <2>1. CASE row # NoSession /\ turnRows' = Append(turnRows, task.turn) /\ unsaid' = unsaid
    <3>1. turnRows' \in Seq(Nat) /\ Range(turnRows') = Range(turnRows) \cup {task.turn}
      BY <1>5, <2>1, OneMore
    <3>2. Rising(turnRows')
      BY <1>1, <1>5, <1>6, <2>1, RisesOn DEF TurnsInStep
    <3> QED BY <2>1, <3>1, <3>2
  <2>2. CASE turnRows' = turnRows /\ unsaid' = unsaid \cup {task.turn}
    BY <1>1, <1>5, <2>2 DEF TurnsInStep
  <2> QED BY <1>4, <2>1, <2>2
<1>8. (Left("turn")' => ~Busy') /\ (Busy' /\ Left("audit")' <=> Busy' /\ Left("audit"))
      /\ (Busy' /\ Left("session")' <=> Busy' /\ Left("session"))
  BY <1>2 DEF Left
<1>9. ArchiveTypeOK'
  BY <1>1, <1>2, <1>3, <1>7 DEF ArchiveTypeOK
<1>10. TaskInStep'
  BY <1>1, <1>3, WritesKeep
<1>11. TurnsInStep'
  <2>1. \A t \in Range(turnRows') : t <= turnNo'
    BY <1>1, <1>3, <1>6, <1>7 DEF TurnsInStep
  <2>2. row' = NoSession => turnRows' = <<>> /\ artifactRows' = <<>>
    BY <1>1, <1>3, <1>4 DEF TurnsInStep
  <2>3. ASSUME NEW k \in 1 .. 2
        PROVE  /\ Rising(memos'[k].turns)
               /\ \A t \in Range(memos'[k].turns) :
                    t <= turnNo' /\ t \in Range(turnRows') \cup unsaid'
    BY <1>1, <1>3, <1>7 DEF TurnsInStep
  <2>4. ASSUME current # 0, NEW t \in Range(turnRows') \ Range(memos[current].turns),
               NEW u \in Range(memos[current].turns)
        PROVE  t < u
    <3>1. CASE t \in Range(turnRows)
      BY <1>1, <2>4, <3>1 DEF TurnsInStep
    <3>2. CASE t = task.turn
      <4>1. current # task.rec
        BY <1>6, <2>4, <3>2
      <4>2. memos[current].turns = <<>>
        BY <1>1, <1>2, <2>4, <4>1 DEF TaskInStep
      <4>3. Range(memos[current].turns) = {}
        BY <4>2, WritesAre
      <4> QED BY <2>4, <4>3
    <3> QED BY <1>7, <2>4, <3>1, <3>2
  <2> QED BY <1>3, <1>7, <1>8, <2>1, <2>2, <2>3, <2>4 DEF TurnsInStep
<1>12. DecisionsInStep'
  BY <1>1, <1>3, WritesDecideNothing
<1>13. DeliveryInStep'
  BY <1>1, <1>2, <1>3, <1>8, StillDelivers
<1>14. AnnouncedInStep'
  <2>1. \A a : InFolder(a)' <=> InFolder(a)
    BY <1>3 DEF InFolder
  <2>2. /\ \A k \in 1 .. 2 : NotNewer(memos'[k])
        /\ \A f, g \in folder' : f.name = g.name => f = g
        /\ \A a \in announced : InFolder(a)'
        /\ Busy' /\ task'.rec # current => announced = {}
    BY <1>1, <1>2, <1>3, <2>1 DEF AnnouncedInStep
  <2> QED BY <1>1, <1>3, <2>2, AnnouncedStill
<1> QED BY <1>9, <1>10, <1>11, <1>12, <1>13, <1>14 DEF ArchiveInv

\* append_artifact keeps a list.
LEMMA FiledIs ==
  ASSUME NEW rows \in Seq(Artifacts), NEW a \in Artifacts
  PROVE  Filed(rows, a) \in Seq(Artifacts)
<1>1. Append(rows, a) \in Seq(Artifacts)
  OBVIOUS
<1> DEFINE changed == [k \in DOMAIN rows |-> IF ReportName(rows[k]) = ReportName(a) THEN a ELSE rows[k]]
<1>2. changed \in Seq(Artifacts)
  <2>1. DOMAIN rows = 1 .. Len(rows) /\ Len(rows) \in Nat /\ \A k \in 1 .. Len(rows) : rows[k] \in Artifacts
    OBVIOUS
  <2> DEFINE n == Len(rows)
  <2>2. changed \in [1 .. n -> Artifacts]
    BY <2>1
  <2> HIDE DEF changed
  <2> QED BY <2>1, <2>2, SeqDef
<1> QED BY <1>1, <1>2 DEF Filed

LEMMA PersistArtifactKeeps ==
  ASSUME ArchiveInv, PersistArtifact
  PROVE  ArchiveInv'
<1>1. /\ ArchiveTypeOK /\ TaskInStep /\ TurnsInStep /\ DecisionsInStep /\ AnnouncedInStep
      /\ DeliveryInStep /\ Writing("artifact") /\ Written
  BY DEF ArchiveInv, PersistArtifact
<1>2. /\ Busy /\ Left("artifact") /\ task' \in WriteTasks \cup {NoTask}
      /\ Busy' =>
           /\ task' \in WriteTasks /\ Stage' = Stage /\ task'.rec = task.rec /\ task'.turn = task.turn
           /\ task'.artifact = task.artifact
           /\ Range(task'.writes) = Range(task.writes) \ {"artifact"}
      /\ Busy' \/ Range(task.writes) = {"artifact"}
  BY <1>1, WrittenDoes
<1>3. /\ UNCHANGED <<keeping, memos, current, row, turnRows, auditRows, folder, loads,
                     removing, turnNo, announced, unsaid, unaudited, stale>>
      /\ \/ artifactRows' = artifactRows
         \/ row # NoSession /\ artifactRows' = Filed(artifactRows, task.artifact)
  BY DEF PersistArtifact, notes
<1>4. (Busy' /\ Left("turn")' <=> Busy /\ Left("turn"))
      /\ (Busy' => (Left("session")' <=> Left("session")))
  BY <1>2 DEF Left
<1>5. ArchiveTypeOK'
  <2>1. task \in WriteTasks /\ artifactRows \in Seq(Artifacts)
    BY <1>1, <1>2, BusyIs DEF ArchiveTypeOK
  <2>2. task.artifact \in Artifacts
    <3>1. task.then = "delivering" /\ task.pc = "writing"
      BY <1>1, <1>2 DEF TaskInStep, Writing
    <3> QED BY <1>1, <1>2, <3>1 DEF DeliveryInStep, Stage
  <2>3. Filed(artifactRows, task.artifact) \in Seq(Artifacts)
    BY <2>1, <2>2, FiledIs
  <2>4. artifactRows' \in Seq(Artifacts)
    BY <1>3, <2>1, <2>3
  <2> QED BY <1>1, <1>2, <1>3, <2>4 DEF ArchiveTypeOK
<1>6. TaskInStep'
  BY <1>1, <1>3, WritesKeep
<1>7. TurnsInStep'
  BY <1>1, <1>2, <1>3, <1>4, StillInOrder
<1>8. DecisionsInStep'
  BY <1>1, <1>3, WritesDecideNothing
<1>9. DeliveryInStep'
  BY <1>1, <1>2, <1>3, <1>4, StillDelivers
<1>10. AnnouncedInStep'
  <2>1. \A a : InFolder(a)' <=> InFolder(a)
    BY <1>3 DEF InFolder
  <2>2. /\ \A k \in 1 .. 2 : NotNewer(memos'[k])
        /\ \A f, g \in folder' : f.name = g.name => f = g
        /\ \A a \in announced : InFolder(a)'
        /\ Busy' /\ task'.rec # current => announced = {}
    BY <1>1, <1>2, <1>3, <2>1 DEF AnnouncedInStep
  <2> QED BY <1>1, <1>3, <2>2, AnnouncedStill
<1> QED BY <1>5, <1>6, <1>7, <1>8, <1>9, <1>10 DEF ArchiveInv

LEMMA PersistAuditKeeps ==
  ASSUME ArchiveInv, PersistAudit
  PROVE  ArchiveInv'
<1>1. /\ ArchiveTypeOK /\ TaskInStep /\ TurnsInStep /\ DecisionsInStep /\ AnnouncedInStep
      /\ DeliveryInStep /\ Writing("audit") /\ Written
  BY DEF ArchiveInv, PersistAudit
<1>2. /\ Busy /\ Left("audit") /\ task' \in WriteTasks \cup {NoTask}
      /\ Busy' =>
           /\ task' \in WriteTasks /\ Stage' = Stage /\ task'.rec = task.rec /\ task'.turn = task.turn
           /\ task'.artifact = task.artifact /\ task'.op = task.op
           /\ task'.question = task.question
           /\ Range(task'.writes) = Range(task.writes) \ {"audit"}
      /\ Busy' \/ Range(task.writes) = {"audit"}
  BY <1>1, WrittenDoes
<1>3. UNCHANGED <<keeping, memos, current, row, turnRows, artifactRows, folder, loads,
                  removing, turnNo, announced, unsaid, stale>>
  BY DEF PersistAudit
<1>4. task \in WriteTasks /\ task.question \in Nat /\ auditRows \in Seq(Audits) /\ turnNo \in Nat
  <2>1. task \in WriteTasks
    BY <1>1, <1>2, BusyIs
  <2> QED BY <1>1, <2>1 DEF WriteTasks, ArchiveTypeOK
<1> DEFINE d == [question |-> task.question, allowed |-> task.then = "allowed"]
<1>5. d \in Audits /\ d.question = task.question /\ (d.allowed <=> task.then = "allowed")
  BY <1>4 DEF Audits
<1>6. \/ auditRows' = Append(auditRows, d) /\ unaudited' = unaudited
      \/ auditRows' = auditRows /\ unaudited' = unaudited \cup {task.question}
  BY DEF PersistAudit
<1> HIDE DEF d
<1>7. /\ task.question <= turnNo /\ \A x \in Range(auditRows) : x.question < task.question
      /\ task.then \in {"allowed", "denied"} /\ task.pc = "writing"
  BY <1>1, <1>2 DEF TaskInStep, DecisionsInStep, Writing
<1>8. Stage = task.then
  BY <1>7 DEF Stage
<1>9. (Busy' /\ Left("turn")' <=> Busy /\ Left("turn"))
      /\ (Busy' => (Left("session")' <=> Left("session")) /\ ~Left("audit")')
  BY <1>2 DEF Left
<1>10. /\ auditRows' \in Seq(Audits) /\ unaudited' \subseteq Nat
       /\ \A i, j \in DOMAIN auditRows' : i < j => auditRows'[i].question < auditRows'[j].question
       /\ \A x \in Range(auditRows') : x.question <= turnNo
       /\ Allowed \subseteq Allowed'
       /\ task.then = "allowed" => task.question \in Allowed'
  <2>1. CASE auditRows' = Append(auditRows, d) /\ unaudited' = unaudited
    <3>1. /\ auditRows' \in Seq(Audits) /\ Range(auditRows') = Range(auditRows) \cup {d}
          /\ DOMAIN auditRows = 1 .. Len(auditRows) /\ Len(auditRows) \in Nat
          /\ DOMAIN auditRows' = 1 .. Len(auditRows) + 1
          /\ \A k \in DOMAIN auditRows' :
              \/ k \in DOMAIN auditRows /\ auditRows'[k] = auditRows[k]
              \/ k = Len(auditRows) + 1 /\ auditRows'[k] = d
      BY <1>4, <1>5, <2>1, OneMore
    <3>2. unaudited' \subseteq Nat
      BY <1>1, <2>1 DEF ArchiveTypeOK
    <3>3. ASSUME NEW i \in DOMAIN auditRows', NEW j \in DOMAIN auditRows', i < j
          PROVE  auditRows'[i].question < auditRows'[j].question
      <4>1. i \in DOMAIN auditRows /\ auditRows'[i] = auditRows[i]
        BY <3>1, <3>3
      <4>2. auditRows[i] \in Range(auditRows)
        BY <4>1 DEF Range
      <4>3. CASE j \in DOMAIN auditRows /\ auditRows'[j] = auditRows[j]
        BY <1>1, <3>3, <4>1, <4>3 DEF DecisionsInStep
      <4>4. CASE auditRows'[j] = d
        BY <1>5, <1>7, <4>1, <4>2, <4>4
      <4> QED BY <3>1, <4>3, <4>4
    <3>4. \A x \in Range(auditRows') : x.question <= turnNo
      BY <1>1, <1>5, <1>7, <3>1 DEF DecisionsInStep
    <3>5. Allowed \subseteq Allowed'
      BY <2>1, <3>1 DEF Allowed
    <3>6. task.then = "allowed" => task.question \in Allowed'
      BY <1>5, <3>1 DEF Allowed
    <3> QED BY <3>1, <3>2, <3>3, <3>4, <3>5, <3>6
  <2>2. CASE auditRows' = auditRows /\ unaudited' = unaudited \cup {task.question}
    <3>1. auditRows' \in Seq(Audits) /\ unaudited' \subseteq Nat
      BY <1>1, <1>4, <2>2 DEF ArchiveTypeOK
    <3>2. Allowed \subseteq Allowed' /\ task.question \in Allowed'
      BY <2>2 DEF Allowed
    <3> QED BY <1>1, <2>2, <3>1, <3>2 DEF DecisionsInStep
  <2> QED BY <1>6, <2>1, <2>2
<1>11. ArchiveTypeOK'
  BY <1>1, <1>2, <1>3, <1>10 DEF ArchiveTypeOK
<1>12. TaskInStep'
  BY <1>1, <1>3, WritesKeep
<1>13. TurnsInStep'
  BY <1>1, <1>2, <1>3, <1>9, StillInOrder
<1>14. DecisionsInStep'
  <2>1. \A k \in 1 .. 2 : memos'[k].ctx \in Allowed' \cup {0}
    BY <1>1, <1>3, <1>10 DEF DecisionsInStep
  <2>2. /\ \A f \in folder' : f.report \in Allowed'
        /\ \A a \in announced' : a.report \in Allowed'
    BY <1>1, <1>3, <1>10 DEF DecisionsInStep
  <2>3. Busy' => Stage' # "parsing" /\ ~Left("audit")'
    BY <1>2, <1>7, <1>8, <1>9
  <2>4. (Busy /\ Stage = "allowed")' => task'.question \in Allowed'
    BY <1>2, <1>8, <1>10
  <2>5. Busy' => Stage' # "rendering"
    BY <1>2, <1>7, <1>8
  <2> QED BY <1>3, <1>10, <2>1, <2>2, <2>3, <2>4, <2>5 DEF DecisionsInStep
<1>15. DeliveryInStep'
  <2>1. Busy' => Stage' # "delivering"
    BY <1>2, <1>7, <1>8
  <2> QED BY <2>1 DEF DeliveryInStep
<1>16. AnnouncedInStep'
  <2>1. \A a : InFolder(a)' <=> InFolder(a)
    BY <1>3 DEF InFolder
  <2>2. /\ \A k \in 1 .. 2 : NotNewer(memos'[k])
        /\ \A f, g \in folder' : f.name = g.name => f = g
        /\ \A a \in announced : InFolder(a)'
        /\ Busy' /\ task'.rec # current => announced = {}
    BY <1>1, <1>2, <1>3, <2>1 DEF AnnouncedInStep
  <2> QED BY <1>1, <1>3, <2>2, AnnouncedStill
<1> QED BY <1>11, <1>12, <1>13, <1>14, <1>15, <1>16 DEF ArchiveInv

LEMMA PersistSessionKeeps ==
  ASSUME ArchiveInv, PersistSession
  PROVE  ArchiveInv'
<1>1. /\ ArchiveTypeOK /\ TaskInStep /\ TurnsInStep /\ DecisionsInStep /\ AnnouncedInStep
      /\ DeliveryInStep /\ Writing("session") /\ Written
  BY DEF ArchiveInv, PersistSession
<1>2. /\ Busy /\ task' \in WriteTasks \cup {NoTask}
      /\ Busy' =>
           /\ task' \in WriteTasks /\ Stage' = Stage /\ task'.rec = task.rec /\ task'.turn = task.turn
           /\ task'.artifact = task.artifact
           /\ Range(task'.writes) = Range(task.writes) \ {"session"}
      /\ Busy' \/ Range(task.writes) = {"session"}
  BY <1>1, WrittenDoes
<1>3. /\ UNCHANGED <<keeping, memos, current, turnRows, artifactRows, auditRows, folder,
                     loads, removing, turnNo, announced, unsaid, unaudited>>
      /\ (row' = SessionPayload(Mine) /\ stale' = FALSE) \/ (row' = row /\ stale' = TRUE)
  BY DEF PersistSession
<1> DEFINE n == task.rec
<1>4. task.rec = n /\ n \in 1 .. 2 /\ Mine \in Memos /\ Mine = memos[n]
  BY <1>1, <1>2, BusyIs
<1> HIDE DEF n
<1>5. SessionPayload(Mine) \in Payloads /\ SessionPayload(Mine) # NoSession
  BY <1>4, ArchiveTypes
<1>6. /\ SessionPayload(Mine).artifacts = memos[n].artifacts
      /\ SessionPayload(Mine).revision = memos[n].revision
  BY <1>4 DEF SessionPayload
<1>7. (Busy' /\ Left("turn")' <=> Busy /\ Left("turn"))
      /\ (Busy' => ~Left("session")')
  BY <1>2 DEF Left
<1>8. ArchiveTypeOK'
  BY <1>1, <1>2, <1>3, <1>5 DEF ArchiveTypeOK
<1>9. TaskInStep'
  BY <1>1, <1>3, WritesKeep
<1>10. TurnsInStep'
  BY <1>1, <1>2, <1>3, <1>5, <1>7, StillInOrder
<1>11. DecisionsInStep'
  BY <1>1, <1>3, WritesDecideNothing
<1>12. DeliveryInStep'
  <2> SUFFICES ASSUME Busy', Stage' = "delivering"
               PROVE  DeliveryInStep'
    BY DEF DeliveryInStep
  <2> DEFINE a == task.artifact
  <2>1. /\ a \in Artifacts /\ a.report \in Allowed /\ Typed(a)
        /\ a.revision = memos[n].revision /\ a.report = memos[n].ctx
        /\ current = n => a \in Range(memos[n].artifacts) /\ InFolder(a)
    BY <1>1, <1>2, <1>4 DEF DeliveryInStep
  <2>2. current = n /\ ~stale' => a \in Range(row'.artifacts)
    BY <1>3, <1>6, <2>1
  <2>3. Allowed' = Allowed
    BY <1>3 DEF Allowed
  <2>4. task'.artifact = a /\ task'.rec = n
    BY <1>2, <1>4
  <2> HIDE DEF a
  <2>5. InFolder(task.artifact)' <=> InFolder(a)
    BY <1>3, <2>4 DEF InFolder
  <2> QED BY <1>3, <2>1, <2>2, <2>3, <2>4, <2>5 DEF DeliveryInStep
<1>13. AnnouncedInStep'
  <2>1. \A a : InFolder(a)' <=> InFolder(a)
    BY <1>3 DEF InFolder
  <2>2. /\ \A k \in 1 .. 2 : NotNewer(memos'[k])
        /\ \A r \in loads' : NotNewer(r)
        /\ \A f, g \in folder' : f.name = g.name => f = g
        /\ Busy' /\ task'.rec # current => announced = {}
    BY <1>1, <1>2, <1>3 DEF AnnouncedInStep
  <2>3. row' # NoSession => NotNewer(row')
    <3>1. NotNewer(memos[n])
      BY <1>1, <1>4 DEF AnnouncedInStep
    <3>2. NotNewer(SessionPayload(Mine))
      BY <1>6, <3>1 DEF NotNewer
    <3> QED BY <1>1, <1>3, <3>2 DEF AnnouncedInStep
  <2>4. announced # {} => current = n
    BY <1>1, <1>2, <1>4 DEF AnnouncedInStep
  <2>5. announced # {} => current # 0
    BY <1>4, <2>4
  <2>6. announced # {} /\ ~stale' => announced \subseteq Range(row'.artifacts)
    <3>1. announced # {} => announced \subseteq Range(memos[n].artifacts)
      BY <1>1, <2>4, <2>5 DEF AnnouncedInStep
    <3> QED BY <1>3, <1>6, <3>1
  <2>7. \A a \in announced :
       /\ InFolder(a) /\ Typed(a)
       /\ current # 0 =>
            /\ a \in Range(memos[current].artifacts)
            /\ a.revision = memos[current].revision => memos[current].ctx \in {0, a.report}
    BY <1>1 DEF AnnouncedInStep
  <2> QED BY <1>3, <2>1, <2>2, <2>3, <2>5, <2>6, <2>7 DEF AnnouncedInStep
<1> QED BY <1>8, <1>9, <1>10, <1>11, <1>12, <1>13 DEF ArchiveInv

-----------------------------------------------------------------------------
(* What happens meanwhile *)

\* Nobody has a record, and nothing is announced.
LEMMA NobodyHas ==
  ASSUME ArchiveInv, announced' = {}, current' = 0, memos' \in [1 .. 2 -> Memos],
         folder' \subseteq folder, task' = task,
         Busy => memos' = memos, ~Busy => memos' = Unused,
         UNCHANGED <<row, turnRows, artifactRows, auditRows, loads, turnNo, unsaid, unaudited, stale>>
  PROVE  ArchiveInv'
<1>1. ArchiveTypeOK /\ TaskInStep /\ TurnsInStep /\ DecisionsInStep /\ DeliveryInStep /\ AnnouncedInStep
  BY DEF ArchiveInv
<1>2. (Busy' <=> Busy) /\ Stage' = Stage /\ \A what : Left(what)' <=> Left(what)
  BY DEF Busy, Stage, Left
<1>3. \A k \in 1 .. 2 : Unused[k].turns = <<>> /\ Unused[k].artifacts = <<>> /\ Unused[k].ctx = 0
  BY ArchiveTypes
<1>4. ArchiveTypeOK'
  <2>1. current' \in 0 .. 2 /\ announced' \subseteq Artifacts /\ folder' \subseteq Files
    BY <1>1 DEF ArchiveTypeOK
  <2> QED BY <1>1, <2>1 DEF ArchiveTypeOK
<1>5. TaskInStep'
  BY <1>1, <1>2 DEF TaskInStep
<1>6. Allowed' = Allowed
  BY DEF Allowed
<1>7. CASE Busy
  <2>1. memos' = memos
    BY <1>7
  <2>2. TurnsInStep'
    BY <1>1, <1>2, <2>1 DEF TurnsInStep
  <2>3. DecisionsInStep'
    BY <1>1, <1>2, <1>6, <2>1 DEF DecisionsInStep
  <2>4. DeliveryInStep'
    <3>1. Stage' = "delivering" => current' # task'.rec
      BY <1>1, <1>7, BusyIs
    <3> QED BY <1>1, <1>2, <1>6, <2>1, <3>1 DEF DeliveryInStep
  <2>5. AnnouncedInStep'
    BY <1>1, <2>1 DEF AnnouncedInStep
  <2> QED BY <1>4, <1>5, <2>2, <2>3, <2>4, <2>5 DEF ArchiveInv
<1>8. CASE ~Busy
  <2>1. memos' = Unused
    BY <1>8
  <2>2. \A k \in 1 .. 2 : Range(memos'[k].turns) = {} /\ Range(memos'[k].artifacts) = {} /\ memos'[k].ctx = 0
    BY <1>3, <2>1, WritesAre
  <2>3. \A k \in 1 .. 2 : Rising(memos'[k].turns)
    BY <1>3, <2>1 DEF Rising
  <2>4. TurnsInStep'
    BY <1>1, <1>2, <1>8, <2>2, <2>3 DEF TurnsInStep
  <2>5. DecisionsInStep'
    BY <1>1, <1>2, <1>6, <1>8, <2>2 DEF DecisionsInStep
  <2>6. DeliveryInStep'
    BY <1>2, <1>8 DEF DeliveryInStep
  <2>7. AnnouncedInStep'
    <3>1. \A k \in 1 .. 2 : NotNewer(memos'[k])
      BY <2>2 DEF NotNewer
    <3> QED BY <1>1, <3>1 DEF AnnouncedInStep
  <2> QED BY <1>4, <1>5, <2>4, <2>5, <2>6, <2>7 DEF ArchiveInv
<1> QED BY <1>7, <1>8

LEMMA RemoveRecordKeeps ==
  ASSUME ArchiveInv, RemoveRecord \/ CleanFolder
  PROVE  ArchiveInv'
<1>1. /\ current' = 0 /\ folder' = {} /\ announced' = {} /\ Popped
      /\ UNCHANGED <<row, turnRows, artifactRows, auditRows, task, loads, turnNo, unsaid, unaudited, stale>>
  BY DEF RemoveRecord, CleanFolder, tables
<1>2. (Busy => memos' = memos) /\ (~Busy => memos' = Unused)
  BY <1>1 DEF Popped, Busy
<1>3. memos' \in [1 .. 2 -> Memos]
  BY <1>2, ArchiveTypes DEF ArchiveInv, ArchiveTypeOK
<1>4. folder' \subseteq folder /\ task' = task
  BY <1>1
<1> QED BY <1>1, <1>2, <1>3, <1>4, NobodyHas

LEMMA RemoveRowKeeps ==
  ASSUME ArchiveInv, RemoveRow
  PROVE  ArchiveInv'
<1>1. ArchiveTypeOK /\ TaskInStep /\ TurnsInStep /\ DecisionsInStep /\ DeliveryInStep /\ AnnouncedInStep
  BY DEF ArchiveInv
<1>2. /\ row' = NoSession /\ turnRows' = <<>> /\ artifactRows' = <<>>
      /\ unsaid' = unsaid \cup Range(turnRows)
      /\ announced' = {} /\ current # 0
      /\ UNCHANGED <<keeping, memos, current, auditRows, folder, task, loads, turnNo,
                     unaudited, stale>>
  BY DEF RemoveRow
<1>3. (Busy' <=> Busy) /\ Stage' = Stage /\ \A what : Left(what)' <=> Left(what)
  BY <1>2 DEF Busy, Stage, Left
<1>4. turnRows' \in Seq(Nat) /\ artifactRows' \in Seq(Artifacts) /\ Range(turnRows') = {} /\ Rising(turnRows')
  BY <1>2, WritesAre DEF Rising
<1>5. ArchiveTypeOK'
  BY <1>1, <1>2, <1>4 DEF ArchiveTypeOK
<1>6. TaskInStep'
  BY <1>1, <1>2, <1>3 DEF TaskInStep
<1>7. TurnsInStep'
  BY <1>1, <1>2, <1>3, <1>4 DEF TurnsInStep
<1>8. Allowed' = Allowed
  BY <1>2 DEF Allowed
<1>9. DecisionsInStep'
  BY <1>1, <1>2, <1>3, <1>8 DEF DecisionsInStep
<1>10. InFolder(task.artifact)' <=> InFolder(task.artifact)
  BY <1>2 DEF InFolder
<1>11. DeliveryInStep'
  BY <1>1, <1>2, <1>3, <1>8, <1>10 DEF DeliveryInStep
<1>12. AnnouncedInStep'
  BY <1>1, <1>2 DEF AnnouncedInStep
<1> QED BY <1>5, <1>6, <1>7, <1>9, <1>11, <1>12 DEF ArchiveInv

LEMMA ReadRowKeeps ==
  ASSUME ArchiveInv, ReadRow
  PROVE  ArchiveInv'
<1>1. ArchiveTypeOK /\ TaskInStep /\ TurnsInStep /\ DecisionsInStep /\ DeliveryInStep /\ AnnouncedInStep
  BY DEF ArchiveInv
<1>2. /\ current = 0 /\ row # NoSession /\ loads' = loads \cup {row}
      /\ UNCHANGED <<keeping, memos, current, row, turnRows, artifactRows, auditRows, folder, task,
                     turnNo, announced, unsaid, unaudited, stale>>
  BY DEF ReadRow, tables, notes
<1>3. (Busy' <=> Busy) /\ Stage' = Stage /\ \A what : Left(what)' <=> Left(what)
  BY <1>2 DEF Busy, Stage, Left
<1>4. ArchiveTypeOK'
  BY <1>1, <1>2 DEF ArchiveTypeOK
<1>5. TaskInStep'
  BY <1>1, <1>2, <1>3 DEF TaskInStep
<1>6. TurnsInStep'
  BY <1>1, <1>2, <1>3 DEF TurnsInStep
<1>7. Allowed' = Allowed
  BY <1>2 DEF Allowed
<1>8. DecisionsInStep'
  BY <1>1, <1>2, <1>3, <1>7 DEF DecisionsInStep
<1>9. \A a : InFolder(a)' <=> InFolder(a)
  BY <1>2 DEF InFolder
<1>10. InFolder(task.artifact)' <=> InFolder(task.artifact)
  BY <1>2 DEF InFolder
<1>11. DeliveryInStep'
  BY <1>1, <1>2, <1>3, <1>7, <1>10 DEF DeliveryInStep
<1>12. AnnouncedInStep'
  <2>1. \A r \in loads' : NotNewer(r)
    BY <1>1, <1>2 DEF AnnouncedInStep
  <2>2. announced # {} => loads' \subseteq {row}
    BY <1>1, <1>2 DEF AnnouncedInStep
  <2>3. \A a \in announced' : InFolder(a)' /\ Typed(a)
    BY <1>1, <1>2, <1>9 DEF AnnouncedInStep
  <2> QED BY <1>1, <1>2, <1>3, <2>1, <2>2, <2>3 DEF AnnouncedInStep
<1> QED BY <1>4, <1>5, <1>6, <1>8, <1>11, <1>12 DEF ArchiveInv

LEMMA InstallRowKeeps ==
  ASSUME ArchiveInv, InstallRow
  PROVE  ArchiveInv'
<1>1. ArchiveTypeOK /\ TaskInStep /\ TurnsInStep /\ DecisionsInStep /\ DeliveryInStep /\ AnnouncedInStep
  BY DEF ArchiveInv
<1>2. PICK r \in loads :
        /\ current' = IF task # NoTask /\ task.rec = 1 THEN 2 ELSE 1
        /\ memos' = [memos EXCEPT ![current'] = Restored(r)]
        /\ loads' \in {loads, loads \ {r}}
        /\ announced' = IF current = 0 THEN announced ELSE {}
        /\ UNCHANGED <<keeping, tables, folder, task, removing, turnNo, unsaid, unaudited,
                       stale, archiveFaults>>
  BY DEF InstallRow
<1>3. UNCHANGED <<row, turnRows, artifactRows, auditRows, folder, task, turnNo, unsaid, unaudited, stale>>
  BY <1>2 DEF tables
<1> DEFINE n == current'
           m == Restored(r)
<1>4. n \in 1 .. 2 /\ (Busy => task.rec # n)
  BY <1>2 DEF Busy
<1>5. /\ m \in Memos /\ m.turns = <<>> /\ m.artifacts = r.artifacts /\ m.revision = r.revision
      /\ m.ctx = 0 /\ r \in Payloads
  BY <1>1, <1>2, ArchiveTypes DEF ArchiveTypeOK
<1> HIDE DEF m
<1>6. /\ memos' \in [1 .. 2 -> Memos] /\ memos'[n] = m /\ \A k \in 1 .. 2 : k # n => memos'[k] = memos[k]
  <2>1. memos \in [1 .. 2 -> Memos] /\ memos' = [memos EXCEPT ![n] = m]
    BY <1>1, <1>2 DEF ArchiveTypeOK, m
  <2> HIDE DEF n
  <2> QED BY <1>4, <1>5, <2>1
<1>7. loads' \subseteq loads
  BY <1>2
<1>8. (Busy' <=> Busy) /\ Stage' = Stage /\ \A what : Left(what)' <=> Left(what)
  BY <1>3 DEF Busy, Stage, Left
<1>9. Busy => task.rec \in 1 .. 2 /\ memos'[task.rec] = memos[task.rec]
  BY <1>1, <1>4, <1>6, BusyIs
<1>10. announced' \subseteq announced
  BY <1>2
<1>11. Range(m.turns) = {} /\ Rising(m.turns)
  BY <1>5, WritesAre DEF Rising
<1>12. ArchiveTypeOK'
  BY <1>1, <1>3, <1>4, <1>6, <1>7, <1>10 DEF ArchiveTypeOK
<1>13. TaskInStep'
  <2>1. memos'[current'].turns = <<>>
    BY <1>5, <1>6
  <2> QED BY <1>1, <1>3, <1>8, <1>9, <2>1 DEF TaskInStep
<1>14. TurnsInStep'
  <2>1. ASSUME NEW k \in 1 .. 2
        PROVE  /\ Rising(memos'[k].turns)
               /\ \A t \in Range(memos'[k].turns) :
                    /\ t <= turnNo
                    /\ t \in Range(turnRows) \cup unsaid \/ (Busy /\ task.turn = t /\ Left("turn"))
    <3>1. CASE k = n
      BY <1>6, <1>11, <3>1
    <3>2. CASE k # n
      BY <1>1, <1>6, <3>2 DEF TurnsInStep
    <3> QED BY <3>1, <3>2
  <2>2. Range(memos'[current'].turns) = {}
    BY <1>6, <1>11
  <2> QED BY <1>1, <1>3, <1>8, <2>1, <2>2 DEF TurnsInStep
<1>15. Allowed' = Allowed
  BY <1>3 DEF Allowed
<1>16. DecisionsInStep'
  <2>1. \A k \in 1 .. 2 : memos'[k].ctx \in Allowed \cup {0}
    BY <1>1, <1>5, <1>6 DEF DecisionsInStep
  <2> QED BY <1>1, <1>3, <1>8, <1>9, <1>10, <1>15, <2>1 DEF DecisionsInStep
<1>17. DeliveryInStep'
  <2>1. Busy' => current' # task'.rec
    BY <1>3, <1>4, <1>8
  <2> QED BY <1>1, <1>3, <1>8, <1>9, <1>15, <2>1 DEF DeliveryInStep
<1>18. AnnouncedInStep'
  <2>1. \A k \in 1 .. 2 : NotNewer(memos'[k])
    <3>1. NotNewer(m)
      BY <1>1, <1>2, <1>5 DEF AnnouncedInStep, NotNewer
    <3> QED BY <1>1, <1>6, <3>1 DEF AnnouncedInStep
  <2>2. \A a : InFolder(a)' <=> InFolder(a)
    BY <1>3 DEF InFolder
  <2>3. announced' # {} => current = 0 /\ announced' = announced
    BY <1>2
  <2>4. announced' # {} => ~Busy
    BY <1>1, <1>9, <2>3 DEF AnnouncedInStep
  <2>5. announced' # {} => announced \subseteq Range(m.artifacts)
    BY <1>1, <1>2, <1>5, <2>3 DEF AnnouncedInStep
  <2>6. /\ \A r2 \in loads' : NotNewer(r2)
        /\ row' # NoSession => NotNewer(row')
        /\ \A f, g \in folder' : f.name = g.name => f = g
    BY <1>1, <1>3, <1>7 DEF AnnouncedInStep
  <2>7. current' # 0
    BY <1>4
  <2>8. announced' # {} /\ ~stale' /\ row' # NoSession => announced' \subseteq Range(row'.artifacts)
    BY <1>1, <1>3, <2>3 DEF AnnouncedInStep
  <2>9. ASSUME NEW a \in announced'
        PROVE  /\ InFolder(a)' /\ Typed(a) /\ a \in Range(memos'[current'].artifacts)
               /\ memos'[current'].ctx \in {0, a.report}
    BY <1>1, <1>5, <1>6, <1>10, <2>2, <2>3, <2>5 DEF AnnouncedInStep
  <2> QED BY <1>8, <2>1, <2>4, <2>6, <2>7, <2>8, <2>9 DEF AnnouncedInStep
<1> QED BY <1>12, <1>13, <1>14, <1>16, <1>17, <1>18 DEF ArchiveInv

LEMMA ArchiveRestartKeeps ==
  ASSUME ArchiveInv, ArchiveRestart
  PROVE  ArchiveInv'
<1>1. ArchiveTypeOK /\ TaskInStep /\ TurnsInStep /\ DecisionsInStep /\ DeliveryInStep /\ AnnouncedInStep
  BY DEF ArchiveInv
<1>2. /\ memos' = Unused /\ current' = 0 /\ task' = NoTask /\ loads' = {}
      /\ announced' = IF row = NoSession THEN {}
                      ELSE IF stale THEN announced \cap Range(row.artifacts) ELSE announced
      /\ UNCHANGED <<row, turnRows, artifactRows, auditRows, folder, turnNo, unsaid, unaudited, stale>>
  BY DEF ArchiveRestart, tables
<1>3. /\ Unused \in [1 .. 2 -> Memos]
      /\ \A k \in 1 .. 2 : Unused[k].turns = <<>> /\ Unused[k].artifacts = <<>> /\ Unused[k].ctx = 0
  BY ArchiveTypes
<1>4. \A k \in 1 .. 2 : Range(memos'[k].turns) = {} /\ Range(memos'[k].artifacts) = {} /\ memos'[k].ctx = 0
  BY <1>2, <1>3, WritesAre
<1>5. \A k \in 1 .. 2 : Rising(memos'[k].turns)
  BY <1>2, <1>3 DEF Rising
<1>6. ~Busy'
  BY <1>2 DEF Busy
<1>7. /\ announced' \subseteq announced
      /\ announced' # {} => row # NoSession /\ announced' \subseteq Range(row.artifacts)
  BY <1>1, <1>2 DEF AnnouncedInStep
<1>8. ArchiveTypeOK'
  BY <1>1, <1>2, <1>3, <1>7 DEF ArchiveTypeOK
<1>9. TaskInStep' /\ DeliveryInStep'
  BY <1>6 DEF TaskInStep, DeliveryInStep
<1>10. TurnsInStep'
  <2>1. ASSUME NEW k \in 1 .. 2
        PROVE  Rising(memos'[k].turns) /\ Range(memos'[k].turns) = {}
    BY <1>4, <1>5
  <2>2. Rising(turnRows') /\ (\A t \in Range(turnRows') : t <= turnNo')
        /\ (row' = NoSession => turnRows' = <<>> /\ artifactRows' = <<>>)
    BY <1>1, <1>2 DEF TurnsInStep
  <2> QED BY <1>2, <1>6, <2>1, <2>2 DEF TurnsInStep
<1>11. DecisionsInStep'
  <2>1. Allowed' = Allowed
    BY <1>2 DEF Allowed
  <2> QED BY <1>1, <1>2, <1>4, <1>6, <1>7, <2>1 DEF DecisionsInStep
<1>12. AnnouncedInStep'
  <2>1. \A k \in 1 .. 2 : NotNewer(memos'[k])
    BY <1>4 DEF NotNewer
  <2>2. \A a : InFolder(a)' <=> InFolder(a)
    BY <1>2 DEF InFolder
  <2>3. \A a \in announced' : InFolder(a)' /\ Typed(a)
    BY <1>1, <1>7, <2>2 DEF AnnouncedInStep
  <2>4. /\ row' # NoSession => NotNewer(row')
        /\ \A f, g \in folder' : f.name = g.name => f = g
    BY <1>1, <1>2 DEF AnnouncedInStep
  <2> QED BY <1>2, <1>6, <1>7, <2>1, <2>3, <2>4 DEF AnnouncedInStep
<1> QED BY <1>8, <1>9, <1>10, <1>11, <1>12 DEF ArchiveInv

-----------------------------------------------------------------------------
(* The theorems *)

LEMMA ArchiveBegins == ArchiveInit => ArchiveInv
<1> SUFFICES ASSUME ArchiveInit
             PROVE  ArchiveInv
  OBVIOUS
<1> USE DEF ArchiveInit
<1>1. /\ memos = Unused /\ Unused \in [1 .. 2 -> Memos]
      /\ \A k \in 1 .. 2 : Unused[k].turns = <<>> /\ Unused[k].artifacts = <<>> /\ Unused[k].ctx = 0
  BY ArchiveTypes
<1>2. \A k \in 1 .. 2 : /\ Range(memos[k].turns) = {} /\ Rising(memos[k].turns)
                       /\ Range(memos[k].artifacts) = {} /\ memos[k].ctx = 0
  BY <1>1, WritesAre DEF Rising
<1>3. row = NoSession \/ (row = SessionPayload(NewMemo) /\ row \in Payloads /\ row.artifacts = <<>>)
  <2>1. SessionPayload(NewMemo).artifacts = <<>>
    BY ArchiveTypes DEF SessionPayload
  <2> QED BY <2>1, ArchiveTypes
<1>4. ~Busy
  BY DEF Busy
<1>5. turnRows \in Seq(Nat) /\ artifactRows \in Seq(Artifacts) /\ auditRows \in Seq(Audits)
  OBVIOUS
<1>6. Range(turnRows) = {} /\ Range(auditRows) = {} /\ Rising(turnRows) /\ DOMAIN auditRows = {}
  BY WritesAre DEF Rising
<1>7. ArchiveTypeOK
  <2>1. memos \in [1 .. 2 -> Memos] /\ current \in 0 .. 2 /\ turnNo \in Nat
    BY <1>1
  <2>2. loads \subseteq Payloads /\ folder \subseteq Files /\ announced \subseteq Artifacts
        /\ unaudited \subseteq Nat
    OBVIOUS
  <2>3. stale \in BOOLEAN /\ task \in WriteTasks \cup {NoTask}
    OBVIOUS
  <2>4. row \in Payloads \cup {NoSession}
    BY <1>3
  <2> QED BY <1>5, <2>1, <2>2, <2>3, <2>4 DEF ArchiveTypeOK
<1>8. TaskInStep /\ DeliveryInStep
  BY <1>4 DEF TaskInStep, DeliveryInStep
<1>9. TurnsInStep
  BY <1>2, <1>4, <1>6 DEF TurnsInStep
<1>10. DecisionsInStep
  BY <1>2, <1>4, <1>6 DEF DecisionsInStep
<1>11. AnnouncedInStep
  <2>1. \A k \in 1 .. 2 : NotNewer(memos[k])
    BY <1>2 DEF NotNewer
  <2>2. row # NoSession => NotNewer(row)
    BY <1>3, WritesAre DEF NotNewer
  <2> QED BY <2>1, <2>2 DEF AnnouncedInStep
<1> QED BY <1>7, <1>8, <1>9, <1>10, <1>11 DEF ArchiveInv

LEMMA ArchiveStutters ==
  ASSUME ArchiveInv, UNCHANGED archiveVars
  PROVE  ArchiveInv'
<1> USE DEF archiveVars
<1>1. /\ (Busy' <=> Busy) /\ Stage' = Stage /\ (\A what : Left(what)' <=> Left(what))
      /\ Allowed' = Allowed
  BY DEF Busy, Stage, Left, Allowed
<1>2. \A a : InFolder(a)' <=> InFolder(a)
  BY DEF InFolder
<1>3. InFolder(task.artifact)' <=> InFolder(task.artifact)
  BY DEF InFolder
<1>4. ArchiveTypeOK' /\ TaskInStep'
  BY <1>1 DEF ArchiveInv, ArchiveTypeOK, TaskInStep
<1>5. TurnsInStep' /\ DecisionsInStep'
  BY <1>1 DEF ArchiveInv, TurnsInStep, DecisionsInStep
<1>6. DeliveryInStep'
  BY <1>1, <1>3 DEF ArchiveInv, DeliveryInStep
<1>7. AnnouncedInStep'
  BY <1>1, <1>2 DEF ArchiveInv, AnnouncedInStep
<1> QED BY <1>4, <1>5, <1>6, <1>7 DEF ArchiveInv

(* The inductive invariant of what a session keeps: where its request is, what *)
(* it still has to write, and how memory, tables and files belong together   *)
(* (SessionArchive).                                                         *)
THEOREM ArchiveStays == ArchiveSpec => []ArchiveInv
<1>1. ArchiveInit => ArchiveInv
  BY ArchiveBegins
<1>2. ArchiveInv /\ [ArchiveNext]_archiveVars => ArchiveInv'
  <2> SUFFICES ASSUME ArchiveInv, [ArchiveNext]_archiveVars
               PROVE  ArchiveInv'
    OBVIOUS
  <2>1. CASE Chat \/ CancelArchive
    BY <2>1, ChatKeeps
  <2>2. ASSUME NEW f \in ReportFormats,
               Drive("report", f) \/ Drive("confirm", f) \/ ConfirmPreview(f)
        PROVE  ArchiveInv'
    BY <2>2, DriveKeeps, ConfirmKeeps
  <2>3. CASE Drive("send", "none")
    BY <2>3, DriveKeeps
  <2>4. CASE AskBack \/ Gate \/ PipelineFails \/ Compose
    BY <2>4, AskBackKeeps, GateKeeps, FailsKeeps, ComposeKeeps
  <2>5. CASE RenderReport \/ RenderConfirmed \/ RenderFails \/ DeliverArtifact
    BY <2>5, RenderReportKeeps, RenderConfirmedKeeps, RenderFailsKeeps, DeliveringKeeps
  <2>6. CASE PersistTurn \/ PersistArtifact \/ PersistAudit \/ PersistSession
    BY <2>6, PersistTurnKeeps, PersistArtifactKeeps, PersistAuditKeeps, PersistSessionKeeps
  <2>7. CASE ReadRow \/ InstallRow \/ RemoveRow \/ RemoveRecord \/ CleanFolder \/ ArchiveRestart
    BY <2>7, ReadRowKeeps, InstallRowKeeps, RemoveRowKeeps, RemoveRecordKeeps, ArchiveRestartKeeps
  <2>8. CASE UNCHANGED archiveVars
    BY <2>8, ArchiveStutters
  <2> QED BY <2>1, <2>2, <2>3, <2>4, <2>5, <2>6, <2>7, <2>8 DEF ArchiveNext
<1> QED BY <1>1, <1>2, PTL DEF ArchiveSpec

(* The turns are stored in the order in which they were said, each once, and a *)
(* client reads the end of what is stored, whatever fails and whoever loads or *)
(* deletes the session meanwhile (SessionArchive).                           *)
THEOREM HistoryIsKeptHolds == ArchiveSpec => []HistoryIsKept
<1>1. ArchiveInv => HistoryIsKept
  <2> SUFFICES ASSUME ArchiveInv
               PROVE  HistoryIsKept
    OBVIOUS
  <2>1. TurnsInStep /\ current \in 0 .. 2
    BY DEF ArchiveInv, ArchiveTypeOK
  <2>2. Rising(turnRows) /\ (row = NoSession => turnRows = <<>> /\ artifactRows = <<>>)
    BY <2>1 DEF TurnsInStep
  <2>3. ASSUME current # 0
        PROVE  /\ Rising(memos[current].turns)
               /\ \A t \in Range(memos[current].turns) :
                    \/ t \in Range(turnRows) \cup unsaid
                    \/ task # NoTask /\ task.turn = t /\ "turn" \in Range(task.writes)
               /\ \A t \in Range(turnRows) \ Range(memos[current].turns) :
                    \A u \in Range(memos[current].turns) : t < u
    BY <2>1, <2>3 DEF TurnsInStep, Busy, Left
  <2> QED BY <2>2, <2>3 DEF HistoryIsKept, ListTurns
<1> QED BY <1>1, ArchiveStays, PTL

(* A report that a client was told of is listed by its interaction and       *)
(* downloaded as what it was, whatever happens next to it, until the session is *)
(* deleted, cleaned up or lost (SessionArchive).                             *)
THEOREM ArtifactsAreFoundHolds == ArchiveSpec => []ArtifactsAreFound
<1>1. ArchiveInv => ArtifactsAreFound
  <2> SUFFICES ASSUME ArchiveInv, NEW a \in announced
               PROVE  /\ current = 0 => row # NoSession
                      /\ current # 0 =>
                           /\ a \in ListArtifacts(a.of)
                           /\ Download(ReportName(a)) = {[name |-> ReportName(a), report |-> a.report]}
                           /\ a.revision = memos[current].revision => ShowPreview \subseteq {a.report}
                      /\ a.type # "none" => a.type = MediaType(a.format)
    BY DEF ArtifactsAreFound
  <2>1. AnnouncedInStep /\ current \in 0 .. 2
    BY DEF ArchiveInv, ArchiveTypeOK
  <2>2. current = 0 => row # NoSession
    BY <2>1 DEF AnnouncedInStep
  <2>3. a.type # "none" => a.type = MediaType(a.format)
    BY <2>1 DEF AnnouncedInStep, Typed
  <2>4. ASSUME current # 0
        PROVE  /\ a \in ListArtifacts(a.of)
               /\ Download(ReportName(a)) = {[name |-> ReportName(a), report |-> a.report]}
               /\ a.revision = memos[current].revision => ShowPreview \subseteq {a.report}
    <3>1. /\ a \in Range(memos[current].artifacts) /\ InFolder(a)
          /\ a.revision = memos[current].revision => memos[current].ctx \in {0, a.report}
          /\ \A f, g \in folder : f.name = g.name => f = g
      BY <2>1, <2>4 DEF AnnouncedInStep
    <3>2. memos[current].artifacts # <<>>
      BY <3>1, WritesAre
    <3>3. Recorded = memos[current].artifacts
      BY <3>2 DEF Recorded
    <3>4. a \in ListArtifacts(a.of)
      BY <3>1, <3>3 DEF ListArtifacts
    <3> DEFINE file == [name |-> ReportName(a), report |-> a.report]
    <3>5. file \in folder /\ file.name = ReportName(a)
      BY <3>1 DEF InFolder
    <3> HIDE DEF file
    <3>6. Download(ReportName(a)) = {file}
      BY <3>1, <3>3, <3>5 DEF Download
    <3>7. a.revision = memos[current].revision => ShowPreview \subseteq {a.report}
      BY <3>1 DEF ShowPreview, Previewable
    <3> QED BY <3>4, <3>6, <3>7 DEF file
  <2> QED BY <2>2, <2>3, <2>4
<1> QED BY <1>1, ArchiveStays, PTL

(* There is no report without a decision that allows it, made and stored before, *)
(* and decisions outlive the session (SessionArchive).                       *)
THEOREM ReportsAreAllowedHolds == ArchiveSpec => []ReportsAreAllowed
<1>1. ArchiveInv => ReportsAreAllowed
  <2> SUFFICES ASSUME ArchiveInv
               PROVE  ReportsAreAllowed
    OBVIOUS
  <2>1. DecisionsInStep /\ auditRows \in Seq(Audits) /\ DOMAIN memos = 1 .. 2
    BY DEF ArchiveInv, ArchiveTypeOK
  <2> DEFINE seen == {d.question : d \in Range(ListAudits)} \cup unaudited
  <2>2. ASSUME NEW a \in announced
        PROVE  a.report \in seen \/ Len(ListAudits) = AuditPage
    <3>1. a.report \in Allowed
      BY <2>1 DEF DecisionsInStep
    <3>2. Len(auditRows) \in Nat /\ AuditPage \in Nat \ {0}
      BY <2>1, ArchiveAssumption
    <3>3. CASE Len(auditRows) < AuditPage
      <4>1. ListAudits = SubSeq(auditRows, 1, Len(auditRows))
        BY <3>3 DEF ListAudits
      <4>2. ListAudits = auditRows
        BY <2>1, <4>1
      <4> QED BY <3>1, <4>2 DEF Allowed
    <3>4. CASE ~(Len(auditRows) < AuditPage)
      <4>1. ListAudits = SubSeq(auditRows, 1, AuditPage) /\ AuditPage <= Len(auditRows)
        BY <3>2, <3>4 DEF ListAudits
      <4>2. Len(ListAudits) = AuditPage
        BY <2>1, <3>2, <4>1
      <4> QED BY <4>2
    <3> QED BY <3>3, <3>4
  <2>3. /\ \A i, j \in DOMAIN auditRows : i < j => auditRows[i].question < auditRows[j].question
        /\ \A k \in DOMAIN memos : memos[k].ctx \in Allowed \cup {0}
        /\ \A f \in folder : f.report \in Allowed
    BY <2>1 DEF DecisionsInStep
  <2>4. Allowed = {d.question : d \in {x \in Range(auditRows) : x.allowed}} \cup unaudited
    BY DEF Allowed
  <2> HIDE DEF seen
  <2>5. seen = {d.question : d \in Range(ListAudits)} \cup unaudited
    BY DEF seen
  <2> QED BY <2>2, <2>3, <2>4, <2>5 DEF ReportsAreAllowed
<1> QED BY <1>1, ArchiveStays, PTL

(* What is kept of a session is what was said in it, made and allowed: the   *)
(* three theorems above together (SessionArchive).                           *)
THEOREM ArchiveIsTrueHolds == ArchiveSpec => []ArchiveIsTrue
<1>1. HistoryIsKept /\ ArtifactsAreFound /\ ReportsAreAllowed => ArchiveIsTrue
  BY DEF ArchiveIsTrue
<1> QED BY <1>1, HistoryIsKeptHolds, ArtifactsAreFoundHolds, ReportsAreAllowedHolds, PTL

\* The last of some positions of a list is one of them.
LEMMA LastIsMember ==
  ASSUME NEW n \in Nat, NEW T, T \subseteq 1 .. n, T # {}
  PROVE  Max(T) \in T
  <1> DEFINE Below == {n - t : t \in T}
             Less == OpToRel(<, Nat)
  <1>1. Below \subseteq Nat /\ Below # {}
    <2>1. \A t \in T : n - t \in Nat
      OBVIOUS
    <2> QED
      BY <2>1
  <1>2. IsWellFoundedOn(Less, Nat)
    BY NatLessThanWellFounded
  <1> HIDE DEF Less, Below
  <1>3. PICK low \in Below : \A b \in Below : ~ (<<b, low>> \in Less)
    BY <1>1, <1>2, WFMin
  <1>4. PICK t \in T : low = n - t
    BY DEF Below
  <1>5. ASSUME NEW u \in T PROVE t >= u
    <2>1. n - u \in Below /\ n - u \in Nat /\ n - t \in Nat
      BY <1>5 DEF Below
    <2>2. ~ (n - u < n - t)
      BY <1>3, <1>4, <2>1 DEF Less, OpToRel
    <2> QED
      BY <1>5, <2>2
  <1> QED
    BY <1>4, <1>5 DEF Max

-----------------------------------------------------------------------------
(***************************************************************************)
(* One call of a skill script (SkillScript)                                *)
(***************************************************************************)
Begun == {"started", "creating", "writing", "running", "failing", "collecting",
          "returning", "storing"}
Categories ==
  {None, "input_mismatch", "script_not_found", "environment_missing", "missing_artifacts",
   "bootstrap_failed", "script_failed"}
Replies == [kind : {None, "error", "result", "untold"}, category : Categories]
ToldEvents ==
  [topic : {"started", "artifact", "completed", "failed"}, category : Categories,
   files : Seq(collected)]

SkillTypeOK ==
  /\ step \in {"idle", "asked", "ended"} \cup Begun
  /\ disk \in Disks /\ box \in {"none", "live", "gone", "lost"}
  /\ done \in [parts : Nat, printed : {None, "usage", "timeout"}]
  /\ stored \in Seq(collected) /\ told \in Seq(ToldEvents)
  /\ answer \in Replies

\* What runs was made of the usable package that was found, and nothing has
\* worked before it ran.
CommandInStep ==
  /\ step \in Begun => Usable(entry) /\ entry.dir = call.skill
  /\ step \in {"idle", "asked", "started"} => command = <<>>
  /\ step \in Begun \ {"started"} => command # <<>>
  /\ command # <<>> =>
       /\ Usable(entry) /\ entry.dir = call.skill
       /\ Len(command) \in Nat \ {0} /\ Last(command).of = {Script}
       /\ entry.packages # {} => command[1].of = entry.packages
       /\ Script \in entry.scripts
       /\ entry.needs \subseteq SpecOf(entry, Script).env \cup call.env \cup HostEnv
       /\ Succeeded => Script \in written
  /\ step \in {"idle", "asked", "started", "creating", "writing", "running", "failing"} =>
       done = NoRun

\* There is a sandbox from its creation on, and none is left over at the end.
BoxInStep ==
  /\ step \in {"idle", "asked", "started", "creating"} => box = "none"
  /\ step = "storing" => box = "gone"
  /\ step = "ended" => box # "live"

\* The start was told, and each file that was stored.
FilesAreTold ==
  /\ Len(told) \in Nat /\ Len(told) > Len(stored)
  /\ told[1].topic = "started" /\ told[1].files = <<>>
  /\ \A k \in 1 .. Len(stored) :
       told[k + 1].topic = "artifact" /\ told[k + 1].files = <<stored[k]>>

\* A call ends before it began, when a file could not be stored, or with its end
\* told: that it completed exactly when its command and its files were right.
Refused ==
  /\ told = <<>> /\ answer.kind = "error"
  /\ ~Usable(entry) /\ entry = Registered(disk, call.skill)
Unheard == Len(told) = Len(stored) + 1 /\ FilesAreTold /\ Unstored # {} /\ answer.kind = "error"
Heard ==
  /\ Len(told) = Len(stored) + 2 /\ FilesAreTold
  /\ told[Len(told)].topic \in {"completed", "failed"}
  /\ answer.kind = "result" =>
       /\ told[Len(told)].topic = "completed" <=> Succeeded
       /\ told[Len(told)].files = stored /\ Unstored = {} /\ answer.category = Category

\* No end was told, or it was the last that was told, after the start.
EndLast ==
  \A k \in 1 .. Len(told) :
    told[k].topic \in {"completed", "failed"} => k = Len(told) /\ k # 1

\* A publication raised; what it told may be lost, even that a file was stored.
Untold == answer.kind = "untold" /\ EndLast

\* What was told and stored is as far as the call is.
EndInStep ==
  /\ step \in {"idle", "asked"} => told = <<>>
  /\ step \notin {"storing", "ended"} => stored = <<>>
  /\ step \in Begun => Len(told) = Len(stored) + 1 /\ FilesAreTold
  /\ step = "ended" => Refused \/ Unheard \/ Heard \/ Untold
  /\ answer.kind = "result" => step = "ended"

ScriptInv == SkillTypeOK /\ CommandInStep /\ BoxInStep /\ EndInStep

\* The script comes last, and what is installed first.
LEMMA CommandIs ==
  ASSUME NEW e, NEW spec, NEW script
  PROVE  LET c == Command(e, spec, script)
         IN /\ Len(c) \in Nat \ {0} /\ c # <<>> /\ c[Len(c)].of = {script}
            /\ e.packages # {} => c[1].of = e.packages
<1> DEFINE deep == \E k \in DOMAIN ArtifactPaths(spec) : ArtifactPaths(spec)[k].deep
           a == [part |-> "install", of |-> e.packages]
           b == [part |-> "mkdir", of |-> {}]
           z == [part |-> "script", of |-> {script}]
           c == Command(e, spec, script)
           S == {a, b, z}
           s1 == IF e.packages = {} THEN <<>> ELSE <<a>>
           s2 == IF deep THEN <<b>> ELSE <<>>
<1>1. c = s1 \o s2 \o <<z>>
  BY DEF Command
<1>2. z.of = {script} /\ a.of = e.packages
  OBVIOUS
<1> HIDE DEF deep, a, b, z, c
<1>3. /\ s1 \in Seq(S) /\ s2 \in Seq(S) /\ <<z>> \in Seq(S) /\ Len(s2) \in Nat
      /\ Len(s1) = IF e.packages = {} THEN 0 ELSE 1
      /\ e.packages # {} => s1[1] = a
  <2>1. a \in S /\ b \in S /\ z \in S
    OBVIOUS
  <2> HIDE DEF S
  <2>2. <<a>> \in Seq(S) /\ <<b>> \in Seq(S) /\ <<z>> \in Seq(S) /\ <<>> \in Seq(S)
    BY <2>1
  <2>3. Len(<<a>>) = 1 /\ Len(<<b>>) = 1 /\ Len(<<>>) = 0 /\ <<a>>[1] = a
    OBVIOUS
  <2> QED BY <2>2, <2>3
<1> HIDE DEF S
<1> HIDE DEF s1, s2
<1>4. /\ s1 \o s2 \in Seq(S) /\ Len(s1 \o s2) = Len(s1) + Len(s2)
      /\ \A i \in 1 .. Len(s1) + Len(s2) :
           (s1 \o s2)[i] = IF i <= Len(s1) THEN s1[i] ELSE s2[i - Len(s1)]
  BY <1>3, ConcatProperties
<1> DEFINE t == s1 \o s2
<1> HIDE DEF t
<1>5. t \in Seq(S) /\ Len(t) \in Nat /\ (e.packages # {} => Len(t) >= 1 /\ t[1] = a)
  BY <1>3, <1>4 DEF t
<1>6. /\ t \o <<z>> \in Seq(S) /\ Len(t \o <<z>>) = Len(t) + 1
      /\ \A i \in 1 .. Len(t) + 1 :
           (t \o <<z>>)[i] = IF i <= Len(t) THEN t[i] ELSE <<z>>[i - Len(t)]
  BY <1>3, <1>5, ConcatProperties, Len(<<z>>) = 1
<1>7. c = t \o <<z>>
  BY <1>1 DEF t
<1>8. c[Len(c)] = z /\ Len(c) = Len(t) + 1
  BY <1>5, <1>6, <1>7
<1>9. e.packages # {} => c[1] = a
  BY <1>5, <1>6, <1>7
<1>10. c # <<>>
  BY <1>5, <1>8
<1> QED BY <1>2, <1>5, <1>8, <1>9, <1>10 DEF c

\* The package found has the name that was asked for, so a usable one has its
\* directory.
LEMMA RegisteredIs ==
  ASSUME NEW d \in Disks, NEW name
  PROVE  LET e == Registered(d, name)
         IN Usable(e) => e.name = name /\ e.dir = name
<1> DEFINE named == {k \in DOMAIN d : Entry(d[k]).name = name}
           e == Registered(d, name)
<1> SUFFICES ASSUME Usable(e) PROVE e.name = name /\ e.dir = name
  OBVIOUS
<1>1. named # {}
  BY DEF Registered, Usable
<1>2. Len(d) \in Nat /\ DOMAIN d = 1 .. Len(d)
  BY SkillAssumption
<1>3. Max(named) \in named
  BY <1>1, <1>2, LastIsMember
<1> DEFINE p == d[Max(named)]
<1>4. e = Entry(p) /\ Entry(p).name = name
  BY <1>1, <1>3 DEF Registered
<1> HIDE DEF p, e, named
<1>5. e.valid
  BY DEF Usable
<1>6. Parses(p)
  BY <1>4, <1>5 DEF Entry
<1>7. e.name = p.name /\ e.dir = p.dir /\ Valid(p)
  BY <1>4, <1>5, <1>6 DEF Entry
<1> QED BY <1>4, <1>7 DEF Valid, e

\* What a catalog shows under a name is what is found by it.
LEMMA OfferedIs ==
  ASSUME NEW d \in Disks, NEW e \in Offered(d)
  PROVE  Usable(e) /\ e = Registered(d, e.name)
<1>1. PICK k \in DOMAIN d : e = Registered(d, Entry(d[k]).name) /\ e.valid /\ ~e.disabled
  BY DEF Offered
<1>2. e # NoEntry
  BY <1>1 DEF NoEntry
<1>3. Usable(e)
  BY <1>1, <1>2 DEF Usable
<1>4. e.name = Entry(d[k]).name
  BY <1>1, <1>3, RegisteredIs
<1> QED BY <1>1, <1>3, <1>4

\* A publication raises where no end was told before.
LEMMA RaisesUntold ==
  ASSUME told \in Seq(ToldEvents), NEW e \in ToldEvents, TellRaises(e),
         \A k \in 1 .. Len(told) : told[k].topic \notin {"completed", "failed"},
         told = <<>> => e.topic \notin {"completed", "failed"}
  PROVE  told' \in Seq(ToldEvents) /\ step' = "ended" /\ Untold' /\ answer' \in Replies
<1>1. /\ told' = told \/ told' = Append(told, e)
      /\ step' = "ended" /\ answer' = [kind |-> "untold", category |-> None]
  BY DEF TellRaises, End
<1>2. CASE told' = told
  BY <1>1, <1>2 DEF Untold, EndLast, Replies, Categories
<1>3. CASE told' = Append(told, e)
  <2>1. /\ told' \in Seq(ToldEvents) /\ Len(told') = Len(told) + 1 /\ Len(told) \in Nat
        /\ \A i \in 1 .. Len(told) : told'[i] = told[i]
        /\ told'[Len(told) + 1] = e
    BY <1>3, AppendHas
  <2>2. Len(told) = 0 => told = <<>>
    OBVIOUS
  <2>3. EndLast'
    BY <2>1, <2>2 DEF EndLast
  <2> QED BY <1>1, <2>1, <2>3 DEF Untold, Replies, Categories
<1> QED BY <1>1, <1>2, <1>3

\* Before its end was told, only a start and files were.
LEMMA NoneEnded ==
  ASSUME FilesAreTold, Len(told) = Len(stored) + 1, stored \in Seq(collected)
  PROVE  told # <<>> /\ \A k \in 1 .. Len(told) : told[k].topic \notin {"completed", "failed"}
<1>1. Len(stored) \in Nat
  OBVIOUS
<1>2. told[1].topic = "started"
  BY DEF FilesAreTold
<1>3. ASSUME NEW k \in 2 .. Len(stored) + 1 PROVE told[k].topic = "artifact"
  <2>1. k - 1 \in 1 .. Len(stored) /\ (k - 1) + 1 = k
    BY <1>1
  <2> QED BY <2>1 DEF FilesAreTold
<1>4. \A k \in 1 .. Len(stored) + 1 : k = 1 \/ k \in 2 .. Len(stored) + 1
  BY <1>1
<1>5. told # <<>>
  BY <1>1
<1> QED BY <1>2, <1>3, <1>4, <1>5

\* An end is told.
LEMMA TellHas ==
  ASSUME SkillTypeOK, FilesAreTold, Len(told) = Len(stored) + 1, UNCHANGED stored,
         NEW topic \in {"completed", "failed"}, NEW category \in Categories,
         NEW files \in Seq(collected),
         Tell([topic |-> topic, category |-> category, files |-> files])
  PROVE  /\ told' \in Seq(ToldEvents) /\ Len(told') = Len(stored) + 2 /\ FilesAreTold'
         /\ told'[Len(told')].topic = topic /\ told'[Len(told')].files = files
<1> DEFINE e == [topic |-> topic, category |-> category, files |-> files]
<1>1. e \in ToldEvents
  BY DEF ToldEvents
<1>7. told \in Seq(ToldEvents) /\ told' = Append(told, e)
  BY DEF SkillTypeOK, Tell
<1>2. e.topic = topic /\ e.files = files
  OBVIOUS
<1> HIDE DEF e
<1>3. /\ told' \in Seq(ToldEvents) /\ Len(told') = Len(told) + 1 /\ Len(told) \in Nat
      /\ \A i \in 1 .. Len(told) : told'[i] = told[i]
      /\ told'[Len(told) + 1] = e
  BY <1>1, <1>7, AppendHas
<1>4. Len(stored) \in Nat
  BY DEF SkillTypeOK
<1>5. told'[1] = told[1]
  BY <1>3, <1>4
<1>6. ASSUME NEW k \in 1 .. Len(stored) PROVE told'[k + 1] = told[k + 1]
  BY <1>3, <1>4
<1> QED BY <1>2, <1>3, <1>4, <1>5, <1>6 DEF FilesAreTold

\* A call that ends here has told of it.
LEMMA FailsHeard ==
  ASSUME SkillTypeOK, EndInStep, step \in Begun, step # "storing",
         NEW category \in Categories, Fail(category), UNCHANGED <<stored, collected>>
  PROVE  /\ told' \in Seq(ToldEvents)' /\ answer' \in Replies
         /\ step' = "ended" /\ EndInStep'
<1>1. stored = <<>> /\ FilesAreTold /\ Len(told) = Len(stored) + 1
  BY DEF EndInStep, Begun
<1> DEFINE e == [topic |-> "failed", category |-> category, files |-> <<>>]
<1>3. <<>> \in Seq(collected)
  OBVIOUS
<1>5. ToldEvents' = ToldEvents /\ told \in Seq(ToldEvents) /\ stored \in Seq(collected)
  BY DEF ToldEvents, SkillTypeOK
<1>2. CASE Tell(e) /\ End("error", category)
  <2>1. step' = "ended" /\ answer' = [kind |-> "error", category |-> category]
    BY <1>2 DEF End
  <2>2. /\ told' \in Seq(ToldEvents) /\ Len(told') = Len(stored) + 2 /\ FilesAreTold'
        /\ told'[Len(told')].topic = "failed"
    BY <1>1, <1>2, <1>3, TellHas
  <2>3. Heard'
    BY <2>1, <2>2 DEF Heard
  <2> QED BY <1>1, <1>5, <2>1, <2>2, <2>3 DEF EndInStep, Begun, Replies
<1>4. CASE TellRaises(e)
  <2>1. e \in ToldEvents
    BY <1>3 DEF ToldEvents
  <2>2. told' \in Seq(ToldEvents) /\ step' = "ended" /\ Untold' /\ answer' \in Replies
    <3> HIDE DEF e
    <3> QED BY <1>1, <1>4, <1>5, <2>1, NoneEnded, RaisesUntold
  <2> QED BY <1>1, <1>5, <2>2 DEF EndInStep, Begun, Untold
<1>6. (Tell(e) /\ End("error", category)) \/ TellRaises(e)
  BY DEF Fail
<1> QED BY <1>2, <1>4, <1>6

LEMMA ScriptInit == SkillInit => ScriptInv
<1> SUFFICES ASSUME SkillInit PROVE ScriptInv
  OBVIOUS
<1>1. SkillTypeOK
  <2>1. <<>> \in Seq(collected) /\ <<>> \in Seq(ToldEvents)
    OBVIOUS
  <2>2. done \in [parts : Nat, printed : {None, "usage", "timeout"}]
    BY DEF SkillInit, NoRun, None
  <2>3. answer \in Replies
    BY DEF SkillInit, NoAnswer, None, Categories, Replies
  <2> QED BY <2>1, <2>2, <2>3 DEF SkillInit, SkillTypeOK
<1>2. CommandInStep /\ BoxInStep /\ EndInStep
  BY DEF SkillInit, CommandInStep, BoxInStep, EndInStep, Begun, NoAnswer, None
<1> QED BY <1>1, <1>2 DEF ScriptInv

\* What the invariant says of the files does not depend on the rest.
LEMMA ToldTheSame ==
  ASSUME UNCHANGED <<told, stored, collected>>
  PROVE  FilesAreTold' = FilesAreTold /\ ToldEvents' = ToldEvents
  BY DEF FilesAreTold, ToldEvents

LEMMA AskKeeps == ScriptInv /\ AskForScript => ScriptInv'
<1> SUFFICES ASSUME ScriptInv, AskForScript PROVE ScriptInv'
  OBVIOUS
<1> USE DEF ScriptInv, AskForScript
<1>1. SkillTypeOK'
  BY DEF SkillTypeOK, ToldEvents
<1>2. CommandInStep'
  BY DEF CommandInStep, Begun
<1>3. BoxInStep' /\ EndInStep'
  BY DEF BoxInStep, EndInStep, Begun
<1> QED BY <1>1, <1>2, <1>3

LEMMA RunKeeps == ScriptInv /\ RunScript => ScriptInv'
<1> SUFFICES ASSUME ScriptInv, RunScript PROVE ScriptInv'
  OBVIOUS
<1> DEFINE e == Started
<1>1. PICK c \in Requested :
        LET x == Registered(disk, c.skill)
        IN /\ call' = c /\ entry' = x
           /\ \/ ~Usable(x) /\ End("error", None) /\ UNCHANGED told
              \/ Usable(x) /\ told' = Append(told, e) /\ step' = "started" /\ UNCHANGED answer
              \/ Usable(x) /\ TellRaises(e)
  BY DEF RunScript, Tell
<1>2. /\ step \in {"idle", "asked"} /\ told = <<>> /\ stored = <<>> /\ command = <<>>
      /\ box = "none" /\ done = NoRun /\ disk \in Disks
      /\ UNCHANGED <<disk, promised, command, written, box, done, collected, stored, edits>>
  BY DEF RunScript, ScriptInv, EndInStep, CommandInStep, BoxInStep, SkillTypeOK
<1>3. ToldEvents' = ToldEvents /\ e \in ToldEvents /\ e.topic = "started" /\ e.files = <<>>
  BY <1>2 DEF ToldEvents, None, Categories, Started
<1> HIDE DEF e
<1> DEFINE x == Registered(disk, c.skill)
<1>4. entry' = x /\ call' = c /\ (Usable(x) => x.dir = c.skill)
  BY <1>1, <1>2, RegisteredIs
<1>5. CASE Usable(x) /\ told' = Append(told, e) /\ step' = "started" /\ UNCHANGED answer
  <2>1. told' = <<e>> /\ step' = "started" /\ UNCHANGED answer
    BY <1>2, <1>5
  <2>2. told' \in Seq(ToldEvents) /\ Len(told') = 1 /\ told'[1] = e
    BY <1>3, <2>1
  <2>3. SkillTypeOK'
    BY <1>2, <1>3, <2>1, <2>2 DEF ScriptInv, SkillTypeOK, Begun
  <2>4. CommandInStep'
    BY <1>2, <1>4, <1>5, <2>1 DEF CommandInStep, Begun
  <2>5. Len(stored') = 0 /\ stored' = <<>>
    BY <1>2
  <2>6. FilesAreTold' /\ Len(told') = Len(stored') + 1
    BY <1>3, <2>2, <2>5 DEF FilesAreTold
  <2>7. EndInStep'
    BY <2>1, <2>5, <2>6, <1>2 DEF EndInStep, Begun, ScriptInv
  <2>8. BoxInStep'
    BY <2>1, <1>2 DEF BoxInStep
  <2> QED BY <2>3, <2>4, <2>7, <2>8 DEF ScriptInv
<1>6. CASE ~Usable(x) /\ End("error", None) /\ UNCHANGED told
  <2>1. UNCHANGED told /\ step' = "ended" /\ answer' = [kind |-> "error", category |-> None]
    BY <1>6 DEF End
  <2>2. SkillTypeOK'
    BY <1>2, <1>3, <2>1 DEF ScriptInv, SkillTypeOK, Begun, None, Categories, Replies
  <2>3. CommandInStep' /\ BoxInStep'
    BY <1>2, <2>1 DEF CommandInStep, BoxInStep, Begun
  <2>4. Registered(disk, call.skill)' = x
    BY <1>2, <1>4
  <2>5. Refused'
    BY <1>2, <1>4, <1>6, <2>1, <2>4 DEF Refused
  <2>6. EndInStep'
    BY <2>1, <2>5, <1>2 DEF EndInStep, Begun
  <2> QED BY <2>2, <2>3, <2>6 DEF ScriptInv
<1>7. CASE TellRaises(e)
  <2>0. told \in Seq(ToldEvents)
    BY DEF ScriptInv, SkillTypeOK
  <2>1. /\ told' \in Seq(ToldEvents) /\ step' = "ended" /\ Untold' /\ answer' \in Replies
    BY <1>2, <1>3, <1>7, <2>0, RaisesUntold
  <2>2. SkillTypeOK'
    BY <1>2, <1>3, <2>1 DEF ScriptInv, SkillTypeOK
  <2>3. CommandInStep' /\ BoxInStep'
    BY <1>2, <2>1 DEF CommandInStep, BoxInStep, Begun
  <2>4. EndInStep'
    BY <2>1, <1>2 DEF EndInStep, Begun
  <2> QED BY <2>2, <2>3, <2>4 DEF ScriptInv
<1> QED BY <1>1, <1>5, <1>6, <1>7

\* A step of a call that goes on and tells nothing.
LEMMA OnKeeps ==
  ASSUME ScriptInv, step \in Begun, step' \in Begun, UNCHANGED <<disk, told, stored, answer>>,
         step = "storing" <=> step' = "storing"
  PROVE  EndInStep'
<1>1. Len(told) = Len(stored) + 1 /\ FilesAreTold /\ (step # "storing" => stored = <<>>)
      /\ answer.kind # "result"
  BY DEF ScriptInv, EndInStep, Begun
<1>2. FilesAreTold'
  BY <1>1 DEF FilesAreTold
<1> QED BY <1>1, <1>2 DEF EndInStep, Begun

LEMMA PrepareKeeps == ScriptInv /\ Prepare => ScriptInv'
<1> SUFFICES ASSUME ScriptInv, Prepare PROVE ScriptInv'
  OBVIOUS
<1>1. /\ step = "started" /\ SkillTypeOK /\ EndInStep /\ CommandInStep /\ BoxInStep
      /\ UNCHANGED <<disk, call, entry, written, box, done, collected, stored, edits>>
  BY DEF Prepare, ScriptInv
<1>2. Script' = Script
  BY <1>1 DEF Script
<1>3. CASE Checked = "ok"
  <2> DEFINE spec == SpecOf(entry, Script)
  <2>1. /\ command' = Command(entry, spec, Script) /\ step' = "creating"
        /\ UNCHANGED <<told, answer>>
    BY <1>3 DEF Prepare
  <2>2. /\ Script \in entry.scripts
        /\ entry.needs \subseteq spec.env \cup call.env \cup HostEnv
    BY <1>3 DEF Checked, None
  <2>3. /\ Len(command') \in Nat \ {0} /\ command' # <<>> /\ Last(command').of = {Script}
        /\ entry.packages # {} => command'[1].of = entry.packages
    BY <2>1, CommandIs DEF Last
  <2>4. SkillTypeOK'
    BY <1>1, <2>1 DEF SkillTypeOK, Begun, ToldEvents
  <2>5. ~Succeeded'
    BY <1>1, <2>3 DEF Succeeded, CommandInStep, NoRun
  <2>6. CommandInStep'
    BY <1>1, <1>2, <2>1, <2>2, <2>3, <2>5 DEF CommandInStep, Begun
  <2>7. BoxInStep' /\ EndInStep'
    BY <1>1, <2>1, OnKeeps DEF BoxInStep, Begun
  <2> QED BY <2>4, <2>6, <2>7 DEF ScriptInv
<1>4. CASE Checked # "ok"
  <2>1. Fail(Checked) /\ UNCHANGED <<promised, command>> /\ Checked \in Categories
    BY <1>4 DEF Prepare, Checked, None, Categories
  <2>2. /\ told' \in Seq(ToldEvents)' /\ step' = "ended" /\ EndInStep'
        /\ answer' \in Replies
    BY <1>1, <2>1, FailsHeard DEF Begun
  <2>3. SkillTypeOK'
    BY <1>1, <2>2 DEF SkillTypeOK
  <2>4. CommandInStep' /\ BoxInStep'
    BY <1>1, <2>1, <2>2 DEF CommandInStep, BoxInStep, Begun
  <2> QED BY <2>2, <2>3, <2>4 DEF ScriptInv
<1> QED BY <1>3, <1>4

\* A step that ends the call and leaves all but the sandbox as it was.
LEMMA FailKeeps ==
  ASSUME ScriptInv, step \in Begun \ {"storing"}, Fail(None), box' # "live",
         box' \in {"none", "gone", "lost"},
         UNCHANGED <<disk, call, entry, promised, command, written, done, collected, stored>>
  PROVE  ScriptInv'
<1>1. /\ told' \in Seq(ToldEvents)' /\ step' = "ended" /\ EndInStep'
      /\ answer' \in Replies
  BY FailsHeard DEF ScriptInv, None, Categories
<1>2. SkillTypeOK'
  BY <1>1 DEF ScriptInv, SkillTypeOK
<1>3. Script' = Script /\ Succeeded' = Succeeded
  BY DEF Script, Succeeded
<1>4. CommandInStep' /\ BoxInStep'
  BY <1>1, <1>3 DEF ScriptInv, CommandInStep, BoxInStep, Begun
<1> QED BY <1>1, <1>2, <1>4 DEF ScriptInv

\* A step that goes on with the same told, stored and collected files.
LEMMA CreateKeeps == ScriptInv /\ CreateBox => ScriptInv'
<1> SUFFICES ASSUME ScriptInv, CreateBox PROVE ScriptInv'
  OBVIOUS
<1>1. /\ step = "creating" /\ SkillTypeOK /\ CommandInStep /\ BoxInStep
      /\ UNCHANGED <<disk, call, entry, promised, command, written, done, collected,
                     stored, edits>>
  BY DEF ScriptInv, CreateBox
<1>2. CASE box' = "live" /\ step' = "writing" /\ UNCHANGED <<told, answer>>
  <2>1. SkillTypeOK' /\ BoxInStep'
    BY <1>1, <1>2 DEF SkillTypeOK, BoxInStep, Begun, ToldEvents
  <2>2. Script' = Script /\ Succeeded' = Succeeded
    BY <1>1 DEF Script, Succeeded
  <2>3. CommandInStep'
    BY <1>1, <1>2, <2>2 DEF CommandInStep, Begun
  <2>4. EndInStep'
    BY <1>1, <1>2, OnKeeps DEF Begun
  <2> QED BY <2>1, <2>3, <2>4 DEF ScriptInv
<1>3. CASE Fail(None) /\ UNCHANGED box
  <2>1. box = "none"
    BY <1>1 DEF BoxInStep
  <2> QED BY <1>1, <1>3, <2>1, FailKeeps DEF Begun
<1> QED BY <1>2, <1>3 DEF CreateBox

LEMMA WriteKeeps == ScriptInv /\ WriteFiles => ScriptInv'
<1> SUFFICES ASSUME ScriptInv, WriteFiles PROVE ScriptInv'
  OBVIOUS
<1>1. /\ step = "writing" /\ SkillTypeOK /\ CommandInStep /\ BoxInStep
      /\ step' \in {"running", "failing"}
      /\ UNCHANGED <<disk, call, entry, promised, command, box, done, collected,
                     stored, told, answer, edits>>
  BY DEF ScriptInv, WriteFiles
<1>2. SkillTypeOK' /\ BoxInStep'
  BY <1>1 DEF SkillTypeOK, BoxInStep, Begun, ToldEvents
<1>3. Script' = Script
  BY <1>1 DEF Script
<1>4. command # <<>> => ~Succeeded'
  BY <1>1 DEF Succeeded, CommandInStep, NoRun
<1>5. CommandInStep'
  BY <1>1, <1>3, <1>4 DEF CommandInStep, Begun
<1>6. EndInStep'
  BY <1>1, OnKeeps DEF Begun
<1> QED BY <1>2, <1>5, <1>6 DEF ScriptInv

LEMMA CommandKeeps == ScriptInv /\ RunCommand => ScriptInv'
<1> SUFFICES ASSUME ScriptInv, RunCommand PROVE ScriptInv'
  OBVIOUS
<1>1. /\ step = "running" /\ SkillTypeOK /\ CommandInStep /\ BoxInStep
      /\ step' \in {"collecting", "failing"}
      /\ UNCHANGED <<disk, call, entry, promised, command, written, box, collected,
                     stored, told, answer, edits>>
  BY DEF ScriptInv, RunCommand
<1>2. /\ command # <<>> /\ Len(command) \in Nat
      /\ Script' = Script
  BY <1>1 DEF CommandInStep, Begun, Script
<1>3. /\ done' \in [parts : Nat, printed : {None, "usage", "timeout"}]
      /\ Succeeded' => Script \in written
      /\ step' = "failing" => done' = NoRun
  <2>1. CASE \E parts \in 0..Len(command), printed \in {None, "usage", "timeout"} :
               /\ Possible(parts)
               /\ done' = [parts |-> parts, printed |-> printed] /\ step' = "collecting"
    BY <1>1, <1>2, <2>1 DEF Possible, Succeeded
  <2>2. CASE step' = "failing" /\ UNCHANGED done
    <3>1. done = NoRun
      BY <1>1 DEF CommandInStep
    <3> QED BY <1>1, <1>2, <2>2, <3>1 DEF SkillTypeOK, Succeeded, NoRun, CommandInStep
  <2> QED BY <2>1, <2>2 DEF RunCommand
<1>4. SkillTypeOK' /\ BoxInStep'
  BY <1>1, <1>3 DEF SkillTypeOK, BoxInStep, Begun, ToldEvents
<1>5. CommandInStep'
  BY <1>1, <1>2, <1>3 DEF CommandInStep, Begun
<1>6. EndInStep'
  BY <1>1, OnKeeps DEF Begun
<1> QED BY <1>4, <1>5, <1>6 DEF ScriptInv

LEMMA CollectKeeps == ScriptInv /\ CollectArtifacts => ScriptInv'
<1> SUFFICES ASSUME ScriptInv, CollectArtifacts PROVE ScriptInv'
  OBVIOUS
<1>1. /\ step = "collecting" /\ SkillTypeOK /\ CommandInStep /\ BoxInStep /\ EndInStep
      /\ step' = "returning"
      /\ UNCHANGED <<disk, call, entry, promised, command, written, box, done, stored,
                     told, answer, edits>>
  BY DEF ScriptInv, CollectArtifacts
<1>2. stored = <<>> /\ FilesAreTold /\ Len(told) = 1
  BY <1>1 DEF EndInStep, Begun
<1>3. told \in Seq(ToldEvents)'
  <2>5. told \in Seq(ToldEvents) /\ told[1].files = <<>>
    BY <1>1, <1>2 DEF FilesAreTold, SkillTypeOK
  <2>1. told[1] \in ToldEvents /\ told[1].files = <<>> /\ told \in Seq(ToldEvents)
    BY <1>2, <2>5, ElementOfSeq
  <2>2. told[1] \in ToldEvents'
    <3>1. <<>> \in Seq(collected')
      OBVIOUS
    <3> QED BY <2>1, <3>1 DEF ToldEvents
  <2> HIDE DEF ToldEvents
  <2>3. \A i \in 1 .. Len(told) : told[i] \in ToldEvents'
    BY <1>2, <2>2
  <2>4. told = [i \in 1 .. Len(told) |-> told[i]] /\ Len(told) \in Nat
    BY <2>1
  <2> QED BY <2>3, <2>4, IsASeq
<1>4. SkillTypeOK'
  BY <1>1, <1>2, <1>3 DEF SkillTypeOK, Begun
<1>5. Script' = Script /\ Succeeded' = Succeeded
  BY <1>1 DEF Script, Succeeded
<1>6. CommandInStep' /\ BoxInStep'
  BY <1>1, <1>5 DEF CommandInStep, BoxInStep, Begun
<1>7. EndInStep'
  BY <1>1, OnKeeps DEF Begun
<1> QED BY <1>4, <1>6, <1>7 DEF ScriptInv

LEMMA DestroyKeeps == ScriptInv /\ DestroyBox => ScriptInv'
<1> SUFFICES ASSUME ScriptInv, DestroyBox PROVE ScriptInv'
  OBVIOUS
<1>1. /\ step \in {"failing", "returning"} /\ box' \in {"gone", "lost"}
      /\ SkillTypeOK /\ CommandInStep /\ BoxInStep /\ EndInStep
      /\ UNCHANGED <<disk, call, entry, promised, command, written, done, collected,
                     stored, edits>>
  BY DEF ScriptInv, DestroyBox
<1>2. CASE Fail(None)
  BY <1>1, <1>2, FailKeeps DEF Begun
<1>3. CASE box' = "gone" /\ step' = "storing" /\ UNCHANGED <<told, answer>>
  <2>1. Len(told) = Len(stored) + 1 /\ FilesAreTold /\ answer.kind # "result"
    BY <1>1 DEF EndInStep, Begun
  <2>2. FilesAreTold'
    BY <1>1, <1>3, <2>1 DEF FilesAreTold
  <2>3. EndInStep'
    BY <1>1, <1>3, <2>1, <2>2 DEF EndInStep, Begun
  <2>4. Script' = Script /\ Succeeded' = Succeeded
    BY <1>1 DEF Script, Succeeded
  <2>5. SkillTypeOK' /\ CommandInStep' /\ BoxInStep'
    BY <1>1, <1>3, <2>4 DEF SkillTypeOK, CommandInStep, BoxInStep, Begun, ToldEvents
  <2> QED BY <2>3, <2>5 DEF ScriptInv
<1>4. Fail(None) \/ (box' = "gone" /\ step' = "storing" /\ UNCHANGED <<told, answer>>)
  BY DEF DestroyBox
<1> QED BY <1>2, <1>3, <1>4

LEMMA StoreKeeps == ScriptInv /\ StoreArtifact => ScriptInv'
<1> SUFFICES ASSUME ScriptInv, StoreArtifact PROVE ScriptInv'
  OBVIOUS
<1>1. /\ step = "storing" /\ Unstored # {}
      /\ SkillTypeOK /\ CommandInStep /\ BoxInStep /\ EndInStep
      /\ UNCHANGED <<disk, call, entry, promised, command, written, box, done,
                     collected, edits>>
  BY DEF ScriptInv, StoreArtifact
<1>2. Script' = Script /\ Succeeded' = Succeeded /\ ToldEvents' = ToldEvents
  BY <1>1 DEF Script, Succeeded, ToldEvents
<1>3. /\ Len(told) = Len(stored) + 1 /\ FilesAreTold /\ answer.kind # "result"
      /\ told \in Seq(ToldEvents) /\ stored \in Seq(collected)
  BY <1>1 DEF EndInStep, Begun, SkillTypeOK
<1>4. ASSUME NEW a \in Unstored, stored' = Append(stored, a),
             Tell([topic |-> "artifact", category |-> None, files |-> <<a>>]),
             UNCHANGED <<answer, step>>
      PROVE  ScriptInv'
  <2> DEFINE e == [topic |-> "artifact", category |-> None, files |-> <<a>>]
  <2>1. a \in collected
    BY DEF Unstored
  <2>2. e \in ToldEvents
    <3>1. <<a>> \in Seq(collected)
      BY <2>1
    <3> QED BY <3>1 DEF ToldEvents, None, Categories
  <2>3. told' = Append(told, e) /\ e.topic = "artifact" /\ e.files = <<a>>
    BY <1>4 DEF Tell
  <2> HIDE DEF e
  <2>4. /\ told' \in Seq(ToldEvents) /\ Len(told') = Len(told) + 1
        /\ \A i \in 1 .. Len(told) : told'[i] = told[i]
        /\ told'[Len(told) + 1] = e
    BY <1>3, <2>2, <2>3, AppendHas
  <2>5. /\ stored' \in Seq(collected) /\ Len(stored') = Len(stored) + 1 /\ Len(stored) \in Nat
        /\ \A i \in 1 .. Len(stored) : stored'[i] = stored[i]
        /\ stored'[Len(stored) + 1] = a
    BY <1>3, <1>4, <2>1, AppendHas
  <2>6. FilesAreTold'
    <3>1. told'[1] = told[1]
      BY <1>3, <2>4, <2>5
    <3>2. ASSUME NEW k \in 1 .. Len(stored')
          PROVE  told'[k + 1].topic = "artifact" /\ told'[k + 1].files = <<stored'[k]>>
      <4>1. CASE k = Len(stored) + 1
        BY <1>3, <2>3, <2>4, <2>5, <4>1
      <4>2. CASE k \in 1 .. Len(stored)
        <5>1. k + 1 \in 1 .. Len(told)
          BY <1>3, <2>5, <4>2
        <5> QED BY <1>3, <2>4, <2>5, <4>2, <5>1 DEF FilesAreTold
      <4> QED BY <2>5, <4>1, <4>2
    <3> QED BY <1>3, <2>4, <2>5, <3>1, <3>2 DEF FilesAreTold
  <2>7. EndInStep'
    BY <1>1, <1>3, <1>4, <2>4, <2>5, <2>6 DEF EndInStep, Begun
  <2>8. SkillTypeOK' /\ CommandInStep' /\ BoxInStep'
    BY <1>1, <1>2, <1>4, <2>4, <2>5 DEF SkillTypeOK, CommandInStep, BoxInStep, Begun
  <2> QED BY <2>7, <2>8 DEF ScriptInv
<1>6. ASSUME NEW a \in Unstored, stored' = Append(stored, a),
             TellRaises([topic |-> "artifact", category |-> None, files |-> <<a>>])
      PROVE  ScriptInv'
  <2> DEFINE e == [topic |-> "artifact", category |-> None, files |-> <<a>>]
  <2>1. a \in collected
    BY DEF Unstored
  <2>2. e \in ToldEvents
    <3>1. <<a>> \in Seq(collected)
      BY <2>1
    <3> QED BY <3>1 DEF ToldEvents, None, Categories
  <2>3. TellRaises(e)
    BY <1>6
  <2> HIDE DEF e
  <2>4. told' \in Seq(ToldEvents) /\ step' = "ended" /\ Untold' /\ answer' \in Replies
    BY <1>3, <2>2, <2>3, NoneEnded, RaisesUntold
  <2>5. stored' \in Seq(collected)
    BY <1>3, <1>6, <2>1, AppendHas
  <2>6. EndInStep'
    BY <2>4 DEF EndInStep, Begun, Untold
  <2>7. SkillTypeOK' /\ CommandInStep' /\ BoxInStep'
    BY <1>1, <1>2, <2>4, <2>5 DEF SkillTypeOK, CommandInStep, BoxInStep, Begun
  <2> QED BY <2>6, <2>7 DEF ScriptInv
<1>5. ASSUME End("error", None), UNCHANGED <<stored, told>>
      PROVE  ScriptInv'
  <2>1. step' = "ended" /\ answer' = [kind |-> "error", category |-> None]
    BY <1>5 DEF End
  <2>2. Unstored' # {} /\ FilesAreTold'
    BY <1>1, <1>3, <1>5 DEF Unstored, FilesAreTold
  <2>3. Unheard'
    BY <1>3, <1>5, <2>1, <2>2 DEF Unheard
  <2>4. EndInStep'
    BY <2>1, <2>3 DEF EndInStep, Begun
  <2>5. CommandInStep' /\ BoxInStep'
    BY <1>1, <1>2, <1>5, <2>1 DEF CommandInStep, BoxInStep, Begun
  <2>6. SkillTypeOK'
    BY <1>1, <1>2, <1>5, <2>1 DEF SkillTypeOK, None, Categories, Replies
  <2> QED BY <2>4, <2>5, <2>6 DEF ScriptInv
<1> QED BY <1>4, <1>5, <1>6 DEF StoreArtifact

LEMMA ReportKeeps == ScriptInv /\ Report => ScriptInv'
<1> SUFFICES ASSUME ScriptInv, Report PROVE ScriptInv'
  OBVIOUS
<1> DEFINE topic == IF Succeeded THEN "completed" ELSE "failed"
           e == [topic |-> topic, category |-> Category, files |-> stored]
<1>1. /\ step = "storing" /\ Unstored = {}
      /\ (Tell(e) /\ End("result", Category)) \/ TellRaises(e)
      /\ SkillTypeOK /\ CommandInStep /\ BoxInStep /\ EndInStep
      /\ UNCHANGED <<disk, call, entry, promised, command, written, box, done,
                     collected, stored, edits>>
  BY DEF ScriptInv, Report
<1>2. /\ Script' = Script /\ Succeeded' = Succeeded /\ ToldEvents' = ToldEvents
      /\ Unstored' = Unstored
  BY <1>1 DEF Script, Succeeded, ToldEvents, Unstored
<1>3. Category' = Category
  BY <1>1, <1>2 DEF Category
<1>4. Category \in Categories
  BY DEF Category, Categories, None
<1>5. /\ Len(told) = Len(stored) + 1 /\ FilesAreTold /\ stored \in Seq(collected)
      /\ told \in Seq(ToldEvents)
  BY <1>1 DEF EndInStep, Begun, SkillTypeOK
<1>6. topic \in {"completed", "failed"} /\ (topic = "completed" <=> Succeeded)
  OBVIOUS
<1> HIDE DEF topic
<1>7. /\ told' \in Seq(ToldEvents) /\ step' = "ended" /\ answer' \in Replies
      /\ Heard' \/ Untold'
  <2>1. CASE Tell(e) /\ End("result", Category)
    <3>1. step' = "ended" /\ answer' = [kind |-> "result", category |-> Category]
      BY <2>1 DEF End
    <3>2. /\ told' \in Seq(ToldEvents) /\ Len(told') = Len(stored) + 2 /\ FilesAreTold'
          /\ told'[Len(told')].topic = topic /\ told'[Len(told')].files = stored
      BY <1>1, <1>4, <1>5, <1>6, <2>1, TellHas
    <3>3. Heard'
      BY <1>1, <1>2, <1>3, <1>6, <3>1, <3>2 DEF Heard
    <3> QED BY <1>4, <3>1, <3>2, <3>3 DEF Replies
  <2>2. CASE TellRaises(e)
    <3>1. e \in ToldEvents
      BY <1>4, <1>5, <1>6 DEF ToldEvents
    <3> HIDE DEF e
    <3> QED BY <1>5, <2>2, <3>1, NoneEnded, RaisesUntold
  <2> QED BY <1>1, <2>1, <2>2
<1>9. EndInStep'
  BY <1>1, <1>7 DEF EndInStep, Begun
<1>10. CommandInStep' /\ BoxInStep'
  BY <1>1, <1>2, <1>7 DEF CommandInStep, BoxInStep, Begun
<1>11. SkillTypeOK'
  BY <1>1, <1>2, <1>7 DEF SkillTypeOK
<1> QED BY <1>9, <1>10, <1>11 DEF ScriptInv

LEMMA EditKeeps == ScriptInv /\ EditDisk => ScriptInv'
<1> SUFFICES ASSUME ScriptInv, EditDisk PROVE ScriptInv'
  OBVIOUS
<1>1. /\ step \in {"idle", "asked", "started", "creating", "writing"} /\ disk' \in Disks
      /\ SkillTypeOK /\ CommandInStep /\ BoxInStep /\ EndInStep
      /\ UNCHANGED <<call, entry, promised, command, written, box, done, collected,
                     stored, told, answer, step>>
  BY DEF ScriptInv, EditDisk
<1>2. Script' = Script /\ Succeeded' = Succeeded
  BY <1>1 DEF Script, Succeeded
<1>3. SkillTypeOK' /\ CommandInStep' /\ BoxInStep'
  BY <1>1, <1>2 DEF SkillTypeOK, CommandInStep, BoxInStep, Begun, ToldEvents
<1>4. FilesAreTold' = FilesAreTold
  BY <1>1 DEF FilesAreTold
<1>5. EndInStep'
  BY <1>1, <1>4 DEF EndInStep, Begun
<1> QED BY <1>3, <1>5 DEF ScriptInv

LEMMA ScriptStep == ScriptInv /\ [SkillNext]_skillVars => ScriptInv'
<1>1. ScriptInv /\ UNCHANGED skillVars => ScriptInv'
  <2> SUFFICES ASSUME ScriptInv, UNCHANGED skillVars PROVE ScriptInv'
    OBVIOUS
  <2>1. /\ Script' = Script /\ Succeeded' = Succeeded /\ ToldEvents' = ToldEvents
        /\ FilesAreTold' = FilesAreTold /\ Unstored' = Unstored
    BY DEF skillVars, Script, Succeeded, ToldEvents, FilesAreTold, Unstored
  <2>2. Category' = Category /\ Heard' = Heard
    BY <2>1 DEF skillVars, Category, Heard
  <2>3. Unheard' = Unheard /\ Refused' = Refused
    BY <2>1 DEF skillVars, Unheard, Refused
  <2>5. Untold' = Untold
    BY DEF skillVars, Untold, EndLast
  <2>4. SkillTypeOK' /\ CommandInStep' /\ BoxInStep' /\ EndInStep'
    BY <2>1, <2>2, <2>3, <2>5 DEF skillVars, ScriptInv, SkillTypeOK, CommandInStep, BoxInStep,
       EndInStep
  <2> QED BY <2>4 DEF ScriptInv
<1> QED
  BY <1>1, AskKeeps, RunKeeps, PrepareKeeps, CreateKeeps, WriteKeeps, CommandKeeps,
     CollectKeeps, DestroyKeeps, StoreKeeps, ReportKeeps, EditKeeps DEF SkillNext

LEMMA ScriptAlways == SkillSpec => []ScriptInv
  BY ScriptInit, ScriptStep, PTL DEF SkillSpec

\* What the result of a run tells, and what was heralded before.
LEMMA ResultTold ==
  ASSUME ScriptInv, answer.kind = "result"
  PROVE  ResultIsTrue
<1>1. step = "ended" /\ SkillTypeOK /\ EndInStep
  BY DEF ScriptInv, EndInStep
<1>2. /\ Heard /\ Len(told) = Len(stored) + 2 /\ FilesAreTold /\ Len(stored) \in Nat
      /\ stored \in Seq(collected) /\ told \in Seq(ToldEvents)
  BY <1>1 DEF EndInStep, Refused, Unheard, Heard, Untold, SkillTypeOK
<1> DEFINE n == Len(stored)
           heralded == {k \in DOMAIN told : told[k].topic = "artifact"}
           place(k) == Cardinality({j \in heralded : j <= k})
<1>3. /\ Last(told) = told[n + 2] /\ Last(told).files = stored
      /\ Last(told).topic \in {"completed", "failed"}
      /\ Last(told).topic = "completed" <=> Succeeded
      /\ Unstored = {} /\ answer.category = Category
  BY <1>2 DEF Heard, Last
<1>4. heralded = 2 .. n + 1
  <2>1. DOMAIN told = 1 .. n + 2
    BY <1>2
  <2>2. told[1].topic # "artifact" /\ told[n + 2].topic # "artifact"
    BY <1>2, <1>3 DEF FilesAreTold
  <2>3. ASSUME NEW k \in 2 .. n + 1 PROVE told[k].topic = "artifact"
    <3>1. k - 1 \in 1 .. n /\ (k - 1) + 1 = k
      BY <1>2
    <3> QED BY <1>2, <3>1 DEF FilesAreTold
  <2>4. \A k \in 1 .. n + 2 : k = 1 \/ k = n + 2 \/ k \in 2 .. n + 1
    BY <1>2
  <2>5. \A k \in 2 .. n + 1 : k \in 1 .. n + 2
    BY <1>2
  <2> QED BY <2>1, <2>2, <2>3, <2>4, <2>5
<1> HIDE DEF heralded
<1>5. Len(Last(told).files) = Cardinality(heralded)
  <2>3. n + 1 \in Int /\ n \in Nat
    BY <1>2
  <2> HIDE DEF n
  <2>1. Cardinality(2 .. n + 1) = n
    BY <2>3, FS_Interval
  <2> QED BY <1>3, <1>4, <2>1 DEF n
<1>6. ASSUME NEW k \in heralded
      PROVE  told[k].files = <<Last(told).files[place(k)]>>
  <2>1. k \in 2 .. n + 1 /\ k - 1 \in 1 .. n
    BY <1>2, <1>4
  <2>2. {j \in heralded : j <= k} = 2 .. k
    BY <1>2, <1>4, <2>1
  <2>3. Cardinality(2 .. k) = k - 1
    BY <1>2, <2>1, FS_Interval
  <2>4. place(k) = k - 1
    BY <2>2, <2>3
  <2>5. told[(k - 1) + 1].files = <<stored[k - 1]>>
    BY <1>2, <2>1 DEF FilesAreTold
  <2> QED BY <1>2, <1>3, <2>1, <2>4, <2>5
<1>7. answer.category = None =>
        /\ Succeeded
        /\ Range(promised) \subseteq IF call.run THEN Range(stored) ELSE collected
  <2>1. Category = None => Succeeded /\ Range(promised) \subseteq collected
    BY DEF Category, None
  <2>2. call.run => collected \subseteq Range(stored)
    BY <1>3 DEF Unstored
  <2> QED BY <1>3, <2>1, <2>2
<1>8. call.run => Range(stored) = collected
  <2>1. Range(stored) \subseteq collected
    BY <1>2 DEF Range
  <2> QED BY <1>3, <2>1 DEF Unstored
<1>9. call.run => Range(Last(told).files) = collected
  BY <1>3, <1>8
<1> QED BY <1>3, <1>5, <1>6, <1>7, <1>9 DEF ResultIsTrue, heralded

\* What a call of run_skill_script leaves is what happened, whatever packages there
\* are, however they are edited meanwhile, and whatever fails on the way
\* (SkillExecutionService.run_skill_script, SkillScriptExecutor.execute).
THEOREM ScriptIsHonestHolds == SkillSpec => []ScriptIsHonest
<1>1. ScriptInv => ScriptIsHonest
  <2> SUFFICES ASSUME ScriptInv PROVE ScriptIsHonest
    OBVIOUS
  <2>1. SkillTypeOK /\ CommandInStep /\ BoxInStep /\ EndInStep
    BY DEF ScriptInv
  <2>2. OwnScriptRuns
    BY <2>1 DEF CommandInStep, OwnScriptRuns, Last
  <2>3. OfferedIsUsable
    <3> SUFFICES ASSUME step = "ended", answer.kind # "untold", told = <<>>,
                        NEW e \in Offered(disk), e.name = call.skill
                 PROVE  FALSE
      BY DEF OfferedIsUsable
    <3>1. Refused
      <4>1. Len(told) = 0 /\ Len(stored) \in Nat
        BY <2>1 DEF SkillTypeOK
      <4> QED BY <2>1, <4>1 DEF EndInStep, Unheard, Heard, Untold
    <3>2. disk \in Disks
      BY <2>1 DEF SkillTypeOK
    <3>3. Usable(e) /\ e = Registered(disk, call.skill)
      BY <3>2, OfferedIs
    <3> QED BY <3>1, <3>3 DEF Refused
  <2>4. BoxIsGivenBack
    BY <2>1 DEF BoxInStep, BoxIsGivenBack
  <2>5. ResultIsTrue
    <3>1. CASE answer.kind = "result"
      BY <3>1, ResultTold
    <3>2. CASE answer.kind # "result"
      BY <3>2 DEF ResultIsTrue
    <3> QED BY <3>1, <3>2
  <2>6. EndIsTold
    <3> DEFINE ends == {k \in DOMAIN told : told[k].topic \in {"completed", "failed"}}
    <3>1. told \in Seq(ToldEvents) /\ stored \in Seq(collected) /\ Len(stored) \in Nat
          /\ DOMAIN told = 1 .. Len(told) /\ Len(told) \in Nat
      BY <2>1 DEF SkillTypeOK
    <3>2. CASE told = <<>>
      BY <3>1, <3>2 DEF EndIsTold
    <3>4. CASE step = "ended" /\ Untold
      <4>1. ends \subseteq {Len(told)} \ {1}
        BY <3>1, <3>4 DEF Untold, EndLast
      <4> QED BY <3>4, <4>1 DEF EndIsTold, Untold
    <3>3. CASE told # <<>> /\ ~(step = "ended" /\ Untold)
      <4>1. FilesAreTold /\ (Len(told) = Len(stored) + 1 \/ Heard)
        BY <2>1, <3>3 DEF EndInStep, SkillTypeOK, Refused, Unheard, Heard
      <4>2. \A k \in 1 .. Len(stored) + 1 : k \notin ends
        <5>1. 1 \notin ends
          BY <4>1 DEF FilesAreTold
        <5>2. ASSUME NEW k \in 2 .. Len(stored) + 1 PROVE k \notin ends
          <6>1. k - 1 \in 1 .. Len(stored) /\ (k - 1) + 1 = k
            BY <3>1
          <6>2. told[k].topic = "artifact"
            BY <4>1, <6>1 DEF FilesAreTold
          <6> QED BY <6>2
        <5> QED BY <3>1, <5>1, <5>2
      <4>3. ends \subseteq {Len(told)} \ {1}
        <5>1. Len(told) \in {Len(stored) + 1, Len(stored) + 2}
          BY <4>1 DEF Heard
        <5>3. ends \subseteq 1 .. Len(told)
          BY <3>1
        <5> DEFINE n == Len(stored)
                   m == Len(told)
        <5>4. /\ n \in Nat /\ m \in {n + 1, n + 2} /\ ends \subseteq 1 .. m
              /\ \A k \in 1 .. n + 1 : k \notin ends
          BY <3>1, <4>2, <5>1, <5>3
        <5> HIDE DEF ends, n, m
        <5>5. ends \subseteq {m} \ {1}
          BY <5>4
        <5> QED BY <5>5 DEF m
      <4>4. step = "ended" /\ ends = {} => answer.kind = "error" /\ Unstored # {}
        <5>1. Heard => Len(told) \in ends
          BY <3>1 DEF Heard
        <5>2. step = "ended" => Unheard \/ Heard
          BY <2>1, <3>3 DEF EndInStep, Refused
        <5> QED BY <5>1, <5>2 DEF Unheard
      <4> QED BY <4>3, <4>4 DEF EndIsTold
    <3> QED BY <3>2, <3>3, <3>4
  <2> QED BY <2>2, <2>3, <2>4, <2>5, <2>6 DEF ScriptIsHonest
<1> QED BY <1>1, ScriptAlways, PTL

-----------------------------------------------------------------------------
(***************************************************************************)
(* The six kinds of records together (MCRecords)                           *)
(***************************************************************************)

LEMMA ScriptPart == RecordsSpec => SkillSpec
<1>1. RecordsInit => SkillInit
  BY DEF RecordsInit
<1>2. [RecordsNext]_recordVars => [SkillNext]_skillVars
  BY DEF RecordsNext, recordVars, FollowRun, Converse, CallScript, Collect, Keep, Memorize
<1> QED BY <1>1, <1>2, PTL DEF RecordsSpec, SkillSpec

LEMMA DataPart == RecordsSpec => CollectionSpec
<1>1. RecordsInit => CollectionInit
  BY DEF RecordsInit
<1>2. [RecordsNext]_recordVars => [CollectionNext]_collectionVars
  BY DEF RecordsNext, recordVars, FollowRun, Converse, CallScript, Collect, Keep, Memorize
<1> QED BY <1>1, <1>2, PTL DEF RecordsSpec, CollectionSpec

LEMMA MemoryPart == RecordsSpec => MemorySpec
<1>1. RecordsInit => MemoryInit
  BY DEF RecordsInit
<1>2. [RecordsNext]_recordVars => [MemoryNext]_memoryVars
  BY DEF RecordsNext, recordVars, FollowRun, Converse, CallScript, Collect, Keep, Memorize
<1> QED BY <1>1, <1>2, PTL DEF RecordsSpec, MemorySpec

(***************************************************************************)
(* What is told of a skill script is what became of it; a report's data is *)
(* all of what was asked for, or the fetch fails; and what was remembered  *)
(* is recalled (SkillScript, DataCollection, LongTermMemory).              *)
(***************************************************************************)
THEOREM RecordsAreTrueHolds == RecordsSpec => []RecordsAreTrue
<1>1. /\ RecordsSpec => []ScriptIsHonest
      /\ RecordsSpec => [](DatasetIsWhole /\ RequestsAreAccounted)
      /\ RecordsSpec => []MemoryIsTrue
  BY ScriptPart, DataPart, MemoryPart, ScriptIsHonestHolds, DataIsWhole, MemoryIsTrueHolds, PTL
<1>2. /\ ScriptIsHonest /\ DatasetIsWhole /\ RequestsAreAccounted /\ MemoryIsTrue
      => RecordsAreTrue
  BY DEF RecordsAreTrue
<1> QED BY <1>1, <1>2, PTL

=============================================================================
