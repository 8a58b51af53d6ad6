----------------------- MODULE FlyReportSessionProofs -----------------------
(***************************************************************************)
(* What holds of a FlyReport session for any number of requests, restarts  *)
(* and lost writes, delete included.                                       *)
(***************************************************************************)
EXTENDS FlyReportSession, SequenceTheorems, FiniteSetTheorems, TLAPS

\* Where a request holds its record's lock.
HeldPcs == {"locked", "parsing", "authorizing", "fetching", "analyzing",
            "composing", "checked", "rendering"}
Pcs == HeldPcs \cup {"idle", "install", "locking", "deleting", "popping"}

\* A row of a session at rest.
RestingRow == [state : Resting, revision : Nat, text : BOOLEAN,
               artifacts : SUBSET File]

Request == [pc : Pcs, op : AllOps, rec : Nat,
            row : RestingRow \cup {NoSession}, run : Nat]

Typed ==
  /\ records \in Seq(Record)
  /\ cached \in 0 .. Len(records)
  /\ stored \in RestingRow \cup {NoSession}
  /\ req \in [Clients -> Request]
  /\ runs \in Nat

\* The states of a record while its holder is at q.pc.
StatesAt(q) ==
  IF q.pc \in {"locked", "checked"} THEN Resting
  ELSE IF q.pc = "composing" \/ (q.pc = "rendering" /\ q.op # "confirm")
    THEN {"previewing"}
  ELSE {q.pc}

\* A request is where its record says, and holds it; it has found the row it
\* is about to install.
InStep(c) ==
  /\ req[c].pc \in HeldPcs \cup {"locking"} => req[c].rec \in 1 .. Len(records)
  /\ req[c].rec \in 0 .. Len(records)
  /\ req[c].pc = "install" => req[c].row \in RestingRow
  /\ req[c].pc = "checked" => req[c].op = "confirm"
  /\ req[c].pc = "deleting" => req[c].op = "delete"
  /\ req[c].pc \in HeldPcs => /\ Rec(c).lock = c
                              /\ Rec(c).state \in StatesAt(req[c])

\* The inductive invariant.
SessionInv ==
  /\ Typed
  /\ \A c \in Clients : InStep(c)
  /\ NeverStranded

\* A finished record is left by a report only: as a step, and as what the
\* holder of a record does when it leaves it as r.
LeftByReport ==
  \A n \in Held \cap DOMAIN records' :
    records[n].state \in Terminal /\ records'[n].state # records[n].state =>
      /\ records'[n].state = "parsing"
      /\ \E c \in Clients : records[n].lock = c /\ req[c].op = "report"
Leaves(c, r) ==
  Rec(c).state \in Terminal /\ r.state # Rec(c).state =>
    r.state = "parsing" /\ Rec(c).lock = c /\ req[c].op = "report"

Kept == SessionInv' /\ LeftByReport

-----------------------------------------------------------------------------
(* Lemmas *)

LEMMA IdleType == Idle \in Request
  BY DEF Idle, Request, Pcs, AllOps

LEMMA RecordType ==
  ASSUME SessionInv, NEW c \in Clients, req[c].pc \in HeldPcs \cup {"locking"}
  PROVE  /\ req[c].rec \in 1 .. Len(records)
         /\ Rec(c) \in Record
         /\ req[c] \in Request
<1>1. req[c].rec \in 1 .. Len(records)
  BY DEF SessionInv, InStep
<1> QED BY <1>1 DEF SessionInv, Typed, Rec

\* Records are created at rest.
LEMMA RehydratedType ==
  ASSUME NEW row \in RestingRow
  PROVE  /\ Rehydrated(row) \in Record
         /\ Rehydrated(row).state \in Resting
         /\ Rehydrated(row).lock = NoClient
  BY DEF Rehydrated, RestingRow, Record, Resting, Terminal, States

LEMMA RowType ==
  ASSUME NEW r \in Record, r.state \in Resting
  PROVE  Row(r) \in RestingRow
  BY DEF Row, Record, RestingRow

LEMMA PersistType ==
  ASSUME SessionInv, NEW r \in Record, r.state \in Resting, Persist(r)
  PROVE  stored' \in RestingRow \cup {NoSession}
  BY RowType DEF Persist, SessionInv, Typed

LEMMA EnteredType ==
  ASSUME NEW r \in Record, NEW state \in States
  PROVE  /\ Entered(r, state) \in Record
         /\ Entered(r, state).state = state
         /\ Entered(r, state).lock = r.lock
  BY DEF Entered, Record

\* Failing leaves every unfinished session failed and a finished one alone.
LEMMA FailedFromType ==
  ASSUME NEW r \in Record
  PROVE  /\ FailedFrom(r) \in Record
         /\ FailedFrom(r).state \in Terminal
         /\ r.state \in Terminal => FailedFrom(r) = r
<1>1. r.state \in States /\ "failed" \in States
  BY DEF Record, States
<1>2. CASE r.state \in Terminal
  <2>1. MayEnter(r, "failed") => r.state = "failed"
    BY <1>2 DEF MayEnter, Allowed, Terminal
  <2>2. r.state = "failed" => Entered(r, "failed") = r
    BY DEF Entered, Record
  <2> QED BY <1>2, <2>1, <2>2 DEF FailedFrom
<1>3. CASE r.state \notin Terminal
  <2>1. MayEnter(r, "failed")
    BY <1>1, <1>3 DEF MayEnter, Allowed, Terminal, States
  <2> QED BY <1>1, <1>3, <2>1, EnteredType DEF FailedFrom, Terminal
<1> QED BY <1>2, <1>3

\* The holder of a record replaces it by r and goes to q, or is done with it.
LEMMA HolderStep ==
  ASSUME SessionInv, NEW c \in Clients, req[c].pc \in HeldPcs \cup {"locking"},
         req[c].pc = "locking" => Rec(c).lock = NoClient,
         NEW r \in Record, NEW q \in Request,
         records' = [records EXCEPT ![req[c].rec] = r],
         req' = [req EXCEPT ![c] = q],
         \/ q = Idle /\ r.lock = NoClient /\ r.state \in Resting
         \/ /\ q.pc \in HeldPcs /\ q.rec = req[c].rec
            /\ r.lock = c /\ r.state \in StatesAt(q)
            /\ q.pc = "checked" => q.op = "confirm",
         Leaves(c, r), cached' = cached, runs' \in Nat,
         stored' \in RestingRow \cup {NoSession}
  PROVE  Kept
<1> DEFINE n == req[c].rec
<1>1. n \in 1 .. Len(records) /\ records \in Seq(Record)
  BY RecordType DEF SessionInv, Typed
<1>2. /\ records' \in Seq(Record) /\ Len(records') = Len(records)
      /\ records'[n] = r
      /\ \A m \in 1 .. Len(records) : m # n => records'[m] = records[m]
  BY <1>1
<1>3. Typed'
  BY <1>2 DEF SessionInv, Typed
<1>4. NeverStranded'
  <2> SUFFICES ASSUME NEW m \in 1 .. Len(records), records'[m].lock = NoClient
               PROVE  records'[m].state \in Resting
    BY <1>2 DEF NeverStranded, Held
  <2>1. CASE m = n
    BY <1>2, <2>1, ClientsAssumption
  <2>2. CASE m # n
    BY <1>2, <2>2 DEF SessionInv, NeverStranded, Held
  <2> QED BY <2>1, <2>2
<1>5. ASSUME NEW d \in Clients PROVE InStep(d)'
  <2>1. CASE d = c
    <3>1. req'[d] = q
      BY <2>1 DEF SessionInv, Typed
    <3>2. CASE q = Idle
      BY <3>1, <3>2, <1>2, <1>1 DEF InStep, Idle, HeldPcs
    <3>3. CASE q.pc \in HeldPcs
      BY <3>1, <3>3, <1>2, <1>1, <2>1 DEF InStep, Rec, HeldPcs, Idle
    <3> QED BY <3>2, <3>3
  <2>2. CASE d # c
    <3>1. req'[d] = req[d] /\ InStep(d) /\ InStep(c)
      BY <2>2 DEF SessionInv, Typed
    \* Another holder holds another record.
    <3>2. req[d].pc \in HeldPcs => req[d].rec # n
      BY <2>2, <3>1, ClientsAssumption DEF InStep, Rec
    <3> QED BY <3>1, <3>2, <1>2 DEF InStep, Rec
  <2> QED BY <2>1, <2>2
<1>6. LeftByReport
  <2> SUFFICES ASSUME NEW m \in 1 .. Len(records), records[m].state \in Terminal,
                      records'[m].state # records[m].state
               PROVE  /\ records'[m].state = "parsing"
                      /\ \E d \in Clients : records[m].lock = d /\ req[d].op = "report"
    BY DEF LeftByReport, Held
  <2>1. m = n
    BY <1>2
  <2> QED BY <1>2, <2>1 DEF Leaves, Rec
<1> QED BY <1>3, <1>4, <1>5, <1>6 DEF SessionInv, Kept

\* The request ends and leaves the record at rest.
LEMMA FinishStep ==
  ASSUME SessionInv, NEW c \in Clients, req[c].pc \in HeldPcs,
         NEW r \in Record, r.state \in Resting, Finish(c, r),
         Leaves(c, r), cached' = cached, runs' \in Nat,
         stored' \in RestingRow \cup {NoSession}
  PROVE  Kept
<1> DEFINE s == [r EXCEPT !.lock = NoClient]
<1>1. s \in Record /\ s.lock = NoClient /\ s.state = r.state
  BY DEF Record
<1>2. records' = [records EXCEPT ![req[c].rec] = s]
  BY DEF Finish, Keep
<1>3. req' = [req EXCEPT ![c] = Idle]
  BY DEF Finish
<1> HIDE DEF s
<1>4. req[c].pc # "locking"
  BY DEF HeldPcs
<1>5. Leaves(c, s)
  BY <1>1 DEF Leaves
<1> QED BY <1>1, <1>2, <1>3, <1>4, <1>5, IdleType, HolderStep

\* The request goes on with the record in the state the new place expects.
LEMMA GoOnStep ==
  ASSUME SessionInv, NEW c \in Clients, req[c].pc \in HeldPcs,
         NEW r \in Record, NEW place \in HeldPcs,
         Keep(c, r), Goto(c, place), r.lock = Rec(c).lock,
         r.state \in StatesAt([req[c] EXCEPT !.pc = place]),
         place = "checked" => req[c].op = "confirm",
         Leaves(c, r), cached' = cached, runs' \in Nat,
         stored' \in RestingRow \cup {NoSession}
  PROVE  Kept
<1> DEFINE q == [req[c] EXCEPT !.pc = place]
<1>1. req[c] \in Request /\ req \in [Clients -> Request]
  BY DEF SessionInv, Typed
<1>2. q \in Request /\ q.pc = place /\ q.rec = req[c].rec /\ q.op = req[c].op
  BY <1>1 DEF Request, Pcs
<1>3. req' = [req EXCEPT ![c] = q]
  BY <1>1 DEF Goto
<1>4. records' = [records EXCEPT ![req[c].rec] = r]
  BY DEF Keep
<1>5. r.lock = c /\ req[c].pc # "locking"
  BY DEF SessionInv, InStep, HeldPcs
<1>6. r.state \in StatesAt(q)
  OBVIOUS
<1> HIDE DEF q
<1> QED BY <1>2, <1>3, <1>4, <1>5, <1>6, HolderStep

\* Steps of a request that leave every record as it is and hold none after.
LEMMA UnheldStep ==
  ASSUME SessionInv, NEW c \in Clients, NEW q \in Request,
         q.pc \notin HeldPcs, q.rec \in 0 .. Len(records),
         q.pc = "locking" => q.rec # 0,
         q.pc = "install" => q.row \in RestingRow,
         q.pc = "deleting" => q.op = "delete",
         records' = records, req' = [req EXCEPT ![c] = q],
         cached' \in 0 .. Len(records), runs' = runs,
         stored' \in RestingRow \cup {NoSession}
  PROVE  Kept
<1>1. Typed'
  BY DEF SessionInv, Typed
<1>2. ASSUME NEW d \in Clients PROVE InStep(d)'
  <2>1. CASE d = c
    <3>1. req'[d] = q
      BY <2>1 DEF SessionInv, Typed
    <3> QED BY <3>1 DEF InStep, HeldPcs, SessionInv, Typed
  <2>2. CASE d # c
    BY <2>2 DEF SessionInv, Typed, InStep, Rec
  <2> QED BY <2>1, <2>2
<1>3. NeverStranded' /\ LeftByReport
  BY DEF SessionInv, NeverStranded, LeftByReport, Held
<1> QED BY <1>1, <1>2, <1>3 DEF SessionInv, Kept

\* The states of a held record that are not finished.
LEMMA Unfinished ==
  ASSUME SessionInv, NEW c \in Clients,
         req[c].pc \in HeldPcs \ {"locked", "checked"}
  PROVE  Rec(c).state \notin Terminal
  BY DEF SessionInv, InStep, StatesAt, HeldPcs, Terminal

-----------------------------------------------------------------------------
(* Arriving *)

LEMMA LoadKept ==
  ASSUME SessionInv, NEW c \in Clients, NEW op \in Ops, Load(c, op)
  PROVE  Kept
<1>1. op \in AllOps /\ cached \in 0 .. Len(records) /\ runs' = runs
      /\ records' = records /\ cached' = cached /\ stored' = stored
      /\ stored \in RestingRow \cup {NoSession} /\ 0 \in 0 .. Len(records)
  BY ClientsAssumption DEF Load, SessionInv, Typed
<1>2. CASE cached # 0
  <2> DEFINE q == [pc |-> IF op = "delete" THEN "deleting" ELSE "locking",
                   op |-> op, rec |-> cached, row |-> NoSession, run |-> 0]
  <2>1. /\ q \in Request /\ q.rec = cached /\ q.pc \in {"deleting", "locking"}
        /\ q.pc = "deleting" => q.op = "delete"
    BY <1>1 DEF Request, Pcs
  <2>2. req' = [req EXCEPT ![c] = Idle] \/ req' = [req EXCEPT ![c] = q]
    BY <1>2 DEF Load, Found
  <2> HIDE DEF q
  <2>3. Idle.pc = "idle" /\ Idle.rec = 0
    BY DEF Idle
  <2>4. CASE req' = [req EXCEPT ![c] = Idle]
    BY <1>1, <2>3, <2>4, IdleType, UnheldStep DEF HeldPcs
  <2>5. CASE req' = [req EXCEPT ![c] = q]
    BY <1>1, <1>2, <2>1, <2>5, UnheldStep DEF HeldPcs
  <2> QED BY <2>2, <2>4, <2>5
<1>3. CASE cached = 0
  <2> DEFINE q == [Idle EXCEPT !.pc = "install", !.op = op, !.row = stored]
  <2>1. stored \in RestingRow
    BY <1>1, <1>3 DEF Load
  <2>2. q \in Request /\ q.pc = "install" /\ q.rec = 0 /\ q.row = stored
    BY <1>1, <2>1 DEF Request, Pcs, Idle
  <2>3. req' = [req EXCEPT ![c] = q]
    BY <1>3 DEF Load
  <2> HIDE DEF q
  <2> QED BY <1>1, <2>1, <2>2, <2>3, UnheldStep DEF HeldPcs
<1> QED BY <1>2, <1>3

\* A new record is at rest and nobody holds it.
LEMMA InstallKept ==
  ASSUME SessionInv, NEW c \in Clients, Install(c)
  PROVE  Kept
<1> DEFINE r == Rehydrated(req[c].row)
           n == Len(records) + 1
           q == [pc |-> IF req[c].op = "delete" THEN "deleting" ELSE "locking",
                 op |-> req[c].op, rec |-> n, row |-> NoSession, run |-> 0]
<1>1. r \in Record /\ r.state \in Resting
  BY RehydratedType DEF Install, At, SessionInv, InStep
<1>2. records \in Seq(Record) /\ req[c] \in Request
  BY DEF SessionInv, Typed
<1>3. records' = Append(records, r)
  BY DEF Install
<1> HIDE DEF r
<1>4. /\ records' \in Seq(Record) /\ Len(records') = n
      /\ records'[n] = r
      /\ \A m \in 1 .. Len(records) : records'[m] = records[m]
  BY <1>1, <1>2, <1>3
<1>5. /\ q \in Request /\ q.rec = n /\ q.pc \in {"deleting", "locking"}
      /\ q.pc = "deleting" => q.op = "delete"
  BY <1>2 DEF Request, Pcs
<1>6. req' = [req EXCEPT ![c] = Idle] \/ req' = [req EXCEPT ![c] = q]
  BY <1>4 DEF Install, Found
<1> HIDE DEF q
<1>7. Idle.pc = "idle" /\ Idle.rec = 0
  BY DEF Idle
<1>8. cached' = n /\ stored' = stored /\ runs' = runs
  BY <1>4 DEF Install
<1>9. Typed'
  BY <1>2, <1>4, <1>5, <1>6, <1>8, IdleType DEF SessionInv, Typed
<1>10. ASSUME NEW d \in Clients PROVE InStep(d)'
  <2>1. CASE d = c
    <3>1. req'[d] = Idle \/ req'[d] = q
      BY <1>6, <2>1 DEF SessionInv, Typed
    <3> QED BY <3>1, <1>2, <1>4, <1>5, <1>7 DEF InStep, HeldPcs
  <2>2. CASE d # c
    <3>1. req'[d] = req[d] /\ InStep(d)
      BY <1>6, <2>2 DEF SessionInv, Typed
    <3> QED BY <3>1, <1>2, <1>4 DEF InStep, Rec
  <2> QED BY <2>1, <2>2
<1>11. NeverStranded' /\ LeftByReport
  BY <1>1, <1>2, <1>4 DEF SessionInv, NeverStranded, LeftByReport, Held
<1> QED BY <1>9, <1>10, <1>11 DEF SessionInv, Kept

\* A record that is free is at rest, so its new holder finds it there.
LEMMA LockKept ==
  ASSUME SessionInv, NEW c \in Clients, Lock(c)
  PROVE  Kept
<1> DEFINE r == [Rec(c) EXCEPT !.lock = c]
           q == [req[c] EXCEPT !.pc = "locked"]
<1>1. /\ req[c].pc = "locking" /\ Rec(c).lock = NoClient
      /\ cached' = cached /\ runs' = runs /\ stored' = stored
  BY DEF Lock, At
<1>2. Rec(c) \in Record /\ req[c] \in Request /\ req[c].rec \in 1 .. Len(records)
  BY <1>1, RecordType
<1>3. Rec(c).state \in Resting
  BY <1>1, <1>2 DEF SessionInv, NeverStranded, Held, Rec
<1>4. r \in Record /\ r.lock = c /\ r.state = Rec(c).state
  BY <1>2 DEF Record
<1>5. q \in Request /\ q.pc = "locked" /\ q.rec = req[c].rec
  BY <1>2 DEF Request, Pcs, HeldPcs
<1>6. records' = [records EXCEPT ![req[c].rec] = r]
  BY DEF Lock, Keep
<1>7. req' = [req EXCEPT ![c] = q]
  BY DEF Lock, Goto
<1>8. runs' \in Nat /\ stored' \in RestingRow \cup {NoSession}
  BY <1>1 DEF SessionInv, Typed
<1> HIDE DEF r, q
<1>9. Leaves(c, r) /\ r.state \in StatesAt(q)
  BY <1>3, <1>4, <1>5 DEF Leaves, StatesAt
<1> QED
  BY <1>1, <1>4, <1>5, <1>6, <1>7, <1>8, <1>9, HolderStep DEF HeldPcs

-----------------------------------------------------------------------------
(* Steps of the holder of a record *)

\* What every such step needs to know.
LEMMA Holder ==
  ASSUME SessionInv, NEW c \in Clients, req[c].pc \in HeldPcs
  PROVE  /\ Rec(c) \in Record /\ Rec(c).lock = c
         /\ Rec(c).state \in StatesAt(req[c])
         /\ req[c] \in Request /\ req[c].rec \in 1 .. Len(records)
         /\ runs \in Nat /\ stored \in RestingRow \cup {NoSession}
  BY RecordType DEF SessionInv, InStep, Typed

\* Nothing changes but the request, which ends with the record as it was.
LEMMA GivesUp ==
  ASSUME SessionInv, NEW c \in Clients, req[c].pc \in HeldPcs,
         Rec(c).state \in Resting, Finish(c, Rec(c)),
         UNCHANGED <<cached, runs>>, stored' \in RestingRow \cup {NoSession}
  PROVE  Kept
<1>1. Leaves(c, Rec(c))
  BY DEF Leaves
<1> QED BY <1>1, Holder, FinishStep

LEMMA AnswerKept ==
  ASSUME SessionInv, NEW c \in Clients, Answer(c)
  PROVE  Kept
<1>1. req[c].pc \in HeldPcs /\ Rec(c).state \in Resting
  BY Holder DEF Answer, At, HeldPcs, StatesAt
<1>2. stored' \in RestingRow \cup {NoSession}
  BY <1>1, Holder, PersistType DEF Answer
<1> QED BY <1>1, <1>2, GivesUp DEF Answer

LEMMA CancelSessionKept ==
  ASSUME SessionInv, NEW c \in Clients, CancelSession(c)
  PROVE  Kept
<1> DEFINE r == Entered(Rec(c), "cancelled")
<1>1. req[c].pc \in HeldPcs /\ Rec(c).state \in Resting
  BY Holder DEF CancelSession, At, HeldPcs, StatesAt
<1>2. CASE MayEnter(Rec(c), "cancelled")
  <2>1. r \in Record /\ r.state = "cancelled"
    BY <1>1, Holder, EnteredType DEF States
  <2>2. Finish(c, r) /\ Persist(r)
    BY <1>2 DEF CancelSession
  <2>3. Rec(c).state \in Terminal => Rec(c).state = "cancelled"
    BY <1>2 DEF MayEnter, Allowed, Terminal
  <2> HIDE DEF r
  <2>4. r.state \in Resting /\ Leaves(c, r)
    BY <2>1, <2>3 DEF Leaves, Resting, Terminal
  <2>5. stored' \in RestingRow \cup {NoSession}
    BY <2>1, <2>2, <2>4, PersistType
  <2> QED BY <1>1, <2>1, <2>2, <2>4, <2>5, Holder, FinishStep DEF CancelSession
<1>3. CASE ~MayEnter(Rec(c), "cancelled")
  BY <1>1, <1>3, GivesUp, Holder DEF CancelSession
<1> QED BY <1>2, <1>3

\* A question enters the pipeline from where a session rests; only a report
\* does so from a finished one.
LEMMA StartPipelineKept ==
  ASSUME SessionInv, NEW c \in Clients, StartPipeline(c)
  PROVE  Kept
<1> DEFINE reopens == req[c].op = "report" /\ Rec(c).state \in Terminal
           state == IF reopens THEN "parsing" ELSE Rec(c).state
           r == [Rec(c) EXCEPT !.text = TRUE,
                               !.state = IF req[c].op = "report" /\ @ \in Terminal
                                           THEN "parsing" ELSE @]
<1>1. req[c].pc \in HeldPcs /\ Rec(c).state \in Resting
  BY Holder DEF StartPipeline, At, HeldPcs, StatesAt
<1>2. Rec(c) \in Record /\ Rec(c).lock = c
  BY <1>1, Holder
<1>3. state \in Resting /\ state \in States
  BY <1>1, <1>2 DEF Resting, Terminal, States
<1>4. r \in Record /\ r.lock = c /\ r.state = state
  BY <1>2, <1>3 DEF Record
<1>5. IF MayEnter(r, "parsing")
        THEN Keep(c, Entered(r, "parsing")) /\ Goto(c, "parsing")
        ELSE Finish(c, FailedFrom(r))
  BY DEF StartPipeline
<1>6. UNCHANGED <<cached, runs, stored>>
  BY DEF StartPipeline
<1> HIDE DEF r
<1>7. CASE MayEnter(r, "parsing")
  <2> DEFINE e == Entered(r, "parsing")
  <2>1. e \in Record /\ e.state = "parsing" /\ e.lock = Rec(c).lock
    BY <1>2, <1>4, EnteredType DEF States
  <2>2. state \in Terminal => FALSE
    BY <1>4, <1>7 DEF MayEnter, Allowed, Terminal
  <2>3. Leaves(c, e)
    BY <1>2, <2>1, <2>2 DEF Leaves
  <2>4. Keep(c, e) /\ Goto(c, "parsing")
    BY <1>5, <1>7
  <2> HIDE DEF e
  <2>5. e.state \in StatesAt([req[c] EXCEPT !.pc = "parsing"])
    BY <1>1, <2>1, Holder DEF StatesAt, Request
  <2> QED BY <1>1, <1>6, <2>1, <2>3, <2>4, <2>5, Holder, GoOnStep DEF HeldPcs
<1>8. CASE ~MayEnter(r, "parsing")
  <2> DEFINE f == FailedFrom(r)
  <2>1. f \in Record /\ f.state \in Terminal /\ (r.state \in Terminal => f = r)
    BY <1>4, FailedFromType
  <2>2. ~reopens
    BY <1>4, <1>8 DEF MayEnter
  <2>3. f.state \in Resting /\ Leaves(c, f)
    BY <1>4, <2>1, <2>2 DEF Resting, Leaves
  <2>4. Finish(c, f)
    BY <1>5, <1>8
  <2> HIDE DEF f
  <2> QED BY <1>1, <1>6, <2>1, <2>3, <2>4, Holder, FinishStep
<1> QED BY <1>7, <1>8

LEMMA ClarifyKept ==
  ASSUME SessionInv, NEW c \in Clients, Clarify(c)
  PROVE  Kept
<1> DEFINE r == Entered(Rec(c), "clarifying")
<1>1. req[c].pc \in HeldPcs /\ Rec(c).state \notin Terminal
  BY Unfinished DEF Clarify, At, HeldPcs
<1>2. r \in Record /\ r.state = "clarifying" /\ r.lock = Rec(c).lock
  BY <1>1, Holder, EnteredType DEF States
<1>3. /\ IF req[c].op = "confirm" THEN Keep(c, r) /\ Goto(c, "checked")
                                   ELSE Finish(c, r)
      /\ Persist(r) /\ UNCHANGED <<cached, runs>>
  BY DEF Clarify
<1> HIDE DEF r
<1>4. r.state \in Resting /\ Leaves(c, r)
  BY <1>1, <1>2 DEF Resting, Leaves
<1>5. stored' \in RestingRow \cup {NoSession}
  BY <1>2, <1>3, <1>4, PersistType
<1>6. r.state \in StatesAt([req[c] EXCEPT !.pc = "checked"])
  BY <1>1, <1>4, Holder DEF StatesAt, Request
<1> QED
  BY <1>1, <1>2, <1>3, <1>4, <1>5, <1>6, Holder, GoOnStep, FinishStep DEF HeldPcs

\* What is said of a request's next place holds by its name.
LEMMA PlaceOf ==
  ASSUME NEW q \in Request, NEW place \in Pcs
  PROVE  /\ [q EXCEPT !.pc = place].pc = place
         /\ [q EXCEPT !.pc = place].op = q.op
  BY DEF Request

LEMMA AdvanceKept ==
  ASSUME SessionInv, NEW c \in Clients, Advance(c)
  PROVE  Kept
<1> DEFINE place == Following[req[c].pc]
           r == Entered(Rec(c), place)
<1>1. req[c].pc \in {"parsing", "authorizing", "fetching"}
  BY DEF Advance, Following
<1>2. req[c].pc \in HeldPcs /\ Rec(c).state \notin Terminal
  BY <1>1, Unfinished DEF HeldPcs
<1>3. place \in {"authorizing", "fetching", "analyzing"}
  BY <1>1 DEF Following
<1>4. Keep(c, r) /\ Goto(c, place) /\ UNCHANGED <<cached, runs, stored>>
  BY DEF Advance
<1> HIDE DEF place
<1>5. r \in Record /\ r.state = place /\ r.lock = Rec(c).lock
  BY <1>2, <1>3, Holder, EnteredType DEF States
<1> HIDE DEF r
<1>6. Leaves(c, r)
  BY <1>2 DEF Leaves
<1>7. place \in Pcs /\ req[c] \in Request
  BY <1>2, <1>3, Holder DEF Pcs, HeldPcs
<1>8. r.state \in StatesAt([req[c] EXCEPT !.pc = place])
  BY <1>3, <1>5, <1>7, PlaceOf DEF StatesAt
<1> QED BY <1>2, <1>3, <1>4, <1>5, <1>6, <1>8, Holder, GoOnStep DEF HeldPcs

LEMMA AnalyzedKept ==
  ASSUME SessionInv, NEW c \in Clients, Analyzed(c)
  PROVE  Kept
<1> DEFINE e == Entered(Rec(c), "previewing")
           r == [e EXCEPT !.revision = @ + 1]
           q == [req[c] EXCEPT !.pc = "composing", !.run = runs']
<1>1. /\ req[c].pc = "analyzing" /\ req[c].pc \in HeldPcs
      /\ Rec(c).state \notin Terminal
  BY Unfinished DEF Analyzed, At, HeldPcs
<1>2. /\ Rec(c).lock = c /\ req[c] \in Request /\ runs' = runs + 1
      /\ runs' \in Nat /\ UNCHANGED <<cached, stored>>
      /\ stored \in RestingRow \cup {NoSession}
  BY <1>1, Holder DEF Analyzed
<1>3. e \in Record /\ e.state = "previewing" /\ e.lock = Rec(c).lock
  BY <1>1, Holder, EnteredType DEF States
<1>4. records' = [records EXCEPT ![req[c].rec] = r]
  BY DEF Analyzed, Keep
<1>5. req' = [req EXCEPT ![c] = q]
  BY DEF Analyzed, SessionInv, Typed
<1> HIDE DEF e
<1>6. r \in Record /\ r.state = "previewing" /\ r.lock = c
  BY <1>2, <1>3 DEF Record
<1>7. q \in Request /\ q.pc = "composing" /\ q.rec = req[c].rec
  BY <1>2 DEF Request, Pcs, HeldPcs
<1> HIDE DEF r, q
<1>8. Leaves(c, r) /\ r.state \in StatesAt(q)
  BY <1>1, <1>6, <1>7 DEF Leaves, StatesAt
<1> QED
  BY <1>1, <1>2, <1>4, <1>5, <1>6, <1>7, <1>8, HolderStep DEF HeldPcs

LEMMA ComposedKept ==
  ASSUME SessionInv, NEW c \in Clients, Composed(c)
  PROVE  Kept
<1> DEFINE r == [Rec(c) EXCEPT !.ctx = req[c].run]
<1>1. req[c].pc = "composing" /\ req[c].pc \in HeldPcs
  BY DEF Composed, At, HeldPcs
<1>2. /\ Rec(c) \in Record /\ req[c] \in Request
      /\ Rec(c).state = "previewing"
  BY <1>1, Holder DEF StatesAt
<1>3. r \in Record /\ r.state = "previewing" /\ r.lock = Rec(c).lock
  BY <1>2 DEF Record, Request
<1>4. /\ \/ Finish(c, r)
         \/ req[c].op = "confirm" /\ Keep(c, r) /\ Goto(c, "checked")
         \/ req[c].op = "report" /\ Keep(c, r) /\ Goto(c, "rendering")
      /\ Persist(r) /\ UNCHANGED <<cached, runs>>
  BY DEF Composed
<1> HIDE DEF r
<1>5. r.state \in Resting /\ Leaves(c, r)
  BY <1>2, <1>3 DEF Resting, Leaves
<1>6. stored' \in RestingRow \cup {NoSession} /\ runs' \in Nat
  BY <1>1, <1>3, <1>4, <1>5, PersistType, Holder
<1>7. CASE Finish(c, r)
  BY <1>1, <1>3, <1>4, <1>5, <1>6, <1>7, FinishStep
<1>8. CASE req[c].op = "confirm" /\ Keep(c, r) /\ Goto(c, "checked")
  <2>1. r.state \in StatesAt([req[c] EXCEPT !.pc = "checked"])
    BY <1>2, <1>5, PlaceOf DEF StatesAt, Pcs, HeldPcs
  <2> QED BY <1>1, <1>3, <1>4, <1>5, <1>6, <1>8, <2>1, GoOnStep DEF HeldPcs
<1>9. CASE req[c].op = "report" /\ Keep(c, r) /\ Goto(c, "rendering")
  <2>1. r.state \in StatesAt([req[c] EXCEPT !.pc = "rendering"])
    BY <1>2, <1>3, <1>9, PlaceOf DEF StatesAt, Pcs, HeldPcs
  <2> QED BY <1>1, <1>3, <1>4, <1>5, <1>6, <1>9, <2>1, GoOnStep DEF HeldPcs
<1> QED BY <1>4, <1>7, <1>8, <1>9

\* Whatever stage raises, the session fails.
LEMMA PipelineRaisesKept ==
  ASSUME SessionInv, NEW c \in Clients, PipelineRaises(c)
  PROVE  Kept
<1>1. req[c].pc \in HeldPcs /\ Rec(c).state \notin Terminal
  BY Unfinished DEF PipelineRaises, HeldPcs
<1>2. FailedFrom(Rec(c)) \in Record /\ FailedFrom(Rec(c)).state \in Resting
  BY <1>1, Holder, FailedFromType DEF Resting
<1>3. Leaves(c, FailedFrom(Rec(c)))
  BY <1>1 DEF Leaves
<1> QED BY <1>1, <1>2, <1>3, Holder, FinishStep DEF PipelineRaises

LEMMA HasPreviewKept ==
  ASSUME SessionInv, NEW c \in Clients, HasPreview(c)
  PROVE  Kept
<1>1. /\ req[c].pc = "locked" /\ req[c].pc \in HeldPcs /\ req[c].op = "confirm"
      /\ Goto(c, "checked") /\ UNCHANGED <<records, cached, stored, runs>>
  BY DEF HasPreview, At, HeldPcs
<1>2. /\ Rec(c) \in Record /\ Rec(c).state \in Resting
      /\ req[c] \in Request /\ req[c].rec \in 1 .. Len(records)
      /\ records \in Seq(Record)
  BY <1>1, Holder DEF StatesAt, SessionInv, Typed
<1>3. Keep(c, Rec(c))
  BY <1>1, <1>2 DEF Keep, Rec
<1>4. Rec(c).state \in StatesAt([req[c] EXCEPT !.pc = "checked"])
  BY <1>2, PlaceOf DEF StatesAt, Pcs, HeldPcs
<1>5. Leaves(c, Rec(c))
  BY DEF Leaves
<1> QED BY <1>1, <1>2, <1>3, <1>4, <1>5, Holder, GoOnStep DEF HeldPcs

LEMMA RefusedKept ==
  ASSUME SessionInv, NEW c \in Clients, Refused(c)
  PROVE  Kept
<1>1. CASE req[c].op = "delete"
  <2>1. /\ records' = records /\ req' = [req EXCEPT ![c] = Idle]
        /\ UNCHANGED <<cached, stored, runs>>
    BY <1>1 DEF Refused
  <2>2. Idle.pc = "idle" /\ Idle.rec = 0
    BY DEF Idle
  <2>3. /\ 0 \in 0 .. Len(records) /\ cached \in 0 .. Len(records)
        /\ stored \in RestingRow \cup {NoSession}
    BY DEF SessionInv, Typed
  <2> QED BY <2>1, <2>2, <2>3, IdleType, UnheldStep DEF HeldPcs
<1>2. CASE req[c].op # "delete" /\ At(c, "locked")
  <2>1. req[c].pc \in HeldPcs /\ Rec(c).state \in Resting
    BY <1>2, Holder DEF At, HeldPcs, StatesAt
  <2> QED BY <1>2, <2>1, GivesUp, Holder DEF Refused
<1>3. CASE req[c].op # "delete" /\ At(c, "deleting")
  <2> QED BY <1>3 DEF SessionInv, InStep, At
<1> QED BY <1>1, <1>2, <1>3 DEF Refused

\* A render starts from a state the machine lets go to "rendering", so not
\* from a finished one.
LEMMA StartRenderKept ==
  ASSUME SessionInv, NEW c \in Clients, StartRender(c)
  PROVE  Kept
<1> DEFINE r == Entered(Rec(c), "rendering")
<1>1. /\ req[c].pc = "checked" /\ req[c].pc \in HeldPcs
      /\ req[c].op = "confirm" /\ Rec(c).state \in Resting
      /\ UNCHANGED <<cached, stored, runs>>
  BY Holder DEF StartRender, At, HeldPcs, StatesAt, SessionInv, InStep
<1>2. CASE Rec(c).ctx # 0 /\ MayEnter(Rec(c), "rendering")
  <2>1. r \in Record /\ r.state = "rendering" /\ r.lock = Rec(c).lock
    BY <1>1, Holder, EnteredType DEF States
  <2>2. Rec(c).state \notin Terminal
    BY <1>2 DEF MayEnter, Allowed, Terminal
  <2>3. Keep(c, r) /\ Goto(c, "rendering")
    BY <1>2 DEF StartRender
  <2>4. req[c] \in Request
    BY <1>1, Holder
  <2> HIDE DEF r
  <2>5. r.state \in StatesAt([req[c] EXCEPT !.pc = "rendering"])
    BY <1>1, <2>1, <2>4, PlaceOf DEF StatesAt, Pcs, HeldPcs
  <2>6. Leaves(c, r)
    BY <2>2 DEF Leaves
  <2> QED BY <1>1, <2>1, <2>3, <2>5, <2>6, Holder, GoOnStep DEF HeldPcs
<1>3. CASE ~(Rec(c).ctx # 0 /\ MayEnter(Rec(c), "rendering"))
  BY <1>1, <1>3, GivesUp, Holder DEF StartRender
<1> QED BY <1>2, <1>3

\* The state in which a report is rendered.
LEMMA Rendering ==
  ASSUME SessionInv, NEW c \in Clients, req[c].pc = "rendering"
  PROVE  /\ req[c].pc \in HeldPcs
         /\ Rec(c).state = IF req[c].op = "confirm" THEN "rendering"
                           ELSE "previewing"
         /\ Rec(c).state \notin Terminal
         /\ TheFile(Rec(c)) \in File
<1>1. req[c].pc \in HeldPcs
  BY DEF HeldPcs
<1>2. Rec(c).state \in StatesAt(req[c]) /\ Rec(c) \in Record
  BY <1>1, Holder
<1> QED BY <1>1, <1>2, Unfinished DEF StatesAt, TheFile, Record, File, HeldPcs

LEMMA RenderedKept ==
  ASSUME SessionInv, NEW c \in Clients, Rendered(c)
  PROVE  Kept
<1> DEFINE listed == [Rec(c) EXCEPT !.artifacts = @ \cup {TheFile(Rec(c))}]
           r == IF req[c].op = "confirm" THEN Entered(listed, "archived")
                ELSE listed
<1>1. /\ req[c].pc = "rendering" /\ req[c].pc \in HeldPcs
      /\ Rec(c) \in Record /\ Rec(c).state \notin Terminal
      /\ req[c].op # "confirm" => Rec(c).state = "previewing"
      /\ TheFile(Rec(c)) \in File
  BY Rendering, Holder DEF Rendered, At, HeldPcs
<1>2. listed \in Record /\ listed.state = Rec(c).state
  BY <1>1 DEF Record
<1>3. Finish(c, r) /\ Persist(r) /\ UNCHANGED <<cached, runs>>
  BY DEF Rendered
<1> HIDE DEF listed
<1>4. r \in Record /\ r.state \in Resting
  BY <1>1, <1>2, EnteredType DEF Resting, Terminal, States
<1> HIDE DEF r
<1>5. Leaves(c, r)
  BY <1>1 DEF Leaves
<1>6. stored' \in RestingRow \cup {NoSession}
  BY <1>3, <1>4, PersistType
<1> QED BY <1>1, <1>3, <1>4, <1>5, <1>6, Holder, FinishStep

LEMMA RenderedCancelledKept ==
  ASSUME SessionInv, NEW c \in Clients, RenderedCancelled(c)
  PROVE  Kept
<1>1. req[c].pc \in HeldPcs /\ Rec(c).state \in Resting
  BY Rendering DEF RenderedCancelled, At, Resting
<1> QED BY <1>1, GivesUp, Holder DEF RenderedCancelled

LEMMA RenderRaisesKept ==
  ASSUME SessionInv, NEW c \in Clients, RenderRaises(c)
  PROVE  Kept
<1>1. /\ req[c].pc \in HeldPcs /\ Rec(c) \in Record
      /\ Rec(c).state \notin Terminal
      /\ req[c].op # "confirm" => Rec(c).state \in Resting
      /\ UNCHANGED <<cached, stored, runs>>
  BY Rendering, Holder DEF RenderRaises, At, Resting
<1>2. CASE req[c].op = "confirm"
  <2>1. FailedFrom(Rec(c)) \in Record /\ FailedFrom(Rec(c)).state \in Resting
    BY <1>1, FailedFromType DEF Resting
  <2>2. Leaves(c, FailedFrom(Rec(c)))
    BY <1>1 DEF Leaves
  <2> QED BY <1>1, <1>2, <2>1, <2>2, Holder, FinishStep DEF RenderRaises
<1>3. CASE req[c].op # "confirm"
  BY <1>1, <1>3, GivesUp, Holder DEF RenderRaises
<1> QED BY <1>2, <1>3

-----------------------------------------------------------------------------
(* Delete and restart *)

\* Deleting takes no lock and touches no record.
LEMMA DeleteKept ==
  ASSUME SessionInv, NEW c \in Clients, DeleteRow(c) \/ Pop(c)
  PROVE  Kept
<1>1. /\ req[c] \in Request /\ req[c].rec \in 0 .. Len(records)
      /\ 0 \in 0 .. Len(records) /\ cached \in 0 .. Len(records)
      /\ stored \in RestingRow \cup {NoSession}
  BY DEF SessionInv, Typed, InStep
<1>2. CASE DeleteRow(c)
  <2> DEFINE q == [req[c] EXCEPT !.pc = "popping"]
  <2>1. q \in Request /\ q.pc = "popping" /\ q.rec = req[c].rec
    BY <1>1 DEF Request, Pcs
  <2>2. req' = [req EXCEPT ![c] = q]
    BY <1>2 DEF DeleteRow, Goto
  <2> HIDE DEF q
  <2> QED BY <1>1, <1>2, <2>1, <2>2, UnheldStep DEF DeleteRow, HeldPcs
<1>3. CASE Pop(c)
  <2>1. Idle.pc = "idle" /\ Idle.rec = 0
    BY DEF Idle
  <2> QED BY <1>1, <1>3, <2>1, IdleType, UnheldStep DEF Pop, HeldPcs
<1> QED BY <1>2, <1>3

LEMMA RestartKept == SessionInv /\ Restart => Kept
<1> SUFFICES ASSUME SessionInv, Restart PROVE Kept
  OBVIOUS
<1>1. /\ records' = <<>> /\ Len(records') = 0 /\ DOMAIN records' = {}
      /\ cached' = 0 /\ req' = [c \in Clients |-> Idle]
      /\ UNCHANGED <<stored, runs>>
  BY DEF Restart
<1>2. Typed'
  BY <1>1, IdleType DEF SessionInv, Typed
<1>3. \A c \in Clients : InStep(c)'
  BY <1>1 DEF InStep, Idle, HeldPcs
<1>4. NeverStranded' /\ LeftByReport
  BY <1>1 DEF NeverStranded, LeftByReport, Held
<1> QED BY <1>2, <1>3, <1>4 DEF SessionInv, Kept

\* Late writes touch files only.
LEMMA QuietKept ==
  ASSUME SessionInv, UNCHANGED <<records, cached, stored, req, runs>>
  PROVE  Kept
<1>1. Typed' /\ NeverStranded' /\ \A c \in Clients : InStep(c)'
  BY DEF SessionInv, Typed, NeverStranded, Held, InStep, Rec
<1>2. LeftByReport
  BY DEF LeftByReport, Held
<1> QED BY <1>1, <1>2 DEF SessionInv, Kept

-----------------------------------------------------------------------------
(* The theorems *)

LEMMA SessionInit == Init => SessionInv
<1> SUFFICES ASSUME Init PROVE SessionInv
  OBVIOUS
<1>1. NewRecord \in Record /\ NewRecord.state \in Resting
  BY DEF NewRecord, Record, States, Resting
<1>2. Row(NewRecord) \in RestingRow
  BY <1>1, RowType
<1>3. /\ records = <<NewRecord>> /\ cached = 1 /\ stored = Row(NewRecord)
      /\ req = [c \in Clients |-> Idle] /\ runs = 0
  BY DEF Init
<1>4. records \in Seq(Record) /\ Len(records) = 1 /\ records[1] = NewRecord
  BY <1>1, <1>3
<1>5. Typed
  BY <1>2, <1>3, <1>4, IdleType DEF Typed
<1>6. \A c \in Clients : InStep(c)
  BY <1>3, <1>4 DEF InStep, Idle, HeldPcs
<1>7. NeverStranded
  BY <1>1, <1>4 DEF NeverStranded, Held
<1> QED BY <1>5, <1>6, <1>7 DEF SessionInv

LEMMA SessionStep == SessionInv /\ [Next]_vars => Kept
<1> SUFFICES ASSUME SessionInv, [Next]_vars PROVE Kept
  OBVIOUS
<1>1. ASSUME NEW c \in Clients, Step(c) PROVE Kept
  BY <1>1, InstallKept, LockKept, AnswerKept, CancelSessionKept, RefusedKept,
     StartPipelineKept, ClarifyKept, AdvanceKept, AnalyzedKept, ComposedKept,
     PipelineRaisesKept, HasPreviewKept, StartRenderKept, RenderedKept,
     RenderedCancelledKept, RenderRaisesKept, DeleteKept DEF Step
<1>2. ASSUME NEW c \in Clients, NEW op \in Ops, Load(c, op) PROVE Kept
  BY <1>2, LoadKept
<1>3. CASE LateWrite
  BY <1>3, QuietKept DEF LateWrite
<1>4. CASE Restart
  BY <1>4, RestartKept
<1>5. CASE UNCHANGED vars
  BY <1>5, QuietKept DEF vars
<1> QED BY <1>1, <1>2, <1>3, <1>4, <1>5 DEF Next

\* However requests overlap and fail, and wherever the server stops: a record
\* that nobody holds is where its user can go on from.
THEOREM NeverStrandedHolds == Spec => []NeverStranded
<1>1. SessionInv => NeverStranded
  BY DEF SessionInv
<1>2. SessionInv /\ [Next]_vars => SessionInv'
  BY SessionStep DEF Kept
<1> QED BY <1>1, <1>2, SessionInit, PTL DEF Spec

\* The row a restart finds is one of a session at rest, whichever writes were
\* lost before.
THEOREM StoredIsRestingHolds == Spec => []StoredIsResting
<1>1. SessionInv => StoredIsResting
  BY DEF SessionInv, Typed, RestingRow, StoredIsResting
<1>2. SessionInv /\ [Next]_vars => SessionInv'
  BY SessionStep DEF Kept
<1> QED BY <1>1, <1>2, SessionInit, PTL DEF Spec

\* Although send and confirm check for a finished session before they wait for
\* its lock, only a streamed report ever leaves one.
THEOREM FinishedIsLeftByReportsOnlyHolds == Spec => FinishedIsLeftByReportsOnly
<1>1. SessionInv /\ [Next]_vars =>
        [\A n \in Held \cap DOMAIN records' :
           records[n].state \in Terminal /\ records'[n].state # records[n].state =>
             /\ records'[n].state = "parsing"
             /\ \E c \in Clients : records[n].lock = c /\ req[c].op = "report"]_vars
  BY SessionStep DEF Kept, LeftByReport
<1>2. SessionInv /\ [Next]_vars => SessionInv'
  BY SessionStep DEF Kept
<1> QED BY <1>1, <1>2, SessionInit, PTL DEF Spec, FinishedIsLeftByReportsOnly

-----------------------------------------------------------------------------
(* Reports and their files *)

\* The reports a row lists; and an archived session lists the one of its
\* revision.
Listing(row) == IF row = NoSession THEN {} ELSE row.artifacts
Reported(r)  == r.state = "archived" =>
                  \E f \in r.artifacts : f.revision = r.revision

\* A set of reports has one run for each revision, none later than revision,
\* which is run's (0: none is known).
Fits(F, revision, run) ==
  /\ \A f \in F : /\ f.revision <= revision
                  /\ f.revision = revision /\ run # 0 => f.run = run
  /\ \A f, g \in F : f.revision = g.revision => f.run = g.run

\* What holds of a row when limit reports have been made.
RowOK(row, limit) ==
  row # NoSession => /\ Reported(row)
                     /\ Fits(row.artifacts, row.revision, 0)
                     /\ row.revision <= limit

\* The reports that share the files of record n: while it is the only record,
\* also those the row lists and those that threads still write.
FilesOf(n) ==
  records[n].artifacts \cup
    IF Len(records) = 1 THEN late \cup Listing(stored) ELSE {}

RecordOK(n) ==
  /\ Reported(records[n])
  /\ Fits(FilesOf(n), records[n].revision, records[n].ctx)
  /\ records[n].revision <= runs
  /\ records[n].ctx # 0 => records[n].revision # 0

\* A report that is being composed has a revision no file has; one that is
\* rendered has been composed.
RequestOK(c) ==
  /\ RowOK(req[c].row, runs)
  /\ At(c, "composing") =>
       /\ req[c].run # 0 /\ Rec(c).revision # 0
       /\ \A f \in FilesOf(req[c].rec) : f.revision < Rec(c).revision
  /\ At(c, "rendering") => Rec(c).ctx # 0

\* After a restart there is nothing but the row.
OnlyRow ==
  records = <<>> =>
    /\ late = {}
    /\ \A c \in Clients : /\ req[c].pc \in {"idle", "install"}
                          /\ At(c, "install") => req[c].row = stored

\* Each request makes one report at most.
UncountedPcs == {"install", "locking", "locked", "parsing", "authorizing",
                 "fetching", "analyzing"}
Uncounted == {c \in Clients : req[c].pc \in UncountedPcs}
Counted ==
  /\ IsFiniteSet(Uncounted) /\ ops \in Nat /\ ops <= MaxOps
  /\ runs + Cardinality(Uncounted) <= ops

ReportInv ==
  /\ Counted
  /\ OnlyRow
  /\ files \in [1 .. MaxOps -> Nat] /\ late \subseteq File
  /\ RowOK(stored, runs)
  /\ \A n \in Held : RecordOK(n)
  /\ \A c \in Clients : RequestOK(c)

\* ArtifactsIntact, as a step.
Intact ==
  /\ \A n \in Held \cap DOMAIN records' :
       \A f \in records'[n].artifacts \ records[n].artifacts : Holds(f)'
  /\ \A revision \in DOMAIN files :
       LET f == [revision |-> revision, run |-> files[revision]]
       IN  Listed(f) => \/ files'[revision] \in {f.run, 0}
                        \/ Len(records) > 1

FilesKept == ReportInv' /\ Intact

\* Counting.
LEMMA CountFewer ==
  ASSUME Counted, runs \in Nat, runs' = runs, ops' = ops, Uncounted' \subseteq Uncounted
  PROVE  Counted'
<1>1. IsFiniteSet(Uncounted') /\ Cardinality(Uncounted') <= Cardinality(Uncounted)
  BY FS_Subset DEF Counted
<1>2. Cardinality(Uncounted) \in Nat /\ Cardinality(Uncounted') \in Nat
  BY <1>1, FS_CardinalityType DEF Counted
<1> QED BY <1>1, <1>2 DEF Counted

LEMMA UncountedStep ==
  ASSUME SessionInv, NEW c \in Clients, NEW q, req' = [req EXCEPT ![c] = q],
         q.pc \in UncountedPcs => req[c].pc \in UncountedPcs
  PROVE  Uncounted' \subseteq Uncounted
<1>1. \A d \in Clients : req'[d] = IF d = c THEN q ELSE req[d]
  BY DEF SessionInv, Typed
<1> QED BY <1>1 DEF Uncounted

\* Fewer reports fit where more do.
LEMMA FitsFewer ==
  ASSUME NEW F, NEW G \in SUBSET F, NEW revision, NEW run, Fits(F, revision, run)
  PROVE  Fits(G, revision, run) /\ Fits(G, revision, 0)
  BY DEF Fits

\* The holder of a record leaves it as r, with the new files G.
LEMMA ReportStep ==
  ASSUME SessionInv, ReportInv, NEW c \in Clients,
         req[c].pc \in HeldPcs \cup {"locking"},
         req[c].pc = "locking" => Rec(c).lock = NoClient,
         NEW r \in Record, NEW q \in Request, NEW G \in SUBSET File,
         records' = [records EXCEPT ![req[c].rec] = r],
         req' = [req EXCEPT ![c] = q],
         q = Idle \/ (q.row = req[c].row /\ q.rec = req[c].rec /\ q.pc # "install"),
         r.artifacts \subseteq Rec(c).artifacts \cup G,
         late' \subseteq late \cup G,
         stored' = stored \/ stored' = Row(r),
         runs' \in Nat, runs <= runs',
         Fits(FilesOf(req[c].rec) \cup G, r.revision, r.ctx), Reported(r),
         r.revision <= runs', r.ctx # 0 => r.revision # 0,
         q.pc = "composing" =>
           /\ q.run # 0 /\ r.revision # 0
           /\ \A f \in FilesOf(req[c].rec) \cup G : f.revision < r.revision,
         q.pc = "rendering" => r.ctx # 0,
         files' \in [1 .. MaxOps -> Nat], Counted'
  PROVE  ReportInv'
<1>0. PICK n \in 1 .. Len(records) : n = req[c].rec
  BY RecordType
<1>1. /\ n \in 1 .. Len(records) /\ records \in Seq(Record)
      /\ runs \in Nat /\ req \in [Clients -> Request]
  BY DEF SessionInv, Typed
<1>2. /\ Len(records') = Len(records) /\ records'[n] = r
      /\ \A m \in 1 .. Len(records) : m # n => records'[m] = records[m]
      /\ records' # <<>> /\ records # <<>>
  BY <1>0, <1>1
<1>3. \A d \in Clients : req'[d] = IF d = c THEN q ELSE req[d]
  BY <1>1
<1>4. Idle.row = NoSession /\ Idle.pc = "idle"
  BY DEF Idle
<1>5. Listing(stored') \subseteq Listing(stored) \cup r.artifacts
  BY DEF Listing, Row
<1>6. FilesOf(n)' \subseteq FilesOf(n) \cup G
  BY <1>0, <1>1, <1>2, <1>5 DEF FilesOf, Rec
<1>7. \A m \in 1 .. Len(records) : m # n => FilesOf(m)' \subseteq FilesOf(m)
  BY <1>1, <1>2 DEF FilesOf
<1>8. \A row : RowOK(row, runs) /\ (row = NoSession \/ row.revision \in Nat) => RowOK(row, runs')
  BY <1>1 DEF RowOK
<1>9. OnlyRow'
  BY <1>2 DEF OnlyRow
<1>10. RowOK(stored', runs')
  <2>1. CASE stored' = stored
    BY <1>8, <2>1 DEF ReportInv, SessionInv, Typed, RestingRow
  <2>2. CASE stored' = Row(r)
    <3>1. /\ stored'.state = r.state /\ stored'.revision = r.revision
          /\ stored'.artifacts = r.artifacts
      BY <2>2 DEF Row
    <3>2. r.artifacts \in SUBSET (FilesOf(n) \cup G)
      BY <1>0 DEF FilesOf, Rec
    <3>3. Fits(r.artifacts, r.revision, 0)
      BY <1>0, <3>2, FitsFewer
    <3> QED BY <3>1, <3>3 DEF RowOK, Reported
  <2> QED BY <2>1, <2>2
<1>11. ASSUME NEW m \in 1 .. Len(records) PROVE RecordOK(m)'
  <2>1. CASE m = n
    <3>1. Fits(FilesOf(n)', r.revision, r.ctx)
      BY <1>0, <1>6, FitsFewer
    <3> QED BY <1>2, <2>1, <3>1 DEF RecordOK
  <2>2. CASE m # n
    <3>1. RecordOK(m) /\ records[m] \in Record
      BY <1>1 DEF ReportInv, Held
    <3>2. Fits(FilesOf(m)', records[m].revision, records[m].ctx)
      BY <1>7, <2>2, <3>1, FitsFewer DEF RecordOK
    <3> QED BY <1>1, <1>2, <2>2, <3>1, <3>2 DEF RecordOK, Record
  <2> QED BY <2>1, <2>2
<1>12. ASSUME NEW d \in Clients PROVE RequestOK(d)'
  <2>1. RequestOK(d) /\ req[d] \in Request /\ InStep(d) /\ InStep(c)
    BY <1>1 DEF ReportInv, SessionInv
  <2>2. RowOK(req'[d].row, runs')
    <3>1. req'[d].row \in {req[d].row, NoSession}
      BY <1>3, <1>4
    <3>2. RowOK(req[d].row, runs')
      BY <1>8, <2>1 DEF RequestOK, Request, RestingRow
    <3> QED BY <3>1, <3>2 DEF RowOK
  <2>3. CASE d = c
    <3>1. req'[d] = q
      BY <1>3, <2>3
    <3>2. q.pc \in {"composing", "rendering"} => q.rec = n
      BY <1>0, <1>4
    <3> QED BY <1>0, <1>2, <1>6, <2>2, <3>1, <3>2 DEF RequestOK, At, Rec
  <2>4. CASE d # c
    <3>1. req'[d] = req[d]
      BY <1>3, <2>4
    <3>2. req[d].pc \in HeldPcs => req[d].rec # n /\ req[d].rec \in 1 .. Len(records)
      BY <1>0, <2>1, <2>4, ClientsAssumption DEF InStep, Rec
    <3>3. req[d].pc \in HeldPcs => /\ Rec(d)' = Rec(d)
                                   /\ FilesOf(req[d].rec)' \subseteq FilesOf(req[d].rec)
      BY <1>2, <1>7, <3>1, <3>2 DEF Rec
    <3> QED BY <2>1, <2>2, <3>1, <3>3 DEF RequestOK, At, HeldPcs
  <2> QED BY <2>3, <2>4
<1>13. late' \subseteq File
  BY DEF ReportInv
<1> QED BY <1>2, <1>9, <1>10, <1>11, <1>12, <1>13 DEF ReportInv, Held

\* Nothing a step lists is new and it writes no file.
LEMMA QuietFiles ==
  ASSUME files' = files,
         \A n \in Held \cap DOMAIN records' :
           records'[n].artifacts \subseteq records[n].artifacts
  PROVE  Intact
  BY DEF Intact

\* What a state has of the record's reports, and that it archives nothing.
Same(r, old) == /\ r.artifacts = old.artifacts /\ r.revision = old.revision
                /\ r.ctx = old.ctx
                /\ r.state = "archived" => old.state = "archived"

LEMMA EnteredSame ==
  ASSUME NEW r \in Record, NEW state \in States
  PROVE  /\ Same(Entered(r, state), r) <=> (state = "archived" => r.state = "archived")
         /\ Same(FailedFrom(r), r)
  BY DEF Same, Entered, FailedFrom, Record

\* Most steps of a holder make no report.
LEMMA SameStep ==
  ASSUME SessionInv, ReportInv, NEW c \in Clients,
         req[c].pc \in HeldPcs \cup {"locking"},
         req[c].pc = "locking" => Rec(c).lock = NoClient,
         NEW r \in Record, NEW q \in Request, Same(r, Rec(c)),
         records' = [records EXCEPT ![req[c].rec] = r],
         req' = [req EXCEPT ![c] = q],
         q = Idle \/ (q.row = req[c].row /\ q.rec = req[c].rec /\ q.pc # "install"),
         stored' = stored \/ stored' = Row(r),
         q.pc # "composing", q.pc = "rendering" => r.ctx # 0,
         q.pc \in UncountedPcs => req[c].pc \in UncountedPcs,
         UNCHANGED <<files, late, runs, ops>>
  PROVE  FilesKept
<1>1. /\ req[c].rec \in 1 .. Len(records) /\ records \in Seq(Record)
      /\ runs \in Nat
  BY RecordType DEF SessionInv, Typed
<1>2. RecordOK(req[c].rec)
  BY <1>1 DEF ReportInv, Held
<1>3. Counted'
  BY <1>1, CountFewer, UncountedStep DEF ReportInv
<1>4. FilesOf(req[c].rec) \cup {} = FilesOf(req[c].rec) /\ {} \in SUBSET File
  OBVIOUS
<1>5. /\ Fits(FilesOf(req[c].rec), r.revision, r.ctx) /\ Reported(r)
      /\ r.revision <= runs /\ (r.ctx # 0 => r.revision # 0)
  BY <1>2 DEF RecordOK, Same, Reported, Rec
<1>6. /\ late' \subseteq late \cup {} /\ r.artifacts \subseteq Rec(c).artifacts \cup {}
      /\ runs' \in Nat /\ runs <= runs' /\ r.revision <= runs'
      /\ files' \in [1 .. MaxOps -> Nat]
  BY <1>1, <1>5 DEF Same, ReportInv
<1>7. ReportInv'
  BY <1>3, <1>4, <1>5, <1>6, ReportStep
<1>8. \A m \in Held : records'[m].artifacts = records[m].artifacts
  BY <1>1 DEF Same, Held, Rec
<1>9. Intact
  BY <1>8, QuietFiles
<1> QED BY <1>7, <1>9 DEF FilesKept

LEMMA SameFinish ==
  ASSUME SessionInv, ReportInv, NEW c \in Clients, req[c].pc \in HeldPcs,
         NEW r \in Record, Same(r, Rec(c)), Finish(c, r),
         stored' = stored \/ stored' = Row(r),
         UNCHANGED <<files, late, runs, ops>>
  PROVE  FilesKept
<1> DEFINE s == [r EXCEPT !.lock = NoClient]
<1>1. s \in Record /\ Same(s, Rec(c)) /\ Row(s) = Row(r)
  BY DEF Record, Same, Row
<1>2. records' = [records EXCEPT ![req[c].rec] = s] /\ req' = [req EXCEPT ![c] = Idle]
  BY DEF Finish, Keep
<1> HIDE DEF s
<1>3. req[c].pc # "locking" /\ Idle.pc = "idle" /\ "idle" \notin UncountedPcs
  BY DEF HeldPcs, Idle, UncountedPcs
<1> QED BY <1>1, <1>2, <1>3, IdleType, SameStep

LEMMA SameGoOn ==
  ASSUME SessionInv, ReportInv, NEW c \in Clients, req[c].pc \in HeldPcs,
         NEW r \in Record, NEW place \in HeldPcs, Same(r, Rec(c)),
         Keep(c, r), Goto(c, place), stored' = stored \/ stored' = Row(r),
         place # "composing", place = "rendering" => r.ctx # 0,
         place \in UncountedPcs => req[c].pc \in UncountedPcs,
         UNCHANGED <<files, late, runs, ops>>
  PROVE  FilesKept
<1> DEFINE q == [req[c] EXCEPT !.pc = place]
<1>1. req[c] \in Request /\ req \in [Clients -> Request]
  BY DEF SessionInv, Typed
<1>2. q \in Request /\ q.pc = place /\ q.rec = req[c].rec /\ q.row = req[c].row
  BY <1>1 DEF Request, Pcs
<1>3. req' = [req EXCEPT ![c] = q] /\ records' = [records EXCEPT ![req[c].rec] = r]
  BY <1>1 DEF Goto, Keep
<1>4. q.pc # "install" /\ req[c].pc # "locking"
  BY <1>2 DEF HeldPcs
<1> HIDE DEF q
<1> QED BY <1>2, <1>3, <1>4, SameStep

-----------------------------------------------------------------------------
(* Steps that make no report *)

LEMMA LoadFiles ==
  ASSUME SessionInv, ReportInv, NEW c \in Clients, NEW op \in Ops, Load(c, op)
  PROVE  FilesKept
<1> DEFINE q == req'[c]
<1>1. /\ req \in [Clients -> Request] /\ runs \in Nat /\ cached \in 0 .. Len(records)
      /\ records \in Seq(Record)
  BY DEF SessionInv, Typed
<1>2. /\ req[c].pc = "idle" /\ ops < MaxOps /\ ops' = ops + 1
      /\ UNCHANGED <<records, stored, files, late, runs>>
  BY DEF Load, At
<1>3. \E v :
        /\ req' = [req EXCEPT ![c] = v]
        /\ v.pc \notin {"composing", "rendering"} /\ v.row \in {NoSession, stored}
        /\ cached = 0 => v.pc = "install"
        /\ v.pc = "install" => v.row = stored
  <2>1. CASE cached # 0
    <3> DEFINE w == [pc |-> IF op = "delete" THEN "deleting" ELSE "locking", op |-> op,
                     rec |-> cached, row |-> NoSession, run |-> 0]
    <3>1. req' = [req EXCEPT ![c] = Idle] \/ req' = [req EXCEPT ![c] = w]
      BY <2>1 DEF Load, Found
    <3>2. /\ w.pc \in {"deleting", "locking"} /\ w.row = NoSession
          /\ Idle.pc = "idle" /\ Idle.row = NoSession
      BY DEF Idle
    <3> HIDE DEF w
    <3> QED BY <2>1, <3>1, <3>2
  <2>2. CASE cached = 0
    <3> DEFINE w == [Idle EXCEPT !.pc = "install", !.op = op, !.row = stored]
    <3>1. req' = [req EXCEPT ![c] = w]
      BY <2>2 DEF Load
    <3>2. w.pc = "install" /\ w.row = stored
      BY DEF Idle
    <3> HIDE DEF w
    <3> QED BY <3>1, <3>2
  <2> QED BY <2>1, <2>2
<1>4. \A d \in Clients : d # c => req'[d] = req[d]
  BY <1>1, <1>3
<1>5. /\ q.pc \notin {"composing", "rendering"} /\ q.row \in {NoSession, stored}
      /\ cached = 0 => q.pc = "install" /\ q.row = stored
  BY <1>1, <1>3
<1>6. Counted'
  <2>1. Uncounted' \subseteq Uncounted \cup {c}
    BY <1>4 DEF Uncounted
  <2>2. c \notin Uncounted
    BY <1>2 DEF Uncounted, UncountedPcs
  <2>3. /\ IsFiniteSet(Uncounted \cup {c})
        /\ Cardinality(Uncounted \cup {c}) = Cardinality(Uncounted) + 1
    BY <2>2, FS_AddElement DEF ReportInv, Counted
  <2>4. IsFiniteSet(Uncounted') /\ Cardinality(Uncounted') <= Cardinality(Uncounted) + 1
    BY <2>1, <2>3, FS_Subset
  <2>5. Cardinality(Uncounted) \in Nat /\ Cardinality(Uncounted') \in Nat
    BY <2>4, FS_CardinalityType DEF ReportInv, Counted
  <2> QED BY <1>1, <1>2, <2>4, <2>5, BoundsAssumption DEF ReportInv, Counted
<1>7. OnlyRow'
  <2>1. records = <<>> => cached = 0
    BY <1>1
  <2> QED BY <1>2, <1>4, <1>5, <2>1 DEF OnlyRow, ReportInv, At
<1>8. \A n \in Held : RecordOK(n)'
  BY <1>2 DEF ReportInv, RecordOK, FilesOf, Held
<1>9. ASSUME NEW d \in Clients PROVE RequestOK(d)'
  <2>1. CASE d = c
    BY <1>2, <1>5, <2>1 DEF RequestOK, At, ReportInv, RowOK
  <2>2. CASE d # c
    BY <1>2, <1>4, <2>2 DEF RequestOK, At, ReportInv, RowOK, FilesOf, Rec
  <2> QED BY <2>1, <2>2
<1>10. Intact
  BY <1>2, QuietFiles
<1> QED BY <1>2, <1>6, <1>7, <1>8, <1>9, <1>10 DEF ReportInv, Held, FilesKept

LEMMA LockFiles ==
  ASSUME SessionInv, ReportInv, NEW c \in Clients, Lock(c)
  PROVE  FilesKept
<1> DEFINE r == [Rec(c) EXCEPT !.lock = c]
           q == [req[c] EXCEPT !.pc = "locked"]
<1>1. req[c].pc = "locking" /\ Rec(c).lock = NoClient
  BY DEF Lock, At
<1>2. Rec(c) \in Record /\ req[c] \in Request
  BY <1>1, RecordType
<1>3. r \in Record /\ Same(r, Rec(c))
  BY <1>2 DEF Record, Same
<1>4. q \in Request /\ q.pc = "locked" /\ q.rec = req[c].rec /\ q.row = req[c].row
  BY <1>2 DEF Request, Pcs, HeldPcs
<1>5. /\ records' = [records EXCEPT ![req[c].rec] = r] /\ req' = [req EXCEPT ![c] = q]
      /\ UNCHANGED <<stored, files, late, runs, ops>>
  BY DEF Lock, Keep, Goto
<1> HIDE DEF r, q
<1> QED BY <1>1, <1>3, <1>4, <1>5, SameStep DEF UncountedPcs

\* The steps of a holder that end the request or move it on.
LEMMA EndingFiles ==
  ASSUME SessionInv, ReportInv, NEW c \in Clients,
         Answer(c) \/ CancelSession(c) \/ PipelineRaises(c)
  PROVE  FilesKept
<1>1. req[c].pc \in HeldPcs /\ UNCHANGED <<files, late, runs, ops>>
  BY DEF Answer, CancelSession, PipelineRaises, At, HeldPcs
<1>2. Rec(c) \in Record /\ Same(Rec(c), Rec(c))
  BY <1>1, Holder DEF Same
<1>3. CASE Answer(c)
  BY <1>1, <1>2, <1>3, SameFinish DEF Answer, Persist
<1>4. CASE CancelSession(c)
  <2>1. /\ Entered(Rec(c), "cancelled") \in Record
        /\ Same(Entered(Rec(c), "cancelled"), Rec(c))
    BY <1>2, EnteredType, EnteredSame DEF States
  <2> QED BY <1>1, <1>2, <1>4, <2>1, SameFinish DEF CancelSession, Persist
<1>5. CASE PipelineRaises(c)
  <2>1. FailedFrom(Rec(c)) \in Record /\ Same(FailedFrom(Rec(c)), Rec(c))
    BY <1>2, FailedFromType, EnteredSame DEF States
  <2> QED BY <1>1, <2>1, <1>5, SameFinish DEF PipelineRaises
<1> QED BY <1>3, <1>4, <1>5

LEMMA StartPipelineFiles ==
  ASSUME SessionInv, ReportInv, NEW c \in Clients, StartPipeline(c)
  PROVE  FilesKept
<1> DEFINE r == [Rec(c) EXCEPT !.text = TRUE,
                               !.state = IF req[c].op = "report" /\ @ \in Terminal
                                           THEN "parsing" ELSE @]
<1>1. /\ req[c].pc = "locked" /\ req[c].pc \in HeldPcs
      /\ UNCHANGED <<stored, files, late, runs, ops>>
      /\ IF MayEnter(r, "parsing")
           THEN Keep(c, Entered(r, "parsing")) /\ Goto(c, "parsing")
           ELSE Finish(c, FailedFrom(r))
  BY DEF StartPipeline, At, HeldPcs
<1>2. Rec(c) \in Record
  BY <1>1, Holder
<1>3. r \in Record /\ Same(r, Rec(c))
  BY <1>2 DEF Record, Same, States
<1> HIDE DEF r
<1>4. /\ Entered(r, "parsing") \in Record /\ Same(Entered(r, "parsing"), r)
      /\ FailedFrom(r) \in Record /\ Same(FailedFrom(r), r)
  BY <1>3, EnteredType, FailedFromType, EnteredSame DEF States
<1>5. Same(Entered(r, "parsing"), Rec(c)) /\ Same(FailedFrom(r), Rec(c))
  BY <1>3, <1>4 DEF Same
<1>6. CASE MayEnter(r, "parsing")
  BY <1>1, <1>4, <1>5, <1>6, SameGoOn DEF HeldPcs, UncountedPcs
<1>7. CASE ~MayEnter(r, "parsing")
  BY <1>1, <1>4, <1>5, <1>7, SameFinish
<1> QED BY <1>6, <1>7

LEMMA ClarifyFiles ==
  ASSUME SessionInv, ReportInv, NEW c \in Clients, Clarify(c)
  PROVE  FilesKept
<1> DEFINE r == Entered(Rec(c), "clarifying")
<1>1. /\ req[c].pc = "parsing" /\ req[c].pc \in HeldPcs
      /\ UNCHANGED <<files, late, runs, ops>>
      /\ IF req[c].op = "confirm" THEN Keep(c, r) /\ Goto(c, "checked")
                                  ELSE Finish(c, r)
      /\ stored' = stored \/ stored' = Row(r)
  BY DEF Clarify, At, HeldPcs, Persist
<1>2. r \in Record /\ Same(r, Rec(c))
  BY <1>1, Holder, EnteredType, EnteredSame DEF States
<1> HIDE DEF r
<1>3. CASE req[c].op = "confirm"
  BY <1>1, <1>2, <1>3, SameGoOn DEF HeldPcs, UncountedPcs
<1>4. CASE req[c].op # "confirm"
  BY <1>1, <1>2, <1>4, SameFinish
<1> QED BY <1>3, <1>4

LEMMA AdvanceFiles ==
  ASSUME SessionInv, ReportInv, NEW c \in Clients, Advance(c)
  PROVE  FilesKept
<1> DEFINE place == Following[req[c].pc]
           r == Entered(Rec(c), place)
<1>1. /\ req[c].pc \in {"parsing", "authorizing", "fetching"}
      /\ place \in {"authorizing", "fetching", "analyzing"}
      /\ Keep(c, r) /\ Goto(c, place) /\ UNCHANGED <<stored, files, late, runs, ops>>
  BY DEF Advance, Following
<1> HIDE DEF place
<1>2. /\ req[c].pc \in HeldPcs /\ req[c].pc \in UncountedPcs
      /\ place \in HeldPcs /\ place \in States /\ place \notin {"archived", "composing", "rendering"}
  BY <1>1 DEF HeldPcs, UncountedPcs, States
<1>3. r \in Record /\ Same(r, Rec(c))
  BY <1>2, Holder, EnteredType, EnteredSame
<1> HIDE DEF r
<1> QED BY <1>1, <1>2, <1>3, SameGoOn

LEMMA ConfirmFiles ==
  ASSUME SessionInv, ReportInv, NEW c \in Clients, HasPreview(c) \/ StartRender(c)
  PROVE  FilesKept
<1>1. /\ req[c].pc \in HeldPcs /\ UNCHANGED <<stored, files, late, runs, ops>>
  BY DEF HasPreview, StartRender, At, HeldPcs
<1>2. /\ Rec(c) \in Record /\ Same(Rec(c), Rec(c)) /\ req[c].rec \in 1 .. Len(records)
      /\ records \in Seq(Record)
  BY <1>1, Holder DEF Same, SessionInv, Typed
<1>3. CASE HasPreview(c)
  <2>1. Keep(c, Rec(c)) /\ Goto(c, "checked")
    BY <1>2, <1>3 DEF HasPreview, Keep, Rec
  <2> QED BY <1>1, <1>2, <2>1, SameGoOn DEF HeldPcs, UncountedPcs
<1>4. CASE StartRender(c) /\ Rec(c).ctx # 0 /\ MayEnter(Rec(c), "rendering")
  <2> DEFINE r == Entered(Rec(c), "rendering")
  <2>1. r \in Record /\ Same(r, Rec(c))
    BY <1>2, EnteredType, EnteredSame DEF States
  <2>2. Keep(c, r) /\ Goto(c, "rendering")
    BY <1>4 DEF StartRender
  <2> HIDE DEF r
  <2>3. r.ctx # 0
    BY <1>4, <2>1 DEF Same
  <2> QED BY <1>1, <2>1, <2>2, <2>3, SameGoOn DEF HeldPcs, UncountedPcs
<1>5. CASE StartRender(c) /\ ~(Rec(c).ctx # 0 /\ MayEnter(Rec(c), "rendering"))
  BY <1>1, <1>2, <1>5, SameFinish DEF StartRender
<1> QED BY <1>3, <1>4, <1>5

\* Steps after which requests hold no more than before and no record changed.
LEMMA UnheldFiles ==
  ASSUME SessionInv, ReportInv, records' = records, runs' = runs,
         \A c \in Clients :
           \/ req'[c] = req[c]
           \/ /\ req'[c].pc \notin HeldPcs \cup {"install"}
              /\ req'[c].row \in {req[c].row, NoSession}
              /\ req[c].pc \notin {"idle", "install"},
         stored' \in {stored, NoSession}, records = <<>> => stored' = stored,
         late' \subseteq late,
         files' \in [1 .. MaxOps -> Nat], Counted'
  PROVE  ReportInv'
<1>1. \A n : FilesOf(n)' \subseteq FilesOf(n)
  BY DEF FilesOf, Listing
<1>2. OnlyRow'
  BY DEF OnlyRow, ReportInv, At
<1>3. ASSUME NEW n \in Held PROVE RecordOK(n)'
  <2>1. Fits(FilesOf(n)', records[n].revision, records[n].ctx) /\ RecordOK(n)
    BY <1>1, FitsFewer DEF ReportInv, RecordOK
  <2> QED BY <2>1 DEF RecordOK
<1>4. ASSUME NEW c \in Clients PROVE RequestOK(c)'
  <2>1. RequestOK(c)
    BY DEF ReportInv
  <2>2. CASE req'[c] = req[c]
    BY <1>1, <2>1, <2>2 DEF RequestOK, At, Rec
  <2>3. CASE /\ req'[c].pc \notin HeldPcs \cup {"install"}
             /\ req'[c].row \in {req[c].row, NoSession}
    BY <2>1, <2>3 DEF RequestOK, At, HeldPcs, RowOK
  <2> QED BY <2>2, <2>3
<1>5. RowOK(stored', runs') /\ late' \subseteq File
  BY DEF ReportInv, RowOK
<1> QED BY <1>2, <1>3, <1>4, <1>5 DEF ReportInv, Held

LEMMA RefusedFiles ==
  ASSUME SessionInv, ReportInv, NEW c \in Clients, Refused(c)
  PROVE  FilesKept
<1>1. UNCHANGED <<stored, files, late, runs, ops>> /\ runs \in Nat
      /\ req \in [Clients -> Request]
  BY DEF Refused, SessionInv, Typed
<1>2. CASE req[c].op = "delete"
  <2>1. records' = records /\ req' = [req EXCEPT ![c] = Idle] /\ req[c].pc = "deleting"
    BY <1>2 DEF Refused, At
  <2>2. Idle.pc = "idle" /\ Idle.row = NoSession
    BY DEF Idle
  <2>3. Counted'
    BY <1>1, <2>1, <2>2, UncountedStep, CountFewer DEF UncountedPcs, ReportInv
  <2>4. \A d \in Clients :
           \/ req'[d] = req[d]
           \/ /\ req'[d].pc \notin HeldPcs \cup {"install"}
              /\ req'[d].row \in {req[d].row, NoSession}
              /\ req[d].pc \notin {"idle", "install"}
    BY <1>1, <2>1, <2>2 DEF HeldPcs
  <2>5. ReportInv'
    BY <1>1, <2>1, <2>3, <2>4, UnheldFiles DEF ReportInv
  <2> QED BY <1>1, <2>1, <2>5, QuietFiles DEF FilesKept
<1>3. CASE req[c].op # "delete"
  <2>1. Finish(c, Rec(c)) /\ req[c].pc \in HeldPcs
    BY <1>3 DEF Refused, At, HeldPcs, SessionInv, InStep
  <2>2. Rec(c) \in Record /\ Same(Rec(c), Rec(c))
    BY <2>1, Holder DEF Same
  <2> QED BY <1>1, <2>1, <2>2, SameFinish
<1> QED BY <1>2, <1>3

LEMMA DeleteFiles ==
  ASSUME SessionInv, ReportInv, NEW c \in Clients, DeleteRow(c) \/ Pop(c)
  PROVE  FilesKept
<1>1. /\ UNCHANGED <<records, late, runs, ops>> /\ runs \in Nat
      /\ req \in [Clients -> Request] /\ req[c] \in Request
      /\ stored' \in {stored, NoSession}
  BY DEF DeleteRow, Pop, SessionInv, Typed
<1>2. PICK q \in Request :
        /\ req' = [req EXCEPT ![c] = q] /\ q.pc \in {"idle", "popping"}
        /\ q.row \in {req[c].row, NoSession} /\ req[c].pc \in {"deleting", "popping"}
  <2>1. CASE DeleteRow(c)
    <3> DEFINE w == [req[c] EXCEPT !.pc = "popping"]
    <3>1. /\ w \in Request /\ w.pc = "popping" /\ w.row = req[c].row
          /\ req' = [req EXCEPT ![c] = w] /\ req[c].pc = "deleting"
      BY <1>1, <2>1 DEF DeleteRow, Goto, At, Request, Pcs
    <3> HIDE DEF w
    <3> QED BY <3>1
  <2>2. CASE Pop(c)
    <3>1. Idle.pc = "idle" /\ Idle.row = NoSession
      BY DEF Idle
    <3> QED BY <2>2, <3>1, IdleType DEF Pop, At
  <2> QED BY <2>1, <2>2
<1>3. Counted'
  BY <1>1, <1>2, UncountedStep, CountFewer DEF UncountedPcs, ReportInv
<1>4. \A d \in Clients :
         \/ req'[d] = req[d]
         \/ /\ req'[d].pc \notin HeldPcs \cup {"install"}
            /\ req'[d].row \in {req[d].row, NoSession}
            /\ req[d].pc \notin {"idle", "install"}
  BY <1>1, <1>2 DEF HeldPcs
<1>5. /\ files \in [1 .. MaxOps -> Nat] /\ files' \in [1 .. MaxOps -> Nat]
      /\ files' = files \/ \A revision \in 1 .. MaxOps : files'[revision] = 0
  <2>1. files \in [1 .. MaxOps -> Nat]
    BY DEF ReportInv
  <2>2. CASE DeleteRow(c)
    BY <2>1, <2>2 DEF DeleteRow
  <2>3. CASE Pop(c)
    <3>1. files' = [n \in 1 .. MaxOps |-> 0]
      BY <2>3 DEF Pop
    <3> QED BY <2>1, <3>1
  <2> QED BY <2>2, <2>3
<1>6. ReportInv'
  <2>1. records # <<>>
    BY <1>2 DEF ReportInv, OnlyRow
  <2> QED BY <1>1, <1>3, <1>4, <1>5, <2>1, UnheldFiles
<1>7. Intact
  BY <1>1, <1>5 DEF Intact
<1> QED BY <1>6, <1>7 DEF FilesKept

\* Install makes a record of the row; while it is the only one, the row is the
\* stored one.
LEMMA InstallFiles ==
  ASSUME SessionInv, ReportInv, NEW c \in Clients, Install(c)
  PROVE  FilesKept
<1> DEFINE r == Rehydrated(req[c].row)
<1>1. /\ records \in Seq(Record) /\ runs \in Nat /\ req \in [Clients -> Request]
      /\ req[c].pc = "install" /\ req[c].row \in RestingRow
      /\ UNCHANGED <<stored, files, late, runs, ops>>
  BY DEF Install, At, SessionInv, Typed, InStep
<1>2. /\ r \in Record /\ r.ctx = 0 /\ r.revision = req[c].row.revision
      /\ r.artifacts = req[c].row.artifacts /\ r.state = req[c].row.state
  BY <1>1, RehydratedType DEF Rehydrated
<1>3. records' = Append(records, r)
  BY DEF Install
<1> HIDE DEF r
<1>4. /\ Len(records') = Len(records) + 1 /\ records'[Len(records) + 1] = r
      /\ \A m \in 1 .. Len(records) : records'[m] = records[m]
      /\ Len(records) \in Nat /\ DOMAIN records' = 1 .. Len(records) + 1
      /\ records' # <<>>
  BY <1>1, <1>2, <1>3
<1>5. PICK v : /\ req' = [req EXCEPT ![c] = v] /\ v.row = NoSession
               /\ v.pc \in {"idle", "deleting", "locking"}
  <2> DEFINE w == [pc |-> IF req[c].op = "delete" THEN "deleting" ELSE "locking",
                   op |-> req[c].op, rec |-> Len(records'), row |-> NoSession, run |-> 0]
  <2>1. req' = [req EXCEPT ![c] = Idle] \/ req' = [req EXCEPT ![c] = w]
    BY DEF Install, Found
  <2>2. /\ w.pc \in {"deleting", "locking"} /\ w.row = NoSession
        /\ Idle.pc = "idle" /\ Idle.row = NoSession
    BY DEF Idle
  <2> HIDE DEF w
  <2> QED BY <2>1, <2>2
<1>6. Counted'
  BY <1>1, <1>5, UncountedStep, CountFewer DEF UncountedPcs, ReportInv
<1>7. \A m \in 1 .. Len(records) : FilesOf(m)' \subseteq FilesOf(m)
  BY <1>4 DEF FilesOf
<1>8. RowOK(req[c].row, runs)
  BY DEF ReportInv, RequestOK
<1>9. req[c].row # NoSession => /\ Reported(r) /\ Fits(r.artifacts, r.revision, r.ctx)
                                /\ r.revision <= runs
  BY <1>2, <1>8 DEF RowOK, Reported
<1>10. req[c].row # NoSession
  BY <1>1 DEF RestingRow, NoSession, Resting, Terminal
<1>11. records = <<>> => late = {} /\ stored = req[c].row
  BY <1>1 DEF ReportInv, OnlyRow, At
<1>12. ASSUME NEW m \in 1 .. Len(records) + 1 PROVE RecordOK(m)'
  <2>1. CASE m = Len(records) + 1
    <3>1. FilesOf(m)' \subseteq r.artifacts
      <4>1. CASE records = <<>>
        BY <1>1, <1>2, <1>4, <1>11, <2>1, <4>1 DEF FilesOf, Listing
      <4>2. CASE records # <<>>
        <5>1. Len(records) # 0
          BY <1>1, <4>2
        <5>2. Len(records') # 1
          BY <1>4, <5>1
        <5> QED BY <1>4, <2>1, <5>2 DEF FilesOf
      <4> QED BY <4>1, <4>2
    <3>2. Fits(FilesOf(m)', r.revision, r.ctx)
      BY <1>9, <1>10, <3>1, FitsFewer
    <3> QED BY <1>1, <1>2, <1>4, <1>9, <1>10, <2>1, <3>2 DEF RecordOK
  <2>2. CASE m # Len(records) + 1
    <3>1. m \in 1 .. Len(records)
      BY <1>4, <2>2
    <3>2. RecordOK(m)
      BY <3>1 DEF ReportInv, Held
    <3>3. Fits(FilesOf(m)', records[m].revision, records[m].ctx)
      BY <1>7, <3>1, <3>2, FitsFewer DEF RecordOK
    <3> QED BY <1>1, <1>4, <3>1, <3>2, <3>3 DEF RecordOK
  <2> QED BY <2>1, <2>2
<1>13. ASSUME NEW d \in Clients PROVE RequestOK(d)'
  <2>1. RequestOK(d) /\ InStep(d)
    BY DEF ReportInv, SessionInv
  <2>2. CASE d = c
    <3>1. req'[d] = v
      BY <1>1, <1>5, <2>2
    <3> QED BY <1>5, <3>1 DEF RequestOK, At, RowOK
  <2>3. CASE d # c
    <3>1. req'[d] = req[d]
      BY <1>1, <1>5, <2>3
    <3>2. req[d].pc \in HeldPcs => /\ Rec(d)' = Rec(d)
                                   /\ FilesOf(req[d].rec)' \subseteq FilesOf(req[d].rec)
      BY <1>4, <1>7, <2>1, <3>1 DEF Rec, InStep
    <3> QED BY <1>1, <2>1, <3>1, <3>2 DEF RequestOK, At, HeldPcs
  <2> QED BY <2>2, <2>3
<1>14. ReportInv'
  BY <1>1, <1>4, <1>6, <1>12, <1>13 DEF ReportInv, OnlyRow, Held
<1>15. Intact
  BY <1>1, <1>4, QuietFiles DEF Held
<1> QED BY <1>14, <1>15 DEF FilesKept

-----------------------------------------------------------------------------
(* Steps that make a report *)

\* The record of a holder: its reports are known, its revision is a number of
\* an existing request.
LEMMA HolderFiles ==
  ASSUME SessionInv, ReportInv, NEW c \in Clients, req[c].pc \in HeldPcs
  PROVE  /\ Rec(c) \in Record /\ req[c] \in Request /\ runs \in Nat
         /\ req[c].rec \in 1 .. Len(records) /\ records \in Seq(Record)
         /\ Reported(Rec(c))
         /\ Fits(FilesOf(req[c].rec), Rec(c).revision, Rec(c).ctx)
         /\ Rec(c).revision <= runs /\ Rec(c).revision <= MaxOps
         /\ Rec(c).ctx # 0 => Rec(c).revision # 0
         /\ Rec(c).artifacts \subseteq FilesOf(req[c].rec)
<1>1. /\ Rec(c) \in Record /\ req[c] \in Request /\ runs \in Nat
      /\ req[c].rec \in 1 .. Len(records) /\ records \in Seq(Record)
  BY Holder DEF SessionInv, Typed
<1>2. RecordOK(req[c].rec)
  BY <1>1 DEF ReportInv, Held
<1>3. runs <= MaxOps
  <2>1. Cardinality(Uncounted) \in Nat
    BY FS_CardinalityType DEF ReportInv, Counted
  <2> QED BY <1>1, <2>1, BoundsAssumption DEF ReportInv, Counted
<1> QED BY <1>1, <1>2, <1>3, BoundsAssumption DEF RecordOK, Rec, FilesOf, Record

LEMMA FilesType ==
  ASSUME SessionInv, ReportInv, NEW n \in 1 .. Len(records)
  PROVE  FilesOf(n) \subseteq File
<1>1. records[n] \in Record /\ stored \in RestingRow \cup {NoSession}
  BY DEF SessionInv, Typed
<1>2. records[n].artifacts \subseteq File
  BY <1>1 DEF Record
<1>3. Listing(stored) \subseteq File
  BY <1>1 DEF Listing, RestingRow
<1> QED BY <1>2, <1>3 DEF FilesOf, ReportInv

\* The report of a record has the run the record knows.
LEMMA FileFits ==
  ASSUME NEW r \in Record, r.ctx # 0, NEW F, Fits(F, r.revision, r.ctx)
  PROVE  /\ TheFile(r) \in File /\ Fits(F \cup {TheFile(r)}, r.revision, r.ctx)
         /\ \A g \in F : g.revision = TheFile(r).revision => g.run = TheFile(r).run
  BY DEF Fits, TheFile, File, Record

\* A file that is written again holds what it held.
LEMMA Overwrite ==
  ASSUME SessionInv, ReportInv, NEW f \in File, records # <<>>,
         \A g \in FilesOf(1) : Len(records) = 1 /\ g.revision = f.revision => g.run = f.run,
         files' = [files EXCEPT ![f.revision] = f.run]
  PROVE  \A revision \in DOMAIN files :
           LET g == [revision |-> revision, run |-> files[revision]]
           IN  Listed(g) => files'[revision] \in {g.run, 0} \/ Len(records) > 1
<1> SUFFICES ASSUME NEW revision \in DOMAIN files,
                    Listed([revision |-> revision, run |-> files[revision]]),
                    ~(Len(records) > 1)
             PROVE  files'[revision] = files[revision]
  OBVIOUS
<1> DEFINE g == [revision |-> revision, run |-> files[revision]]
<1>1. records \in Seq(Record) /\ files \in [1 .. MaxOps -> Nat]
  BY DEF SessionInv, Typed, ReportInv
<1>2. Len(records) = 1
  <2>1. Len(records) \in Nat /\ Len(records) # 0
    BY <1>1
  <2>2. \A k \in Nat : k # 0 /\ ~(k > 1) => k = 1
    OBVIOUS
  <2> QED BY <2>1, <2>2
<1>3. g \in FilesOf(1)
  BY <1>2 DEF Listed, FilesOf, Listing, Held
<1>4. revision = f.revision => files[revision] = f.run
  BY <1>2, <1>3
<1> QED BY <1>1, <1>4

LEMMA AnalyzedFiles ==
  ASSUME SessionInv, ReportInv, NEW c \in Clients, Analyzed(c)
  PROVE  FilesKept
<1> DEFINE e == Entered(Rec(c), "previewing")
           r == [e EXCEPT !.revision = @ + 1]
           q == [req[c] EXCEPT !.pc = "composing", !.run = runs']
<1>1. /\ req[c].pc = "analyzing" /\ req[c].pc \in HeldPcs /\ req[c].pc # "locking"
      /\ runs' = runs + 1 /\ UNCHANGED <<stored, files, late, ops>>
      /\ req \in [Clients -> Request]
  BY DEF Analyzed, At, HeldPcs, SessionInv, Typed
<1>2. e \in Record /\ Same(e, Rec(c)) /\ e.state = "previewing"
  BY <1>1, HolderFiles, EnteredType, EnteredSame DEF States
<1>3. records' = [records EXCEPT ![req[c].rec] = r] /\ req' = [req EXCEPT ![c] = q]
  BY <1>1 DEF Analyzed, Keep
<1> HIDE DEF e
<1>4. /\ r \in Record /\ r.state = "previewing" /\ r.revision = Rec(c).revision + 1
      /\ r.artifacts = Rec(c).artifacts /\ r.ctx = Rec(c).ctx
  BY <1>2 DEF Record, Same
<1>5. /\ q \in Request /\ q.pc = "composing" /\ q.rec = req[c].rec
      /\ q.row = req[c].row /\ q.run = runs + 1
  <2>1. req[c] \in Request /\ runs' \in Nat /\ "composing" \in Pcs
    BY <1>1, HolderFiles DEF Pcs, HeldPcs
  <2> QED BY <1>1, <2>1 DEF Request
<1> HIDE DEF r, q
<1>6. Rec(c).revision \in Nat /\ runs \in Nat /\ Rec(c).revision <= runs
  BY <1>1, HolderFiles DEF Record
<1>7. \A f \in FilesOf(req[c].rec) : f.revision < r.revision
  <2>1. FilesOf(req[c].rec) \subseteq File
    BY <1>1, HolderFiles, FilesType
  <2> QED BY <1>1, <1>4, <1>6, <2>1, HolderFiles DEF Fits, File
<1>8. Fits(FilesOf(req[c].rec), r.revision, r.ctx)
  <2>1. FilesOf(req[c].rec) \subseteq File
    BY <1>1, HolderFiles, FilesType
  <2> QED BY <1>1, <1>4, <1>6, <1>7, <2>1, HolderFiles DEF Fits, File
<1>9. Counted'
  <2>1. \A d \in Clients : req'[d] = IF d = c THEN q ELSE req[d]
    BY <1>1, <1>3
  <2>2. c \in Uncounted /\ Uncounted' \subseteq Uncounted \ {c}
    BY <1>1, <1>5, <2>1 DEF Uncounted, UncountedPcs
  <2>3. /\ IsFiniteSet(Uncounted \ {c})
        /\ Cardinality(Uncounted \ {c}) = Cardinality(Uncounted) - 1
    BY <2>2, FS_RemoveElement DEF ReportInv, Counted
  <2>4. IsFiniteSet(Uncounted') /\ Cardinality(Uncounted') <= Cardinality(Uncounted) - 1
    BY <2>2, <2>3, FS_Subset
  <2>5. Cardinality(Uncounted) \in Nat /\ Cardinality(Uncounted') \in Nat
    BY <2>4, FS_CardinalityType DEF ReportInv, Counted
  <2> QED BY <1>1, <1>6, <2>4, <2>5 DEF ReportInv, Counted
<1>10. FilesOf(req[c].rec) \cup {} = FilesOf(req[c].rec) /\ {} \in SUBSET File
  OBVIOUS
<1>11. /\ late' \subseteq late \cup {} /\ r.artifacts \subseteq Rec(c).artifacts \cup {}
       /\ runs' \in Nat /\ runs <= runs' /\ r.revision <= runs' /\ r.revision # 0
       /\ files' \in [1 .. MaxOps -> Nat] /\ Reported(r) /\ q.run # 0
  BY <1>1, <1>4, <1>5, <1>6 DEF ReportInv, Reported
<1>12. ReportInv'
  BY <1>1, <1>3, <1>4, <1>5, <1>7, <1>8, <1>9, <1>10, <1>11, ReportStep
<1>13. \A m \in Held : records'[m].artifacts = records[m].artifacts
  BY <1>1, <1>3, <1>4, HolderFiles DEF Held, Rec
<1>14. Intact
  BY <1>1, <1>13, QuietFiles
<1> QED BY <1>12, <1>14 DEF FilesKept

\* The report composed becomes the one of its revision, which no file has yet.
LEMMA ComposedFiles ==
  ASSUME SessionInv, ReportInv, NEW c \in Clients, Composed(c)
  PROVE  FilesKept
<1> DEFINE r == [Rec(c) EXCEPT !.ctx = req[c].run]
           s == [r EXCEPT !.lock = NoClient]
<1>1. /\ req[c].pc = "composing" /\ req[c].pc \in HeldPcs /\ req[c].pc # "locking"
      /\ UNCHANGED <<files, late, runs, ops>>
      /\ stored' = stored \/ stored' = Row(r)
      /\ req \in [Clients -> Request]
  BY DEF Composed, At, HeldPcs, Persist, SessionInv, Typed
<1>2. /\ req[c].run # 0 /\ Rec(c).revision # 0
      /\ \A f \in FilesOf(req[c].rec) : f.revision < Rec(c).revision
  BY <1>1 DEF ReportInv, RequestOK, At
<1>3. Rec(c) \in Record /\ req[c] \in Request /\ Rec(c).state = "previewing"
  BY <1>1, Holder DEF StatesAt
<1>4. /\ r \in Record /\ r.ctx = req[c].run /\ r.revision = Rec(c).revision
      /\ r.artifacts = Rec(c).artifacts /\ r.state = "previewing"
  BY <1>3 DEF Record, Request
<1>5. /\ s \in Record /\ s.ctx = r.ctx /\ s.revision = r.revision
      /\ s.artifacts = r.artifacts /\ s.state = r.state /\ Row(s) = Row(r)
  BY <1>4 DEF Record, Row
<1> DEFINE Left(t, q) ==
        /\ records' = [records EXCEPT ![req[c].rec] = t] /\ req' = [req EXCEPT ![c] = q]
        /\ t \in {r, s}
        /\ q = Idle \/ (q.row = req[c].row /\ q.rec = req[c].rec /\ q.pc # "install")
        /\ q.pc \in {"idle", "checked", "rendering"}
<1>7. PICK t \in Record, q \in Request : Left(t, q)
  <2>1. CASE Finish(c, r)
    <3>1. records' = [records EXCEPT ![req[c].rec] = s] /\ req' = [req EXCEPT ![c] = Idle]
      BY <2>1 DEF Finish, Keep
    <3>2. Idle.pc = "idle"
      BY DEF Idle
    <3> HIDE DEF r, s
    <3> QED BY <3>1, <3>2, <1>5, IdleType
  <2>2. ASSUME NEW place \in {"checked", "rendering"}, Keep(c, r), Goto(c, place)
        PROVE  \E t \in Record, q \in Request : Left(t, q)
    <3> DEFINE q == [req[c] EXCEPT !.pc = place]
    <3>1. /\ q \in Request /\ q.pc = place /\ q.rec = req[c].rec /\ q.row = req[c].row
      BY <1>3 DEF Request, Pcs, HeldPcs
    <3>2. records' = [records EXCEPT ![req[c].rec] = r] /\ req' = [req EXCEPT ![c] = q]
      BY <2>2 DEF Keep, Goto
    <3> HIDE DEF q, r, s
    <3> QED BY <1>4, <3>1, <3>2
  <2>3. \/ Finish(c, r)
        \/ \E place \in {"checked", "rendering"} : Keep(c, r) /\ Goto(c, place)
    BY DEF Composed
  <2> QED BY <2>1, <2>2, <2>3
<1> HIDE DEF r, s
<1>8. /\ t.ctx = req[c].run /\ t.revision = Rec(c).revision
      /\ t.artifacts = Rec(c).artifacts /\ t.state = "previewing" /\ Row(t) = Row(r)
  BY <1>4, <1>5, <1>7
<1>9. /\ Rec(c).revision \in Nat /\ runs \in Nat /\ Rec(c).revision <= runs
  BY <1>1, HolderFiles DEF Record
<1>10. Fits(FilesOf(req[c].rec), t.revision, t.ctx)
  <2>1. FilesOf(req[c].rec) \subseteq File
    BY <1>1, HolderFiles, FilesType
  <2> QED BY <1>1, <1>2, <1>8, <1>9, <2>1, HolderFiles DEF Fits, File
<1>11. Counted'
  <2>1. q.pc \notin UncountedPcs /\ req' = [req EXCEPT ![c] = q]
    BY <1>7 DEF UncountedPcs
  <2>2. Uncounted' \subseteq Uncounted
    BY <2>1, UncountedStep
  <2> QED BY <1>1, <1>9, <2>2, CountFewer DEF ReportInv
<1>12. FilesOf(req[c].rec) \cup {} = FilesOf(req[c].rec) /\ {} \in SUBSET File
  OBVIOUS
<1>13. /\ late' \subseteq late \cup {} /\ t.artifacts \subseteq Rec(c).artifacts \cup {}
       /\ runs' \in Nat /\ runs <= runs' /\ t.revision <= runs' /\ t.revision # 0
       /\ files' \in [1 .. MaxOps -> Nat] /\ Reported(t) /\ t.ctx # 0
       /\ stored' = stored \/ stored' = Row(t)
  <2>1. late' \subseteq late \cup {} /\ t.artifacts \subseteq Rec(c).artifacts \cup {}
    BY <1>1, <1>8
  <2>2. runs' \in Nat /\ runs <= runs' /\ t.revision <= runs' /\ t.revision # 0
    BY <1>1, <1>2, <1>8, <1>9
  <2>3. files' \in [1 .. MaxOps -> Nat]
    BY <1>1 DEF ReportInv
  <2>4. Reported(t) /\ t.ctx # 0
    BY <1>2, <1>8 DEF Reported
  <2>5. stored' = stored \/ stored' = Row(t)
    BY <1>1, <1>8
  <2> QED BY <2>1, <2>2, <2>3, <2>4, <2>5
<1>14. ReportInv'
  BY <1>1, <1>7, <1>10, <1>11, <1>12, <1>13, ReportStep
<1>15. \A m \in Held : records'[m].artifacts = records[m].artifacts
  BY <1>1, <1>7, <1>8, HolderFiles DEF Held, Rec
<1>16. Intact
  <2>1. \A m \in Held \cap DOMAIN records' : records'[m].artifacts \subseteq records[m].artifacts
    BY <1>15
  <2> QED BY <1>1, <2>1, QuietFiles
<1> QED BY <1>14, <1>16 DEF FilesKept

\* What rendering leaves: the file holds the report of the record, which may be
\* listed, or still be written by a thread.
LEMMA RenderStep ==
  ASSUME SessionInv, ReportInv, NEW c \in Clients, req[c].pc = "rendering",
         NEW r \in Record, Finish(c, r), stored' = stored \/ stored' = Row(r),
         r.revision = Rec(c).revision, r.ctx = Rec(c).ctx, Reported(r),
         r.artifacts \in {Rec(c).artifacts, Rec(c).artifacts \cup {TheFile(Rec(c))}},
         late' \in {late, late \cup {TheFile(Rec(c))}},
         \/ files' = [files EXCEPT ![Rec(c).revision] = Rec(c).ctx]
         \/ files' = files /\ r.artifacts = Rec(c).artifacts,
         UNCHANGED <<runs, ops>>
  PROVE  FilesKept
<1> DEFINE s == [r EXCEPT !.lock = NoClient]
           f == TheFile(Rec(c))
<1>1. /\ req[c].pc \in HeldPcs /\ req[c].pc # "locking" /\ req \in [Clients -> Request]
      /\ files \in [1 .. MaxOps -> Nat]
  BY DEF HeldPcs, SessionInv, Typed, ReportInv
<1>2. Rec(c).ctx # 0 /\ Rec(c).revision # 0
  BY <1>1, HolderFiles DEF ReportInv, RequestOK, At
<1>3. /\ s \in Record /\ Row(s) = Row(r) /\ s.ctx = r.ctx /\ s.revision = r.revision
      /\ s.artifacts = r.artifacts /\ s.state = r.state /\ Reported(s)
  BY DEF Record, Row, Reported
<1>4. /\ records' = [records EXCEPT ![req[c].rec] = s]
      /\ req' = [req EXCEPT ![c] = Idle]
  BY DEF Finish, Keep
<1> HIDE DEF s
<1>5. /\ f \in File /\ f.revision = Rec(c).revision /\ f.run = Rec(c).ctx
      /\ Fits(FilesOf(req[c].rec) \cup {f}, s.revision, s.ctx)
      /\ \A g \in FilesOf(req[c].rec) : g.revision = f.revision => g.run = f.run
  BY <1>1, <1>2, <1>3, HolderFiles, FileFits DEF TheFile
<1>6. /\ Rec(c).revision \in 1 .. MaxOps /\ runs \in Nat /\ Rec(c).revision <= runs
      /\ Rec(c).ctx \in Nat
  BY <1>1, <1>2, HolderFiles, BoundsAssumption DEF Record
<1> HIDE DEF f
<1>7. Idle.pc = "idle" /\ "idle" \notin UncountedPcs
  BY DEF Idle, UncountedPcs
<1>8. Counted'
  BY <1>4, <1>6, <1>7, CountFewer, UncountedStep DEF ReportInv
<1>9. files' \in [1 .. MaxOps -> Nat]
  BY <1>1, <1>6
<1>10. /\ late' \subseteq late \cup {f} /\ s.artifacts \subseteq Rec(c).artifacts \cup {f}
       /\ {f} \in SUBSET File /\ s.revision <= runs' /\ s.revision # 0
       /\ runs' \in Nat /\ runs <= runs' /\ s.ctx # 0
       /\ stored' = stored \/ stored' = Row(s)
  BY <1>2, <1>3, <1>5, <1>6 DEF f
<1>11. ReportInv'
  BY <1>1, <1>3, <1>4, <1>5, <1>7, <1>8, <1>9, <1>10, IdleType, ReportStep
<1>12. PICK n \in 1 .. Len(records) : n = req[c].rec /\ records \in Seq(Record)
  BY <1>1, HolderFiles
<1>13. /\ records'[n].artifacts = r.artifacts
       /\ \A m \in 1 .. Len(records) : m # n => records'[m] = records[m]
  BY <1>3, <1>4, <1>12
<1>14. CASE files' = files /\ r.artifacts = Rec(c).artifacts
  <2>1. \A m \in Held : records'[m].artifacts \subseteq records[m].artifacts
    BY <1>12, <1>13, <1>14 DEF Held, Rec
  <2> QED BY <1>11, <1>14, <2>1, QuietFiles DEF FilesKept
<1>15. CASE files' = [files EXCEPT ![Rec(c).revision] = Rec(c).ctx]
  <2>1. files' = [files EXCEPT ![f.revision] = f.run] /\ files'[f.revision] = f.run
    BY <1>1, <1>5, <1>6, <1>15
  <2>2. \A m \in Held \cap DOMAIN records' :
          \A g \in records'[m].artifacts \ records[m].artifacts : Holds(g)'
    <3> SUFFICES ASSUME NEW m \in Held, NEW g \in records'[m].artifacts \ records[m].artifacts
                 PROVE  g = f
      BY <2>1 DEF Holds
    <3>1. m = n
      BY <1>13 DEF Held
    <3> QED BY <1>12, <1>13, <3>1 DEF Rec, f
  <2>3. records # <<>> /\ (Len(records) = 1 => n = 1)
    <3>1. Len(records) # 0
      BY <1>12
    <3> QED BY <1>12, <3>1
  <2>4. \A g \in FilesOf(1) : Len(records) = 1 /\ g.revision = f.revision => g.run = f.run
    BY <1>5, <1>12, <2>3
  <2>5. \A revision \in DOMAIN files :
          LET g == [revision |-> revision, run |-> files[revision]]
          IN  Listed(g) => files'[revision] \in {g.run, 0} \/ Len(records) > 1
    BY <1>5, <2>1, <2>3, <2>4, Overwrite
  <2> QED BY <1>11, <2>2, <2>5 DEF FilesKept, Intact
<1> QED BY <1>14, <1>15

LEMMA RenderedFiles ==
  ASSUME SessionInv, ReportInv, NEW c \in Clients, Rendered(c)
  PROVE  FilesKept
<1> DEFINE listed == [Rec(c) EXCEPT !.artifacts = @ \cup {TheFile(Rec(c))}]
           r == IF req[c].op = "confirm" THEN Entered(listed, "archived") ELSE listed
<1>1. /\ req[c].pc = "rendering" /\ req[c].pc \in HeldPcs
      /\ files' = [files EXCEPT ![Rec(c).revision] = Rec(c).ctx]
      /\ Finish(c, r) /\ UNCHANGED <<late, runs, ops>>
      /\ stored' = stored \/ stored' = Row(r)
  BY DEF Rendered, At, HeldPcs, Persist
<1>2. Rec(c) \in Record /\ Rec(c).state # "archived" /\ TheFile(Rec(c)) \in File
  BY <1>1, Rendering, HolderFiles DEF Terminal
<1>3. /\ listed \in Record /\ listed.state # "archived"
      /\ listed.revision = Rec(c).revision /\ listed.ctx = Rec(c).ctx
      /\ listed.artifacts = Rec(c).artifacts \cup {TheFile(Rec(c))}
  BY <1>2 DEF Record
<1> HIDE DEF listed
<1>4. /\ r \in Record /\ r.revision = Rec(c).revision /\ r.ctx = Rec(c).ctx
      /\ r.artifacts = Rec(c).artifacts \cup {TheFile(Rec(c))}
  BY <1>3 DEF Entered, Record, States
<1> HIDE DEF r
<1>5. Reported(r)
  <2>1. TheFile(Rec(c)) \in r.artifacts /\ TheFile(Rec(c)).revision = r.revision
    BY <1>4 DEF TheFile
  <2> QED BY <2>1 DEF Reported
<1> QED BY <1>1, <1>4, <1>5, RenderStep

LEMMA UnlistedFiles ==
  ASSUME SessionInv, ReportInv, NEW c \in Clients,
         RenderedCancelled(c) \/ RenderRaises(c)
  PROVE  FilesKept
<1>1. req[c].pc = "rendering" /\ req[c].pc \in HeldPcs
  BY DEF RenderedCancelled, RenderRaises, At, HeldPcs
<1>2. Rec(c) \in Record /\ Same(Rec(c), Rec(c)) /\ Reported(Rec(c))
  BY <1>1, HolderFiles DEF Same
<1>3. CASE RenderedCancelled(c)
  BY <1>1, <1>2, <1>3, RenderStep DEF RenderedCancelled
<1>4. CASE RenderRaises(c)
  <2> DEFINE r == IF req[c].op = "confirm" THEN FailedFrom(Rec(c)) ELSE Rec(c)
  <2>1. r \in Record /\ Same(r, Rec(c))
    BY <1>2, FailedFromType, EnteredSame DEF States
  <2>2. /\ Finish(c, r) /\ late' \in {late, late \cup {TheFile(Rec(c))}}
        /\ UNCHANGED <<stored, files, runs, ops>>
    BY <1>4 DEF RenderRaises
  <2> HIDE DEF r
  <2>3. /\ Reported(r) /\ r.artifacts = Rec(c).artifacts
        /\ r.revision = Rec(c).revision /\ r.ctx = Rec(c).ctx
    BY <1>2, <2>1 DEF Same, Reported
  <2> QED BY <1>1, <2>1, <2>2, <2>3, RenderStep
<1> QED BY <1>3, <1>4

\* A late thread writes the report its revision already has.
LEMMA LateWriteFiles == SessionInv /\ ReportInv /\ LateWrite => FilesKept
<1> SUFFICES ASSUME SessionInv, ReportInv, LateWrite PROVE FilesKept
  OBVIOUS
<1>1. PICK f \in late : /\ files' = [files EXCEPT ![f.revision] = f.run]
                        /\ late' = late \ {f}
                        /\ UNCHANGED <<records, cached, stored, req, runs, ops>>
  BY DEF LateWrite
<1>2. /\ f \in File /\ files \in [1 .. MaxOps -> Nat] /\ records # <<>>
      /\ records \in Seq(Record) /\ runs \in Nat
  BY <1>1 DEF ReportInv, OnlyRow, SessionInv, Typed
<1>3. files' \in [1 .. MaxOps -> Nat]
  BY <1>1, <1>2 DEF File
<1>4. Counted'
  BY <1>1, <1>2, CountFewer DEF ReportInv, Uncounted
<1>5. ReportInv'
  BY <1>1, <1>3, <1>4, UnheldFiles
<1>6. \A g \in FilesOf(1) : Len(records) = 1 /\ g.revision = f.revision => g.run = f.run
  <2> SUFFICES ASSUME Len(records) = 1, NEW g \in FilesOf(1), g.revision = f.revision
               PROVE  g.run = f.run
    OBVIOUS
  <2>1. f \in FilesOf(1) /\ RecordOK(1)
    BY <1>1 DEF FilesOf, ReportInv, Held
  <2> QED BY <2>1 DEF RecordOK, Fits
<1>7. Intact
  BY <1>1, <1>2, <1>6, Overwrite DEF Intact
<1> QED BY <1>5, <1>7 DEF FilesKept

LEMMA RestartFiles == SessionInv /\ ReportInv /\ Restart => FilesKept
<1> SUFFICES ASSUME SessionInv, ReportInv, Restart PROVE FilesKept
  OBVIOUS
<1>1. /\ records' = <<>> /\ DOMAIN records' = {} /\ Len(records') = 0 /\ late' = {}
      /\ req' = [c \in Clients |-> Idle] /\ UNCHANGED <<stored, files, runs, ops>>
      /\ runs \in Nat
  BY DEF Restart, SessionInv, Typed
<1>2. Idle.pc = "idle" /\ Idle.row = NoSession
  BY DEF Idle
<1>3. Counted'
  <2>1. Uncounted' = {}
    BY <1>1, <1>2 DEF Uncounted, UncountedPcs
  <2> QED BY <1>1, <2>1, CountFewer DEF ReportInv
<1>4. \A c \in Clients : RequestOK(c)'
  BY <1>1, <1>2 DEF RequestOK, At, RowOK
<1>5. OnlyRow'
  BY <1>1, <1>2 DEF OnlyRow, At
<1>6. ReportInv'
  BY <1>1, <1>3, <1>4, <1>5 DEF ReportInv, Held
<1>7. Intact
  BY <1>1, QuietFiles
<1> QED BY <1>6, <1>7 DEF FilesKept

LEMMA ReportInit == Init => ReportInv
<1> SUFFICES ASSUME Init PROVE ReportInv
  OBVIOUS
<1>1. /\ records = <<NewRecord>> /\ stored = Row(NewRecord) /\ late = {}
      /\ files = [n \in 1 .. MaxOps |-> 0] /\ req = [c \in Clients |-> Idle]
      /\ runs = 0 /\ ops = 0
  BY DEF Init
<1>2. Idle.pc = "idle" /\ Idle.row = NoSession
  BY DEF Idle
<1>3. /\ NewRecord.artifacts = {} /\ NewRecord.state = "parsing"
      /\ NewRecord.revision = 0 /\ NewRecord.ctx = 0
      /\ stored.artifacts = {} /\ stored.state = "parsing" /\ stored.revision = 0
  BY <1>1 DEF NewRecord, Row
<1>4. Len(records) = 1 /\ records[1] = NewRecord /\ records # <<>>
  BY <1>1
<1>5. Counted
  <2>1. Uncounted = {}
    BY <1>1, <1>2 DEF Uncounted, UncountedPcs
  <2>2. IsFiniteSet(Uncounted) /\ Cardinality(Uncounted) = 0
    BY <2>1, FS_EmptySet
  <2> QED BY <1>1, <2>2, BoundsAssumption DEF Counted
<1>6. RowOK(stored, runs) /\ Listing(stored) = {}
  BY <1>1, <1>3 DEF RowOK, Reported, Fits, Listing
<1>7. FilesOf(1) = {}
  BY <1>1, <1>3, <1>4, <1>6 DEF FilesOf
<1>8. RecordOK(1)
  BY <1>1, <1>3, <1>4, <1>7 DEF RecordOK, Reported, Fits
<1>9. \A c \in Clients : RequestOK(c)
  BY <1>1, <1>2 DEF RequestOK, At, RowOK
<1> QED BY <1>1, <1>4, <1>5, <1>6, <1>8, <1>9 DEF ReportInv, OnlyRow, Held

LEMMA FilesStep == SessionInv /\ ReportInv /\ [Next]_vars => FilesKept
<1> SUFFICES ASSUME SessionInv, ReportInv, [Next]_vars PROVE FilesKept
  OBVIOUS
<1>1. ASSUME NEW c \in Clients, Step(c) PROVE FilesKept
  BY <1>1, InstallFiles, LockFiles, EndingFiles, RefusedFiles, StartPipelineFiles,
     ClarifyFiles, AdvanceFiles, AnalyzedFiles, ComposedFiles, ConfirmFiles,
     RenderedFiles, UnlistedFiles, DeleteFiles DEF Step
<1>2. ASSUME NEW c \in Clients, NEW op \in Ops, Load(c, op) PROVE FilesKept
  BY <1>2, LoadFiles
<1>3. CASE LateWrite
  BY <1>3, LateWriteFiles
<1>4. CASE Restart
  BY <1>4, RestartFiles
<1>5. CASE UNCHANGED vars
  <2>1. UNCHANGED <<records, stored, files, late, req, runs, ops>> /\ runs \in Nat
    BY <1>5 DEF vars, SessionInv, Typed
  <2>2. Counted'
    BY <2>1, CountFewer DEF ReportInv, Uncounted
  <2>3. ReportInv'
    BY <2>1, <2>2, UnheldFiles DEF ReportInv
  <2> QED BY <2>1, <2>3, QuietFiles DEF FilesKept
<1> QED BY <1>1, <1>2, <1>3, <1>4, <1>5 DEF Next

\* An archived session lists the report of its revision, whichever writes were
\* lost, however often the server restarted and however many records there are.
THEOREM ArchivedHasReportHolds == Spec => []ArchivedHasReport
<1>1. ReportInv => ArchivedHasReport
  BY DEF ReportInv, RecordOK, Reported, ArchivedHasReport
<1>2. SessionInv /\ ReportInv /\ [Next]_vars => SessionInv' /\ ReportInv'
  BY SessionStep, FilesStep DEF Kept, FilesKept
<1> QED BY <1>1, <1>2, SessionInit, ReportInit, PTL DEF Spec

\* A listed report is in its file from the start, and while its session has one
\* record nothing but delete_session takes it out again: neither a render that
\* timed out, nor a report made after a restart that lost a write.
THEOREM ArtifactsIntactHolds == Spec => ArtifactsIntact
<1>1. SessionInv /\ ReportInv /\ [Next]_vars =>
        [/\ \A n \in Held \cap DOMAIN records' :
              \A f \in records'[n].artifacts \ records[n].artifacts : Holds(f)'
         /\ \A revision \in DOMAIN files :
              LET f == [revision |-> revision, run |-> files[revision]]
              IN  Listed(f) => \/ files'[revision] \in {f.run, 0}
                               \/ Len(records) > 1]_vars
  BY FilesStep DEF FilesKept, Intact
<1>2. SessionInv /\ ReportInv /\ [Next]_vars => SessionInv' /\ ReportInv'
  BY SessionStep, FilesStep DEF Kept, FilesKept
<1> QED BY <1>1, <1>2, SessionInit, ReportInit, PTL DEF Spec, ArtifactsIntact
=============================================================================
