--------------------------- MODULE DataCollection ---------------------------
(***************************************************************************)
(* How the data of a flight report is collected: DataFetcher.fetch over    *)
(* one shared DikongClient, or SqlDataFetcher.fetch over the databases.    *)
(* A fetch asks for everything at once, the current period and the one     *)
(* before, and then awaits what it asked for in a fixed order; the first   *)
(* failure it comes to ends it, and what it no longer awaits goes on.      *)
(*                                                                         *)
(* The steps are what runs between two awaits of the event loop.  dikong,  *)
(* PostgreSQL and TDengine are external: they answer or fail.  The access  *)
(* token of a request is DikongToken's subject; here it is valid.  What    *)
(* an answer says is FlightData's subject; here an answer names the        *)
(* request that it answers.                                                *)
(***************************************************************************)
EXTENDS Integers, FiniteSets, Sequences, SequencesExt

CONSTANTS
  Fetches,             \* the fetches, which share the client
  AskedDepartments,    \* what dept_ids may be, sequences of departments
  Sources,             \* of {"http", "sql"}: what fly_report.source may be
  MaxRequestRetries,   \* max_retries of the dikong client and of TDengine's
  MaxOut,              \* max_concurrency of the dikong client
  PoolSize,            \* pool_max_size of the databases
  MaxCollectionFaults  \* bound: answers that are no data

ASSUME CollectionAssumption ==
  /\ IsFiniteSet(Fetches) /\ Sources \subseteq {"http", "sql"}
  \* dept_ids are of department_id_list, which names a department once.
  /\ \A depts \in AskedDepartments : depts \in Seq(Range(depts)) /\ IsInjective(depts)
  /\ MaxRequestRetries \in Nat /\ MaxCollectionFaults \in Nat
  /\ {MaxOut, PoolSize} \subseteq Nat \ {0}

VARIABLES
  source,  \* where the data is
  asked,   \* for each fetch, its dept_ids
  fetch,   \* where it is: "new", "begun", "waits", "returned" or "raised"
  at,      \* the task that it awaits
  raw,     \* the RawDataset that it returned, <<>> before
  line,    \* the requests that wait for a slot, first come first served
  free,    \* the slots that nobody has
  request, \* the requests made so far: where each is ("waiting", "out", "backoff",
           \* or its end: "data", "error", "zero"), how often it was sent, and the
           \* answer to it that came last, NoData before
  collectionFaults  \* answers so far that were no data

collectionVars == <<source, asked, fetch, at, raw, line, free, request,
                    collectionFaults>>

NoData == "none"
Periods == <<"current", "previous">>
All == "all"  \* dept_id None

Slots == IF source = "http" THEN MaxOut ELSE PoolSize
Targets(f) == IF asked[f] = <<>> THEN <<All>> ELSE asked[f]

-----------------------------------------------------------------------------
(* Tasks and requests *)

\* The tasks of a fetch, in the order in which it awaits them.
Tasks(f) ==
  LET log(k) == [period |-> Periods[k], of |-> "fly_job_logs", dept |-> All]
      scoped(k) == [n \in DOMAIN Targets(f) |->
                      [period |-> Periods[k], of |-> "scoped", dept |-> Targets(f)[n]]]
  IN <<log(1), log(2)>> \o scoped(1) \o scoped(2)

Endpoints == <<"fly_statis", "warn_static", "media_static">>

\* The requests made at once for an endpoint: get_fly_statis over SQL gathers
\* three queries.
Queries(endpoint) ==
  IF source = "sql" /\ endpoint = "fly_statis" THEN {"counts", "routes", "drones"}
  ELSE {endpoint}

Request(f, t, part) == [f |-> f, period |-> t.period, dept |-> t.dept, part |-> part]

\* _fetch_period_scoped_data gathers its endpoints.
Gathered(t) ==
  IF t.of = "fly_job_logs" THEN <<"fly_job_logs">>
  ELSE IF source = "sql"
    THEN <<"counts", "routes", "drones", "warn_static", "media_static">>
  ELSE Endpoints

RequestsOf(f, t) == [n \in DOMAIN Gathered(t) |-> Request(f, t, Gathered(t)[n])]

Telemetry(f, t) == Request(f, t, "telemetry")

\* Where a request is, if it was made.
At(r) == IF r \in DOMAIN request THEN request[r].at ELSE "unasked"

New(where, sent) == [at |-> where, tries |-> sent, last |-> NoData]
With(rs, call) ==
  [r \in DOMAIN request \cup rs |-> IF r \in DOMAIN request THEN request[r] ELSE call]
Sent(call) == [at |-> "out", tries |-> call.tries + 1, last |-> call.last]

-----------------------------------------------------------------------------
(* Requests *)

\* What may come back: nothing in time or a status worth another try, which may
\* pass; another status, a code that is no success, or a body not of the form
\* agreed upon, which is final; or data.  A failure of PostgreSQL is final.
Answers(r) ==
  {"final", "data"}
    \cup IF source = "http" \/ r.part = "telemetry" THEN {"passing"} ELSE {}

\* Mutant: one try less than the configuration says.
OutcomeTooSoon(r, answer) ==
  IF answer = "data" THEN "data"
  ELSE IF answer = "passing" /\ request[r].tries < MaxRequestRetries THEN "backoff"
  ELSE IF r.part = "telemetry" THEN "zero" ELSE "error"

\* What becomes of a request: a failure of TDengine counts as no flight time.
Outcome(r, answer) ==
  IF answer = "data" THEN "data"
  ELSE IF answer = "passing" /\ request[r].tries <= MaxRequestRetries THEN "backoff"
  ELSE IF r.part = "telemetry" THEN "zero" ELSE "error"

CollectionFault(answer) ==
  /\ answer # "data" => collectionFaults < MaxCollectionFaults
  /\ collectionFaults' = collectionFaults + (IF answer = "data" THEN 0 ELSE 1)

\* The first in line takes a slot: of the semaphore, or a connection.
SendFirst ==
  /\ line # <<>> /\ free > 0
  /\ free' = free - 1 /\ line' = Tail(line)
  /\ request' = [request EXCEPT ![Head(line)] = Sent(@)]
  /\ UNCHANGED <<source, asked, fetch, at, raw, collectionFaults>>

\* TDengine's connections are not scarce: its requests have no slot.
Answer(r) ==
  \E answer \in Answers(r) :
    /\ At(r) = "out" /\ CollectionFault(answer)
    /\ request' = [request EXCEPT ![r].at = Outcome(r, answer), ![r].last = answer]
    /\ free' = IF r.part = "telemetry" THEN free ELSE free + 1
    /\ UNCHANGED <<source, asked, fetch, at, raw, line>>

\* The backoff is over.
Retry(r) ==
  /\ At(r) = "backoff"
  /\ IF r.part = "telemetry"
       THEN request' = [request EXCEPT ![r] = Sent(@)] /\ UNCHANGED line
       ELSE request' = [request EXCEPT ![r].at = "waiting"] /\ line' = Append(line, r)
  /\ UNCHANGED <<source, asked, fetch, at, raw, free, collectionFaults>>

\* PoolTimeout: no connection came free in time.
GiveUpWaiting(r) ==
  /\ source = "sql" /\ At(r) = "waiting" /\ CollectionFault("final")
  /\ \E n \in DOMAIN line : line[n] = r /\ line' = RemoveAt(line, n)
  /\ request' = [request EXCEPT ![r].at = "error", ![r].last = "final"]
  /\ UNCHANGED <<source, asked, fetch, at, raw, free>>

\* Once the three queries of the statistics are answered, sql_flight_overall is
\* asked for the drones that flew, if any did.
AskTelemetry(f, t) ==
  LET r == Telemetry(f, t)
  IN /\ source = "sql" /\ t.of = "scoped" /\ r \notin DOMAIN request
     /\ \A q \in Queries("fly_statis") : At(Request(f, t, q)) = "data"
     /\ request' \in {With({r}, New("out", 1)), With({r}, New("data", 0))}
     /\ UNCHANGED <<source, asked, fetch, at, raw, line, free, collectionFaults>>

-----------------------------------------------------------------------------
(* A fetch *)

Enqueue(rs) ==
  /\ line' = line \o rs
  /\ request' = With(Range(rs), New("waiting", 0))

\* fetch creates its tasks and awaits the first; the two for the logs are in
\* line before those that gather.
CreateTasks(f) ==
  /\ fetch[f] = "new"
  /\ fetch' = [fetch EXCEPT ![f] = "begun"]
  /\ Enqueue(RequestsOf(f, Tasks(f)[1]) \o RequestsOf(f, Tasks(f)[2]))
  /\ UNCHANGED <<source, asked, at, raw, free, collectionFaults>>

Gather(f) ==
  /\ fetch[f] = "begun"
  /\ fetch' = [fetch EXCEPT ![f] = "waits"]
  /\ LET rest == SubSeq(Tasks(f), 3, Len(Tasks(f)))
         per == Len(Gathered(rest[1]))
     IN Enqueue([n \in 1 .. per * Len(rest) |->
                   RequestsOf(f, rest[1 + (n - 1) \div per])[1 + ((n - 1) % per)]])
  /\ UNCHANGED <<source, asked, at, raw, free, collectionFaults>>

\* A task ends with its last request, or at once with the first that fails.
Needs(f, t) ==
  Range(RequestsOf(f, t))
    \cup IF source = "sql" /\ t.of = "scoped" THEN {Telemetry(f, t)} ELSE {}
Own(f) == UNION {Needs(f, Tasks(f)[n]) : n \in DOMAIN Tasks(f)}
Fulfilled(f, t) == \A r \in Needs(f, t) : At(r) \in {"data", "zero"}
Failed(f, t) == \E r \in Needs(f, t) : At(r) = "error"

\* What the dataset has for an endpoint: the answers, and what TDengine added.
Payload(f, t, endpoint) ==
  [answers |-> {Request(f, t, q) : q \in Queries(endpoint)},
   telemetry |-> IF source = "sql" /\ endpoint = "fly_statis"
                   THEN At(Telemetry(f, t)) ELSE NoData]

\* Mutant: both periods get the results of the current one.
TaskOfCurrent(p, e, d) ==
  [period |-> IF e = "fly_job_logs" THEN p ELSE "current", dept |-> d]

\* The task whose result a dataset has in some place.
TaskOf(p, e, d) == [period |-> p, dept |-> d]

\* By endpoint, and in it by department, as _pivot_period_results_by_endpoint turns
\* them; the logs are for all departments.
Dataset(f) ==
  [p \in Range(Periods) |->
     [e \in Range(Endpoints) \cup {"fly_job_logs"} |->
        [d \in IF e = "fly_job_logs" THEN {All} ELSE Range(Targets(f)) |->
           Payload(f, TaskOf(p, e, d), e)]]]

\* Mutant: a task that failed is passed over.
AwaitLeniently(f) ==
  /\ fetch[f] = "waits"
  /\ LET t == Tasks(f)[at[f]]
     IN /\ Fulfilled(f, t) \/ Failed(f, t)
        /\ IF at[f] < Len(Tasks(f))
             THEN at' = [at EXCEPT ![f] = @ + 1] /\ UNCHANGED <<fetch, raw>>
             ELSE /\ fetch' = [fetch EXCEPT ![f] = "returned"]
                  /\ raw' = [raw EXCEPT ![f] = Dataset(f)] /\ UNCHANGED at
  /\ UNCHANGED <<source, asked, line, free, request, collectionFaults>>

\* The task that the fetch awaits has ended: failed, not the last, or the last.
Await(f) ==
  /\ fetch[f] = "waits"
  /\ LET t == Tasks(f)[at[f]]
     IN \/ /\ Failed(f, t)
           /\ fetch' = [fetch EXCEPT ![f] = "raised"] /\ UNCHANGED <<at, raw>>
        \/ /\ Fulfilled(f, t) /\ at[f] < Len(Tasks(f))
           /\ at' = [at EXCEPT ![f] = @ + 1] /\ UNCHANGED <<fetch, raw>>
        \/ /\ Fulfilled(f, t) /\ at[f] = Len(Tasks(f))
           /\ fetch' = [fetch EXCEPT ![f] = "returned"]
           /\ raw' = [raw EXCEPT ![f] = Dataset(f)] /\ UNCHANGED at
  /\ UNCHANGED <<source, asked, line, free, request, collectionFaults>>

-----------------------------------------------------------------------------
CollectionInit ==
  /\ source \in Sources
  /\ asked \in [Fetches -> AskedDepartments]
  /\ fetch = [f \in Fetches |-> "new"]
  /\ at = [f \in Fetches |-> 1]
  /\ raw = [f \in Fetches |-> <<>>]
  /\ line = <<>> /\ free = Slots
  /\ request = <<>>
  /\ collectionFaults = 0

Fetch(f) ==
  \/ CreateTasks(f) \/ Gather(f) \/ Await(f)
  \/ \E n \in DOMAIN Tasks(f) : AskTelemetry(f, Tasks(f)[n])

CollectionStep ==
  \/ SendFirst
  \/ \E r \in DOMAIN request : Answer(r) \/ Retry(r)
  \/ \E f \in Fetches : Fetch(f)

CollectionNext == CollectionStep \/ \E r \in DOMAIN request : GiveUpWaiting(r)

CollectionSpec == CollectionInit /\ [][CollectionNext]_collectionVars

-----------------------------------------------------------------------------
(* Properties *)

\* A fetch that returns has for each of its periods, endpoints and departments
\* the answer to just that question, and none of its requests failed but
\* TDengine's, which count as no flight time where they did; one that raises has
\* a failure to tell of.
DatasetIsWhole ==
  \A f \in Fetches :
    /\ fetch[f] = "raised" => \E r \in Own(f) : At(r) = "error"
    /\ fetch[f] = "returned" =>
         /\ \A r \in Own(f) : At(r) = "data" \/ (At(r) = "zero" /\ r.part = "telemetry")
         /\ \A p \in {"current", "previous"} :
              LET entries == {x \in (DOMAIN raw[f][p]) \X ({All} \cup Range(asked[f])) :
                                x[2] \in DOMAIN raw[f][p][x[1]]}
                  answers == UNION {raw[f][p][x[1]][x[2]].answers : x \in entries}
              IN /\ answers = {r \in Own(f) : r.period = p /\ r.part # "telemetry"}
                 /\ \A x \in entries : \A r \in raw[f][p][x[1]][x[2]].answers : r.dept = x[2]
                 /\ \A r \in Own(f) :
                      r.period = p /\ r.part = "telemetry" =>
                        raw[f][p]["fly_statis"][r.dept].telemetry = At(r)

\* However many fetches were given up, no slot is lost or used twice, and a
\* request is tried again only after what may pass, as often as configured.
RequestsAreAccounted ==
  /\ free + Cardinality({r \in DOMAIN request : At(r) = "out" /\ r.part # "telemetry"})
       = Slots
  /\ \A r \in DOMAIN request :
       /\ request[r].tries <= MaxRequestRetries + 1
       /\ At(r) \in {"waiting", "backoff"} => request[r].last \in {NoData, "passing"}
       /\ At(r) \in {"error", "zero"} /\ request[r].last = "passing" =>
            request[r].tries = MaxRequestRetries + 1

\* A fetch has ended, and all that it asked for, whether or not it awaited it.
Collected ==
  /\ \A f \in Fetches : fetch[f] \in {"returned", "raised"}
  /\ \A r \in DOMAIN request : At(r) \in {"data", "error", "zero"}
  /\ line = <<>> /\ free = Slots
=============================================================================
