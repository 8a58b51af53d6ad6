----------------------------- MODULE FlightData -----------------------------
(***************************************************************************)
(* The numbers of a flight report: what is fetched for a question, from    *)
(* dikong's HTTP interface or from its databases, and the tables that      *)
(* aggregations.py makes of it.                                            *)
(*                                                                         *)
(* Time is counted in ticks, three a day: midnight, midday and 23:59:59.   *)
(* A duration is negative when the flight has no stop time or one before   *)
(* its start.  A question q is a record:                                   *)
(*   source     "http" or "sql"; asked: the departments, {} for all        *)
(*   period     [start, end]                                               *)
(*   flights    the job log, a sequence of                                 *)
(*              [start, duration, status, depts, deleted]: the departments *)
(*              of the route, and whether the route was deleted            *)
(*   alarms     the algorithm records, a sequence of [time, algorithm,     *)
(*              depts, deleted, targets, handled, pushed, place, tagged]:  *)
(*              algorithm may be "", and an HTTP record that is not tagged *)
(*              does not name its departments                              *)
(*   routes     how many routes there are                                  *)
(*   telemetry  the flight time TDengine reports to one call, 0 after any  *)
(*              failure; media: whether there are pictures or videos       *)
(*   named      zip(dept_ids, dept_names): the name found for an asked     *)
(*              department, or "id" if the list of names is too short      *)
(***************************************************************************)
EXTENDS Integers, FiniteSets, Sequences, FiniteSetsExt

CONSTANTS
  RowCap,                \* fly_job_logs_row_cap
  HighFrequencyMaxRows   \* _HIGH_FREQUENCY_MAX_ROWS

ASSUME CapsAssumption ==
  RowCap \in Nat \ {0} /\ HighFrequencyMaxRows \in Nat \ {0}

Total(f) == MapThenSumSet(LAMBDA k : f[k], DOMAIN f)

-----------------------------------------------------------------------------
(* Fetching *)

Day(t) == t \div 3

\* _fmt_date drops the time: a window is whole days, the last one included.
InWindow(t, p) == Day(t) \in Day(p.start) .. Day(p.end)

PreviousPeriod(p) ==
  LET delta == IF p.end > p.start THEN p.end - p.start ELSE 21
  IN [start |-> p.start - delta, end |-> p.end - delta]

\* The department filter of one call: of the SQL queries, which know the
\* departments of routes that are not deleted, and of the HTTP interface.
OfDepartments(q, record, depts) ==
  \/ depts = {}
  \/ /\ record.depts \cap depts # {}
     /\ q.source = "sql" => ~record.deleted

\* get_fly_job_logs: one call for all departments; the SQL query returns the
\* newest rows up to its cap, the HTTP log is filtered afterwards.
JobLogs(q, p) ==
  LET all == {i \in DOMAIN q.flights :
                /\ InWindow(q.flights[i].start, p)
                /\ OfDepartments(q, q.flights[i], q.asked)}
      Before(i) == {j \in all : \/ q.flights[j].start > q.flights[i].start
                                \/ /\ q.flights[j].start = q.flights[i].start
                                   /\ j < i}
  IN {i \in all : q.source = "sql" => Cardinality(Before(i)) < RowCap}

\* The other endpoints are asked once per department, or once for all.
Calls(q) == IF q.asked = {} THEN {{}} ELSE {{d} : d \in q.asked}

\* get_fly_statis of every call, its numbers added up over the calls.
FlyStatis(q, p) ==
  LET flown(D) == {i \in DOMAIN q.flights :
                     /\ InWindow(q.flights[i].start, p)
                     /\ OfDepartments(q, q.flights[i], D)}
      drones(D) == \E i \in flown(D) : q.flights[i].status = 2
  IN [num_total |-> MapThenSumSet(LAMBDA D : Cardinality(flown(D)), Calls(q)),
      route_plan_count |-> q.routes * Cardinality(Calls(q)),
      fly_time_total |->
        q.telemetry * Cardinality({D \in Calls(q) : drones(D)})]

\* get_warn_static of every call: a row is an alarm and the call it came from.
WarnRows(q, p) ==
  {r \in (DOMAIN q.alarms) \X Calls(q) :
     /\ InWindow(q.alarms[r[1]].time, p)
     /\ OfDepartments(q, q.alarms[r[1]], r[2])}

\* _warn_static_records: the record's own department name (SQL: of the asked
\* department, HTTP: of all its departments), or the one found for the id.
DepartmentName(q, r) ==
  LET a == q.alarms[r[1]]
      asked == CHOOSE d \in r[2] : TRUE
  IN IF q.source = "sql" /\ r[2] # {} THEN r[2]
     ELSE IF q.source = "sql" \/ a.tagged THEN a.depts
     ELSE IF r[2] = {} THEN {}
     ELSE {q.named[asked]}

-----------------------------------------------------------------------------
(* Tables of flights *)

Completed(q, p) ==
  {i \in JobLogs(q, p) : q.flights[i].status = 2 /\ q.flights[i].duration >= 0}

FlightTime(q, S) == MapThenSumSet(LAMBDA i : q.flights[i].duration, S)

\* build_flight_stat_overall, one column of it.
Overall(q, p) ==
  LET done == Completed(q, p)
      time == FlightTime(q, done)
      durations == {q.flights[i].duration : i \in done}
  IN [flight_count |-> IF done # {} THEN Cardinality(done)
                       ELSE FlyStatis(q, p).num_total,
      flight_time |-> IF time # 0 THEN time ELSE FlyStatis(q, p).fly_time_total,
      max_flight_duration |-> IF done = {} THEN 0 ELSE Max(durations),
      min_flight_duration |-> IF done = {} THEN 0 ELSE Min(durations),
      route_plan_count |-> FlyStatis(q, p).route_plan_count,
      exception_count |->
        Cardinality({i \in JobLogs(q, p) : q.flights[i].status = 4})]

\* build_flight_stat_day_trend
DayTrend(q) ==
  [day \in Day(q.period.start) .. Day(q.period.end) |->
     LET logs == {i \in JobLogs(q, q.period) : Day(q.flights[i].start) = day}
         of(status) == {i \in logs : q.flights[i].status = status}
     IN [flight_count |-> Cardinality(of(2)),
         flight_hours |->
           FlightTime(q, {i \in of(2) : q.flights[i].duration >= 0}),
         exception_count |-> Cardinality(of(4))]]

\* build_flight_stat_department_share: a flight's time is divided among its
\* departments, here in parts of two.
DepartmentShare(q) ==
  LET done == Completed(q, q.period)
      of(d) == {i \in done : d \in q.flights[i].depts}
      part(i) == (2 * q.flights[i].duration)
                   \div Cardinality(q.flights[i].depts)
  IN [d \in UNION {q.flights[i].depts : i \in done} |->
        MapThenSumSet(part, of(d))]

-----------------------------------------------------------------------------
(* Tables of alarms *)

Targets(q, rows) == MapThenSumSet(LAMBDA r : q.alarms[r[1]].targets, rows)

\* build_algorithm_recognition_overall, one column of it.
Recognition(q, p) ==
  [recognition_count |-> Cardinality(WarnRows(q, p)),
   recognized_target_count |-> Targets(q, WarnRows(q, p))]

\* The other tables skip alarms whose algorithm has no name.
NamedRows(q) ==
  {r \in WarnRows(q, q.period) : q.alarms[r[1]].algorithm # ""}

\* A table has a row per key: the alarms of each key.
Grouped(key) ==
  [k \in {key[r] : r \in DOMAIN key} |-> {r \in DOMAIN key : key[r] = k}]

Scene(q) ==
  [r \in NamedRows(q) |-> <<q.alarms[r[1]].algorithm, DepartmentName(q, r)>>]

Distribution(q) ==
  LET rows == Grouped(Scene(q))
  IN [k \in DOMAIN rows |-> Targets(q, rows[k])]

Disposal(q) ==
  LET rows == Grouped(Scene(q))
  IN [k \in DOMAIN rows |->
        [occurrence_count |-> Cardinality(rows[k]),
         disposal_count |->
           Cardinality({r \in rows[k] : q.alarms[r[1]].handled})]]

\* _top_high_frequency_rows: the keys with the highest counts.
TopRows(counts) ==
  LET size == Min({Cardinality(DOMAIN counts), HighFrequencyMaxRows})
  IN CHOOSE S \in SUBSET DOMAIN counts :
       /\ Cardinality(S) = size
       /\ \A k \in S, other \in DOMAIN counts \ S : counts[k] >= counts[other]

HighFrequency(q, place) ==
  LET rows == Grouped([r \in NamedRows(q) |-> <<Scene(q)[r], place[r]>>])
      counts == [k \in DOMAIN rows |-> Cardinality(rows[k])]
  IN [k \in TopRows(counts) |-> counts[k]]

HighFrequencyLocations(q) ==
  HighFrequency(q, [r \in NamedRows(q) |-> q.alarms[r[1]].place])

\* _high_frequency_time_slot: a working day or not, and the time of day.
HighFrequencyTimeSlots(q) ==
  LET slot(t) == <<Day(t) % 7 < 5, t % 3>>
  IN HighFrequency(q, [r \in NamedRows(q) |-> slot(q.alarms[r[1]].time)])

PushEvents(q) == {r \in NamedRows(q) : q.alarms[r[1]].pushed}

-----------------------------------------------------------------------------
(* Properties of one question *)

\* Nothing that happened is lost or counted twice: the two windows leave no
\* day out and share only the first day of the period, a flight is in the log
\* once whatever departments it has, an alarm once per asked department, and
\* both sources show the same unless a route was deleted or the cap is hit.
EverythingCountedOnce(q) ==
  LET p == q.period
      before == PreviousPeriod(p)
      days == Day(before.start) .. Day(p.end)
      relevant == {i \in DOMAIN q.flights :
                     /\ Day(q.flights[i].start) \in days
                     /\ \/ q.asked = {}
                        \/ q.flights[i].depts \cap q.asked # {}}
      complete == \/ q.source = "http"
                  \/ /\ Len(q.flights) <= RowCap
                     /\ \A i \in DOMAIN q.flights : ~q.flights[i].deleted
  IN /\ p.end > p.start /\ complete =>
          JobLogs(q, p) \cup JobLogs(q, before) = relevant
     /\ \A i \in JobLogs(q, p) \cap JobLogs(q, before) :
          Day(q.flights[i].start) = Day(p.start)
     /\ \A i \in JobLogs(q, p), j \in relevant \ JobLogs(q, p) :
          /\ q.source = "sql" /\ ~q.flights[j].deleted
          /\ InWindow(q.flights[j].start, p)
          => q.flights[j].start <= q.flights[i].start
     /\ \A i \in DOMAIN q.alarms :
          LET rows == {r \in WarnRows(q, p) : r[1] = i}
              departments == q.asked \cap q.alarms[i].depts
          IN Cardinality(rows) \in {0, Max({1, Cardinality(departments)})}

\* The tables of a report agree, although each is counted on its own: the days
\* add up to the totals (flights without a usable stop are only in the days,
\* although the comment at aggregations.py:101-103 derives the totals to match
\* them, and the totals fall back to other sources without a completed flight),
\* the departments share the time of all flights that have one, and scenes,
\* places and time slots add up to the alarms that have a name.
TablesAgree(q) ==
  LET p == q.period
      now == Overall(q, p)
      trend == DayTrend(q)
      sum(field(_)) ==
        MapThenSumSet(LAMBDA d : field(trend[d]), DOMAIN trend)
      open == {i \in JobLogs(q, p) :
                 q.flights[i].status = 2 /\ q.flights[i].duration < 0}
      homeless == {i \in Completed(q, p) : q.flights[i].depts = {}}
      nameless == WarnRows(q, p) \ NamedRows(q)
      occurrences == [k \in DOMAIN Disposal(q) |->
                        Disposal(q)[k].occurrence_count]
      places == HighFrequencyLocations(q)
      slots == HighFrequencyTimeSlots(q)
  IN /\ sum(LAMBDA s : s.exception_count) = now.exception_count
     /\ Completed(q, p) # {} =>
          sum(LAMBDA s : s.flight_count)
            = now.flight_count + Cardinality(open)
     /\ FlightTime(q, Completed(q, p)) # 0 =>
          sum(LAMBDA s : s.flight_hours) = now.flight_time
     /\ Total(DepartmentShare(q)) =
          2 * FlightTime(q, Completed(q, p) \ homeless)
     /\ Total(Distribution(q)) =
          Recognition(q, p).recognized_target_count - Targets(q, nameless)
     /\ Total(occurrences) =
          Recognition(q, p).recognition_count - Cardinality(nameless)
     /\ \A k \in DOMAIN Disposal(q) :
          Disposal(q)[k].disposal_count <= occurrences[k]
     /\ \A table \in {places, slots} :
          /\ Cardinality(DOMAIN table) <= HighFrequencyMaxRows
          /\ Total(table) <= Total(occurrences)
          /\ Cardinality(DOMAIN table) < HighFrequencyMaxRows =>
               Total(table) = Total(occurrences)
=============================================================================
