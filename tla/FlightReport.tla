---------------------------- MODULE FlightReport ----------------------------
(***************************************************************************)
(* What simple_composer.py shows of the tables: which of them, and the     *)
(* axes of the charts.  Amounts on a chart are whole thousandths.          *)
(***************************************************************************)
EXTENDS FlightData

CONSTANTS
  MaxXAxisLabels  \* MAX_X_AXIS_LABELS

ASSUME LabelsAssumption == MaxXAxisLabels \in Nat \ {0}

-----------------------------------------------------------------------------
(* Sections *)

\* The tables a section is built from (_REPORT_TEMPLATE).
SectionTables ==
  [overall    |-> {"flight_stat_overall"},
   day_trend  |-> {"flight_stat_day_trend"},
   department |-> {"flight_stat_department_share"},
   algorithm  |-> {"algorithm_recognition_overall",
                   "algorithm_recognition_distribution"},
   disposal   |-> {"algorithm_disposal_summary", "algorithm_push_events"},
   hotspot    |-> {"algorithm_high_frequency_locations",
                   "algorithm_high_frequency_time_slots"},
   media      |-> {"media_collection_summary"}]

Numbers(record) == {record[k] : k \in DOMAIN record}

\* The departments that are shown by their id: a cell that is a number.
NumericNames(q, rows) == {r \in rows : "id" \in DepartmentName(q, r)}

\* _table_has_numeric_data: some cell, or some number kept with a row, is not
\* zero.
HasNumericData(q, table) ==
  LET periods == {q.period, PreviousPeriod(q.period)}
  IN CASE table = "flight_stat_overall" ->
            \E p \in periods : Numbers(Overall(q, p)) # {0}
       [] table = "flight_stat_day_trend" ->
            \E day \in DOMAIN DayTrend(q) : Numbers(DayTrend(q)[day]) # {0}
       [] table = "flight_stat_department_share" ->
            Total(DepartmentShare(q)) # 0
       [] table = "media_collection_summary" -> q.media
       [] table = "algorithm_recognition_overall" ->
            \E p \in periods : Numbers(Recognition(q, p)) # {0}
       [] table = "algorithm_recognition_distribution" ->
            \/ Total(Distribution(q)) # 0
            \/ NumericNames(q, NamedRows(q)) # {}
       [] table = "algorithm_push_events" ->
            NumericNames(q, PushEvents(q)) # {}
       [] OTHER -> NamedRows(q) # {}  \* disposal and high frequency: counts

\* Mutant: a section needs all of its tables.
ShownTogether(q, section) ==
  {table \in SectionTables[section] :
     \A other \in SectionTables[section] : HasNumericData(q, other)}

\* The build_*_section functions: a table without numbers is replaced by the
\* hint that there is no data, and so is a section without such a table.
Shown(q, section) ==
  {table \in SectionTables[section] : HasNumericData(q, table)}

\* build_overview_section asks the model when there is anything to tell.
HasOverview(q) == \E section \in DOMAIN SectionTables : Shown(q, section) # {}

\* _sum_disposal_totals: the sentence above the disposal table.
DisposalTotals(q) ==
  LET sum(field(_)) == MapThenSumSet(LAMBDA k : field(Disposal(q)[k]),
                                     DOMAIN Disposal(q))
  IN [occurrences |-> sum(LAMBDA b : b.occurrence_count),
      disposals |-> sum(LAMBDA b : b.disposal_count)]

\* _aggregate_disposal_rows_by_scene: the points of the disposal chart.
DisposalChart(q) ==
  LET table == Disposal(q)
      rows(scene) == {k \in DOMAIN table : k[1] = scene}
  IN [scene \in {k[1] : k \in DOMAIN table} |->
        [occurrences |->
           MapThenSumSet(LAMBDA k : table[k].occurrence_count, rows(scene)),
         disposals |->
           MapThenSumSet(LAMBDA k : table[k].disposal_count, rows(scene))]]

\* _table_numeric_slices: rows of one algorithm are one slice, and rows
\* without a positive number are no slice.
AlgorithmPie(q) ==
  LET table == Distribution(q)
      rows == {k \in DOMAIN table : table[k] > 0}
      of(name) == {k \in rows : k[1] = name}
  IN [name \in {k[1] : k \in rows} |->
        MapThenSumSet(LAMBDA k : table[k], of(name))]

-----------------------------------------------------------------------------
(* Axes *)

\* _build_date_axis_label: every n-th date is labelled.
LabelStep(count) ==
  IF count <= MaxXAxisLabels THEN 1
  ELSE LET shares == (count + MaxXAxisLabels - 1) \div MaxXAxisLabels
       IN Max({1, shares - 1}) + 1

\* _render_day_trend_line_chart_png: the last date is labelled too, instead of
\* the label before it if that is too close.
VisibleIndexes(count) ==
  LET step == LabelStep(count)
      regular == {i \in 0 .. count - 1 : i % step = 0}
      last == count - 1
  IN IF regular = {} \/ last \in regular THEN regular
     ELSE IF last - Max(regular) < Max({1, step \div 2})
       THEN (regular \ {Max(regular)}) \cup {last}
       ELSE regular \cup {last}

\* 1, 2 or 5 times a power of ten, in thousandths.
NiceSteps == UNION {{m * n : m \in {1, 2, 5}} :
                      n \in {1, 10, 100, 1000, 10000, 100000, 1000000}}

\* _compact_number: two decimals.
Compact(v) == IF v % 1000 = 0 THEN v ELSE ((v + 5) \div 10) * 10

\* _nice_axis_bounds for five parts; numbers of 100 and more that lie close
\* together get an axis that does not start at zero.
NiceAxis(values) ==
  LET low == Min(values)
      high == Max(values)
      spread == high - low
      narrow == low >= 100000 /\ 4 * spread <= high
      range == IF narrow /\ spread > 0 THEN spread ELSE high
      step == Min({n \in NiceSteps : 5 * n >= range})
      bottom == IF narrow THEN Max({0, ((low - step) \div step) * step}) ELSE 0
      top == ((high + step - 1) \div step) * step
  IN IF high <= 0 THEN [min |-> 0, max |-> 1000, interval |-> 1000]
     ELSE [min |-> Compact(bottom),
           max |-> Compact(IF top <= bottom THEN bottom + step ELSE top),
           interval |-> Compact(step)]

\* _axis_ticks; an interval that was rounded to zero becomes one.
AxisTicks(axis) ==
  LET interval == IF axis.interval = 0 THEN 1000 ELSE axis.interval
      steps == (10 * (axis.max - axis.min) + interval) \div (10 * interval)
  IN {axis.min + k * interval : k \in 0 .. steps}

-----------------------------------------------------------------------------
(* Properties *)

\* The report shows what happened in its period and nothing else: flights,
\* failures, the departments' time, alarms and targets each appear where they
\* belong, and the sentence on disposals and the charts count every alarm that
\* has a name.  Only the table of pushed events is missing unless a department
\* in it is shown by its number.
ReportShowsWhatHappened(q) ==
  LET p == q.period
      logs == JobLogs(q, p)
      ended == {i \in logs : q.flights[i].status \in {2, 4}}
      timed == {i \in Completed(q, p) :
                  q.flights[i].duration > 0 /\ q.flights[i].depts # {}}
  IN /\ (ended # {}) = (Shown(q, "day_trend") # {})
     /\ ended # {} => Shown(q, "overall") # {}
     /\ (timed # {}) = (Shown(q, "department") # {})
     /\ WarnRows(q, p) # {} =>
          "algorithm_recognition_overall" \in Shown(q, "algorithm")
     /\ (NamedRows(q) # {}) = (Shown(q, "hotspot") # {})
     /\ (NamedRows(q) # {}) = (Shown(q, "disposal") # {})
     /\ DisposalTotals(q).occurrences = Cardinality(NamedRows(q))
     /\ \A scene \in DOMAIN DisposalChart(q) :
          DisposalChart(q)[scene].disposals <= DisposalChart(q)[scene].occurrences
     /\ MapThenSumSet(LAMBDA s : DisposalChart(q)[s].disposals,
                      DOMAIN DisposalChart(q)) = DisposalTotals(q).disposals
     /\ Total(AlgorithmPie(q)) = Targets(q, NamedRows(q))
     /\ "algorithm_push_events" \in Shown(q, "disposal") =>
          \E r \in PushEvents(q) : "id" \in DepartmentName(q, r)
     /\ logs # {} \/ WarnRows(q, p) # {} => HasOverview(q)

\* A chart can be read: every value lies on its axis, the axis has ticks from
\* its start to its end and not too many, and the dates are labelled from the
\* first to the last.  Axes that end below 0.03 are exempt: their ticks are
\* rounded away.  The last date may be one label beyond the limit, although
\* simple_composer.py:32, :360 and :372 say that there are at most so many.
ChartIsReadable(count, values) ==
  LET axis == NiceAxis(values)
      ticks == AxisTicks(axis)
      labels == VisibleIndexes(count)
  IN /\ \A v \in values : axis.min <= v /\ v <= axis.max
     /\ axis.max >= 30 =>
          Cardinality(ticks) \in 2 .. 9 /\ Max(ticks) = axis.max
     /\ {0, count - 1} \subseteq labels
     /\ Cardinality(labels) <= MaxXAxisLabels + 1
     /\ count <= MaxXAxisLabels => labels = 0 .. count - 1
=============================================================================
