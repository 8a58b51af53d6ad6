----------------------------- MODULE MCDecisions -----------------------------
(***************************************************************************)
(* The parts that keep no state.  A behaviour is one call: the first state *)
(* fixes part of the input, an action per kind of input the rest, and the  *)
(* properties are about what the operators make of it.                     *)
(***************************************************************************)
EXTENDS Planning, AgentAssembly, QuestionIntent, FlightReport, ReportDocument,
        ReportText, WebSearch

VARIABLES
  kind,  \* which operators the input is for, "none" before the call
  input  \* the input; before the call, what is known of it from the start

vars == <<kind, input>>

Start(of, fixed) == {[of |-> of, by |-> x] : x \in fixed}

Begins(of) == kind = "none" /\ input.of = of /\ kind' = of

-----------------------------------------------------------------------------
(* Subtasks as the coordinator gets them: any configuration that comes from
   a candidate with at most one group besides code_exec.                  *)

Candidates ==
  [groups : {G \cup E : G \in {{}} \cup {{g} : g \in ToolGroup},
                        E \in {{}, {"code_exec"}}},
   runtimes : {<<>>} \cup {<<r>> : r \in RuntimeKind},
   skills : BOOLEAN] \cup {NoCandidate}

AssignSubtask ==
  /\ Begins("subtask")
  /\ \E candidate \in Candidates, h \in Hints, deps, memory \in BOOLEAN :
       input' = [role |-> input.by,
                 config |-> Configuration(input.by, input.by, candidate, h),
                 hints |-> h, deps |-> deps, memory |-> memory]

-----------------------------------------------------------------------------
(* Agents with and without a profile, names and a runtime: functions with a
   contract and without, in one group or two, over a tool of their name or
   not, and skills that demand a tool or run nowhere.                       *)

Brought ==
  {Function("project_read", <<"file_system">>, {"host_tools"}, "host_tools", FALSE),
   Function("lookup", <<"artifact", "workspace">>, {"host_tools", "sandbox"},
            "host_tools", FALSE),
   Function("plain", <<>>, {}, "host_tools", FALSE),
   Function("web_search", <<"web_search">>, {"host_tools"}, "host_tools", FALSE),
   Function("run_skill_script", <<>>, {}, "host_tools", TRUE)}

GroupSets == {{}, {"workspace"}, {"code_exec", "web_search"},
              {"file_system", "web_search"}}
NameSets == {{}, {"project_read", "run_skill_script"}, {"web_search", "unknown"},
             {"lookup", "write_file"}, {"unknown"}}

Packages == [plain |-> Package(TRUE, FALSE, TRUE, {}),
             demanding |-> Package(TRUE, FALSE, TRUE, {"run_skill_script"}),
             reading |-> Package(TRUE, FALSE, TRUE, {"lookup"}),
             foreign |-> Package(TRUE, FALSE, FALSE, {}),
             wrong |-> Package(FALSE, FALSE, TRUE, {})]

Profiles ==
  {NoProfile} \cup [groups : GroupSets, names : NameSets, sandbox : BOOLEAN,
                    skills : {DOMAIN Packages}, mode : {"all", "exclusive"}]

Executions ==
  {NoExecution} \cup
    {[groups |-> g, names |-> {}, runtime |-> chain[1],
      chain |-> SubSeq(chain, 2, Len(chain)), skills |-> s] :
       g \in GroupSets, s \in {{}, {"plain", "reading", "gone"}},
       chain \in {<<"sandbox", "host_tools">>, <<"host_tools">>, <<"llm_only", "sandbox">>}}

AssembleAgent ==
  /\ Begins("agent")
  /\ \E execution \in Executions, tools \in {{}} \cup {{f} : f \in Brought},
        config \in {{}, {"workspace"}}, equipped \in BOOLEAN :
       /\ equipped \/ tools = {}
       /\ input' = [profile |-> input.by, execution |-> execution,
                    config |-> [groups |-> config, skills |-> {"plain"}, role |-> "coder"],
                    tools |-> tools, equipped |-> equipped, packages |-> Packages]

-----------------------------------------------------------------------------
(* Searches for up to three results with or without a text.               *)

Pages ==
  UNION {{[k \in 1 .. n |-> [id |-> k, snippet |-> s[k]]] : s \in [1 .. n -> BOOLEAN]} :
           n \in 0 .. 3}

SearchSettings ==
  [provider : {"duckduckgo", "brave", "google"}, base : BOOLEAN, key : BOOLEAN,
   cse : BOOLEAN]

SearchTheWeb ==
  /\ Begins("search")
  /\ input' \in [settings : {input.by}, asked : {"none", "ddg", "tavily", "google", "yahoo"},
                 max : -1 .. 2, date : {"none", "good", "bad"}, served : BOOLEAN,
                 page : Pages]

-----------------------------------------------------------------------------
(* Replies of the model: three subtasks with names that collide, are spelled
   otherwise or vanish; two subtasks with any candidates.                 *)

NoHints == [dynamic |-> FALSE, browser |-> FALSE, file |-> FALSE,
            output |-> "none"]

Step(name, role, deps, replies) ==
  [name |-> name, role |-> role, deps |-> deps, hints |-> NoHints,
   replies |-> replies]

Names == {Name(<<"a">>, TRUE), Name(<<"a">>, FALSE), Name(<<"b">>, TRUE),
          Name(<<"a", 2>>, TRUE), Name(<<"a", 3>>, TRUE), Name(<<>>, FALSE)}

NameSpecs(role) ==
  {Step(n, role, d, <<>>) :
     n \in Names, d \in {{}} \cup {{m} : m \in Names}}

Answer(valid, name, groups) ==
  [valid |-> valid, name |-> name,
   candidate |-> [groups |-> groups, runtimes |-> <<>>, skills |-> FALSE]]

Answers ==
  {Answer(FALSE, Name(<<>>, FALSE), {})}
    \cup {Answer(TRUE, Name(<<n>>, TRUE), G) :
            n \in {"a", "b"},
            G \in {{}, {"file_system"}, {"code_exec"},
                   {"code_exec", "web_search"}}}

CandidateSpecs(role) ==
  {Step(n, role, {}, <<x, y, Answer(TRUE, Name(<<"a">>, TRUE), {"browser"})>>) :
     n \in {Name(<<"a">>, TRUE), Name(<<"b">>, TRUE)}, x, y \in Answers}

PlanReply ==
  /\ Begins("reply")
  /\ \/ input.by = "planner" /\ input' = <<>>
     \/ /\ input.by = "coder"
        /\ \E x, y, z \in NameSpecs("coder") : input' = <<x, y, z>>
     \/ \E x \in CandidateSpecs(input.by), role \in {"planner", "coder"} :
          \E y \in CandidateSpecs(role) :
            y.replies = x.replies /\ input' = <<x, y>>

-----------------------------------------------------------------------------
(* Replies of the model as texts of up to two pieces, and the answers of three
   calls, the second and third of which can fail in one way each.          *)

TextPieces ==
  {Piece(what, fenced, "report") : what \in {"object", "array"}, fenced \in BOOLEAN}
    \cup {Piece(what, fenced, "nothing") :
             what \in {"array", "scalar", "broken", "prose"}, fenced \in BOOLEAN}
    \cup {Piece("object", fenced, value) :
             value \in {"chitchat", "odd"}, fenced \in BOOLEAN}

TextReplies ==
  {<<>>} \cup {<<x>> : x \in TextPieces} \cup {<<x, y>> : x, y \in TextPieces}

Received(text) == Answered("ok", 200, "object", "parts", text)

Failures ==
  {Answered("timeout", 0, "none", "none", <<>>), Answered("failed", 0, "none", "none", <<>>)}
    \cup {Answered("ok", s, b, c, <<Piece("object", FALSE, "chitchat")>>) :
             s \in {200, 500}, b \in {"object", "other"}, c \in {"text", "other"}}

ReadReply ==
  /\ Begins("read")
  /\ \E x \in {Received(t) : t \in TextReplies} \cup Failures,
        y \in {Received(<<Piece("object", TRUE, "data_query")>>)} \cup Failures,
        z \in {Received(<<Piece("object", FALSE, v)>>) : v \in {"chitchat", "odd"}} :
       input' = [blank |-> input.by, answers |-> <<x, y, z>>]

\* Questions: three drafts, the second with everything a model can say, over
\* departments that are listed in another order, one of them without a name, or
\* none of the configured ones.
DraftsOf(periods, named, ids, scopes, complaints) ==
  {Draft(period, names, i, scope[1], scope[2], "pdf", complaint[1], complaint[2]) :
     period \in periods, names \in named, i \in ids, scope \in scopes,
     complaint \in complaints}

AnyScope == {<<"overall", FALSE>>, <<"department", TRUE>>, <<"department", FALSE>>}
AnyComplaint == {<<{}, {}>>, <<{"department"}, {}>>, <<{}, {"future"}>>}

AnyDrafts ==
  DraftsOf({"none", "week", "month"}, {{}, {"a"}}, {{}, {1}}, AnyScope, AnyComplaint)
LastDrafts ==
  DraftsOf({"none", "week"}, {{"a"}}, {{}}, {<<"overall", FALSE>>, <<"department", FALSE>>}, {<<{}, {}>>})

Configured == <<1, 2, 3>>
Directories ==
  {<<[id |-> 2, name |-> b], [id |-> 9, name |-> "x"], [id |-> 1, name |-> "a"],
     [id |-> 3, name |-> "c"]>> : b \in {"b", ""}}
  \cup {<<[id |-> 9, name |-> "x"]>>}

AskInTurns ==
  /\ Begins("question")
  /\ \E second \in AnyDrafts, third \in LastDrafts, directory \in Directories :
       input' = [drafts |-> <<input.by, second, third>>, directory |-> directory]

-----------------------------------------------------------------------------
(* Questions about flights or about alarms, around a period of two days, of
   one, of no length at all, or from midday to midday.                    *)

Periods == {[start |-> 0, end |-> 5], [start |-> 0, end |-> 2],
            [start |-> 0, end |-> 0], [start |-> 1, end |-> 4]}

DeptsAsked == {{}, {"d1"}, {"d1", "d2"}}
DeptSets == {{}, {"d1"}, {"d1", "d2"}}

Question(source, period, asked, flights, alarms, telemetry, named) ==
  [source |-> source, period |-> period, asked |-> asked,
   flights |-> flights, alarms |-> alarms, routes |-> 0,
   telemetry |-> telemetry, media |-> FALSE, named |-> named]

NamesInOrder == [d \in {"d1", "d2"} |-> d]
NamesWithGap == [d \in {"d1", "d2"} |-> IF d = "d1" THEN "d2" ELSE "id"]

Flight(start, status, duration, depts, deleted) ==
  [start |-> start, status |-> status, duration |-> duration,
   depts |-> depts, deleted |-> deleted]

Flights ==
  {Flight(start, end[1], end[2], depts, deleted) :
     start \in {-4, 0, 1, 4}, depts \in DeptSets, deleted \in BOOLEAN,
     end \in {<<2, 1>>, <<2, 0>>, <<2, -1>>, <<4, 1>>, <<1, -1>>}}

OtherFlights ==
  {Flight(start, 2, 2, {"d2"}, FALSE) : start \in {-4, -1, 0, 4, 5}}

AskForFlights ==
  /\ Begins("flights")
  /\ \E f \in Flights, period \in Periods, asked \in DeptsAsked, t \in {0, 2} :
       \E rest \in {<<>>} \cup {<<g>> : g \in OtherFlights} :
         input' = Question(input.by, period, asked, <<f>> \o rest, <<>>, t,
                           NamesInOrder)

Alarm(time, algorithm, depts, deleted, targets, place, flags) ==
  [time |-> time, algorithm |-> algorithm, depts |-> depts,
   deleted |-> deleted, targets |-> targets, place |-> place,
   handled |-> "handled" \in flags, pushed |-> "pushed" \in flags,
   tagged |-> "tagged" \in flags]

Alarms ==
  {Alarm(time, algorithm, depts, deleted, targets, "here", flags) :
     time \in {-1, 0, 4}, algorithm \in {"", "a"}, depts \in DeptSets,
     deleted \in BOOLEAN, targets \in {0, 2},
     flags \in SUBSET {"handled", "pushed", "tagged"}}

OtherAlarms ==
  {Alarm(time, algorithm, {"d2"}, FALSE, 1, place, {"tagged"}) :
     time \in {0, 4}, algorithm \in {"a", "b"}, place \in {"here", "there"}}

AskForAlarms ==
  /\ Begins("alarms")
  /\ \E a \in Alarms, asked \in DeptsAsked,
        named \in {NamesInOrder, NamesWithGap} :
       \E rest \in {<<>>} \cup {<<b>> : b \in OtherAlarms} :
         input' = Question(input.by, [start |-> 0, end |-> 5], asked, <<>>,
                           <<a>> \o rest, 0, named)

\* A chart of up to a hundred days, and values around every change of step.
Amounts == {0, 10, 20, 30, 50, 60, 990, 1000, 1010, 4990, 5000, 5010}
             \cup {n * 1000 : n \in {2, 3, 7, 10, 11, 26, 99, 100, 101, 110,
                                     124, 125, 126, 133, 134, 500, 501, 999}}

DrawChart ==
  /\ Begins("chart")
  /\ \/ \E n \in 1 .. 100 : input' = [count |-> n, values |-> {0}]
     \/ \E x, y \in Amounts : input' = [count |-> 7, values |-> {x, y}]

-----------------------------------------------------------------------------
(* Reports to write: three sections in one another, each with a block or
   none; any tables with any words of the model between them; texts of up to
   three pieces.                                                          *)

Block(id, of, has) == [id |-> id, kind |-> of, has |-> has]

BlocksOf(id) ==
  {Block(id, of, {}) : of \in {"heading", "list", "page_break"}}
    \cup {Block(id, "kpi_group", has) : has \in {{}, Comparisons}}
    \cup {Block(id, "paragraph", has) : has \in {{"runs"}, {"text"}, {}}}
    \cup {Block(id, "table", {"rows"} \cup has) :
             has \in SUBSET {"caption", "title"}}
    \cup {Block(id, "chart_text", has) : has \in SUBSET {"caption", "text"}}
    \cup {Block(id, "image", {"file", "caption"})}

Sections(id, of, legacy, children) ==
  {[id |-> id, blocks |-> b, legacy |-> l, children |-> c] :
     b \in {<<>>} \cup {<<x>> : x \in of}, l \in legacy, c \in children}

Innermost ==
  {<<>>} \cup {<<s>> : s \in Sections("inner", BlocksOf("b3"), {{"charts"}}, {<<>>})}

Middle ==
  {<<>>} \cup {<<s>> : s \in Sections("middle",
                             {b \in BlocksOf("b2") : b.has = {}}
                               \cup {Block("b2", "chart", {})},
                             {{}, {"summary", "tables"}}, Innermost)}

WriteDocument ==
  /\ Begins("document")
  /\ \E s \in Sections("outer", BlocksOf("b1"),
                       {{}, {"kpis", "tables", "charts"} \cup Comparisons}, Middle) :
       input' = [section |-> s, template |-> input.by]

\* Two tables at most have numbers, or have none.
ShownTables ==
  LET tables == UNION {SectionTables[section] : section \in DOMAIN SectionTables}
      few == {S \in SUBSET tables : Cardinality(S) <= 2}
  IN few \cup {tables \ S : S \in few}

Replies ==
  {<<>>, <<"text", "text">>, <<"item", "blank", "item">>,
   <<"text", "blank", "item", "item", "blank">>, <<"head", "blank", "text">>,
   <<"text", "blank", "blank", "row", "sep", "row">>}

WriteReport ==
  /\ Begins("report")
  /\ \E reply \in Replies : input' = [shown |-> input.by, reply |-> reply]

Table == <<"row", "sep", "row">>

Pieces ==
  {Text, Chart, Table \o Blank, <<"item", "item", "blank">>,
   <<"align", "text", "blank", "item", "close">>,
   <<"align">> \o Table \o <<"close">>,
   <<"pair">> \o Table \o <<"close">>,
   <<"pair">> \o Table \o Blank \o Table \o <<"close">>,
   <<"pair", "align">> \o Table \o <<"close">> \o Table \o <<"close">>,
   <<"align", "pair">> \o Table \o Blank \o Table \o <<"close">> \o Table
     \o <<"close">>}

WriteText ==
  /\ Begins("text")
  /\ \E y, z \in Pieces \cup {<<>>} : input' = input.by \o y \o z

-----------------------------------------------------------------------------
Init ==
  /\ kind = "none"
  /\ \/ input \in Start("search", SearchSettings)
     \/ input \in Start("read", BOOLEAN)
     \/ input \in Start("question", AnyDrafts)
     \/ input \in Start("document", {"default", "dashboard", "minimal"})
     \/ input \in Start("report", ShownTables)
     \/ input \in Start("text", Pieces)
     \/ input \in Start("chart", {"axes"})
     \/ input \in Start("flights", {"http", "sql"})
     \/ input \in Start("alarms", {"http", "sql"})
     \/ input \in Start("agent", Profiles)
     \/ input \in Start("subtask", Roles)
     \/ input \in Start("reply", Roles)

Next ==
  \/ AssignSubtask \/ AssembleAgent \/ SearchTheWeb \/ PlanReply \/ ReadReply \/ AskInTurns
  \/ AskForFlights \/ AskForAlarms \/ DrawChart
  \/ WriteDocument \/ WriteReport \/ WriteText

Spec == Init /\ [][Next]_vars

Asks == kind \in {"flights", "alarms"}

\* A subtask is turned away before it works only where the planner's, the
\* coordinator's and the runner's word lists, or a profile, disagree; one that
\* works has the tool its way of working cannot do without, and its agent is
\* handed no function that the runner does not check and audit.
ExecutedAs(h) ==
  /\ TurnedAwayOnlyByDisagreement(input, h)
  /\ EquippedForPath(h)
  /\ OnlyAuditedTools(h)
  /\ SubtaskAgentIsAsTold(h)

Executable == kind = "subtask" => ExecutedAs(Handled(input))

\* What an agent says of its tools, where they run and its skills is what its
\* model can use, with the exceptions that ToolsAreAsTold names.
AgentIsTrue == kind = "agent" => AgentIsAsTold(input)

\* Whatever the model replies, the orchestrator gets a graph to work on, and
\* a reply that obeys the prompt is executed as it was written.
PlanIsSound == kind = "reply" => GraphIsUsable(input) /\ PlanIsKept(input)

\* What the model says of a question is read in one way, and the report is about
\* what the user asked for, with the exceptions that the properties name.
IntentIsUnderstood ==
  /\ kind = "read" => /\ LabelIsTheModels(input.blank, input.answers)
                      /\ \A n \in DOMAIN input.answers : ReadersAgree(input.answers[n].text)
  /\ kind = "question" => QuestionIsUnderstood(input.drafts, Configured, input.directory)


\* What an agent is told of a search is what was found.
SearchIsTrue == kind = "search" => SearchIsHonest(input)

\* What is planned can be done and is what was meant, and its agents are told the
\* truth.
SubtasksAreSound == Executable /\ AgentIsTrue /\ SearchIsTrue /\ PlanIsSound

\* No flight and no alarm of a question is lost or counted twice, and the
\* tables of one report, counted one by one, agree with each other; the report
\* is about what was asked, shows what happened and only that, and its charts show every value and label
\* the dates from first to last.
ReportIsTrue ==
  /\ IntentIsUnderstood
  /\ Asks => /\ EverythingCountedOnce(input) /\ TablesAgree(input)
             /\ ReportShowsWhatHappened(input)
  /\ kind = "chart" => ChartIsReadable(input.count, input.values)

\* A reader of any of the files finds what the report has, where it belongs:
\* the four renderers agree, with the exceptions that FormatsAgree names, what
\* Pandoc makes of a text is aligned as the text says although the renderer goes
\* by position, and the preview shows what the text of the report has.
FilesAreComplete ==
  /\ kind = "document" => FormatsAgree(input.section, input.template)
  /\ kind = "report" => /\ ReportIsLaidOut(input.shown, input.reply)
                        /\ PreviewIsTheReport(input.shown, input.reply)
  /\ kind = "text" => TextIsLaidOut(input)
=============================================================================
