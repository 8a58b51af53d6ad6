----------------------------- MODULE ReportText -----------------------------
(***************************************************************************)
(* The text of a report (simple_composer.py), the preview of it that       *)
(* service.py shows, and the Word file that Pandoc and docx_renderer.py    *)
(* make of a text.                                                         *)
(*                                                                         *)
(* A text is a sequence of lines, each one of                              *)
(*   "blank", "text", "item" (of a list), "head" (a heading), "image",     *)
(*   "row" and "sep" (of a table),                                         *)
(*   "align" (::: align=center), "center" (::: {align=center}),            *)
(*   "box" (any other div), "pair" (a div whose tables go side by side)    *)
(*   and "close" (:::).                                                    *)
(* lm is what the model writes for each section, and shown the tables that *)
(* have numbers.                                                           *)
(***************************************************************************)
EXTENDS Integers, FiniteSets, Sequences, SequencesExt

\* The numbers of the lines that pass a test, in order.
Where(lines, test(_)) == SelectSeq([i \in DOMAIN lines |-> i], test)

-----------------------------------------------------------------------------
(* The text of a report *)

\* _clean_llm_markdown: one blank line at most, and none between two items.
Clean(lines) ==
  LET n == Len(lines)
      full(i) == lines[i] # "blank"
      nextFull(i) == {k \in i + 1 .. n : full(k) /\ \A j \in i + 1 .. k - 1 : ~full(j)}
      kept(i) == \/ full(i)
                 \/ /\ i > 1 /\ full(i - 1)
                    /\ \E k \in nextFull(i) :
                         ~(lines[i - 1] = "item" /\ lines[k] = "item")
      order == Where(lines, kept)
  IN [j \in DOMAIN order |-> lines[order[j]]]

Blank == <<"blank">>
Chart == <<"image">> \o Blank
Text == <<"text">> \o Blank

\* dict_table_to_markdown between ::: {align=center} and :::
Centered == <<"center", "row", "sep", "row", "close">> \o Blank

\* Every section has its heading, and the hint if it has nothing to show.
Section(shown, body) ==
  <<"head">> \o Blank \o (IF shown = {} THEN Text ELSE body)

WhenShown(shown, table, body) == IF table \in shown THEN body ELSE Text

\* build_report_meta_section: three lines of one paragraph
Meta == <<"text", "text", "text">> \o Blank

OverviewSection(shown, lm) ==
  Section(shown, <<"box">> \o lm \o <<"close">> \o Blank)

OverallSection(shown, lm) ==
  Section(shown \cap {"flight_stat_overall"}, Centered \o Text \o lm \o Blank)

DayTrendSection(shown, lm) ==
  Section(shown \cap {"flight_stat_day_trend"},
          Chart \o Text \o Centered \o Text \o lm \o Blank)

DepartmentSection(shown, lm) ==
  Section(shown \cap {"flight_stat_department_share"},
          Chart \o Centered \o Text \o lm \o Blank)

AlgorithmSection(shown) ==
  Section(shown \cap {"algorithm_recognition_overall",
                      "algorithm_recognition_distribution"},
    (IF "algorithm_recognition_overall" \in shown THEN Centered ELSE <<>>)
      \o Text
      \o WhenShown(shown, "algorithm_recognition_distribution",
                   Chart \o Centered))

DisposalSection(shown) ==
  Section(shown \cap {"algorithm_disposal_summary", "algorithm_push_events"},
    WhenShown(shown, "algorithm_disposal_summary", Text \o Chart \o Centered)
      \o Text \o WhenShown(shown, "algorithm_push_events", Centered))

HotspotSection(shown) ==
  Section(shown \cap {"algorithm_high_frequency_locations",
                      "algorithm_high_frequency_time_slots"},
    Text \o WhenShown(shown, "algorithm_high_frequency_locations", Centered)
      \o Text \o WhenShown(shown, "algorithm_high_frequency_time_slots", Centered))

MediaSection(shown) ==
  Section(shown \cap {"media_collection_summary"}, Text \o Centered)

\* build_summary_section is written whatever there is to show.
SummarySection(lm) ==
  <<"head">> \o Blank \o Text \o lm \o Blank \o Text \o lm \o Blank

\* compose_report_context with the sections of _REPORT_TEMPLATE
Report(shown, reply) ==
  LET lm == Clean(reply)
  IN Meta \o OverviewSection(shown, lm) \o OverallSection(shown, lm)
       \o DayTrendSection(shown, lm) \o DepartmentSection(shown, lm)
       \o AlgorithmSection(shown) \o DisposalSection(shown)
       \o HotspotSection(shown) \o MediaSection(shown) \o SummarySection(lm)

ChartTables == {"flight_stat_day_trend", "flight_stat_department_share",
                "algorithm_recognition_distribution",
                "algorithm_disposal_summary"}

-----------------------------------------------------------------------------
(* Reading a text line by line *)

Rows == {"row", "sep"}

\* The first line of the run of rows that line i is in.
RunStart(lines, i) ==
  CHOOSE k \in 1 .. i : /\ \A j \in k .. i : lines[j] \in Rows
                        /\ k > 1 => lines[k - 1] \notin Rows

\* _is_markdown_table_start, and the loops that go on to the end of the rows: a
\* run of rows is one table, from its first row that is followed by dashes.
IsTableStart(lines, i) ==
  /\ lines[i] \in Rows
  /\ i < Len(lines) /\ lines[i + 1] = "sep"
  /\ \A k \in RunStart(lines, i) .. i - 1 : lines[k + 1] # "sep"

TableStarts(lines) ==
  Where(lines, LAMBDA i : IsTableStart(lines, i))

\* _normalize_markdown_for_pandoc
Normalized(title, lines) ==
  (IF title THEN <<"head">> \o Blank ELSE <<>>)
    \o [i \in DOMAIN lines |-> IF lines[i] = "align" THEN "center" ELSE lines[i]]

\* The alignment that holds at line i without nesting: of the last directive,
\* which any ::: ends.
LastDirective(lines, i, directives) ==
  LET before == {j \in 1 .. i - 1 : lines[j] \in directives \cup {"close"}}
      last == CHOOSE j \in before : \A k \in before : k <= j
  IN IF before # {} /\ lines[last] # "close" THEN "center" ELSE "left"

\* _pandoc_paragraph_alignments: one entry for a line; a div that is no
\* directive counts as a line of text.
ParagraphAlignments(lines) ==
  LET order == Where(lines, LAMBDA i :
                 lines[i] \notin Rows \cup {"blank", "align", "center", "close"})
  IN [k \in DOMAIN order |->
        LastDirective(lines, order[k], {"align", "center"})]

\* _pandoc_table_layouts: the alignment is restored when a div is closed.
Divs == {"align", "center", "box", "pair"}

\* Mutant: the alignment is forgotten at the end of a div, as for paragraphs.
DivStatesWithoutPrevious(lines) ==
  LET state[i \in 0 .. Len(lines)] ==
        IF i = 0 THEN [align |-> "left", stack |-> <<>>]
        ELSE LET s == state[i - 1]
             IN IF lines[i] \in Divs
                  THEN [align |-> IF lines[i] \in {"align", "center"} THEN "center"
                                  ELSE "left",
                        stack |-> Append(s.stack, [previous |-> "left", line |-> i])]
                ELSE IF lines[i] = "close" /\ s.stack # <<>>
                  THEN [align |-> "left", stack |-> Front(s.stack)]
                ELSE s
  IN state

DivStates(lines) ==
  LET state[i \in 0 .. Len(lines)] ==
        IF i = 0 THEN [align |-> "left", stack |-> <<>>]
        ELSE LET s == state[i - 1]
             IN IF lines[i] \in Divs
                  THEN [align |-> IF lines[i] \in {"align", "center"} THEN "center"
                                  ELSE s.align,
                        stack |-> Append(s.stack, [previous |-> s.align, line |-> i])]
                ELSE IF lines[i] = "close" /\ s.stack # <<>>
                  THEN [align |-> Last(s.stack).previous, stack |-> Front(s.stack)]
                ELSE s
  IN state

TableAlignments(lines) ==
  LET starts == TableStarts(lines)
  IN [t \in DOMAIN starts |-> DivStates(lines)[starts[t]].align]

\* The lines of the pair divs, each with the line that closes it.
PairDivs(lines) ==
  LET states == DivStates(lines)
      closes(o, c) == /\ lines[o] = "pair" /\ lines[c] = "close"
                      /\ states[c - 1].stack # <<>>
                      /\ Last(states[c - 1].stack).line = o
  IN {d \in (1 .. Len(lines)) \X (1 .. Len(lines)) : closes(d[1], d[2])}

\* Tables one and two of a pair div are a pair, and three and four; a div that
\* is not closed has none.
TablePairs(lines) ==
  LET starts == TableStarts(lines)
      inside(d) == SelectSeq([t \in DOMAIN starts |-> t],
                             LAMBDA t : d[1] < starts[t] /\ starts[t] < d[2])
  IN UNION {{<<inside(d)[2 * k - 1], inside(d)[2 * k]>> :
               k \in 1 .. Len(inside(d)) \div 2} : d \in PairDivs(lines)}

\* _write_markdown_document writes such a text where it is one block of a report of
\* blocks, without Pandoc: what is not a directive is written, with the alignment
\* of the last ::: align=.
WrittenLines(lines) ==
  {i \in DOMAIN lines :
     /\ lines[i] \notin {"blank", "align", "close"}
     /\ lines[i] = "sep" =>
          ~\E s \in 1 .. i - 1 : IsTableStart(lines, s) /\ RunStart(lines, i) <= s}

WrittenAlignment(lines, i) == LastDirective(lines, i, {"align"})

-----------------------------------------------------------------------------
(* The Word file *)

\* Pandoc: a table or a list has to follow a blank line, a heading or the edge
\* of a div; the items of a list and the images of a report are paragraphs of
\* their own, and other lines go on with the paragraph before them.
AtBlockStart(lines, i) ==
  i = 1 \/ lines[i - 1] \in {"blank", "head", "close"} \cup Divs

PandocTables(lines) ==
  SelectSeq(TableStarts(lines),
            LAMBDA i : i = RunStart(lines, i) /\ AtBlockStart(lines, i))

PandocParagraphs(lines) ==
  Where(lines, LAMBDA i :
    /\ lines[i] \notin {"blank", "close"} \cup Divs
    /\ \/ lines[i] \notin Rows /\ AtBlockStart(lines, i)
       \/ lines[i] = "item" /\ i > 1 /\ lines[i - 1] = "item")

\* _apply_pandoc_alignment goes by position, and so do the two after it;
\* _apply_pandoc_image_alignment comes last and asks the image.
ParagraphsOf(lines) ==
  LET paragraphs == PandocParagraphs(lines)
      alignments == ParagraphAlignments(lines)
  IN [k \in DOMAIN paragraphs |->
        [line |-> paragraphs[k],
         align |-> IF lines[paragraphs[k]] = "image" THEN "center"
                   ELSE IF k <= Len(alignments) THEN alignments[k] ELSE "left"]]

\* _apply_pandoc_table_layouts: a table in a pair is put beside the other.
TablesOf(lines) ==
  LET tables == PandocTables(lines)
      alignments == TableAlignments(lines)
      pairs == {p \in TablePairs(lines) : p[1] <= Len(tables) /\ p[2] <= Len(tables)}
      beside(t) == {p \in pairs : t \in {p[1], p[2]}}
  IN [t \in DOMAIN tables |->
        [line |-> tables[t],
         align |-> IF beside(t) = {} THEN alignments[t]
                   ELSE IF \E p \in beside(t) : p[1] = t THEN "left" ELSE "right",
         beside |-> beside(t)]]

-----------------------------------------------------------------------------
(* What is shown of a text before there is a file: _markdown_to_preview_body,
   which knows headings, images and tables by how their lines begin.       *)

\* The last line of the run of rows that line i is in.
RunEnd(lines, i) ==
  CHOOSE k \in i .. Len(lines) : /\ \A j \in i .. k : lines[j] \in Rows
                                 /\ k < Len(lines) => lines[k + 1] \notin Rows

\* _render_markdown_table: rows of dashes go.
TableRows(lines, i) ==
  SelectSeq([k \in 1 .. RunEnd(lines, i) - i + 1 |-> i + k - 1],
            LAMBDA k : lines[k] # "sep")

\* Mutant: a table for every line of it.
BeginsPartByLine(lines, i) == lines[i] # "blank"

\* A line that begins a part of the preview; all rows of a run are one part.
BeginsPart(lines, i) ==
  lines[i] # "blank" /\ (lines[i] \in Rows => i = RunStart(lines, i))

PartAs(line) == CASE line = "head" -> "heading" [] line = "image" -> "image"
                  [] line \in Rows -> "table"   [] OTHER -> "paragraph"

\* Lines that open or close a div are shown as paragraphs.
PreviewBody(lines) ==
  LET begins == Where(lines, LAMBDA i : BeginsPart(lines, i))
  IN [k \in DOMAIN begins |->
        [line |-> begins[k], as |-> PartAs(lines[begins[k]]),
         rows |-> IF lines[begins[k]] \in Rows THEN TableRows(lines, begins[k])
                  ELSE <<>>]]

\* _context_section_summaries: the headings, counted.
SectionSummaries(lines) ==
  LET heads == Where(lines, LAMBDA i : lines[i] = "head")
  IN [k \in DOMAIN heads |-> [id |-> k, line |-> heads[k]]]

\* _context_preview_brief: the first eight lines of words.
ExcerptLines == 8

PreviewBrief(lines) ==
  LET words == Where(lines, LAMBDA i : lines[i] \notin Rows \cup {"blank", "image"})
  IN [sections |-> Len(SectionSummaries(lines)),
      excerpt |-> SubSeq(words, 1, IF Len(words) < ExcerptLines THEN Len(words)
                                   ELSE ExcerptLines)]

-----------------------------------------------------------------------------
(* Properties *)

\* The report has every table that has numbers, once and in the middle of the
\* page, and its charts; headings, hints and the model's words are at the left,
\* and every item of the model's is an item of a list.  It holds for a reply
\* whose tables and lists follow a blank line: the renderer takes a table that
\* does not for one, Pandoc does not, and all later tables are aligned wrongly.
ReportIsLaidOut(shown, reply) ==
  LET lines == Normalized(TRUE, Report(shown, reply))
      tables == Range(TablesOf(lines))
      ours == {t \in tables : lines[t.line - 1] = "center"}
      paragraphs == Range(ParagraphsOf(lines))
      ofReply(kind) == Cardinality({i \in DOMAIN reply : reply[i] = kind})
      replies == 2 + Cardinality(shown \cap {"flight_stat_overall", "flight_stat_day_trend",
                                             "flight_stat_department_share"})
                   + (IF shown = {} THEN 0 ELSE 1)
  IN /\ Cardinality(ours) = Cardinality(shown)
     /\ \A t \in ours : t.align = "center"
     /\ \A t \in tables \ ours : t.align = "left"
     /\ Cardinality(tables \ ours) = replies * ofReply("sep")
     /\ {p \in paragraphs : p.align = "center"} =
          {p \in paragraphs : lines[p.line] = "image"}
     /\ Cardinality({p \in paragraphs : lines[p.line] = "image"})
          = Cardinality(shown \cap ChartTables)
     /\ Cardinality({p \in paragraphs : lines[p.line] = "item"})
          = replies * ofReply("item")

\* A user who reads the preview reads the report that is filed: the headings,
\* images and tables of the preview are those of the Word file in their order,
\* a table with all its rows but the one of dashes.  The summary of a message
\* counts these headings, and its excerpt has words of the preview only.
PreviewIsTheReport(shown, reply) ==
  LET lines == Report(shown, reply)
      body == PreviewBody(lines)
      parts(as) == {i \in DOMAIN lines : \E p \in Range(body) : p.line = i /\ p.as = as}
      tables == Range(PandocTables(lines))
      paragraphs(as) == {i \in Range(PandocParagraphs(lines)) : lines[i] = as}
      brief == PreviewBrief(lines)
  IN /\ \A j, k \in DOMAIN body : j < k => body[j].line < body[k].line
     /\ parts("table") = tables
     /\ parts("heading") = paragraphs("head") /\ parts("image") = paragraphs("image")
     /\ \A p \in Range(body) : p.as = "table" =>
          /\ p.rows[1] = p.line
          /\ Len(p.rows) = RunEnd(lines, p.line) - p.line
     /\ brief.sections = Cardinality(parts("heading"))
     /\ Range(brief.excerpt) \subseteq parts("heading") \cup parts("paragraph")

\* A line stands in a div that is open there, and the div says so.
Said(lines, i) ==
  LET opens(o, c) == Cardinality({k \in o .. c : lines[k] \in Divs})
      closes(o, c) == Cardinality({k \in o .. c : lines[k] = "close"})
      centers(o) == /\ lines[o] \in {"align", "center"}
                    /\ \A c \in o .. i : opens(o, c) > closes(o, c)
  IN IF \E o \in 1 .. i : centers(o) THEN "center" ELSE "left"

\* A text whose paragraphs are single lines is laid out as it is written.
\* Tables take the alignment of the div they stand in; two tables of a pair go
\* side by side in their order, and no table is in two pairs.  Paragraphs take
\* theirs too, and the way without Pandoc writes the same lines with the same
\* alignment, if directives are not nested and there is no other div: the
\* renderer counts the line that opens one as a paragraph.
TextIsLaidOut(text) ==
  LET lines == Normalized(FALSE, text)
      tables == TablesOf(lines)
      pairs == TablePairs(lines)
  IN /\ \A t \in Range(tables) :
          /\ Cardinality(t.beside) <= 1
          /\ t.beside = {} => t.align = Said(lines, t.line)
     /\ \A p \in pairs :
          /\ p[2] = p[1] + 1
          /\ tables[p[1]].align = "left" /\ tables[p[2]].align = "right"
     /\ Range(text) \cap {"center", "box", "pair"} = {} =>
          /\ \A p \in Range(ParagraphsOf(lines)) :
               lines[p.line] # "image" =>
                 /\ p.align = Said(lines, p.line)
                 /\ p.align = WrittenAlignment(text, p.line)
          /\ WrittenLines(text) =
               {i \in DOMAIN text : text[i] \notin {"blank", "align", "close", "sep"}}
=============================================================================
