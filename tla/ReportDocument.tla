--------------------------- MODULE ReportDocument ---------------------------
(***************************************************************************)
(* How a report becomes a file.                                            *)
(*                                                                         *)
(* A report of sections and blocks is written by four renderers: Word,     *)
(* Markdown and PDF files (export/) and the preview (composer/).  A block  *)
(* is a record [id, kind, has], has being which of its fields are filled,  *)
(* with "rows" for a table given as columns and rows and "file" for an     *)
(* image that exists.  A section is [id, blocks, legacy, children]: legacy *)
(* is which of the older fields are filled, read only without blocks.  Of  *)
(* key figures, in a block or in the field "kpis", "previous" is the value *)
(* of the period before, "change" the change since.                        *)
(***************************************************************************)
EXTENDS Integers, FiniteSets, Sequences, SequencesExt

-----------------------------------------------------------------------------
(* Sections and blocks *)

ChartKinds == {"chart", "chart_text"}
Comparisons == {"previous", "change"}

\* What every renderer shows of a block; breaks and spacers show nothing.
PlainParts(b) ==
  CASE b.kind \in {"heading", "markdown", "callout"} -> {"text"}
    [] b.kind = "list" -> {"items"}
    [] b.kind = "kpi_group" -> {"kpis"} \cup (b.has \cap Comparisons)
    [] b.kind \in {"page_break", "spacer"} -> {}

ChartCaption(b) == IF "caption" \in b.has THEN {"caption"} ELSE {"title"}
TableCaption(b) ==
  IF "caption" \in b.has THEN {"caption"} ELSE b.has \cap {"title"}
AfterChart(b) == IF b.kind = "chart_text" THEN b.has \cap {"text"} ELSE {}

\* _write_block: a chart or an image is shown when its file is there.
DocxParts(b, drawn) ==
  CASE b.kind = "paragraph" ->
         IF "runs" \in b.has THEN {"runs"} ELSE b.has \cap {"text"}
    [] b.kind = "table" ->
         IF "rows" \in b.has THEN {"rows"} \cup TableCaption(b) ELSE {}
    [] b.kind \in ChartKinds ->
         AfterChart(b) \cup
           (IF b.id \in drawn THEN {"picture"} \cup ChartCaption(b) ELSE {})
    [] b.kind = "image" ->
         IF "file" \in b.has THEN {"picture"} \cup (b.has \cap {"caption"})
         ELSE {}
    [] OTHER -> PlainParts(b)

\* _block_markdown: charts and images are links; a table always has a title.
MarkdownParts(b) ==
  CASE b.kind = "paragraph" ->
         IF "runs" \in b.has THEN {"runs"} ELSE b.has \cap {"text"}
    [] b.kind = "table" ->
         (b.has \cap {"rows"}) \cup
           (IF "caption" \in b.has THEN {"caption"} ELSE {"title"})
    [] b.kind \in ChartKinds -> {"picture"} \cup ChartCaption(b) \cup AfterChart(b)
    [] b.kind = "image" -> {"picture"} \cup (b.has \cap {"caption"})
    [] OTHER -> PlainParts(b)

\* _block_html
HtmlParts(b) ==
  CASE b.kind = "table" -> (b.has \cap {"rows"}) \cup TableCaption(b)
    [] OTHER -> MarkdownParts(b)

\* _render_block of the preview: a text hides the runs, a table has no
\* caption, the data of a chart stand for its picture, and key figures are not
\* compared.
PreviewParts(b) ==
  CASE b.kind = "paragraph" ->
         IF "text" \in b.has THEN {"text"} ELSE b.has \cap {"runs"}
    [] b.kind = "table" -> b.has \cap {"rows"}
    [] b.kind \in ChartKinds ->
         {"picture", "title"} \cup (b.has \cap {"caption"}) \cup AfterChart(b)
    [] b.kind = "image" -> {"picture"} \cup (b.has \cap {"caption"})
    [] OTHER -> PlainParts(b) \ Comparisons

\* _collect_charts: what BaseRenderer.render draws before it writes.
RECURSIVE Charts(_)
Charts(s) ==
  {b.id : b \in {c \in Range(s.blocks) : c.kind \in ChartKinds}}
    \cup (IF "charts" \in s.legacy THEN {s.id} ELSE {})
    \cup UNION {Charts(child) : child \in Range(s.children)}

Title(s) == <<<<s.id, {"heading"}>>>>
Blocks(s, parts(_)) == [i \in DOMAIN s.blocks |->
                          <<s.blocks[i].id, parts(s.blocks[i])>>]
OfChildren(s, body(_)) ==
  FlattenSeq([i \in DOMAIN s.children |-> body(s.children[i])])

\* _write_section, _write_legacy_section_body
RECURSIVE DocxSection(_, _)
DocxSection(s, drawn) ==
  Title(s)
    \o (IF s.blocks # <<>> THEN Blocks(s, LAMBDA b : DocxParts(b, drawn))
        ELSE <<<<s.id, {p \in s.legacy : p = "charts" => s.id \in drawn}>>>>)
    \o OfChildren(s, LAMBDA child : DocxSection(child, drawn))

Docx(s) == DocxSection(s, Charts(s))

\* _section_blocks_markdown and _section_blocks_html, with the bodies of
\* children that have older fields only; what is below those is left out.
RECURSIVE Below(_, _)
Below(s, format) ==
  Blocks(s, LAMBDA b : IF format = "pdf" THEN HtmlParts(b) ELSE MarkdownParts(b))
    \o OfChildren(s, LAMBDA child :
         Title(child) \o (IF child.blocks # <<>> THEN Below(child, format)
                          ELSE <<<<child.id, child.legacy>>>>))

\* What the Markdown templates and the PDF body print of the older fields.
MarkdownTemplate(preset) ==
  {"summary", "kpis", "change", "charts"}
    \cup (IF preset = "minimal" THEN {} ELSE {"tables"})
    \cup (IF preset \in {"minimal", "dashboard"} THEN {} ELSE {"previous"})
PdfTemplate == {"summary", "kpis", "tables"} \cup Comparisons

\* _section_view, and what the template makes of it.
View(s, format, template) ==
  Title(s) \o (IF s.blocks # <<>> THEN Below(s, format)
               ELSE <<<<s.id, s.legacy \cap template>>>>)

Markdown(s, preset) == View(s, "markdown", MarkdownTemplate(preset))
Pdf(s) == View(s, "pdf", PdfTemplate)

\* _render_section of the preview
RECURSIVE Preview(_)
Preview(s) ==
  Title(s)
    \o (IF s.blocks # <<>> THEN Blocks(s, PreviewParts)
        ELSE <<<<s.id, s.legacy \ Comparisons>>>>)
    \o OfChildren(s, Preview)

PresetNames == {"default_zh", "gov_formal", "dashboard", "minimal"}

\* TemplateLoader.load: whatever is asked for, there is a template.
Load(ref) == IF ref \in PresetNames THEN ref ELSE "default"

-----------------------------------------------------------------------------
(* Properties *)

\* What is in a block to be read; captions are left aside.
Contents(b) ==
  (b.has \cap ({"text", "runs", "rows"} \cup Comparisons))
    \cup (CASE b.kind \in {"heading", "markdown", "callout"} -> {"text"}
            [] b.kind = "list" -> {"items"}
            [] b.kind = "kpi_group" -> {"kpis"}
            [] b.kind \in ChartKinds \cup {"image"} -> {"picture"}
            [] OTHER -> {})

RECURSIVE Written(_)
Written(s) ==
  Title(s)
    \o (IF s.blocks # <<>> THEN Blocks(s, Contents) ELSE <<<<s.id, s.legacy>>>>)
    \o OfChildren(s, Written)

\* What is read of the parts when some of them are left aside.
ReadBut(parts, aside) ==
  LET contents == [i \in DOMAIN parts |-> <<parts[i][1], parts[i][2] \ aside>>]
  IN SelectSeq(contents, LAMBDA part : part[2] # {})

Captions == {"caption", "title"}
Read(parts) == ReadBut(parts, Captions)

RECURSIVE Trimmed(_)
Trimmed(s) ==
  [s EXCEPT !.children =
     [i \in DOMAIN s.children |->
        IF s.children[i].blocks # <<>> THEN Trimmed(s.children[i])
        ELSE [s.children[i] EXCEPT !.children = <<>>]]]

\* The part of a section a view keeps: of a section that has older fields
\* only, and of one below the top level, the children are lost.
Kept(s, template) ==
  IF s.blocks # <<>> THEN Trimmed(s)
  ELSE [s EXCEPT !.legacy = s.legacy \cap template, !.children = <<>>]

\* However a section is put together, all that is in it can be read in the
\* Word file, in the same order; in the preview too, but for the comparisons of
\* key figures; and in the Markdown and PDF files too, but for the fields their
\* template leaves out (two presets leave out the previous values, too) and the
\* children of sections that have older fields only.  It holds when images are
\* there, tables have rows, and a paragraph has a text or runs.
FormatsAgree(s, ref) ==
  LET preset == Load(ref)
  IN /\ Read(Docx(s)) = Read(Written(s))
     /\ Read(Preview(s)) = ReadBut(Written(s), Captions \cup Comparisons)
     /\ Read(Markdown(s, preset)) = Read(Written(Kept(s, MarkdownTemplate(preset))))
     /\ Read(Pdf(s)) = Read(Written(Kept(s, PdfTemplate)))
=============================================================================
