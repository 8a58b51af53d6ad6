--------------------------- MODULE QuestionIntent ---------------------------
(***************************************************************************)
(* From what a user writes to what a report is about: the call of the      *)
(* language model, the two readers of its replies, the label that chooses  *)
(* the branch, and the filter of a session, which every turn changes and   *)
(* of which the departments of the report are taken.                       *)
(***************************************************************************)
EXTENDS Integers, Sequences, FiniteSets, SequencesExt, FiniteSetsExt

-----------------------------------------------------------------------------
(* One call of the model *)

\* What comes of the POST: sent is "ok", "timeout" or "failed"; with an answer
\* its status, its body, what the first choice holds, and the text of it.
Answered(sent, status, body, choice, text) ==
  [sent |-> sent, status |-> status, body |-> body, choice |-> choice, text |-> text]

\* chat_response: the error it raises, or "none".  A choice holds a text, parts
\* that are texts, or something else.
ChatError(a) ==
  CASE a.sent = "timeout" -> "LMTimeoutError"
    [] a.sent = "failed" -> "LMRequestError"
    [] \/ a.status >= 400
       \/ a.body # "object"
       \/ a.choice \notin {"text", "parts"} -> "LMProviderError"
    [] OTHER -> "none"

-----------------------------------------------------------------------------
(* Reading a reply.  A text is a sequence of at most two pieces: prose, a JSON
   object with a value, an array that holds an object of that value or none
   (value "nothing"), a scalar, or braces that are no JSON; each in a code
   fence or not.                                                            *)

Piece(what, fenced, value) == [what |-> what, fenced |-> fenced, value |-> value]
NoJson == Piece("none", FALSE, "nothing")

IsJson(p) == p.what \in {"object", "array", "scalar"}
HasBraces(p) ==
  \/ p.what \in {"object", "broken"}
  \/ p.what = "array" /\ p.value # "nothing"

\* text.strip() is JSON only if it is one piece and not fenced.
Whole(text) ==
  IF Len(text) = 1 /\ ~text[1].fenced THEN SelectSeq(text, IsJson) ELSE <<>>

\* From the first opening to the last closing character, _slice_between: JSON
\* only if one piece has them all, and then what is between them.
ObjectSlice(text) ==
  LET braces == SelectSeq(text, HasBraces)
  IN IF Len(braces) = 1 /\ braces[1].what # "broken"
       THEN <<Piece("object", FALSE, braces[1].value)>> ELSE <<>>

ArraySlice(text) ==
  LET arrays == SelectSeq(text, LAMBDA p : p.what = "array")
  IN IF Len(arrays) = 1 THEN arrays ELSE <<>>

FirstPiece(pieces) == IF pieces = <<>> THEN NoJson ELSE Head(pieces)

\* Mutant: an object in the middle of prose is not found.
WholeOrFenced(text) ==
  FirstPiece(Whole(text) \o SelectSeq(text, LAMBDA p : p.fenced /\ IsJson(p)))

\* parse_json_best_effort: the first candidate that is JSON of any type.
ParsedOutput(text) ==
  FirstPiece(Whole(text) \o SelectSeq(text, LAMBDA p : p.fenced /\ IsJson(p))
               \o ObjectSlice(text) \o ArraySlice(text))

\* IntentParser._extract_json: the first braces in a fence, the whole, the braces
\* of the text; of these the first that is an object.
ExtractedJson(text) ==
  LET fences == SelectSeq(text, LAMBDA p : p.fenced /\ p.what \in {"object", "broken"})
      first == IF fences = <<>> THEN <<>> ELSE <<Head(fences)>>
  IN FirstPiece(SelectSeq(first \o Whole(text) \o ObjectSlice(text),
                          LAMBDA p : p.what = "object"))

-----------------------------------------------------------------------------
(* The branch *)

Labels == {"chitchat", "report", "data_query"}
ClassifyAttempts == 3

\* _parse_label of an answer, "none" if the call raised or nothing can be read.
Label(a) ==
  LET read == ParsedOutput(a.text)
  IN IF ChatError(a) = "none" /\ read.what = "object" /\ read.value \in Labels
       THEN read.value ELSE "none"

\* Calls of the model that classify makes, and the label; answers[n] is what the
\* n-th call would get.  A blank text is chitchat and nobody is asked.
CallsMade(blank, answers) ==
  IF blank THEN 0
  ELSE Min({n \in 1 .. ClassifyAttempts : Label(answers[n]) # "none"} \cup {ClassifyAttempts})

Classify(blank, answers) ==
  IF blank THEN "chitchat"
  ELSE LET label == Label(answers[CallsMade(blank, answers)])
       IN IF label = "none" THEN "report" ELSE label

\* parse: what it raises, or "none" and then the draft is the object's.
ParseError(blank, a) ==
  CASE blank -> "FilterParseError"
    [] ChatError(a) # "none" -> ChatError(a)
    [] ExtractedJson(a.text).value = "nothing" -> "FilterParseError"
    [] OTHER -> "none"

-----------------------------------------------------------------------------
(* The filter of a session *)

\* A draft: its period or "none", names and identifiers of departments, the scope
\* and whether it has targets, the format, what is missing, what contradicts.
Draft(period, names, ids, scope, target, format, missing, conflicts) ==
  [period |-> period, names |-> names, ids |-> ids, scope |-> scope,
   target |-> target, format |-> format, missing |-> missing, conflicts |-> conflicts]

EmptyFilter == Draft("none", {}, {}, "overall", FALSE, "docx", {}, {})

\* had_prior_spec, and what the model is shown as the existing filter.
HasPrior(filter) == filter.period # "none" \/ filter.scope # "overall"

\* Mutant: a period that is not restated is forgotten.
PeriodForgotten(base, patch) == [patch EXCEPT !.missing = {}, !.conflicts = {}]

\* merge_drafts: dimension and options are never null, so they are always taken;
\* departments are not among the fields; the complaints are reset.
MergedDrafts(base, patch) ==
  [base EXCEPT !.period = IF patch.period = "none" THEN @ ELSE patch.period,
               !.scope = patch.scope, !.target = patch.target,
               !.format = patch.format, !.missing = {}, !.conflicts = {}]

\* The filter after parsing.
Understood(filter, draft) ==
  IF HasPrior(filter) THEN MergedDrafts(filter, draft) ELSE draft

\* check_conflicts
Missing(f) == f.missing \cup IF f.period = "none" THEN {"period"} ELSE {}
Conflicts(f) == f.conflicts \cup IF f.scope # "overall" /\ ~f.target THEN {"target"} ELSE {}
NeedsClarification(f) == Missing(f) \cup Conflicts(f) # {}

-----------------------------------------------------------------------------
(* The departments.  configured is the sequence of identifiers the installation
   serves; directory the departments as the service or the table lists them,
   each with its id and a name or "".                                       *)

\* get_department_name_list_by_id_list: names in the order of the directory.
NamesListed(configured, directory) ==
  LET served == SelectSeq(directory, LAMBDA d : d.id \in Range(configured) /\ d.name # "")
  IN [n \in DOMAIN served |-> served[n].name]

\* Mutant: the names stay those of the draft.
IdsOnly(f, configured, listed) ==
  IF f.ids = {} THEN [f EXCEPT !.ids = Range(configured)] ELSE f

\* Without identifiers, all that are configured, whatever names there were.
WithDepartments(f, configured, listed) ==
  IF f.ids = {} THEN [f EXCEPT !.ids = Range(configured), !.names = Range(listed)]
  ELSE f

\* The identifiers that are asked for: names and identifiers side by side, in
\* their own orders.
Fetched(f, configured, listed) ==
  {configured[n] : n \in {k \in DOMAIN configured \cap DOMAIN listed :
                            listed[k] \in f.names}}

Everyone(directory) == {d.id : d \in Range(directory)}

\* What is fetched for them: without an identifier nothing is filtered.
Reported(ids, directory) == IF ids = {} THEN Everyone(directory) ELSE ids

-----------------------------------------------------------------------------
(* A turn of the conversation.  A talk has the filter, the rounds of questions
   back, what the last turn was, and what the report made in it is about.   *)

Talk(filter, round, state, period, depts) ==
  [filter |-> filter, round |-> round, state |-> state, period |-> period,
   depts |-> depts]

NewTalk == Talk(EmptyFilter, 0, "new", "none", {})
MaxClarifyRounds == 3

Turn(talk, draft, configured, directory) ==
  LET listed == NamesListed(configured, directory)
      f == Understood(talk.filter, draft)
      all == WithDepartments(f, configured, listed)
  IN IF NeedsClarification(f)
       THEN Talk(f, talk.round + 1,
                 IF talk.round + 1 >= MaxClarifyRounds THEN "exhausted" ELSE "clarifying",
                 "none", {})
       ELSE Talk(all, 0, "report", f.period,
                 Reported(Fetched(all, configured, listed), directory))

\* The talk after the first n drafts.
Talks(drafts, configured, directory) ==
  LET talk[n \in 0 .. Len(drafts)] ==
        IF n = 0 THEN NewTalk ELSE Turn(talk[n - 1], drafts[n], configured, directory)
  IN talk

-----------------------------------------------------------------------------
(* Properties *)

\* The two readers make the same of a reply, with two exceptions: an array or a
\* scalar that is JSON by itself, or in a fence, hides the object from the
\* classifier, which asks again; braces in a first fence that are no JSON hide an
\* object in a second fence from the parser, which gives up.
ReadersAgree(text) ==
  LET c == ParsedOutput(text)
      p == ExtractedJson(text)
      hides == \E n \in DOMAIN text :
                 text[n].what \in {"array", "scalar"} /\ (text[n].fenced \/ Len(text) = 1)
  IN /\ c.what = "object" /\ p.what = "object" => c.value = p.value
     /\ c.what # "object" /\ p.what = "object" => hides
     /\ c.what = "object" /\ p.what # "object" =>
          Len(text) = 2 /\ text[1].what = "broken" /\ text[1].fenced /\ text[2].fenced

\* The classifier gives a label no model said only if none of three answers can be
\* read, and then it is a report; an answer it need not wait for is not asked for.
\* Errors of a call never leave it, but leave the parser.
LabelIsTheModels(blank, answers) ==
  LET label == Classify(blank, answers)
      asked == CallsMade(blank, answers)
      said(n) == ChatError(answers[n]) = "none"
                   /\ \E k \in DOMAIN answers[n].text : answers[n].text[k].value = label
  IN /\ ~blank => \/ said(asked)
                  \/ label = "report" /\ asked = ClassifyAttempts
     /\ \A n \in 1 .. asked - 1 : Label(answers[n]) = "none"
     /\ ~blank /\ ParseError(blank, answers[1]) = "none" =>
          \/ ExtractedJson(answers[1].text).value \notin Labels
          \/ label = ExtractedJson(answers[1].text).value
          \/ Label(answers[1]) = "none"

\* A report is about the last period the user gave in the session, however many
\* questions back came between; only a session without a period has no report.
PeriodIsTheLast(drafts, talks) ==
  \A n \in DOMAIN drafts :
    talks[n].state = "report" =>
      \E k \in 1 .. n : /\ drafts[k].period = talks[n].period
                        /\ \A later \in k + 1 .. n : drafts[later].period = "none"
                        /\ talks[n].period # "none"

\* The user is asked back about everything the model finds missing or contradictory
\* in the first question; afterwards, when a period or a scope is known, only about
\* a scope without targets: the model's complaints are dropped.
ComplaintsAreHeard(drafts, talks) ==
  \A n \in DOMAIN drafts :
    LET complains == drafts[n].missing \cup drafts[n].conflicts # {}
    IN /\ complains /\ talks[n].state = "report" => HasPrior(talks[n - 1].filter)
       /\ HasPrior(talks[n - 1].filter) /\ talks[n - 1].filter.period # "none" =>
            (talks[n].state = "report" <=> drafts[n].scope = "overall" \/ drafts[n].target)

\* After three questions back in a row, and only then, the user is sent to the
\* examples; the talk goes on.
RoundsAreCounted(drafts, talks) ==
  \A n \in DOMAIN drafts :
    talks[n].state = "exhausted" <=>
      /\ n >= MaxClarifyRounds
      /\ \A k \in n - MaxClarifyRounds + 1 .. n : talks[k].state # "report"

\* What departments a report has: those at the positions of the configuration for
\* which there is a name, all of them if every one has a name; names alone never
\* narrow it.  With identifiers of the model, in the draft that was taken as a
\* whole, it has the positions whose names that draft has.  Where there is no such
\* position, nothing is filtered, and the report is about every department there
\* is, also those the installation does not serve.
DepartmentsAreConfigured(drafts, talks, configured, directory) ==
  LET listed == NamesListed(configured, directory)
      positions == DOMAIN configured \cap DOMAIN listed
      names == {listed[k] : k \in positions}
      unfiltered(n) ==
        \/ positions = {}
        \/ \E k \in 1 .. n : drafts[k].ids # {} /\ drafts[k].names \cap names = {}
  IN \A n \in DOMAIN drafts :
       talks[n].state = "report" =>
         /\ \/ talks[n].depts \subseteq {configured[k] : k \in positions}
            \/ talks[n].depts = Everyone(directory) /\ unfiltered(n)
         /\ (\A k \in 1 .. n : drafts[k].ids = {}) /\ positions # {} =>
              talks[n].depts = {configured[k] : k \in positions}

QuestionIsUnderstood(drafts, configured, directory) ==
  LET talks == Talks(drafts, configured, directory)
  IN /\ PeriodIsTheLast(drafts, talks)
     /\ ComplaintsAreHeard(drafts, talks)
     /\ RoundsAreCounted(drafts, talks)
     /\ DepartmentsAreConfigured(drafts, talks, configured, directory)

\* What the requirements promise: a question that names departments of the
\* directory is answered with a report about these.
DepartmentsAreThoseNamed(drafts, configured, directory) ==
  LET talks == Talks(drafts, configured, directory)
      ids(names) == {d.id : d \in {e \in Range(directory) : e.name \in names}}
  IN \A n \in DOMAIN drafts :
       talks[n].state = "report" /\ drafts[n].names # {} =>
         talks[n].depts = ids(drafts[n].names)
=============================================================================
