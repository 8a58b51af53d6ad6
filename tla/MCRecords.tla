------------------------------ MODULE MCRecords ------------------------------
(***************************************************************************)
(* Six kinds of records that come about in pieces, one at a time: the      *)
(* replay of a run and the messages of a FlyReport session, which others   *)
(* read meanwhile, what a call of a skill script leaves, the data          *)
(* collected for a report, the turns, artifacts and decisions of a         *)
(* session, and the long-term memory.  The first state chooses, and the    *)
(* others stay as they are.                                                *)
(***************************************************************************)
EXTENDS RunStream, Conversation, SkillScript, DataCollection, SessionArchive,
        LongTermMemory

-----------------------------------------------------------------------------
(* The skill packages: one that makes a file, what can be wrong with it, and  *)
(* a directory next to it that claims its name.                               *)

MakePath == "scripts/make.py"
OldPath == "scripts/old/make.py"
ScriptNames == [s \in {MakePath, OldPath} |-> "make.py"]
ScriptStems == [s \in {MakePath, OldPath} |-> "make"]

File(name, fields) ==
  [file |-> name, padded |-> FALSE, deep |-> fields # {}, fields |-> fields, with |-> <<>>]
Log == File("log", {})

MakeSpec == [BareSpec(MakePath) EXCEPT !.names = <<"title">>, !.env = {"key"},
                                       !.artifacts = <<File("out", {"title"}), Log>>]
SchemaSpec == [MakeSpec EXCEPT !.names = <<>>, !.schema = <<"title">>, !.env = {}]
Listed(specs) ==
  [form |-> "list", items |-> [k \in DOMAIN specs |-> [plain |-> FALSE, spec |-> specs[k]]]]

Maker ==
  [dir |-> "a", readable |-> TRUE, name |-> "a", blank |-> FALSE, disabled |-> FALSE,
   files |-> {"SKILL.md", MakePath}, links |-> {MakePath}, text |-> TRUE,
   specs |-> Listed(<<MakeSpec>>), needs |-> {"key"}, bins |-> {},
   packages |-> [nested |-> {{"p"}}, older |-> {{"q"}}, top |-> {}]]
Changed ==
  [Maker EXCEPT
     !.files = @ \cup {OldPath}, !.packages.top = {{"r"}},
     !.specs = [form |-> "mapping", items |-> << [plain |-> FALSE, spec |-> SchemaSpec],
                                                 [plain |-> TRUE, spec |-> BareSpec(OldPath)] >>]]

SkillDisks ==
  { <<>>, <<Changed>>, <<Maker, [Maker EXCEPT !.dir = "b"]>>, <<[Maker EXCEPT !.dir = "0"], Maker>> }
  \cup { <<p>> : p \in {
       Maker, [Maker EXCEPT !.specs = Listed(<<>>), !.text = FALSE],
       [Maker EXCEPT !.specs = Listed(<<BareSpec(None)>>)],
       [Maker EXCEPT !.specs = Listed(<<MakeSpec, MakeSpec>>)],
       [Maker EXCEPT !.files = {"SKILL.md"}], [Maker EXCEPT !.disabled = TRUE],
       [Maker EXCEPT !.bins = {"tool"}] } }

Asked == [skill |-> "a", script |-> MakePath, allow |-> TRUE, input |-> <<>>, args |-> <<>>,
          paths |-> <<>>, env |-> {}, run |-> TRUE]
Title == [n \in {"title"} |-> "x"]

SkillCalls ==
  { [Asked EXCEPT !.script = s, !.input = i, !.args = g, !.run = r] :
      s \in {MakePath, "make"}, i \in {<<>>, Title}, g \in {<<>>, <<"y">>}, r \in BOOLEAN }
  \cup { [Asked EXCEPT !.paths = p, !.env = {"key"}] :
           p \in {<<Log>>, <<[Log EXCEPT !.padded = TRUE]>>} }
  \cup { [Asked EXCEPT !.allow = FALSE], [Asked EXCEPT !.skill = "b"],
         [Asked EXCEPT !.script = "nope"], [Asked EXCEPT !.input = [n \in {"size"} |-> "x"]] }

-----------------------------------------------------------------------------
\* dept_ids: a department, or all.
OneOrAll == {<<>>, <<"d1">>}

\* Digests of words while there is no memory.
Alike == [w \in Words |-> [number |-> 0, even |-> TRUE]]

VARIABLE record  \* the kind

recordVars == <<record, vars, talkVars, skillVars, collectionVars, archiveVars,
                memoryVars>>

FollowRun ==
  /\ record = "run" /\ Next
  /\ UNCHANGED <<record, talkVars, skillVars, collectionVars, archiveVars, memoryVars>>
Converse ==
  /\ record = "session" /\ TalkNext
  /\ UNCHANGED <<record, vars, skillVars, collectionVars, archiveVars, memoryVars>>
CallScript ==
  /\ record = "script" /\ SkillNext
  /\ UNCHANGED <<record, vars, talkVars, collectionVars, archiveVars, memoryVars>>
Collect ==
  /\ record = "data" /\ CollectionNext
  /\ UNCHANGED <<record, vars, talkVars, skillVars, archiveVars, memoryVars>>
Keep ==
  /\ record = "archive" /\ ArchiveNext
  /\ UNCHANGED <<record, vars, talkVars, skillVars, collectionVars, memoryVars>>
Memorize ==
  /\ record = "memory" /\ MemoryNext
  /\ UNCHANGED <<record, vars, talkVars, skillVars, collectionVars, archiveVars>>

RecordsInit ==
  /\ record \in {"run", "session", "script", "data", "archive", "memory"}
  /\ Init /\ TalkInit /\ SkillInit /\ CollectionInit /\ ArchiveInit /\ MemoryInit
  /\ record # "run" => repository = "memory" /\ from = 0
  /\ record # "script" => disk = <<>>
  /\ record # "data" => source = "http"
  /\ record # "archive" => keeping = "memory"
  /\ record # "memory" => storage = "memory" /\ dimension = 1 /\ digest = Alike
  /\ \A f \in Fetches : asked[f] = <<>> <=> source = "sql"

RecordsNext == FollowRun \/ Converse \/ CallScript \/ Collect \/ Keep \/ Memorize

\* The event loop runs every task, and what a task awaits returns.  A run does
\* not publish for ever: RunEvents bounds it as its plan does.
RecordsSpec ==
  /\ RecordsInit /\ [][RecordsNext]_recordVars
  /\ WF_recordVars(/\ record = "run" /\ RunSteps
                   /\ UNCHANGED <<record, talkVars, skillVars, collectionVars, archiveVars,
                                  memoryVars>>)
  /\ WF_recordVars(/\ record = "run" /\ ReaderSteps
                   /\ UNCHANGED <<record, talkVars, skillVars, collectionVars, archiveVars,
                                  memoryVars>>)
  /\ WF_recordVars(/\ record = "data" /\ CollectionStep
                   /\ UNCHANGED <<record, vars, talkVars, skillVars, archiveVars,
                                  memoryVars>>)

\* Every reader's stream ends, whichever verdict the run gets, and every fetch of
\* data does, with all that it asked for.
StreamsEnd ==
  <>(/\ record = "run" => reader = "done"
     /\ record = "data" => Collected)

\* What is told of a skill script is what became of it; a report's data is all of
\* what was asked for, or the fetch fails; and what was remembered is recalled.
RecordsAreTrue ==
  /\ ScriptIsHonest /\ DatasetIsWhole /\ RequestsAreAccounted
  /\ record = "memory" => MemoryIsTrue
=============================================================================
