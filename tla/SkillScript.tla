---------------------------- MODULE SkillScript ----------------------------
(***************************************************************************)
(* One call of run_skill_script, from the skill packages on the disk to    *)
(* the files that are stored: what of a package is read and believed, what *)
(* the command in the sandbox is made of, what is collected, and what the  *)
(* caller and the event bus are told.  The packages are read anew for      *)
(* every call, twice in it, and may be edited in between.  The life of the *)
(* sandbox itself is in SandboxLease.                                      *)
(*                                                                         *)
(* A package is read with [dir, readable, name, blank, disabled, files,    *)
(* links, text, specs, packages, needs, bins]; disks are sequences of them *)
(* by the name of the directory.  A spec is what script_specs says of one  *)
(* script: [path, names, schema, artifacts, env].                          *)
(***************************************************************************)
EXTENDS Naturals, FiniteSets, Sequences, SequencesExt

CONSTANTS
  Disks,      \* what the skill directory may hold
  Calls,      \* what may be asked: [skill, script, allow, input, args, paths, env, run]
  FileName,   \* of a script: its path without the directories
  Stem,       \* of a script: its file name without the extension
  HostEnv,    \* variables that the process has
  HostBins,   \* programs that the process finds
  MaxEdits    \* bound: how often the directory is edited

ASSUME SkillAssumption == \A d \in Disks : Len(d) \in Nat /\ DOMAIN d = 1 .. Len(d)

VARIABLES
  disk,       \* what the skill directory holds
  call,       \* what was asked
  entry,      \* the package that was chosen for it, or NoEntry
  promised,   \* the paths of files to collect
  command,    \* what runs in the sandbox, in order
  written,    \* files of the package that were put into the sandbox
  box,        \* the sandbox: "none", "live", "gone" or "lost"
  done,       \* how many parts of the command worked, and what it printed
  collected,  \* files that were read from the sandbox
  stored,     \* files that the artifact repository has
  told,       \* what was published and heard
  answer,     \* what the caller got, or NoAnswer
  step, edits

skillVars == <<disk, call, entry, promised, command, written, box, done,
               collected, stored, told, answer, step, edits>>

None == "none"
NoCall == [skill |-> None]
NoAnswer == [kind |-> None, category |-> None]
NoRun == [parts |-> 0, printed |-> None]

-----------------------------------------------------------------------------
(* What a package says *)

\* _normalize_runtime_requirements: an older field adds to the nested one, and
\* a field of the same name at the top replaces both; each is a set of at most
\* one set of packages.
Requirements(p) == UNION (IF p.top # {} THEN p.top ELSE p.nested \cup p.older)

BareSpec(path) == [path |-> path, names |-> <<>>, schema |-> <<>>, artifacts |-> <<>>,
                   env |-> {}]

\* _normalize_script_specs: a mapping has the path as its key, and an item that
\* is no mapping has no more than that; a list keeps mappings only.
Specs(raw) ==
  CASE raw.form = "mapping" ->
         [k \in DOMAIN raw.items |-> IF raw.items[k].plain THEN BareSpec(raw.items[k].spec.path)
                                     ELSE raw.items[k].spec]
    [] raw.form = "list" ->
         LET kept == SelectSeq(raw.items, LAMBDA x : ~x.plain)
         IN [k \in DOMAIN kept |-> kept[k].spec]
    [] OTHER -> <<>>

\* A list may hold a spec without a path, which the metadata does not take.
Parses(p) ==
  /\ p.readable
  /\ \A k \in DOMAIN Specs(p.specs) : Specs(p.specs)[k].path # None

Scripts(p) == { f \in p.files : f \in DOMAIN FileName }

\* validate_parsed_skill.
Valid(p) ==
  LET specs == Specs(p.specs)
  IN /\ ~p.blank /\ p.name = p.dir
     /\ \A k \in DOMAIN specs : specs[k].path \in Scripts(p)
     /\ \A j, k \in DOMAIN specs : specs[j].path = specs[k].path => j = k
     /\ p.links \subseteq p.files

\* load_skill_dir: what cannot be read goes by the name of its directory.
Entry(p) ==
  IF Parses(p)
  THEN [name |-> p.name, dir |-> p.dir, valid |-> Valid(p), disabled |-> p.disabled,
        scripts |-> Scripts(p), specs |-> Specs(p.specs),
        packages |-> Requirements(p.packages), needs |-> p.needs, bins |-> p.bins]
  ELSE [name |-> p.dir, dir |-> p.dir, valid |-> FALSE, disabled |-> FALSE,
        scripts |-> {}, specs |-> <<>>, packages |-> {}, needs |-> {},
        bins |-> {}]

NoEntry == [name |-> None, dir |-> None, valid |-> FALSE, disabled |-> FALSE,
            scripts |-> {}, specs |-> <<>>, packages |-> {}, needs |-> {},
            bins |-> {}]

\* Mutant: the first package of a name is the one that is registered, whatever
\* it is worth.
FirstOfName(d, name) ==
  LET named == { k \in DOMAIN d : Entry(d[k]).name = name }
  IN IF named = {} THEN NoEntry ELSE Entry(d[Min(named)])

\* load_skill_registry: a later package takes the place of an earlier one that
\* goes by the same name.
Registered(d, name) ==
  LET named == { k \in DOMAIN d : Entry(d[k]).name = name }
  IN IF named = {} THEN NoEntry ELSE Entry(d[Max(named)])

\* What a catalog shows.
Offered(d) ==
  { e \in { Registered(d, Entry(d[k]).name) : k \in DOMAIN d } : e.valid /\ ~e.disabled }

\* get_skill_entry, when it does not raise.
Usable(e) == e # NoEntry /\ e.valid /\ ~e.disabled

-----------------------------------------------------------------------------
(* What is asked of it *)

\* _resolve_declared_script_path: a path, or the only script of that file name
\* or stem.
Resolved(e, script) ==
  LET matches == { s \in e.scripts : FileName[s] = script \/ Stem[s] = script }
  IN IF script \notin e.scripts /\ Cardinality(matches) = 1
     THEN CHOOSE s \in matches : TRUE
     ELSE script

SpecOf(e, script) ==
  LET found == SelectSeq(e.specs, LAMBDA x : x.path = script)
  IN IF found = <<>> THEN BareSpec(None) ELSE Head(found)

ArgumentNames(spec) == IF spec.names # <<>> THEN spec.names ELSE spec.schema

\* _resolve_execution_policy makes arguments of structured input when there are
\* none.
FromInput(spec) == spec.path # None /\ call.args = <<>> /\ DOMAIN call.input # {}

InputFits(spec) ==
  FromInput(spec) => /\ ArgumentNames(spec) # <<>>
                     /\ Range(ArgumentNames(spec)) \subseteq DOMAIN call.input

Arguments(spec) ==
  IF FromInput(spec)
  THEN [k \in DOMAIN ArgumentNames(spec) |-> call.input[ArgumentNames(spec)[k]]]
  ELSE call.args

\* What stands in the templates of artifact paths: the input, and the arguments
\* whose name it lacks.
Filling(spec) ==
  LET names == ArgumentNames(spec)
      given == { k \in DOMAIN names : k <= Len(Arguments(spec)) }
      from(n) == CHOOSE k \in given : names[k] = n /\ \A j \in given : names[j] = n => k <= j
  IN [n \in DOMAIN call.input \cup { names[k] : k \in given } |->
        IF n \in DOMAIN call.input THEN call.input[n] ELSE Arguments(spec)[from(n)]]

\* _expand_artifact_path_template: one that lacks a value stays as it is.
Expanded(t, filling) ==
  IF t.fields \subseteq DOMAIN filling
  THEN [t EXCEPT !.with = [n \in t.fields |-> filling[n]]]
  ELSE t

ArtifactPaths(spec) ==
  IF call.paths # <<>> THEN call.paths
  ELSE [k \in DOMAIN spec.artifacts |-> Expanded(spec.artifacts[k], Filling(spec))]

\* _collect_artifacts works with the path without blanks around it.
Trimmed(path) == [path EXCEPT !.padded = FALSE]

\* _build_command: each part runs when those before it worked.  The installs of
\* every kind are one part; variables are set before, which cannot fail.
Command(e, spec, script) ==
  (IF e.packages = {} THEN <<>> ELSE << [part |-> "install", of |-> e.packages] >>)
  \o (IF \E k \in DOMAIN ArtifactPaths(spec) : ArtifactPaths(spec)[k].deep
      THEN << [part |-> "mkdir", of |-> {}] >> ELSE <<>>)
  \o << [part |-> "script", of |-> {script}] >>

-----------------------------------------------------------------------------
(* The call *)

Tell(event) == told' = Append(told, event)

End(kind, category) ==
  /\ answer' = [kind |-> kind, category |-> category]
  /\ step' = "ended"

\* A publication waits for everybody who listens and raises what one of them
\* raises; the event may have been heard by then, or be lost.
TellRaises(event) == told' \in {told, Append(told, event)} /\ End("untold", None)

\* _classify_failure of an exception, and skill.script.failed.
Fail(category) ==
  LET event == [topic |-> "failed", category |-> category, files |-> <<>>]
  IN \/ Tell(event) /\ End("error", category)
     \/ TellRaises(event)

Started == [topic |-> "started", category |-> None, files |-> <<>>]

SkillInit ==
  /\ disk \in Disks /\ call = NoCall /\ entry = NoEntry
  /\ promised = <<>> /\ command = <<>> /\ written = {} /\ box = "none"
  /\ done = NoRun /\ collected = {} /\ stored = <<>> /\ told = <<>>
  /\ answer = NoAnswer /\ step = "idle" /\ edits = 0

\* What the runner is told a package has.
Inventory(e) == IF Usable(e) THEN e.scripts ELSE {}

\* The runner looks for the script itself, before it runs the tool.
AskForScript ==
  /\ step = "idle" /\ step' = "asked"
  /\ \E c \in Calls :
       LET has == [scripts |-> Inventory(Registered(disk, c.skill))]
       IN call' = [c EXCEPT !.script = Resolved(has, @)]
  /\ UNCHANGED <<disk, entry, promised, command, written, box, done, collected, stored,
                 told, answer, edits>>

\* What is asked for, by the runner or by another caller of the service.
Requested == IF step = "asked" THEN {call} ELSE Calls

\* Mutant: the package is looked up among all that there are.
RunAny ==
  /\ step \in {"idle", "asked"}
  /\ \E c \in Requested :
       LET e == FirstOfName(disk, c.skill)
       IN /\ call' = c /\ entry' = e
          /\ IF Usable(e)
             THEN Tell(Started) /\ step' = "started" /\ UNCHANGED answer
             ELSE End("error", None) /\ UNCHANGED told
  /\ UNCHANGED <<disk, promised, command, written, box, done, collected, stored, edits>>

\* run_skill_script, up to skill.script.started; the package may not be usable.
RunScript ==
  /\ step \in {"idle", "asked"}
  /\ \E c \in Requested :
       LET e == Registered(disk, c.skill)
       IN /\ call' = c /\ entry' = e
          /\ \/ ~Usable(e) /\ End("error", None) /\ UNCHANGED told
             \/ Usable(e) /\ Tell(Started) /\ step' = "started" /\ UNCHANGED answer
             \/ Usable(e) /\ TellRaises(Started)
  /\ UNCHANGED <<disk, promised, command, written, box, done, collected, stored, edits>>

Script == Resolved(entry, call.script)

\* _resolve_execution_policy and _validate_execution_request, in the order in
\* which they refuse: the category that is told, or "ok".
Checked ==
  LET spec == SpecOf(entry, Script)
      environment == /\ entry.needs \subseteq spec.env \cup call.env \cup HostEnv
                     /\ entry.bins \subseteq HostBins
  IN IF ~InputFits(spec) THEN "input_mismatch"
     ELSE IF ~call.allow THEN None
     ELSE IF Script \notin entry.scripts THEN "script_not_found"
     ELSE IF environment THEN "ok" ELSE "environment_missing"

\* execute, up to the sandbox.
Prepare ==
  LET spec == SpecOf(entry, Script)
  IN /\ step = "started"
     /\ IF Checked = "ok"
        THEN /\ promised' = ArtifactPaths(spec)
             /\ command' = Command(entry, spec, Script)
             /\ step' = "creating" /\ UNCHANGED <<told, answer>>
        ELSE Fail(Checked) /\ UNCHANGED <<promised, command>>
  /\ UNCHANGED <<disk, call, entry, written, box, done, collected, stored, edits>>

CreateBox ==
  /\ step = "creating"
  /\ \/ box' = "live" /\ step' = "writing" /\ UNCHANGED <<told, answer>>
     \/ Fail(None) /\ UNCHANGED box
  /\ UNCHANGED <<disk, call, entry, promised, command, written, done, collected,
                 stored, edits>>

\* The files that the directory of the package has by now.
FilesNow == UNION { disk[k].files : k \in { j \in DOMAIN disk : disk[j].dir = entry.dir } }
TextNow == \A k \in DOMAIN disk : disk[k].dir = entry.dir => disk[k].text

\* collect_skill_files reads every file as text; the sandbox may refuse them.
WriteFiles ==
  /\ step = "writing"
  /\ \/ TextNow /\ written' = FilesNow /\ step' = "running"
     \/ step' = "failing" /\ UNCHANGED written
  /\ UNCHANGED <<disk, call, entry, promised, command, box, done, collected,
                 stored, told, answer, edits>>

\* How far the command may come: what it runs must be there.
Possible(parts) ==
  parts = Len(command) => Script \in written

\* run_command: it returns what the command did, or raises.
RunCommand ==
  /\ step = "running"
  /\ \/ \E parts \in 0..Len(command), printed \in {None, "usage", "timeout"} :
          /\ Possible(parts)
          /\ parts = Len(command) => printed = None
          /\ done' = [parts |-> parts, printed |-> printed] /\ step' = "collecting"
     \/ step' = "failing" /\ UNCHANGED done
  /\ UNCHANGED <<disk, call, entry, promised, command, written, box, collected,
                 stored, told, answer, edits>>

\* _collect_artifacts: a file that cannot be read is left out.
CollectArtifacts ==
  /\ step = "collecting"
  /\ \E some \in SUBSET { Trimmed(promised[k]) : k \in DOMAIN promised } : collected' = some
  /\ step' = "returning"
  /\ UNCHANGED <<disk, call, entry, promised, command, written, box, done, stored,
                 told, answer, edits>>

Succeeded == done.parts = Len(command)

\* Mutant: a command that worked has nothing to be classified.
CategoryByExit ==
  IF Succeeded THEN None
  ELSE IF done.printed = "timeout" THEN "bootstrap_failed" ELSE "script_failed"

\* _classify_failure of a result.
Category ==
  IF ~(Range(promised) \subseteq collected) THEN "missing_artifacts"
  ELSE IF Succeeded THEN None
  ELSE IF done.printed = "timeout" THEN "bootstrap_failed"
  ELSE IF done.printed = "usage" /\ SpecOf(entry, Script).path # None THEN "input_mismatch"
  ELSE "script_failed"

\* Mutant: the sandbox is given back only when the script came to its end.
DestroyReturned ==
  /\ step = "failing"
  /\ Fail(None)
  /\ UNCHANGED <<disk, call, entry, promised, command, written, box, done,
                 collected, stored, edits>>

\* The finally of execute: what raises here, or raised before, is told.
DestroyBox ==
  /\ step \in {"failing", "returning"}
  /\ \E b \in {"gone", "lost"} :
       /\ box' = b
       /\ IF b = "lost" \/ step = "failing" THEN Fail(None)
          ELSE step' = "storing" /\ UNCHANGED <<told, answer>>
  /\ UNCHANGED <<disk, call, entry, promised, command, written, done, collected,
                 stored, edits>>

Unstored == IF call.run THEN collected \ Range(stored) ELSE {}

\* _persist_artifacts: one after the other, each announced.  When the repository
\* refuses one, or it cannot be announced, the call raises and nothing more is
\* told.
StoreArtifact ==
  /\ step = "storing" /\ Unstored # {}
  /\ \/ \E a \in Unstored :
          LET event == [topic |-> "artifact", category |-> None, files |-> <<a>>]
          IN /\ stored' = Append(stored, a)
             /\ \/ Tell(event) /\ UNCHANGED <<answer, step>>
                \/ TellRaises(event)
     \/ End("error", None) /\ UNCHANGED <<stored, told>>
  /\ UNCHANGED <<disk, call, entry, promised, command, written, box, done,
                 collected, edits>>

\* Mutant: the end is told without waiting for the files.
ReportBeforeFiles ==
  /\ step = "storing"
  /\ Tell([topic |-> IF Succeeded THEN "completed" ELSE "failed",
           category |-> Category, files |-> stored])
  /\ End("result", Category)
  /\ UNCHANGED <<disk, call, entry, promised, command, written, box, done,
                 collected, stored, edits>>

\* The end of run_skill_script.
Report ==
  /\ step = "storing" /\ Unstored = {}
  /\ LET event == [topic |-> IF Succeeded THEN "completed" ELSE "failed",
                   category |-> Category, files |-> stored]
     IN \/ Tell(event) /\ End("result", Category)
        \/ TellRaises(event)
  /\ UNCHANGED <<disk, call, entry, promised, command, written, box, done,
                 collected, stored, edits>>

\* Somebody installs, changes or removes packages, while they are still read.
EditDisk ==
  /\ step \in {"idle", "asked", "started", "creating", "writing"}
  /\ edits < MaxEdits /\ edits' = edits + 1
  /\ disk' \in Disks \ {disk}
  /\ UNCHANGED <<call, entry, promised, command, written, box, done, collected,
                 stored, told, answer, step>>

SkillNext ==
  \/ AskForScript \/ RunScript \/ Prepare \/ CreateBox \/ WriteFiles \/ RunCommand
  \/ CollectArtifacts \/ DestroyBox \/ StoreArtifact \/ Report \/ EditDisk

SkillSpec == SkillInit /\ [][SkillNext]_skillVars

-----------------------------------------------------------------------------
(* Properties *)

\* What runs is a script of the usable package in the directory of the name that
\* was asked for, and it works only if the sandbox has that script, what the
\* package needs is there and its requirements were installed before it.
OwnScriptRuns ==
  command # <<>> =>
    /\ entry.dir = call.skill /\ Usable(entry)
    /\ Last(command).of \subseteq entry.scripts
    /\ entry.needs \subseteq SpecOf(entry, Script).env \cup call.env \cup HostEnv
    /\ Succeeded => /\ Last(command).of \subseteq written
                    /\ entry.packages # {} => command[1].of = entry.packages

\* What a catalog shows can be used by its name, as long as the directory stays
\* as it is.
OfferedIsUsable ==
  step = "ended" /\ answer.kind # "untold" /\ told = <<>> /\ edits = 0 =>
    \A e \in Offered(disk) : e.name # call.skill

\* A call that ended has no sandbox, unless giving it back failed.
BoxIsGivenBack == step = "ended" => box # "live"

\* A result without a category has every promised file, of a command that
\* worked; for a run they are all stored, and what is told of the end names
\* exactly the files that were announced before it.
ResultIsTrue ==
  answer.kind = "result" =>
    LET announced == { k \in DOMAIN told : told[k].topic = "artifact" }
        place(k) == Cardinality({ j \in announced : j <= k })
    IN /\ answer.category = None =>
            /\ Succeeded
            /\ Range(promised) \subseteq IF call.run THEN Range(stored) ELSE collected
       /\ Last(told).topic = "completed" <=> Succeeded
       /\ Len(Last(told).files) = Cardinality(announced)
       /\ \A k \in announced : told[k].files = << Last(told).files[place(k)] >>
       /\ call.run => Range(Last(told).files) = collected

\* An end is told at most once, after the start, and never of a call that was
\* refused.  Only a file that could not be stored, or a listener that raised,
\* leaves a start without an end, and then the caller has an error.
EndIsTold ==
  LET ends == { k \in DOMAIN told : told[k].topic \in {"completed", "failed"} }
  IN /\ ends \subseteq {Len(told)} \ {1}
     /\ step = "ended" /\ told # <<>> /\ ends = {} =>
          \/ answer.kind = "error" /\ Unstored # {}
          \/ answer.kind = "untold"

\* All of it: what a call of run_skill_script leaves is what happened.
ScriptIsHonest ==
  OwnScriptRuns /\ OfferedIsUsable /\ BoxIsGivenBack /\ ResultIsTrue /\ EndIsTold
=============================================================================
