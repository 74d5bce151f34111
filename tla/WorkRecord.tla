------------------------------ MODULE WorkRecord ------------------------------
(***************************************************************************)
(* The work of one session, run by one process at a time: context.json,     *)
(* artifact files, the journal blocks about them, and the project's working *)
(* tree that the checks of an attempt change and test (_persist_work in     *)
(* session_loop.py, _run_checks, _apply_artifact and the persistence of     *)
(* run_attempt in runner.py, verification/checks.py).  The process may die  *)
(* between any two of its effects, and while it writes context.json;        *)
(* another run then goes on from what is there.                             *)
(*                                                                         *)
(* What the engine decides is any decision it can take on these check       *)
(* results (module Engine); the chain of the journal is module Journal's.   *)
(***************************************************************************)
EXTENDS Integers, Sequences, FiniteSets, SequencesExt

CONSTANTS
  States,     \* the non-terminal states
  Initial,
  Exit,       \* "next" of each state
  Back,       \* the "on_failure" targets of each state
  Checks,     \* the checks of each state, in the order of the YAML
  Cited,      \* the artifacts each state's nominal assertions cite in "evidence_from"
  Artifacts,  \* what an actor may produce
  Contents,   \* what an artifact may contain; a content stands for its hash
  Fields,     \* the fields of context.json
  CwdIsSessionDir,  \* is artifact_path, relative to the session, found from the cwd?
  MaxBlocks   \* bound: nothing starts on a journal of that many blocks

Blocked == "blocked"
None == "none"

(* "name" is None where the YAML has none; "id" of a command check is that  *)
(* of the artifact its output goes to, command_output_<name>.               *)
CheckDefs ==
  [ name : STRING,
    type : {"context_fields_present", "artifact_exists", "artifact_applied",
            "command_exit_zero"},
    id : STRING, fields : SUBSET Fields, maxUnknown : Nat ]

(* A field is given a value, marked unknown with a reason or without one;   *)
(* an empty string and null are unknown as well.                            *)
Contexts == [Fields -> {"absent", "known", "unknown", "unreasoned"}]
NoContext == [f \in Fields |-> "absent"]

ASSUME RecordAssumption ==
  /\ Initial \in States
  /\ Back \in [States -> SUBSET (States \cup {Blocked})]
  /\ Checks \in [States -> Seq(CheckDefs)]
  /\ Cited \in [States -> SUBSET Artifacts]
  /\ IsFiniteSet(Artifacts) /\ IsFiniteSet(Fields)
  /\ None \notin Contents
  /\ CwdIsSessionDir \in BOOLEAN
  /\ MaxBlocks \in Nat

VARIABLES
  journal,  \* blocks: type, target state, artifact and its hash, evidence
  context,  \* the fields context.json holds
  readable, \* is context.json, if there is one, UTF-8?
  file,     \* content of artifacts/<id>.json, None when there is no file
  tree,     \* the diffs applied to the working tree, in order
  pc,       \* where the run is; "idle" when there is none
  state,    \* its state_id
  given,    \* fields of the actor's answer not yet merged
  work,     \* artifacts of the actor's answer not yet persisted, in order
  loaded,   \* the context the attempt has loaded
  facts,    \* the checks run so far in this attempt, their outcome and the tree
  outputs   \* ids of the command outputs not yet recorded

vars == <<journal, context, readable, file, tree, pc, state, given, work, loaded, facts,
          outputs>>
memory == <<state, given, work, loaded, facts, outputs>>

Artifact(id, hash, to) ==
  [type |-> "artifact_produced", to |-> to, id |-> id, hash |-> hash, evidence |-> {}]
Move(type, to, evidence) ==
  [type |-> type, to |-> to, id |-> None, hash |-> None, evidence |-> evidence]

CurrentState == Last(journal).to

\* What _load_artifacts indexes.
Recorded == {journal[i].id : i \in {k \in DOMAIN journal :
                                      journal[k].type = "artifact_produced"}}

LastHash(id) ==
  LET blocks == SelectSeq(journal,
                  LAMBDA b : b.type = "artifact_produced" /\ b.id = id)
  IN  Last(blocks).hash

(* cmd_run has written the context the human gave it, or died writing it.   *)
Init ==
  /\ journal = <<Move("session_opened", Initial, {})>>
  /\ context \in Contexts
  /\ readable \in BOOLEAN
  /\ ~readable => context = NoContext
  /\ file = [id \in Artifacts |-> None]
  /\ tree = <<>>
  /\ pc = "idle"
  /\ state = Initial
  /\ given = NoContext
  /\ work = <<>>
  /\ loaded = NoContext
  /\ facts = <<>>
  /\ outputs = <<>>

-----------------------------------------------------------------------------
(* The actor's answer: a value per field, a content per artifact.           *)
Answers ==
  {w \in BoundedSeq([id : Artifacts, content : Contents], Cardinality(Artifacts)) :
     \A i, j \in DOMAIN w : w[i].id = w[j].id => i = j}

\* run_session loads the context before it asks the actor; it may raise there.
GoesOn ==
  /\ pc = "idle"
  /\ CurrentState \in States
  /\ readable
  /\ Len(journal) < MaxBlocks

NoFindings == facts' = <<>> /\ outputs' = <<>>

Act ==
  /\ GoesOn
  /\ state' = CurrentState
  /\ given' \in Contexts
  /\ work' \in Answers
  /\ NoFindings
  /\ pc' = "merge"
  /\ UNCHANGED <<journal, context, readable, file, tree, loaded>>

\* Mutant: the block's to_state is forgotten.
NowhereToGo == Move("transition", None, {})

BlockedByActor == Move("transition", Blocked, {})

ActorFails ==
  /\ GoesOn
  /\ journal' = Append(journal, BlockedByActor)
  /\ UNCHANGED <<context, readable, file, tree, pc, memory>>

(* A context.json that cannot be opened counts as empty, when it is merged  *)
(* and when an attempt loads it.                                            *)
Loadable == {context, NoContext}

Merged(found) == [f \in Fields |-> IF given[f] = "absent" THEN found[f] ELSE given[f]]

MergeContext ==
  /\ pc = "merge"
  /\ \E found \in Loadable : context' = Merged(found)
  /\ given' = NoContext
  /\ pc' = "persist"
  /\ UNCHANGED <<journal, readable, file, tree, state, work, loaded, facts, outputs>>

(* write_text empties the file first, and a file that json.loads refuses    *)
(* counts as empty.  One that ends within a character is not even decoded:  *)
(* every later run raises when it reads it.                                 *)
DiesMerging ==
  /\ pc = "merge"
  /\ context' = NoContext
  /\ readable' \in BOOLEAN
  /\ given' = NoContext
  /\ pc' = "idle"
  /\ UNCHANGED <<journal, file, tree, state, work, loaded, facts, outputs>>

Written == file' = [file EXCEPT ![Head(work).id] = Head(work).content]

Noted ==
  journal' = Append(journal, Artifact(Head(work).id, Head(work).content, state))

\* Mutant: the block is appended before the file is written.
RecordFileFirst ==
  /\ pc \in {"persist", "record"}
  /\ work # <<>>
  /\ IF pc = "persist"
       THEN Noted /\ pc' = "record" /\ UNCHANGED <<file, work>>
       ELSE Written /\ pc' = "persist" /\ work' = Tail(work) /\ UNCHANGED journal
  /\ UNCHANGED <<context, readable, tree, state, given, loaded, facts, outputs>>

(* _persist_work takes the artifacts one by one: the file, then the block.  *)
WriteFile ==
  /\ pc = "persist"
  /\ work # <<>>
  /\ Written
  /\ pc' = "record"
  /\ UNCHANGED <<journal, context, readable, tree, memory>>

RecordArtifact ==
  /\ pc = "record"
  /\ Noted
  /\ work' = Tail(work)
  /\ pc' = "persist"
  /\ UNCHANGED <<context, readable, file, tree, state, given, loaded, facts, outputs>>

\* Mutant: what an earlier attempt has loaded is kept.
LoadOnce ==
  IF loaded = NoContext THEN loaded' \in Loadable ELSE UNCHANGED loaded

LoadContext == loaded' \in Loadable

BeginAttempt ==
  /\ pc = "persist"
  /\ work = <<>>
  /\ LoadContext
  /\ pc' = "check"
  /\ UNCHANGED <<journal, context, readable, file, tree, state, given, work, facts, outputs>>

-----------------------------------------------------------------------------
(* The checks, one after the other.                                         *)

\* Mutant: in the order of a set, not of the YAML.
NextCheckBackwards == Checks[state][Len(Checks[state]) - Len(facts)]

NextCheck == Checks[state][Len(facts) + 1]

Fact(outcome) ==
  facts' = Append(facts, [check |-> NextCheck, outcome |-> outcome, tree |-> tree'])

Checking(type) ==
  /\ pc = "check"
  /\ Len(facts) < Len(Checks[state])
  /\ NextCheck.type = type

\* What every check leaves alone; an apply changes the tree, a command adds an output.
alone == <<journal, context, readable, file, pc, state, given, work, loaded>>

Unknown(f) == loaded[f] \in {"absent", "unknown"}

CheckContext ==
  /\ Checking("context_fields_present")
  /\ UNCHANGED <<alone, tree, outputs>>
  /\ LET fields == NextCheck.fields
     IN  Fact(IF /\ \A f \in fields : loaded[f] # "unreasoned"
                 /\ Cardinality({f \in fields : Unknown(f)}) <= NextCheck.maxUnknown
                THEN "passed" ELSE "failed")

CheckExists ==
  /\ Checking("artifact_exists")
  /\ UNCHANGED <<alone, tree, outputs>>
  /\ Fact(IF NextCheck.id \in Recorded THEN "passed" ELSE "none")

(* The path of the block is looked up from the current directory, the       *)
(* content is the file's as it is now.                                      *)
Found(id) ==
  /\ id \in Recorded
  /\ LastHash(id) # None
  /\ CwdIsSessionDir
  /\ id \in Artifacts /\ file[id] # None

CheckAppliedFinds ==
  /\ Checking("artifact_applied")
  /\ ~Found(NextCheck.id)
  /\ UNCHANGED <<alone, tree, outputs>>
  /\ Fact("none")

(* "git apply" refuses a diff the tree already has; it may fail for other   *)
(* reasons, and be killed after it changed the tree.                        *)
CheckApplied ==
  /\ Checking("artifact_applied")
  /\ Found(NextCheck.id)
  /\ LET diff == file[NextCheck.id]
         applies == diff \notin Range(tree)
     IN  \/ applies /\ tree' = Append(tree, diff) /\ (Fact("passed") \/ Fact("failed"))
         \/ UNCHANGED tree /\ Fact("failed")
  /\ UNCHANGED <<alone, outputs>>

(* resolve_command_ref finds the ref in neither commands.yaml, which a human *)
(* or an actor may edit at any time.                                        *)
CheckUnresolved ==
  /\ pc = "check"
  /\ Len(facts) < Len(Checks[state])
  /\ \/ NextCheck.type = "command_exit_zero"
     \/ NextCheck.type = "artifact_applied" /\ NextCheck.id \in Recorded
  /\ UNCHANGED <<alone, tree, outputs>>
  /\ Fact("unresolved")

\* Whether the command exits with 0 is up to the tree it runs on.
CheckCommand ==
  /\ Checking("command_exit_zero")
  /\ UNCHANGED <<alone, tree>>
  /\ Fact("passed") \/ Fact("failed")
  /\ outputs' = Append(outputs, NextCheck.id)

(* Results are kept by name: of two checks with one name the later hides    *)
(* the earlier.                                                             *)
Passed(name) ==
  \E k \in DOMAIN facts :
    /\ facts[k].check.name = name /\ facts[k].outcome = "passed"
    /\ \A l \in DOMAIN facts : l > k => facts[l].check.name # name

AllChecksPass ==
  \A i \in DOMAIN facts :
    facts[i].check.name # None /\ Passed(facts[i].check.name)

(* The evaluator has judged and the engine has decided.  A command's        *)
(* output is recorded only now, without a file.                             *)
RecordOutput ==
  /\ pc = "check"
  /\ Len(facts) = Len(Checks[state])
  /\ outputs # <<>>
  /\ journal' = Append(journal, Artifact(Head(outputs), None, state))
  /\ outputs' = Tail(outputs)
  /\ UNCHANGED <<context, readable, file, tree, pc, state, given, work, loaded, facts>>

(* The evidence is what the passing assertions cite in the workflow file.   *)
RecordTransition(to, evidence) ==
  /\ pc = "check"
  /\ Len(facts) = Len(Checks[state])
  /\ outputs = <<>>
  /\ journal' = Append(journal, Move("transition", to, evidence))
  /\ pc' = "idle"
  /\ UNCHANGED <<context, readable, file, tree, memory>>

Leave == AllChecksPass /\ RecordTransition(Exit[state], Cited[state])

Stay ==
  \E to \in {state, Blocked} \cup Back[state], evidence \in SUBSET Cited[state] :
    RecordTransition(to, evidence)

-----------------------------------------------------------------------------
Resume ==
  /\ pc = "idle"
  /\ CurrentState = Blocked
  /\ Len(journal) < MaxBlocks
  /\ \E s \in States : journal' = Append(journal, Move("session_resumed", s, {}))
  /\ UNCHANGED <<context, readable, file, tree, pc, memory>>

(* The process dies or raises: _persist_work on artifacts that are no       *)
(* object, once the context is merged; resolve_command_ref on a malformed   *)
(* commands.yaml.                                                           *)
Crash ==
  /\ pc # "idle"
  /\ pc' = "idle"
  /\ given' = NoContext
  /\ UNCHANGED <<journal, context, readable, file, tree, state, work, loaded, facts, outputs>>

Next ==
  \/ Act \/ ActorFails
  \/ MergeContext \/ DiesMerging
  \/ WriteFile \/ RecordArtifact
  \/ BeginAttempt
  \/ CheckContext \/ CheckExists
  \/ CheckAppliedFinds \/ CheckApplied \/ CheckCommand \/ CheckUnresolved
  \/ RecordOutput
  \/ Leave \/ Stay
  \/ Resume
  \/ Crash

Spec == Init /\ [][Next]_vars

-----------------------------------------------------------------------------
(* What load_journal marks _invalid: the transitions that cite an artifact  *)
(* with an artifact_overwritten block.                                      *)
Overwritten == {journal[i].id : i \in {k \in DOMAIN journal :
                                         journal[k].type = "artifact_overwritten"}}

Invalid ==
  {i \in DOMAIN journal :
     journal[i].type = "transition" /\ journal[i].evidence \cap Overwritten # {}}

-----------------------------------------------------------------------------
Targets == States \cup {Blocked} \cup {Exit[s] : s \in States}

Blocks ==
  [ type : {"session_opened", "artifact_produced", "transition", "session_resumed"},
    to : Targets, id : Artifacts \cup STRING \cup {None}, hash : Contents \cup {None},
    evidence : SUBSET Artifacts ]

Findings ==
  [check : CheckDefs, outcome : {"passed", "failed", "none", "unresolved"}, tree : Seq(Contents)]

(* The type of every variable.                                              *)
TypeOK ==
  /\ journal \in Seq(Blocks)
  /\ context \in Contexts /\ given \in Contexts /\ loaded \in Contexts /\ readable \in BOOLEAN
  /\ file \in [Artifacts -> Contents \cup {None}]
  /\ tree \in Seq(Contents)
  /\ pc \in {"idle", "merge", "persist", "record", "check"}
  /\ state \in States
  /\ work \in Seq([id : Artifacts, content : Contents])
  /\ facts \in Seq(Findings)
  /\ Len(facts) <= Len(Checks[state])
  /\ outputs \in Seq(STRING)

(* Wherever a run dies, what the journal says an actor produced is on disk: *)
(* _persist_work writes the file before the block.  What the last death     *)
(* leaves behind is a file the journal does not know, never the converse.   *)
RecordedIsOnDisk ==
  \A i \in DOMAIN journal : journal[i].hash # None => file[journal[i].id] # None

\* Another check of this state has its name and comes after it.
Hidden(i) ==
  \E k \in DOMAIN Checks[state] :
    k > i /\ Checks[state][k].name = Checks[state][i].name

\* context.json, as it is now, lacks no more of the fields than the check allows.
Enough(check) ==
  Cardinality({f \in check.fields : context[f] # "known"}) <= check.maxUnknown

(* ADR 0003 D1: a state is only left by "next" while context.json, as it is *)
(* on disk then, gives a value to all but max_unknown of the fields its     *)
(* checks ask for - whatever a death or an unreadable file has taken from   *)
(* the context since it was collected, and whatever later answers unset.    *)
ExitOnRecordedContext ==
  [][Leave =>
       \A i \in DOMAIN Checks[state] :
         Checks[state][i].type = "context_fields_present" /\ ~Hidden(i)
         => Enough(Checks[state][i])]_vars

(* ADR 0009: a state is only left by "next" if each command of its checks   *)
(* passed on a working tree to which the artifacts applied before it, as    *)
(* they are on disk, had been applied - also when an earlier attempt or a   *)
(* run that died changed the tree.  It says nothing of checks whose name    *)
(* occurs again below them: the code loses their results.                   *)
ExitOnAppliedWork ==
  [][Leave =>
       \A i, j \in DOMAIN Checks[state] :
         /\ i < j
         /\ Checks[state][i].type = "artifact_applied" /\ ~Hidden(i)
         /\ Checks[state][j].type = "command_exit_zero" /\ ~Hidden(j)
         => \E k \in DOMAIN facts :
              /\ facts[k].check = Checks[state][j] /\ facts[k].outcome = "passed"
              /\ file[Checks[state][i].id] \in Range(facts[k].tree)]_vars

-----------------------------------------------------------------------------
(* What the documentation says and the code does not do.                    *)

(* ADR 0003 D8, ADR 0004 verification 3: a transition that cites an         *)
(* artifact is marked invalid once the artifact is produced again.          *)
OverwriteInvalidates ==
  \A h, i, k \in DOMAIN journal :
    /\ h < i /\ i < k
    /\ journal[i].type = "transition"
    /\ journal[h].type = "artifact_produced" /\ journal[k].type = "artifact_produced"
    /\ journal[h].id = journal[k].id /\ journal[k].id \in journal[i].evidence
    => i \in Invalid

(* runner.py:177 "None when the artifact is absent or the command_ref       *)
(* unresolved"; the latter is "unresolved" here.                            *)
NoneMeansAbsent ==
  \A i \in DOMAIN facts :
    facts[i].outcome = "none" => Checks[state][i].id \notin Recorded

=============================================================================
