# AgenticSuite: verification project

AgenticSuite runs declarative workflows (`workflows/v1/*.yaml`). An *actor*, a
language model behind a subprocess, produces work. Deterministic *checks* and an
independent *evaluator*, another subprocess, judge it. A pure *engine* decides
the transition, and an append-only, hash-chained *journal* records it. A human
resumes a session that is blocked.

This directory holds TLA+ modules of that runtime, TLC configurations that check
them on small instances, and theorems checked by TLAPS. Paths below are relative
to `src/agentic_suite/`.

## 1. Inventory

| Component | State it keeps | Operations | Interacts through |
|---|---|---|---|
| Journal, `session.py` | `session.jsonl`: blocks with seq, prev_hash, hash | `new_session`, `append_block`, `load_journal` | the file, which every call reads and appends to, without a lock |
| Engine, `engine.py` | none | `advance(ctx, verdict)` | called by the runner |
| Session loop, `session_loop.py` | `context.json`, `artifacts/`, journal | `run_session`, `_run_actor`, `_persist_work` | actor subprocess, runner, journal |
| Attempt runner, `runner.py` | working tree (through commands), journal | `run_attempt`, `_run_checks`, `_apply_artifact`, `_execute_command` | checks, evaluator, engine, journal |
| Evaluator, `evaluator.py` | scratch copy of the session | `run_evaluator` | subprocess killed after 300 s |
| Model adapters, `providers/model_*.py` | none | one request, retries, pauses | HTTP |
| Role and command resolution, `providers/base.py`, `commands.py` | YAML files, read only | look-ups | runner, adapters |
| Skills, `skills.py` | journal | `record_skill_invocation` | journal |
| Checks, `verification/checks.py` | none | four predicates | runner |
| Command line and menu, `cli.py`, `ui.py` | one directory per session | start, run, status, resume, log, menu | all of the above |
| Linter, loader, `lint/`, `loader.py` | none | 19 rules, exit code; YAML | nothing: no command but `lint` calls it |

What is hard, and what would make each part correct:

* **The journal** is shared by processes that know nothing of each other and hold
  minutes between reading it and writing to it. Correct: a decision that was
  taken on an old journal never counts, and calls that do not overlap, however
  they die, leave a journal the next call accepts.
* **The engine** orders five competing outcomes. Correct: doubt never helps the
  worker, better work never closes the nominal exit, the budget is final.
* **The loop** may retry, go back, be resumed into any state. Correct: autonomy is
  bounded by `max_transitions`, and each call ends.
* **The model calls** fail in many ways, under two nested time limits. Correct: no
  verdict is invented, an outage costs an attempt and nothing else.
* **The work record** is four stores (context, files, blocks, working tree)
  updated one after the other. Correct: what is recorded exists, and a state is left
  only on a context that is on disk and on work that was applied and then tested.
* **The file** is text, written with a plain `open(path, "a")`, and used from
  several terminals and a menu that shows lists read earlier. Correct: a write cut
  anywhere, or made on a journal that has moved on, never loses in silence what was
  reported as written, a refused journal is refused for good and keeps what can be
  read of it, and the menu tells of damage.
* **The linter** judges a file before anything runs it, over the same keys the
  runtime reads with other defaults. Correct: what it lets through never makes the
  run raise, hit the cap, or leave a state unearned.

The hazards, each at its line, are in `PROJECT.json`.

## 2. Modules

```
Workflow ── Engine ──┬── SessionCalls ── SessionProperties ─┬─ MCSession
             │       │        │                             └─ SessionProofs
   Journal ──┼───────┴── Lifecycle  (abstract specification, refined by SessionCalls)
     │       ├── EngineJudgements ──┬─ MCEngine
     │       │                      └─ EngineProofs
     │       ├── ModelCall ──┬─ MCModelCall
     │       │               └─ ModelCallProofs
     │       └── LintedRun  (instance of Engine, extends Lint)
     │  Lint ──── LintedRun ── LintedRunProperties ─┬─ MCLint
     │                                              └─ LintProofs
     ├── SessionStore  (abstract specification, refined by Desk)
     └── JournalFile ── Terminals ── Desk ── DeskProperties ─┬─ MCDesk
                                                             └─ DeskProofs
   WorkRecord ─┬─ MCWorkRecord
               └─ WorkRecordProofs
   EngineLemmas, JournalLemmas: lemmas on the operators
```

**Workflow** declares what the runtime reads of a workflow file: states, the
target of `next`, failure rules in order, assertions, checks, attempts, triggers,
and `max_transitions`, which may be absent. The parameters are unconstrained where
the runtime does not check: a target need not be a declared state, a failure rule
may cite an unknown assertion.

**Engine** is `advance()`, branch by branch and in the code's order. A verdict
gives a Boolean per check and trigger, and one of three values per assertion.

**Journal** is the file as a sequence of blocks. A block keeps `seq`, its type, its
two states and `prev`, the position of the block whose hash was read as its
predecessor. Editing the file is not modelled; what overlapping appends do to the
chain is. `Verified` is what `load_journal` accepts; `CurrentState`,
`AttemptCount` and `TransitionsUsed` are the derived values of `runner.py`.

**SessionCalls** is the core: any set of calls on one journal. Each call is a
process with a program counter; an action is one file access with what the call
computes around it.

| Action | Code |
|---|---|
| `EnterState`, `ReachTerminal`, `UnknownState`, `StepCap` | head of an iteration of `run_session` |
| `ActorFails`, `ActorWorks` | the actor's outcomes; the journal is read again only for the number |
| `BeginAttempt`, `RunChecks`, `Judge` | the first load, `_load_artifacts` with the checks, and evaluator with engine of `run_attempt` |
| `AppendRead`, `AppendWrite` | the two accesses of `append_block` |
| `Continue`, `Stop` | the reload and `run_session`'s choice |
| `Resume`, `RecordSkill` | `cmd_resume`, `record_skill_invocation` |
| `IntegrityViolation` | `load_journal` raises, in any call |
| `Die` | the process is killed or an error nothing catches ends it |

The journal a call holds in memory is a prefix of the file, so the model keeps its
length (`seq` at the labels `checks` and `judge`). The verdict is any verdict.

**Lifecycle** is the abstract specification: a log that grows one block at a time,
in which each judged transition is a decision of `advance` on the whole log before
it. It has no calls, memory or numbers. `SessionCalls` refines it with the
mapping *log = the part of the file that `load_journal` accepts*.

**EngineJudgements** lets one entry of a verdict change per step, to compare the
decisions before and after.

**ModelCall** is one iteration seen from its two subprocesses: requests, unusable
replies, pauses, the kill by the caller, and the translation of what is left into
a verdict, with the engine's decision on it. Time is counted in half seconds. A
model is `prompt`, each request within its 90 s, or `trickling`: the 90 s bound
each wait for the network and not the request.

**WorkRecord** is one session's `context.json`, artifact files, blocks and working
tree, with a death possible between any two effects, and in the middle of the
write of `context.json`.

| Action | Code |
|---|---|
| `Act`, `ActorFails` | `run_session` loads the context, asks the actor, appends the `blocked` transition when it fails |
| `MergeContext`, `DiesMerging` | `_persist_work`: the answer's fields over the ones on disk, `write_text` |
| `WriteFile`, `RecordArtifact` | `_persist_work`: one artifact after the other, the file, then the block |
| `BeginAttempt`, `CheckContext`, `CheckExists`, `CheckAppliedFinds`, `CheckApplied`, `CheckCommand`, `CheckUnresolved` | `_run_checks` with `verification/checks.py`, in the order of the YAML |
| `RecordOutput`, `Leave`, `Stay` | the blocks `run_attempt` appends when the engine has decided |
| `Resume`, `Crash` | `cmd_resume`; the process is killed or raises |

`pc` says where the run is; `facts` are the checks already run, each with the tree
it left. The engine's choice is any it can take on those facts, which it is given by name as
`_run_checks` keeps them: of two checks with one name the later decides (`Passed`). A
context field is absent, known, unknown with a reason, or without. A `context.json`
that cannot be opened counts as empty (`Loadable`), both when an answer is merged
into it, which then loses every other field, and when an attempt loads it. `readable` is whether
`context.json` is UTF-8: a file cut within a character is not even decoded, so
every later run raises before it asks the actor (`GoesOn`). The blocks carry the
artifact's id and hash (a content stands for its hash), not the chain, which
`Journal` treats.

**JournalFile** is the text of the file: `_write_block` as the line it leaves when
it is cut nowhere, before the line feed, within the line, within a character, or
before the first byte, and the readers (`load_journal`, `append_block`, `_last_seq`)
as what they make of such lines. A line is a block or garbled. A text with a
Unicode line separator is written as it is and read as two garbled lines
(`PutBlock`), since `splitlines` and `json.dumps(ensure_ascii=False)` disagree.

**Terminals** is the commands that write such files, each in a process of its own, and
every access to a file a step of its own: what a process writes may rest on a journal
that has changed twice since it was read. SessionCalls has the same interleavings with
every decision worked out and whole blocks; here a decision is any, and what counts is
the text. `cmd_start`, a run of one attempt without an actor, is left to SessionCalls.

| Action | Code |
|---|---|
| `Create` | `cmd_run` up to `new_session`; without actor or evaluator it ends there |
| `Load` | head of `run_session`'s loop: the state the actor is given |
| `ActorReturns` | `_persist_work` loads again, for the number only; a failed actor likewise |
| `BeginAttempt`, `Judge` | `run_attempt` loads state and number; `_load_artifacts` verifies once more |
| `BeginResume`, `BeginSkill` | `cmd_resume` up to `_next_seq`; `_last_seq`, which reads the last line only |
| `ReadTip` | `append_block` up to the write |
| `Produce`, `Decide`, `Resume`, `RecordSkill` | the write: artifacts and outputs, transitions, the two other blocks |
| `Ends` | the command is done, raises or is killed |

`hand` is what each process has read and not yet used: where it is, the state and the
number (`seq`) it took from its load, and the line it took for the last (`tip`). Several
blocks of one process go on from one load, the number counted up (`Produce`).

**Desk** puts the menu and other terminals on top.

| Action | Code |
|---|---|
| `Run`, `Begins`, `Reads`, `Writes` | the commands of other terminals |
| `AddVersion` | a human adds the workflow to another `workflows/v<N>` |
| `Build`, `Quit` | `cmd_menu`'s loop, `build_menu` |
| `ChooseWorkflow`, `MenuReads`, `MenuWrites`, `CommandEnds` | `action_from_menu` on a workflow, `cmd_run` in the menu's own process |
| `ChooseSession`, `ShowLog`, `ChooseResume` | the submenu of a session, `cmd_log`, the load before `cmd_resume` |
| `MenuBeginsResume`, `MenuResumes`, `MenuCannotBegin`, `MenuCannotResume` | `cmd_resume` in the menu's process, and how it fails |

`Listed` is the order of the workflow directories, as strings, the last one first:
`v9` comes before `v10`. `acked` holds the blocks whose append returned. `crashed` is a
traceback.

**SessionStore** is the abstract specification of the files: for each session a
log, whether it is damaged, and the blocks its writers were told of. A write adds a
block that carries the next number and chains to the last one (`Following`), or damages
the log for good and takes back at most a last block nobody was told of. A transition
starts from the state the log is in or leads to `blocked`; an artifact and an actor's
failure may name an older state, because their number is taken after the actor ran and
their state before it. A writer whose block is lost may still be told that it was
written. It has no text, no lines, no cut, no reads and no menu. `Desk` refines it with
the mapping *log = `Intact(file)`, damaged = the file exists and `load_journal` refuses
it, told = `acked`*.

**Lint** is each rule as a predicate that holds when the rule yields a message;
`Reachable` is R21's graph search as the least closed set, with the linter's
last-wins dictionaries. **LintedRun** then runs the file as it is, with the
runtime's own defaults and its first-wins look-ups, `Advance` being `Engine`'s.
Values of a wrong type or missing are `Other`, `Null`, `Missing`: what the linter
and the runtime make of each is the point of the module.

## 3. Runs

Passing:

| Run | Question | Instance |
|---|---|---|
| Engine | `DoubtIsFailure`, `BetterWorkNeverHurts` | a state with two failure rules (and one citing nothing), two checks, two triggers; attempts up to 3, transitions up to 3 against a budget of 2 |
| RunAndResume | `TypeOK`, `BudgetBound`, `CapNeverHit`, `OneIterationPastBudget`, `BudgetIsFinal`, `RefinesLifecycle`, `EveryCallEnds`, `StepsCountDown` | one run, one resume, all failure routes, budget 2, one artifact per answer, cap 4 |
| TwoCalls | `RefinesLifecycle`, `RetriesAreBounded` with two deciders and a skill invocation | a run of one step, `cmd_start`, a skill invocation, no budget, so that the step cap is reached |
| SerialCalls | `AlwaysVerifies`, `StateContinuity`, `ReportsJournalState` | all four kinds of call one after the other, each dying anywhere, two artifacts, no budget |
| ModelCall | `TypeOK`, `NeverAGuess`, `RetriesFitTheTimeout`, `OutageOnlyCostsAnAttempt` | the code's constants: 2 retries, 300 s; requests of 1 s, 90 s, and 200 s for a model that trickles, so that processes are killed |
| Record | `TypeOK`, `RecordedIsOnDisk`, `ExitOnAppliedWork`, `ExitOnRecordedContext` | `fix` and `validation` of `bugfix.yaml`, with two checks of one name added, one patch with two contents, one field, every initial context |
| Desk | `TypeOK`, `NothingLostSilently`, `ReadableStaysReadable`, `RefusedForGood`, `RefinesStore`, `MenuTellsDamage`, `NeverOlderThanShown` | the menu and one more terminal, one session of one state; appends start on files of less than 3 lines; `v8`, `v9` and `v10` of the workflow; every cut of every write |
| Lint | `TypeOK`, `LintedNeverRaises`, `LintedEndsWithinBudget`, `RunsStayAttainable`, `EvidenceHasASource`, `ExitIsEarned` | 2352 files of three states: all combinations of what decides where a run goes, and one defect at a time elsewhere; budget 2, cap 4 |

Why the bounds are enough: two overlapping writers already give every shape of
stale read, stale number and broken chain, since a chain that is broken once stays
refused; a budget of 2 is spent, overrun and tested at its limit, and a cap of 4 leaves room
for the one iteration a run may enter unpaid and one more that it may not; the session
workflow has a state that retries, one that goes back, and a terminal one; 1 s and
90 s are the ends of the interval the code allows to a request that keeps to its
time limit; the journal of `Record` is capped at 6 blocks before a call may start,
enough for two attempts of `validation` after `fix`; a file of `Desk` has the opening
block and room for two processes to write over each other, and for a third write that
was begun in between and lands on what they left; no write looks at another session;
three directories have a
pair with equally many digits and one that is sorted against its number; three states give `Lint` a loop, a dead end and a
terminal state, and a cap of 4 lies above a budget of 2 and within the reach of a
file without one. The workflow without failure
rules (`MCPlainStateDef`) keeps the runs with several writers small: the rules
matter there only through the target of a decision. `BudgetBound` is checked with
one decider and proved for any number.

All configurations but `Engine`'s say `CHECK_DEADLOCK FALSE`, as these systems
do stop: calls end, and when all have ended nothing happens; a model call ends
with its decision, a linted run with its outcome; the journals of `Record` and
`Desk` are full at their bound.

What the properties mean:

* `BudgetBound`: however calls interleave, die or resume, the file never holds
  more transitions than `max_transitions` plus one for each call that has made
  its last decision. It does *not* say "never more than `max_transitions`":
  resumes do not count, and every further run adds one forced `blocked`.
* `CapNeverHit`: with `max_transitions` below `max_steps`, the step cap is never
  what ends a run.
* `OneIterationPastBudget`: actor and evaluator are asked before the budget is looked
  at, contrary to ADR 0003 D7; this bounds what it costs. `BudgetIsFinal`: in what
  `load_journal` accepts, a transition that comes after the budget is spent leads to
  `blocked`. `RetriesAreBounded`: likewise a retry always left room in
  `max_attempts`, also when two calls judged the state at once.
* `RefinesLifecycle`: a decision made stale by another writer never becomes part
  of a journal that verifies. What saves the code is the sequence number it took
  from the journal it judged; the mutant that reads it again at the end breaks
  this, although each journal it writes is well formed.
* `EveryCallEnds`: liveness, under weak fairness of each call's next step: each call
  that has not ended can go on whatever the others have written, and not for ever.
  The second half is a property of its own: `StepsCountDown`, each step lowers
  `Remaining` (iterations, stages, blocks, accesses) of one call and leaves that of
  the others alone.
* `AlwaysVerifies`, `StateContinuity`: with callers that wait for each other.
* `ReportsJournalState`: the final state a run reports is its journal's, unless a
  failure rule or the cap ended it.
* `RecordedIsOnDisk`: whenever the process dies, an artifact that has a block has
  its file. `ExitOnAppliedWork`: a state is left by `next` only if the commands
  after an `artifact_applied` check ran on a tree that holds that artifact.
  `ExitOnRecordedContext`: and only while `context.json` itself gives the fields the
  state's checks ask for. The checks read a copy loaded before, and between the
  answer that gave a field and the exit there are deaths, unreadable files and later
  answers; the file may lose fields (the code does nothing against that), but no
  state is left on fields it has lost. Neither property says anything of a check
  whose name occurs again below it: the code loses its result.
* `NothingLostSilently`: what was reported as written is read again, or the journal is
  refused. `ReadableStaysReadable`: nor is it taken away from what can be read before
  the line a load refuses. `RefusedForGood`: `append_block` and `_last_seq` look at the
  last line only, so a journal refused for an overlap is still appended to, by a skill
  or by a command that had loaded it before; yet it stays refused, and what can be read
  of it stays what it was. So an overlap of two commands may cost every block reported
  after it, but never silently.
* `RefinesStore`: these and more in one, over the whole life of a file: the numbers and
  the chain, which blocks may rest on a state that is out of date, and damage that
  happens once and is final.
* `MenuTellsDamage`: a list read earlier never calls a session invalid that is
  not, and the menu only ends in a traceback over a damaged session.
  `NeverOlderThanShown`: among numbers of equally many digits, what runs is no lower
  version than the one shown at the chosen number, also when directories were added
  meanwhile. Across digits it is false: see `v10` below.
* `LintedNeverRaises`, `LintedEndsWithinBudget`, `ExitIsEarned`: what a file
  without lint errors promises its run. Their premises (`NextDeclared`, `IdsGiven`,
  `AttemptsGiven`, `UniqueIds`, `UniqueNames`) each name something no rule asks
  for, and without any of them TLC finds a run that breaks the promise.
* `RunsStayAttainable`, `EvidenceHasASource`: the linter's graph contains every
  run, so an assertion's evidence has a declared source.

**Fairness.** A call that is not killed keeps moving: each subprocess it waits
for has a time limit (300 s for actor and evaluator, 60 s by default for a
command) and no call waits for another, as there is no lock. Weak fairness of
`Step(p)` says no more than this; `Die` is not fair, and a dead call has ended.

Violations: each of these runs checks one sentence of the documentation that the
code does not keep; `findings` in `PROJECT.json` quotes it.

| Run | What happens |
|---|---|
| StaleResume | artifacts of an actor that outlived a human resume undo it: the state is read off the last block of any type (a skill invocation, whose block names no state, leaves none) |
| Overwritten | regenerated artifacts invalidate nothing: no code writes `artifact_overwritten` |
| ReadBack | a block whose text holds U+0085, U+2028 or U+2029 makes its journal unreadable |
| NotFound | `artifact_path` is relative to the session and looked up from the current directory |

Other sentences the models follow the code on, without a run of their own.

*Engine and runner.* `advance` tests `max_transitions` before the escalations
(`engine.py:121`, docstring: escalation first); the evaluator runs although the
budget is spent (`runner.py:310`, ADR 0003 D7); a state with `max_attempts: 1` may
be entered again (`engine.py:146`, ADR 0003 D6); `max_transitions` has no default
(`engine.py:121`, the schema reference says 20); a trigger the evaluator did not
mention counts as not raised (`runner.py:322`, ADR 0003 D7); a failure rule that
leads to another state ends the run and is reported as `blocked`
(`session_loop.py:211`, :147); two calls that overlap number their blocks alike,
and the journal is refused although nobody edited it (`runner.py:342`,
`session.py:161`).

*Work.* An artifact file without a block is applied and no hash is compared
(`runner.py:188`, ADR 0004:95); artifacts of a wrong shape raise outside the
handler, so no block says why the run ended (`session_loop.py:110`); a
`context.json` cut within a character makes every later run raise; one that cannot be
opened while an answer is merged is replaced by that answer's fields alone
(`session_loop.py:94`); of two checks with one name the later decides, also when the
artifact was not applied (`runner.py:136`).

*Menu and commands.* The menu lists directories in descending order of strings, while
`ui.py:11` and :36 say "newest version first": with `v9` and `v10`, `v9` comes first,
and whichever of the two rows is chosen, `v9` runs (`cli.py:94`). A journal that
`load_journal` refuses for the order or the chain of its blocks is appended to by
whoever does not load it again (`session.py:104`). `resume` works from every state
(`cli.py:272`); choosing to
resume a session whose journal is refused, and listing one that is not UTF-8, end
the menu in a traceback (`cli.py:362`, `ui.py:14`).

*Linter.* No command but `lint` runs it. R11 lets `max_attempts:` without a value
through, on which `advance` raises `TypeError`; no rule asks for the ids of
assertions and triggers, for unique state ids, or for unique names of checks (the
last one of a name decides); an unknown check type is tried as `artifact_exists`
(`runner.py:135` says it fails), and only the linter keeps it out; a state may be
called `blocked`; R21 takes a field whose only producer no run reaches; R1, R13 to
R16 and R22 check keys the runtime ignores. The documentation counts 18 rules and
three check types, the code has 19 and four.

Every property of a passing run has a mutant of the code in `PROJECT.json`, written
next to the definition it replaces.

## 4. Theorems

| Theorem | Statement |
|---|---|
| `SessionProofs!TypeCorrect` | `Spec => []TypeOK` |
| `SessionProofs!BoundedAutonomy` | `Spec => []BudgetBound` |
| `SessionProofs!CapIsRedundant` | `Spec => []CapNeverHit` |
| `SessionProofs!JournalImplementsLifecycle` | `Spec => RefinesLifecycle` |
| `SessionProofs!AtMostOneUnpaid` | `Spec => []OneIterationPastBudget` |
| `SessionProofs!SpentMeansBlocked` | `Spec => []BudgetIsFinal` |
| `SessionProofs!RetriesStop` | `Spec => []RetriesAreBounded` |
| `SessionProofs!EveryStepCountsDown` | `Spec => StepsCountDown` |
| `SessionProofs!CountdownEnds` | the order of `StepsCountDown` is well-founded |
| `SessionProofs!SerialJournalsVerify` | `SerialSpec => []AlwaysVerifies` |
| `SessionProofs!SerialStatesConnect` | `SerialSpec => []StateContinuity` |
| `SessionProofs!RunsReportTheirJournal` | `SerialSpec => []ReportsJournalState` |
| `EngineProofs!DoubtNeverHelps` | `Spec => []DoubtIsFailure` |
| `EngineProofs!BetterWorkIsSafe` | `Spec => BetterWorkNeverHurts` |
| `ModelCallProofs!TypeCorrect` | `Spec => []TypeOK` |
| `ModelCallProofs!NoGuessing` | `Spec => []NeverAGuess` |
| `ModelCallProofs!OutageIsHarmless` | `Spec => []OutageOnlyCostsAnAttempt` |
| `ModelCallProofs!TimeoutSuffices` | `RetriesFitTheTimeout`, for every limit per request that fits |
| `WorkRecordProofs!TypeCorrect` | `Spec => []TypeOK` |
| `WorkRecordProofs!NothingRecordedIsMissing` | `Spec => []RecordedIsOnDisk` |
| `WorkRecordProofs!ExitNeedsAppliedWork` | `Spec => ExitOnAppliedWork` |
| `WorkRecordProofs!ExitNeedsRecordedContext` | `Spec => ExitOnRecordedContext` |
| `DeskProofs!NothingLost` | `Spec => []NothingLostSilently` |
| `DeskProofs!RefusedStaysRefused` | `Spec => RefusedForGood` |
| `DeskProofs!ReadableForGood` | `Spec => ReadableStaysReadable` |
| `DeskProofs!FilesImplementStore` | `Spec => RefinesStore` |
| `DeskProofs!MenuIsTruthful` | `Spec => []MenuTellsDamage` |
| `DeskProofs!NewestRuns` | `Spec => []NeverOlderThanShown` |
| `DeskProofs!TypeCorrect` | `Spec => []TypeOK` |
| `LintProofs!TypeCorrect` | `Spec => []TypeOK` |
| `LintProofs!CleanFilesRun` | `Spec => []LintedNeverRaises` |
| `LintProofs!CleanFilesEnd` | `Spec => []LintedEndsWithinBudget` |
| `LintProofs!ReachableIsComplete` | `Spec => []RunsStayAttainable` |
| `LintProofs!EvidenceIsDeclared` | `Spec => []EvidenceHasASource` |
| `LintProofs!CleanExitIsEarned` | `Spec => []ExitIsEarned` |

They hold for every value of the constants that the named assumptions of the
modules allow (`WorkflowAssumption`, `CallsAssumption`, `TerminalsAssumption`, ...): every
workflow, budget, number of calls, terminals, sessions, artifacts, retries, workflow files,
and journals of any length. TLC evaluates the assumptions in the runs.

**`SessionProofs`: TypeCorrect.** `TypeOK` is not inductive: the number of output blocks `Judge`
announces is a number only if the state it judges is one of the workflow's.
`Roles` adds where each kind of call can be and what it then holds;
`TypeOK /\ Roles` is inductive.

**BoundedAutonomy.** The difficulty is a decision taken on an old journal. The
inductive invariant is `IInv == TypeOK /\ Roles /\ Ownership /\ Accounting`:

* `Ownership`: a decider never numbers its next block past the end of the file;
  and if its number fits the end of a journal that verifies, that journal is the
  one it judged, so a decision to go on was within the budget.
* `Accounting`: the bound with the calls that cannot decide again in place of the
  ones that have returned. `SpentCalls` counts a call as soon as it has written a
  stopping decision, *or* a decision that landed on a changed journal: the
  sequence number then breaks the chain, so its reload raises. That a refused
  journal is refused for ever (`RefusedForEver`) keeps it counted.

A transition is then paid either by the budget (the journal was the judged one and
`BudgetSpent` was false, `SpentBudgetBlocks`) or by its author joining
`SpentCalls`; `SpentCalls` only ever grows, and is a subset of `Finished`.

**CapIsRedundant.** `Paid`: a run that goes on has spent one transition per
iteration, and the last one was within the budget when it landed, by `Ownership`.
A run whose decision landed on a changed journal is not at the head of the loop
again: its reload raises.

**JournalImplementsLifecycle.** `Origins`: whatever a call is about to write, if its
number still fits the end of the journal, is a decision of `advance` on that very
journal, an actor's failure, a resume or a skill. A block that does not fit adds
nothing to what `load_journal` accepts (`PrefixStays`), so the abstract log
stutters; one that fits extends it by one (`PrefixWhole`), as `Lifecycle` says. The
attempt number and the transition count are those of the judged journal because
the call's own artifact and output blocks change neither (`AttemptsStay`).

**SpentMeansBlocked, RetriesStop.** A decision is within the limits of the journal it
was taken on; that the *accepted* journal keeps the limits, whoever wrote its blocks
and however they overlapped, needs one more invariant. `WellDecided`: each accepted
transition leads to `blocked` or is `advance` of some verdict on the accepted blocks
before it. It is inductive because an accepted log grows only by a block whose author judged
exactly that log (`Origins` once more), and its own artifact and output blocks do not
count (`AttemptsStay`). The two theorems then read off the branches of `advance`: the
one that looks at the budget comes before those that move the session, and the only
one that leads off the declared edges (`OffTheMap`) is the retry.

**AtMostOneUnpaid.** From `Paid`: the iterations behind a run at the head of its loop are
each paid by a transition, and one is in progress.

**Why calls end.** `EveryStepCountsDown` has one case per action; it needs that a run's
iterations never pass the cap (`Capped`). `CountdownEnds` says that the lexical order on
four numbers is well-founded, so no execution has infinitely many steps. That a call
which has not ended can always take one more is checked by TLC, through `EveryCallEnds`.

**SerialSpec.** `SerialInv`: one call is in flight (`Alone`), and what it read is
still true (`InHand`: the number, the predecessor, the state). A call that dies is
no longer in flight, and what it has written is whole blocks.

**DoubtNeverHelps, BetterWorkIsSafe.** The only conditions of `advance` on
assertions compare with `pass`; `HardenedPasses` and `HardenedDecides` carry that
through each branch, the choice of the first failure rule included. Work that is `Better` leaves the fired
rules and escalations alone (`BetterDecides`): only the nominal exit can differ.

`EngineLemmas` and `JournalLemmas` state what the operators return: `Advance`
returns a transition to a name, the first fired rule is a fired one, what an
append does to `TransitionsUsed` and `Verified`.

**`ModelCallProofs`.** `Asking` says which replies can have ended the subprocess
(an accepted one, or one after the last retry), `Judged` that the verdict is made
from that reply. `NoGuessing` reads the criteria off `Judged`; `OutageIsHarmless`
adds that a verdict nobody gave is unknown throughout (`Unheard`), on which no
branch of `advance` but the last two applies. `TimeoutSuffices` has an invariant of
its own, `OnTime`: the clock never exceeds what the tries so far may have cost.

**`WorkRecordProofs`.** `Recording` (between the file and its block, the file is
there) makes `OnDisk` inductive. `Attempt` relates the facts to the checks of the
state and says that what a check applied stays in the tree and was in the trees of
all later facts; `Collected` that the attempt's copy of the context is the file or
empty, and that what its context checks let through holds of the file itself. On
leaving, every name of a check stands for a fact that passed, which for a check that
no later one hides is its own (`UnhiddenHasPassed`); the two properties are then
`Attempt` and `Collected`, as no artifact or context is written while checks run.

**`DeskProofs`.** The invariant has three parts.

* `Sound(f, told)`, of each file: if a load accepts it, every block it was told of is a
  line of its own that has a line feed. Whatever a process writes, and at whatever
  moment, it changes no line that has one (`WriteOnLines`, from `WriteSettled`). So the
  first line a load refuses is there for good and what comes before it stays
  (`WriteOnRefused`), which is `RefusedForGood`; and on an accepted file
  (`WriteOnAccepted`) a block with the next number and the right predecessor is added,
  anything else is a first refused line, or nothing happens. `WriteOutcome` names the
  four: `Adds`, `Stays`, `Spoils`, `Refuses`.
* `Holds(h, f)`, of what each process has in hand: while the file is accepted nobody's
  number is ahead of it, and in an attempt a number that still comes next was read
  together with the state the file still has. This survives the writes of others
  (`HoldsOn`), since on an accepted file each write that adds a block makes the number
  of everybody else fall behind. It is what allows `MeantFollows`: a block that is added
  is one of `Following`, stale artifacts and actor failures included.
* `MenuInv`: what the lists showed stays true while the menu waits, since around it
  sessions and directories are only added and a refused journal stays refused
  (`Around`). That each place of the list is taken is a pigeonhole argument on the
  directories' ranks (`EveryPlaceTaken`).

`StepKinds` says that every step of the system composes one block, or only reads
(`Composes`, `Looks`), so that the first two parts have one argument each and not one per
command. `FilesImplementStore` matches the four outcomes of a write with `Grow`, a
stutter, `Damage` and `Waste` (`WriteRefines`); the last line that a write may spoil had
no line feed, so nobody was told of it (`UnendedUntold`).

**`LintProofs`.** `InGraph`: a run is in a state of R21's least closed set, by
`ReachableClosed` and since each decision of `advance` is an edge the linter sees
(`AdvanceResult`). `InFile`: under the premises that state is in the file.
`InBudget`: each step but the last is paid by the budget. First-wins and last-wins
look-ups agree where ids are unique (`FirstIsLast`).

**Only model-checked.** Every safety property, action property and refinement a
passing run checks is also proved. What only TLC checks is `EveryCallEnds`: liveness
under fairness is out of the prover's reach. Two steps from the theorems to it stay
with TLC: that a call which has not ended has a step it can take (the prover has no
`ENABLED`), and the rule that weak fairness over a well-founded countdown reaches the
end, which is induction with an operator as parameter. Statements that need induction
over data for every input, and recursive operators, are out of reach too; no module
here declares one.

## 5. Not modelled

* JSON and SHA-256. Hashes are positions, so collisions and edits of the file do
  not exist.
* Prompts, HTTP, the search for JSON in a text: none of it changes state, and its
  outcomes are the replies of `ModelCall`.
* Isolation of the evaluator (scratch directory, filtered environment): it has no
  state. `verify_verdict_grounded` is called nowhere.
* `providers/base.py`: the runtime never calls it. The command line takes actor
  and evaluator from the environment, and the adapters read `providers.yaml`.
* Which of the two `commands.yaml` answers a `command_ref`, and its format: a pure
  look-up, whose outcomes (found, unresolved, an error) are `WorkRecord`'s.
* `status` and the text of `log`, `lint` and the menu: they read and print.
* The moments between `open(path, "a")` and the flush of the one line written: two
  writes do not mix within a line.
* Where a command runs (`runner.py:230` takes `cwd` from the session directory,
  ADR 0005 says the project root).
* Entries of a workflow that are no mappings, which the rules skip.

## 6. Plan

The plan is carried out: the core, the model calls, the work record with its
context, the file, the menu, the linter and the runs of what it lets through, two
abstract specifications with their refinements, and the proofs above, which cover all
that is checked but liveness. What would be worth adding next is an abstract
specification of the work record (the four stores as one, with a death as loss of the
unrecorded part), refined by `WorkRecord`.
