------------------------------ MODULE LintedRun -------------------------------
(***************************************************************************)
(* One "agentic run" of a workflow file as it is, whatever the linter says  *)
(* of it: run_session, run_attempt and advance on definitions that need not *)
(* be well formed.  The decision is module Engine's; what is added here is  *)
(* how a malformed definition reaches it, or raises before.                 *)
(*                                                                         *)
(* Nobody else touches the session.                                         *)
(***************************************************************************)
EXTENDS Lint

CONSTANTS
  Workflows,  \* the files to run
  MaxSteps    \* max_steps of run_session

ASSUME LintedRunAssumption ==
  /\ Workflows \subseteq Files
  /\ MaxSteps \in Nat \ {0}
  /\ {"blocked", ""} \subseteq STRING  \* which the provers cannot tell

VARIABLES
  wf,       \* the parsed file
  report,   \* what "agentic lint" says of it
  path,     \* the to_state of its session_opened and transition blocks
  last,     \* kind of the last decision, and the checks it was taken on
  outcome   \* "running", or how the run ended

vars == <<wf, report, path, last, outcome>>

\* state.get("terminal") as a condition.
EndsRun(d) == d.terminal \notin {FALSE, Missing, Null}

\* next(s for s in workflow["states"] if s.get("id") == id): the first one.
FirstOf(w, id) ==
  LET n == CHOOSE i \in DOMAIN w.states :
             /\ w.states[i].id = id
             /\ \A k \in DOMAIN w.states : w.states[k].id = id => i <= k
  IN  w.states[n]

\* Mutant: a to_state that is null is taken as it is.
AsItIs(name) == name

\* str(to_state or "") of _current_state.
OrEmpty(name) == IF IsString(name) THEN name ELSE ""

\* entry.get("to", "blocked")
Target(to) == IF to = Missing THEN "blocked" ELSE OrEmpty(to)

\* One more than any attempt: "attempt < max_attempts" is then reached.
Unlimited == MaxSteps + 1

\* The definition as engine.py reads it.
RuntimeDef(d) ==
  [ terminal    |-> EndsRun(d),
    next        |-> OrEmpty(d.next),
    onFailure   |-> [i \in DOMAIN d.onFailure |->
                       [when |-> d.onFailure[i].when, to |-> Target(d.onFailure[i].to)]],
    assertions  |-> {a.id : a \in Entries(d.assertions)},
    checks      |-> {c.name : c \in Entries(d.checks)},
    commands    |-> 0,
    maxAttempts |-> CASE d.maxAttempts \in Int -> d.maxAttempts
                      [] d.maxAttempts = Missing -> 1
                      [] OTHER -> Unlimited ]

Eng(w) == INSTANCE Engine WITH
  Names <- STRING, States <- StateIds(w), Initial <- w.initial,
  StateDef <- [id \in StateIds(w) |-> RuntimeDef(FirstOf(w, id))],
  Triggers <- {t.id : t \in Entries(w.triggers)},
  MaxTransitions <- w.maxTransitions, NoLimit <- Missing

At == path[Len(path)]
Attempt == Cardinality({i \in DOMAIN path : path[i] = At})

-----------------------------------------------------------------------------
NoDecision == [kind |-> "none", passed |-> <<>>, checks |-> <<>>]

\* A workflow without initial_state is refused before there is a session.
Init ==
  /\ wf \in Workflows
  /\ report = Reported(wf)
  /\ IsString(wf.initial)
  /\ path = <<wf.initial>>
  /\ last = NoDecision
  /\ outcome = "running"

Ends(how) ==
  /\ outcome' = how
  /\ UNCHANGED <<wf, report, path, last>>

StepsLeft == Len(path) <= MaxSteps

\* ValueError: the state is not in the workflow.
UnknownState ==
  /\ outcome = "running" /\ StepsLeft
  /\ At \notin StateIds(wf)
  /\ Ends("raised")

Terminal ==
  /\ outcome = "running" /\ StepsLeft
  /\ At \in StateIds(wf) /\ EndsRun(FirstOf(wf, At))
  /\ Ends("terminal")

StepCap ==
  /\ outcome = "running" /\ ~StepsLeft
  /\ Ends("capped")

Attempting ==
  /\ outcome = "running" /\ StepsLeft
  /\ At \in StateIds(wf) /\ ~EndsRun(FirstOf(wf, At))

\* The actor fails.
ActorFails ==
  /\ Attempting
  /\ path' = Append(path, Eng(wf)!Blocked)
  /\ outcome' = "blocked"
  /\ UNCHANGED <<wf, report, last>>

Criteria(d) == Entries(d.assertions) \cup Entries(wf.triggers)

\* assertion["id"], trigger["id"]
MissingId ==
  /\ Attempting
  /\ \E c \in Criteria(FirstOf(wf, At)) : c.id = Missing
  /\ Ends("raised")

(* _run_checks on checks of which some hold: a type that is not in the      *)
(* closed set is tried as artifact_exists.  A check without a name never    *)
(* passes; of two with one name the last one counts.                        *)
Passed(checks, holds) ==
  [name \in {c.name : c \in Entries(checks)} |->
     /\ IsString(name)
     /\ \E i \in DOMAIN checks :
          /\ checks[i].name = name /\ holds[i]
          /\ \A k \in DOMAIN checks : checks[k].name = name => k <= i]

\* run_attempt: the evaluator judges, the engine decides.
Decide(holds, v) ==
  LET d == FirstOf(wf, At)
      t == Eng(wf)!Advance(At, Attempt, Len(path) - 1, v)
  IN  /\ v.checks = Passed(d.checks, holds)
      /\ last' = [kind |-> t.kind, passed |-> holds, checks |-> d.checks]
      /\ IF t.kind = "retry" /\ d.maxAttempts \notin Int \cup {Missing}
           THEN outcome' = "raised" /\ UNCHANGED path    \* TypeError
           ELSE /\ path' = Append(path, t.to)
                /\ outcome' = IF t.kind \in {"next", "retry"} /\ t.to # Eng(wf)!Blocked
                                THEN "running" ELSE "blocked"
      /\ UNCHANGED <<wf, report>>

RunAttempt ==
  /\ Attempting
  /\ \A c \in Criteria(FirstOf(wf, At)) : c.id # Missing
  /\ \E holds \in [DOMAIN FirstOf(wf, At).checks -> BOOLEAN], v \in Eng(wf)!Verdicts(At) :
       Decide(holds, v)

Next ==
  \/ UnknownState \/ Terminal \/ StepCap
  \/ ActorFails \/ MissingId \/ RunAttempt

Spec == Init /\ [][Next]_vars

=============================================================================
