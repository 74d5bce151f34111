------------------------- MODULE LintedRunProperties --------------------------
(***************************************************************************)
(* What a workflow file without lint errors promises to the run, and under  *)
(* which further conditions: each names something that no rule looks at.    *)
(***************************************************************************)
EXTENDS LintedRun

Clean == LintExit(report, FALSE) = 0

\* lint-rules.md, R9: the target of next is not checked.
NextDeclared ==
  \A d \in Entries(wf.states) : EndsRun(d) \/ d.next \in StateIds(wf)

\* No rule asks for the id of an assertion or of a trigger.
IdsGiven ==
  \A c \in Entries(wf.triggers) \cup UNION {Entries(d.assertions) : d \in Entries(wf.states)} :
    IsString(c.id)

\* R11 lets "max_attempts:" without a value through.
AttemptsGiven == \A d \in Entries(wf.states) : d.maxAttempts # Null

\* Neither state ids nor the names of a state's checks need be unique.  A
\* state may have the empty id, which is where a run without next goes on.
UniqueIds ==
  /\ "" \notin StateIds(wf)
  /\ \A i, k \in DOMAIN wf.states : wf.states[i].id = wf.states[k].id => i = k

UniqueNames ==
  \A d \in Entries(wf.states) : \A i, k \in DOMAIN d.checks :
    d.checks[i].name = d.checks[k].name => i = k

-----------------------------------------------------------------------------
Decisions == {"none", "next", "failure", "escalate", "budget", "retry"}

(* The type of the variables: the states of the journal are strings.        *)
TypeOK ==
  /\ report \subseteq DOMAIN Rules(wf)
  /\ \A i \in DOMAIN path : IsString(path[i])
  /\ last.kind \in Decisions
  /\ outcome \in {"running", "blocked", "terminal", "capped", "raised"}

(* A file without lint errors never makes the run raise, whatever actor,    *)
(* checks and evaluator do: run_session always finds its state, advance its *)
(* numbers.                                                                 *)
LintedNeverRaises ==
  Clean /\ NextDeclared /\ IdsGiven /\ AttemptsGiven => outcome # "raised"

(* "safety cap (should not happen thanks to max_transitions)"               *)
(* (session_loop.py:218): true of a file without lint errors that gives     *)
(* max_transitions a value, and one below the cap.                          *)
LintedEndsWithinBudget ==
  /\ Clean
  /\ wf.maxTransitions \notin {Missing, Null}
  /\ wf.maxTransitions \in Int => wf.maxTransitions < MaxSteps
  => outcome # "capped"

(* The linter's picture of the workflow covers every run: a run is only     *)
(* ever in a state R21 takes for attainable, in blocked, or nowhere.        *)
RunsStayAttainable ==
  UniqueIds => At \in Reachable(wf, wf.initial) \cup {Eng(wf)!Blocked, ""}

(* So what R21 does not look at, no run needs: a context field that an      *)
(* assertion of the state of a run under way cites is declared by a state   *)
(* that leads there.                                                        *)
EvidenceHasASource ==
  Clean /\ UniqueIds /\ outcome = "running" /\ At \in StateIds(wf) =>
    \A f \in Cited(FirstOf(wf, At)) :
      \E d \in Declared(wf) : f \in Fields(d) /\ At \in Reachable(wf, d.id)

(* In a file without lint errors a state is left through next only when     *)
(* each of its checks passed, each by a test of the closed set of ADR 0003  *)
(* D3: none got by as an unknown type.                                      *)
ExitIsEarned ==
  Clean /\ UniqueNames /\ last.kind = "next" =>
    \A i \in DOMAIN last.checks : last.passed[i] /\ last.checks[i].type \in CheckTypes

=============================================================================
