-------------------------------- MODULE Engine --------------------------------
(***************************************************************************)
(* engine.py: the pure decision "advance(ctx, verdict) -> Transition".      *)
(***************************************************************************)
EXTENDS Workflow

(* The outcomes one attempt of state s can have: checks come from the       *)
(* runtime, assertions and escalations from the evaluator.                  *)
Verdicts(s) ==
  [ checks      : [StateDef[s].checks -> BOOLEAN],
    assertions  : [StateDef[s].assertions -> VerdictValues],
    escalations : [Triggers -> BOOLEAN] ]

Kinds == {"next", "failure", "escalate", "budget", "retry", "terminal"}

Transition(to, kind) == [to |-> to, kind |-> kind]

FailureIds(s) ==
  {StateDef[s].onFailure[i].when : i \in DOMAIN StateDef[s].onFailure}

\* Mutant: the negation of the test is lost.
AllChecksFail(s, v) == \A c \in StateDef[s].checks : ~v.checks[c]

AllChecksPass(s, v) == \A c \in StateDef[s].checks : v.checks[c]

\* Mutant: the doubt benefits the worker.
NominalAssertionsNotFailed(s, v) ==
  \A a \in StateDef[s].assertions \ FailureIds(s) : v.assertions[a] # "fail"

NominalAssertionsPass(s, v) ==
  \A a \in StateDef[s].assertions \ FailureIds(s) : v.assertions[a] = "pass"

\* Mutant: the key is looked up under another name.
BudgetUnread(used) == FALSE

\* Mutant: off by one.
BudgetOverspent(used) == MaxTransitions \in Nat /\ used > MaxTransitions

(* The budget test comes first, whatever the verdict says.                  *)
BudgetSpent(used) == MaxTransitions \in Nat /\ used >= MaxTransitions

Escalated(v) == \E t \in Triggers : v.escalations[t]

(* A rule citing an id that is no assertion of the state never fires: the   *)
(* evaluator was not asked about it.                                        *)
FiredRules(s, v) ==
  {i \in DOMAIN StateDef[s].onFailure :
     LET a == StateDef[s].onFailure[i].when
     IN  a \in StateDef[s].assertions /\ v.assertions[a] = "pass"}

FirstFired(s, v) ==
  CHOOSE i \in FiredRules(s, v) : \A k \in FiredRules(s, v) : i <= k

MayRetry(s, attempt) == attempt < StateDef[s].maxAttempts

Advance(s, attempt, used, v) ==
  IF s \notin States THEN Transition(Blocked, "budget")
  ELSE IF StateDef[s].terminal THEN Transition(None, "terminal")
  ELSE IF BudgetSpent(used) THEN Transition(Blocked, "budget")
  ELSE IF Escalated(v) THEN Transition(Blocked, "escalate")
  ELSE IF FiredRules(s, v) # {}
    THEN Transition(StateDef[s].onFailure[FirstFired(s, v)].to, "failure")
  ELSE IF AllChecksPass(s, v) /\ NominalAssertionsPass(s, v)
    THEN Transition(StateDef[s].next, "next")
  ELSE IF MayRetry(s, attempt) THEN Transition(s, "retry")
  ELSE Transition(Blocked, "budget")

=============================================================================
