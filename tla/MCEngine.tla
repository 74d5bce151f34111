------------------------------- MODULE MCEngine -------------------------------
(***************************************************************************)
(* One state with two failure rules of opposite targets, a rule citing an   *)
(* unknown id, two checks, two nominal assertions; one state with no rule.  *)
(***************************************************************************)
EXTENDS EngineJudgements

MCStates == {"validation", "fix", "done"}
MCNames == MCStates \cup {Blocked, None}
MCInitial == "fix"
MCTriggers == {"irreversible_action", "human_decision_required"}

MCStateDef ==
  [ validation |->
      [ terminal |-> FALSE, next |-> "done",
        onFailure |-> << [when |-> "no_such_assertion", to |-> Blocked],
                         [when |-> "fix_is_incorrect", to |-> "fix"],
                         [when |-> "cannot_be_completed", to |-> Blocked] >>,
        assertions |-> {"regression_is_verified", "completion_checks_pass",
                        "fix_is_incorrect", "cannot_be_completed"},
        checks |-> {"unit_tests_pass", "lint_passes"},
        commands |-> 2, maxAttempts |-> 2 ],
    fix |->
      [ terminal |-> FALSE, next |-> "validation", onFailure |-> <<>>,
        assertions |-> {"addresses_cause"}, checks |-> {}, commands |-> 0,
        maxAttempts |-> 1 ],
    done |->
      [ terminal |-> TRUE, next |-> None, onFailure |-> <<>>, assertions |-> {},
        checks |-> {}, commands |-> 0, maxAttempts |-> 1 ] ]
=============================================================================
