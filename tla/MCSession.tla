------------------------------ MODULE MCSession -------------------------------
(***************************************************************************)
(* A two-step workflow in the shape of workflows/v1/bugfix.yaml: a state    *)
(* that may be retried, a state that runs a command and may send the        *)
(* session back, a terminal state, a rule of each kind.                     *)
(***************************************************************************)
EXTENDS SessionProperties, TLC

MCStates == {"fix", "validation", "done"}
MCNames == MCStates \cup {Blocked, None}
MCInitial == "fix"
MCTriggers == {"human_decision_required"}

Contract(next, onFailure, assertions, checks, commands, maxAttempts) ==
  [terminal |-> FALSE, next |-> next, onFailure |-> onFailure,
   assertions |-> assertions, checks |-> checks, commands |-> commands,
   maxAttempts |-> maxAttempts]

End == [terminal |-> TRUE, next |-> None, onFailure |-> <<>>, assertions |-> {},
        checks |-> {}, commands |-> 0, maxAttempts |-> 1]

MCStateDef ==
  [ fix |-> Contract("validation",
              <<[when |-> "cannot_be_implemented", to |-> Blocked]>>,
              {"addresses_cause", "cannot_be_implemented"}, {"patch_recorded"}, 0, 2),
    validation |-> Contract("done",
              <<[when |-> "fix_is_incorrect", to |-> "fix"]>>,
              {"regression_is_verified", "fix_is_incorrect"}, {"unit_tests_pass"}, 1, 1),
    done |-> End ]

(* Without failure rules and escalation: for the runs about the writers.    *)
MCNoTriggers == {}
MCPlainStateDef ==
  [ fix |-> Contract("validation", <<>>, {"addresses_cause"}, {}, 0, 2),
    validation |-> Contract("done", <<>>, {"regression_is_verified"}, {}, 1, 1),
    done |-> End ]

MCTargets == {"fix", "validation"}
MCAnyTarget == {"fix", "done", Blocked}

CallSymmetry == Permutations(RunCalls) \cup Permutations(ResumeCalls)
=============================================================================
