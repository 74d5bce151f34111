------------------------------ MODULE MCModelCall -----------------------------
(***************************************************************************)
(* A state with a nominal and a failure assertion, and one that has only a  *)
(* check; the constants of the code, in half seconds.                       *)
(***************************************************************************)
EXTENDS ModelCall

MCStates == {"validation", "probe", "done"}
MCNames == MCStates \cup {Blocked, None}
MCInitial == "validation"
MCTriggers == {"human_decision_required"}

(* An immediate answer, and one at the end of the 90 seconds or far beyond. *)
MCDurations == [prompt |-> {2, 180}, trickling |-> {2, 400}]

MCStateDef ==
  [ validation |->
      [ terminal |-> FALSE, next |-> "done",
        onFailure |-> <<[when |-> "fix_is_incorrect", to |-> "probe"]>>,
        assertions |-> {"regression_is_verified", "fix_is_incorrect"},
        checks |-> {"unit_tests_pass"}, commands |-> 1, maxAttempts |-> 2 ],
    probe |->
      [ terminal |-> FALSE, next |-> "validation", onFailure |-> <<>>,
        assertions |-> {}, checks |-> {"context_present"}, commands |-> 0,
        maxAttempts |-> 1 ],
    done |->
      [ terminal |-> TRUE, next |-> None, onFailure |-> <<>>, assertions |-> {},
        checks |-> {}, commands |-> 0, maxAttempts |-> 1 ] ]
=============================================================================
