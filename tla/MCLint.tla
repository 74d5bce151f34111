-------------------------------- MODULE MCLint --------------------------------
(***************************************************************************)
(* Files of the states "work", "review" and the terminal "done": every      *)
(* combination of what decides where a run goes, and files with one defect  *)
(* elsewhere.                                                               *)
(***************************************************************************)
EXTENDS LintedRunProperties

MCSnakeCase == {"run_tests", "fails", "ok"}
MCNegations == {"regression_is_not_verified"}

Done ==
  [ id |-> "done", terminal |-> TRUE, next |-> Missing, onFailure |-> <<>>,
    fields |-> <<>>, checks |-> <<>>, assertions |-> <<>>, produces |-> <<>>,
    maxAttempts |-> Missing, evaluatedBy |-> Missing, skills |-> Missing ]

Command(name, type) == [name |-> name, type |-> type, ref |-> "run_tests"]
Rule(to) == [when |-> "fails", to |-> to]
Cites(f) == {[space |-> "context", id |-> f], [space |-> "artifacts", id |-> "patch"]}
Asserts(id, f) == [id |-> id, evidence |-> Cites(f)]
Field(f) == [id |-> f, type |-> "text", vocabulary |-> Missing]

Review ==
  [ Done EXCEPT !.id = "review", !.terminal = FALSE, !.next = "done",
                !.checks = <<Command("tested", "command_exit_zero")>>,
                !.fields = <<Field("found")>>, !.evaluatedBy = "evaluator" ]

Work ==
  [ Review EXCEPT !.id = "work", !.next = "review",
                  !.checks = <<Command("built", "command_exit_zero")>>,
                  !.assertions = <<Asserts("fails", "report")>>,
                  !.onFailure = <<Rule("review")>>,
                  !.fields = <<Field("report")>> ]

File ==
  [ initial |-> "work", states |-> <<Work, Review, Done>>, escapes |-> {"blocked"},
    vocabularies |-> {"scope"}, triggers |-> <<[id |-> "human", nature |-> "assertion"]>>,
    maxTransitions |-> 2 ]

Checks ==
  { <<Command("built", "command_exit_zero")>>,
    <<Command("built", Missing)>>,
    <<Command("built", "command_exit_zero"), Command("built", "artifact_exists")>> }

\* Where runs go.
Graphs ==
  { [File EXCEPT !.initial = initial, !.maxTransitions = budget,
                 !.states[1] = [Work EXCEPT !.next = next, !.onFailure = rules,
                                            !.maxAttempts = attempts],
                 !.states[2] = [Review EXCEPT !.next = back,
                                              !.assertions = <<Asserts("ok", f)>>]] :
      initial \in {"work", "done", "ghost"},
      budget \in {Missing, Null, Other, 2},
      next \in {"review", "ghost", Missing},
      rules \in {<<>>, <<Rule("review")>>, <<Rule("blocked")>>, <<Rule("done")>>},
      attempts \in {Missing, Null, Other, 2},
      back \in {"work", "done"},
      f \in {"report", "unheard_of"} }

\* The linter and the run take another state for "work", or for the target of
\* a missing next.
Confusing ==
  LET unheard == [Review EXCEPT !.assertions = <<Asserts("ok", "unheard_of")>>]
      straight == [Work EXCEPT !.next = "done", !.onFailure = <<>>]
  IN  { [File EXCEPT !.states = <<Work, unheard, Done, straight>>],
        [File EXCEPT !.states[1] = [straight EXCEPT !.next = Missing],
                     !.states[2] = [unheard EXCEPT !.id = ""]] }

\* One defect in the first state, or two, in every field a rule looks at.
Defects ==
  { [File EXCEPT !.states[1] = d] :
      d \in { [Work EXCEPT !.checks = checks] : checks \in Checks }
       \cup { [Work EXCEPT !.fields[1] = [id |-> "report", type |-> "enum", vocabulary |-> v]] :
                v \in {"scope", "scopes", Missing} }
       \cup { [Work EXCEPT !.assertions[1].evidence = e] : e \in {{}, Missing, Cites("found")} }
       \cup { [Work EXCEPT !.assertions[1].id = id] : id \in {Missing} \cup MCNegations }
       \cup { [Work EXCEPT !.checks = <<>>],
              [Work EXCEPT !.checks[1].ref = "ci/run_tests"],
              [Work EXCEPT !.checks[1].name = Missing],
              [Work EXCEPT !.terminal = Other],
              [Work EXCEPT !.id = "review"],
              [Work EXCEPT !.id = Missing],
              [Work EXCEPT !.evaluatedBy = Missing],
              [Work EXCEPT !.onFailure[1].when = "typo"],
              [Work EXCEPT !.onFailure[1].to = "ghost"] }
       \cup { [Work EXCEPT !.produces = p] :
                p \in [1..2 -> [id : {"patch"}, kind : {"patch"}]]
                  \cup [1..1 -> [id : {"patch"}, kind : {"patch", "binary"}]] }
       \cup { [Work EXCEPT !.skills = skills] :
                skills \in {Other} \cup [1..2 -> [id : {"ok", "Bad Id"}, useWhen : {Missing, Other}]] } }
  \cup { [File EXCEPT !.triggers[1] = t] : t \in [id : {"human", Missing}, nature : {"assertion", "budget"}] }
  \cup { [File EXCEPT !.initial = i] : i \in {Missing, Other, "blocked"} }
  \cup { [File EXCEPT !.escapes = {"work"}],
          [File EXCEPT !.states[2] =
             [Review EXCEPT !.id = "blocked", !.assertions = <<Asserts("ok", "unheard_of")>>]] }
  \cup Confusing

MCWorkflows == Graphs \cup Defects

=============================================================================
