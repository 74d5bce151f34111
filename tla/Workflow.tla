------------------------------- MODULE Workflow -------------------------------
(***************************************************************************)
(* A declarative workflow as the runtime reads it from workflows/v<N>/*.yaml *)
(* (loader.py): states with an exit contract, escalation triggers and the  *)
(* two budgets.  Everything here is a parameter; the runtime never writes   *)
(* it.  A state's definition keeps exactly the keys engine.py, runner.py   *)
(* and session_loop.py read.                                               *)
(***************************************************************************)
EXTENDS Integers, Sequences, FiniteSets

CONSTANTS
  Names,           \* every identifier a workflow file or a human may name as a state
  States,          \* ids declared under "states"
  Initial,         \* "initial_state"
  StateDef,        \* the definition of each declared state
  Triggers,        \* ids of the "escalate_when" triggers
  MaxTransitions,  \* "max_transitions", or NoLimit when the key is absent
  NoLimit

Blocked == "blocked"

\* A "to_state" that is null or missing: runner._current_state reads it as "".
None == ""

VerdictValues == {"pass", "fail", "insufficient_evidence"}

OnFailureRules == [when : STRING, to : Names]

StateDefs ==
  [ terminal    : BOOLEAN,
    next        : Names,                \* None when the key is absent
    onFailure   : Seq(OnFailureRules),  \* in declaration order
    assertions  : SUBSET STRING,
    checks      : SUBSET STRING,
    commands    : Nat,                  \* how many checks are command_exit_zero
    maxAttempts : Nat ]

ASSUME WorkflowAssumption ==
  /\ States \subseteq Names
  /\ {Initial, Blocked, None} \subseteq Names
  /\ StateDef \in [States -> StateDefs]
  /\ MaxTransitions \in Nat \cup {NoLimit}

NonTerminal == {s \in States : ~StateDef[s].terminal}

=============================================================================
