SPECIFICATION Spec
CONSTANTS
  Names <- MCNames
  States <- MCStates
  Initial <- MCInitial
  StateDef <- MCStateDef
  Triggers <- MCTriggers
  MaxTransitions = 20
  NoLimit = NoLimit
  Retries = 2
  Durations <- MCDurations
  ProcessTimeout = 600
  Unasked = "no_such_criterion"
INVARIANTS TypeOK NeverAGuess RetriesFitTheTimeout OutageOnlyCostsAnAttempt
CHECK_DEADLOCK FALSE
