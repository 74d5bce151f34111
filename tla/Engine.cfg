SPECIFICATION Spec
CONSTANTS
  Names <- MCNames
  States <- MCStates
  Initial <- MCInitial
  StateDef <- MCStateDef
  Triggers <- MCTriggers
  MaxTransitions = 2
  NoLimit = NoLimit
  MaxAttempt = 3
  MaxUsed = 3
INVARIANT DoubtIsFailure
PROPERTY BetterWorkNeverHurts
