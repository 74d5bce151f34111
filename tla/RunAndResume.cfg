SPECIFICATION FairSpec
CONSTANTS
  Names <- MCNames
  States <- MCStates
  Initial <- MCInitial
  StateDef <- MCStateDef
  Triggers <- MCTriggers
  MaxTransitions = 2
  NoLimit = NoLimit
  RunCalls = {r1}
  AttemptCalls = {}
  ResumeCalls = {h1}
  SkillCalls = {}
  ResumeTargets <- MCTargets
  MaxSteps = 4
  MaxArtifacts = 1
INVARIANTS TypeOK BudgetBound CapNeverHit OneIterationPastBudget BudgetIsFinal
PROPERTIES RefinesLifecycle EveryCallEnds StepsCountDown
CHECK_DEADLOCK FALSE
