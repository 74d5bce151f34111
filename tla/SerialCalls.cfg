SPECIFICATION SerialSpec
CONSTANTS
  Names <- MCNames
  States <- MCStates
  Initial <- MCInitial
  StateDef <- MCStateDef
  Triggers <- MCNoTriggers
  MaxTransitions = NoLimit
  NoLimit = NoLimit
  RunCalls = {r1}
  AttemptCalls = {a1}
  ResumeCalls = {h1}
  SkillCalls = {k1}
  ResumeTargets <- MCAnyTarget
  MaxSteps = 2
  MaxArtifacts = 2
INVARIANTS AlwaysVerifies StateContinuity ReportsJournalState
CHECK_DEADLOCK FALSE
