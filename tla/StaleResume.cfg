SPECIFICATION Spec
CONSTANTS
  Names <- MCNames
  States <- MCStates
  Initial <- MCInitial
  StateDef <- MCPlainStateDef
  Triggers <- MCNoTriggers
  MaxTransitions = 2
  NoLimit = NoLimit
  RunCalls = {r1}
  AttemptCalls = {}
  ResumeCalls = {h1}
  SkillCalls = {}
  ResumeTargets <- MCTargets
  MaxSteps = 3
  MaxArtifacts = 1
INVARIANT OnlyTransitionsMove
CHECK_DEADLOCK FALSE
