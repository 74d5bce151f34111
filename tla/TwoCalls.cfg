SPECIFICATION Spec
CONSTANTS
  Names <- MCNames
  States <- MCStates
  Initial <- MCInitial
  StateDef <- MCPlainStateDef
  Triggers <- MCNoTriggers
  MaxTransitions = NoLimit
  NoLimit = NoLimit
  RunCalls = {r1}
  AttemptCalls = {a1}
  ResumeCalls = {}
  SkillCalls = {k1}
  ResumeTargets <- MCTargets
  MaxSteps = 1
  MaxArtifacts = 1
PROPERTY RefinesLifecycle
INVARIANT RetriesAreBounded
CHECK_DEADLOCK FALSE
