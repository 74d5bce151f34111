SPECIFICATION Spec
CHECK_DEADLOCK FALSE
CONSTANTS
  States <- MCStates
  Initial = "fix"
  Exit <- MCExit
  Back <- MCBack
  Checks <- MCChecks
  Cited <- MCCited
  Artifacts <- MCArtifacts
  Contents = {d1, d2}
  Fields <- MCFields
  CwdIsSessionDir = TRUE
  MaxBlocks = 6
INVARIANT OverwriteInvalidates
