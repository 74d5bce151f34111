SPECIFICATION Spec
CONSTANTS
  Processes <- MCProcesses
  Menu = "menu"
  Sessions <- MCSessions
  States <- MCStates
  Initial = "fix"
  Texts <- MCTexts
  Versions <- MCVersions
  SortKey <- MCSortKey
  Digits <- MCDigits
  MaxLines <- MCMaxLines
INVARIANT ReadBack
CHECK_DEADLOCK FALSE
