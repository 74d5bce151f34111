SPECIFICATION Spec
CONSTANTS
  Missing = Missing
  Null = Null
  Other = Other
  SnakeCase <- MCSnakeCase
  Negations <- MCNegations
  Workflows <- MCWorkflows
  MaxSteps = 4
INVARIANTS TypeOK LintedNeverRaises LintedEndsWithinBudget RunsStayAttainable
  EvidenceHasASource ExitIsEarned
CHECK_DEADLOCK FALSE
