CONSTANTS
  decisions = decisions
  commitments = commitments
  blockers = blockers
  None = None
  Brief <- MCBrief
  Concurrency = 2
  Estimates <- MCEstimates
  Actual = {1, 7}
  Ceiling = 10
  Settings <- MCSettings
SPECIFICATION Spec
CHECK_DEADLOCK FALSE
INVARIANTS TypeOK BurstsStayBelowTheCeiling ReviewIsIndependent TheReaderIsToldTheTruth ReportsComeBeforeTheEnd
PROPERTIES EveryBriefSettles AReaderWhoStaysIsAnswered
