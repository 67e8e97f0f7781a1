CONSTANTS
  kickoff = kickoff
  standup = standup
  ana = ana
  ben = ben
  None = None
  Meetings <- MCMeetings
  RunDay <- MCRunDay
  Extractions <- SerialExtractions
  Texts <- MCTexts
  Alike <- MCAlike
  People = {ana}
  Days <- MCDays
  Outcomes = {"progress"}
  Workers = {w1}
  Handlers = {}
  MaxChecked = 2
  Today = {9}
  Namings <- MCNamings
  MaxOwnersNudged = 1
  MaxRuns = 3
SPECIFICATION Spec
CHECK_DEADLOCK FALSE
PROPERTIES FoldedStaysFolded
