CONSTANTS
  kickoff = kickoff
  standup = standup
  ana = ana
  ben = ben
  None = None
  Meetings <- MCMeetings
  RunDay <- MCRunDay
  Extractions <- RacingExtractions
  Texts <- MCTexts
  Alike <- MCAlike
  People = {ana}
  Days <- MCDays
  Outcomes = {"completed"}
  Workers = {w1}
  Handlers = {h1}
  MaxChecked = 2
  Today = {9}
  Namings <- MCNamings
  MaxOwnersNudged = 1
  MaxRuns = 2
SPECIFICATION Spec
CHECK_DEADLOCK FALSE
PROPERTIES ClosedIsFinal
