CONSTANTS
  kickoff = kickoff
  standup = standup
  ana = ana
  ben = ben
  None = None
  Meetings <- MCMeetings
  RunDay <- MCRunDay
  Extractions <- RacingExtractions
  Texts <- MCTexts
  Alike <- MCAlike
  People = {ana, ben}
  Days <- MCDays
  Outcomes = {"completed", "recommitted"}
  Workers = {w1, w2}
  Handlers = {h1}
  MaxChecked = 2
  Today = {9}
  Namings <- MCNamings
  MaxOwnersNudged = 1
  MaxRuns = 3
SPECIFICATION Spec
SYMMETRY WorkersAlike
CHECK_DEADLOCK FALSE
INVARIANTS TypeOK ConfirmedIsOwned OwnersSurvive LastSeenIsMentioned SweepAgreesWithPages
PROPERTIES OwnerIsKept SilenceCountsOnce
