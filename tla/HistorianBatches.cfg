CONSTANTS
  kickoff = kickoff
  standup = standup
  ana = ana
  None = None
  Meetings <- MCMeetings
  RunDay <- MCRunDay
  Extractions <- MCExtractions
  Texts <- MCTexts
  Alike <- MCAlike
  People = {ana}
  Days = {1}
  Outcomes = {"progress", "recommitted"}
  Workers = {w1, w2}
  Handlers = {h1}
  MaxChecked = 2
  MaxRuns = 3
  Relevance <- MCRelevance
  BatchSize = 2
  Replies <- MCReplies
SPECIFICATION BatchedSpec
CHECK_DEADLOCK FALSE
INVARIANTS BatchedTypeOK
PROPERTIES ReconcilesAtOnce ReconciliationEnds
