CONSTANTS
  Obligations <- MCObligations
  Findings <- MCFindings
  OnLedger <- MCOnLedger
  MaxReplans = 1
  RecursionLimit = 40
SPECIFICATION Spec
CHECK_DEADLOCK FALSE
INVARIANTS NoRunIsLostToALoop
