CONSTANTS
  first = first
  again = again
  None = None
  Clients = {first, again}
  Keys = {"plan", "memo"}
  Todo <- SameTodo
  Invalid = {"memo"}
  MaxAttempts = 2
  Threshold = 2
SPECIFICATION Spec
CHECK_DEADLOCK FALSE
INVARIANTS TypeOK OutcomesAreTheirOwn HammeringIsBounded
PROPERTIES DeliversOnce Delivers
