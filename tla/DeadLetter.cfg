\* Nothing fails but the attempts, and every event is delivered.
SPECIFICATION FairSpec
CONSTANTS
  MaxVersion = 1
  MaxAttempts = 2
  MaxFaults = 0
  Verdict <- AllCompleted
  Cycle = {c1}
  NoCycle = NoCycle
  Handler = {h1}
  Reconciler = Reconciler
  Lossy = FALSE
PROPERTY ExhaustedIsDeadLettered
CHECK_DEADLOCK FALSE
