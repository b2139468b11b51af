\* Nothing fails; one callback runs while the reconciler does.
SPECIFICATION Spec
CONSTANTS
  MaxVersion = 1
  MaxAttempts = 1
  MaxFaults = 0
  Verdict <- AllCompleted
  Cycle = {c1}
  NoCycle = NoCycle
  Handler = {h1}
  Reconciler = Reconciler
  Lossy = FALSE
INVARIANT ResultAcceptedOnce
CHECK_DEADLOCK FALSE
