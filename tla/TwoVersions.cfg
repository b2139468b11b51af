\* Two versions, the first one rejected, in every order of confirmation and result.
SPECIFICATION Spec
CONSTANTS
  MaxVersion = 2
  MaxAttempts = 1
  MaxFaults = 0
  Verdict <- FirstRejected
  Cycle = {c1}
  NoCycle = NoCycle
  Handler = {h1}
  Reconciler = Reconciler
  Lossy = TRUE
PROPERTY DocSpec
CHECK_DEADLOCK FALSE
