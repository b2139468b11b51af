\* One version, two publisher cycles, a callback against the reconciler, one failure
\* of any kind, and an event stream that may lose everything.
SPECIFICATION FairSpec
CONSTANTS
  MaxVersion = 1
  MaxAttempts = 2
  MaxFaults = 1
  Verdict <- AllCompleted
  Cycle = {c1, c2}
  NoCycle = NoCycle
  Handler = {h1}
  Reconciler = Reconciler
  Lossy = TRUE
INVARIANTS PublishedJobIsQueuedOrLost PublishedRunIsFindable IInv
PROPERTIES
  UploadIsProcessed
  CompletionIsRecovered
CHECK_DEADLOCK FALSE
