\* Two connections, two versions of any outcome, one lost connection.
SPECIFICATION FairSpec
CONSTANTS
  MaxVersion = 2
  Transaction = {t1, t2}
  NoTransaction = NoTransaction
  MaxFailures = 1
INVARIANTS
  CurrentIsNewestReady StatusIsJustified NumberIsNext TrailDoesNotFork TrailTellsHistory
  DeadlockIsOverTheTrail
PROPERTIES CurrentNeverRegresses DocSpec EveryTransactionEnds ResultIsStored
CHECK_DEADLOCK FALSE
