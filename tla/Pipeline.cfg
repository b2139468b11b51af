SPECIFICATION FairSpec
CONSTANTS
  MaxVersion = 1
  MaxAttempts = 3
  Verdict <- AllCompleted
  RequiredKey = {"issuer", "value"}
  SuggestedKey = {"buyer"}
  BlankKey = " "
  Worker = {w1, w2}
  NoWorker = NoWorker
  Texts <- MCTexts
  Suggestions <- MCSuggestions
  MaxFaults = 3
  MaxAccepted = 2
CHECK_DEADLOCK FALSE
INVARIANTS TypeOK OnlyScannedIsReadable ResultIsBacked SuggestionsAwaitReview
PROPERTIES EveryJobEnds FieldsStand
