\* Two browsers and another client of the API, two versions, two contents, one failure.
SPECIFICATION FairSpec
CONSTANTS
  MaxVersion = 2
  Client = {c1, c2}
  Direct = {d1}
  Content = {f1, f2}
  NoContent = NoContent
  MaxFailures = 1
INVARIANTS TypeOK ConfirmedIsStored NoSilentDuplicate SuccessIsReceived CurrentIsShownReady
PROPERTIES
  ImplementsDocuments
  UploadEnds
  NothingIsLeftBehind
CHECK_DEADLOCK FALSE
