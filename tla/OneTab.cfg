\* One tab with three calls; two logins, at most one lost answer.
CONSTANTS
  tab1 = tab1
  Session = {s1, s2}
  Call = {c1, c2, c3}
  Exchange = {c1, c2, c3}
  MaxToken = 4
  Tab = {tab1}
  NoCall = NoCall
  TabOf <- OneTab
  NoCookie = NoCookie
  MaxLosses = 1
SPECIFICATION FairSpec
INVARIANTS TokenIsSpentOnce RenewalIsShared
PROPERTIES CallEnds RevokedIsOver
CHECK_DEADLOCK FALSE
