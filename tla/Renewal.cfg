\* One tab with one call at a time, one session, and no answer lost.
CONSTANTS
  tab1 = tab1
  Session = {s1}
  Call = {c1}
  Exchange = {c1}
  MaxToken = 3
  Tab = {tab1}
  NoCall = NoCall
  TabOf <- OneTab
  NoCookie = NoCookie
  MaxLosses = 0
SPECIFICATION Spec
INVARIANT NoReuseWithoutLoss
