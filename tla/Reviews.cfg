\* Two requests open at once, and a value that a result and a reviewer share.
CONSTANTS
  Request = {r1, r2}
  Task = {k1}
  Extracted = {x, y}
  Corrected = {x, y}
SPECIFICATION Spec
INVARIANT ReviewTypeOK
PROPERTIES
  HumanValueStands
  OnlyOvertakenDecideBesideTasks
  OnlyOvertakenChangeDecision
  OnlyOvertakenLoseCorrections
  OnlyOvertakenResolveTwice
