\* Two requests open at once.
CONSTANTS
  Request = {r1, r2}
  Task = {k1}
  Extracted = {e1}
  Corrected = {c1, c2}
SPECIFICATION Spec
PROPERTY NoDecisionWithOpenTasks
