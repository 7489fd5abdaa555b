\* The alerts about one copy: two checks and a forward at a time.
SPECIFICATION Spec
CONSTANTS
  Ref = {r1, r2}
  Version = {v1}
  Copy = {c1}
  Worker = {w1, w2}
  Reviewer = {f1}
  Alert = {a1, a2, a3, a4}
  MaxAlerted = 1
  MaxWatched = 2
  NoRef = NoRef
  NoCopy = NoCopy
  NoVersion = NoVersion
  NoAlert = NoAlert
  Changed = Changed
\* Once every reference is used and no check runs nothing is left to do.
CHECK_DEADLOCK FALSE
SYMMETRY Symmetry
INVARIANTS
  AnonymousAlertsAreBounded
  TamperingIsAlerted
