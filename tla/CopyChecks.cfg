\* A document, its copies and a revision; one check at a time.
SPECIFICATION Spec
CONSTANTS
  Ref = {r1, r2, r3, r4}
  Version = {v1, v2}
  Copy = {c1, c2}
  Worker = {w1}
  Reviewer = {}
  Alert = {a1}
  MaxAlerted = 1
  MaxWatched = 3
  NoRef = NoRef
  NoCopy = NoCopy
  NoVersion = NoVersion
  NoAlert = NoAlert
  Changed = Changed
\* Once every reference is used and no check runs nothing is left to do.
CHECK_DEADLOCK FALSE
SYMMETRY Symmetry
INVARIANTS
  GenuineCopiesMatch
  OnlyTheIssuedCopyMatches
