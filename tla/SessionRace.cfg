\* Two handlers at a time work on one account.
SPECIFICATION SessionSpec
CONSTANTS
  Session = {s1, s2, s3}
  Pin = {p1, p2}
  Worker = {w1, w2}
  MaxVersion = 4
  AfterCrossing = FALSE
  NoPin = NoPin
SYMMETRY Symmetry
INVARIANTS
  SessionWellFormed
  EndedSessionsStayEnded
  FullSessionIsSetUp
  OutstandingPinIsClean
PROPERTY
  PinProvisionsOnce
CHECK_DEADLOCK FALSE
