\* Two handlers at a time use and change one person's factors.
SPECIFICATION FactorSpec
CONSTANTS
  Factor = {"factor2"}
  Key = {k1, k2}
  Challenge = {c1}
  Grant = {g1, g2}
  Worker = {w1, w2}
  MaxStep = 2
  MaxVersion = 1
  AfterCrossing = FALSE
SYMMETRY Symmetry
INVARIANTS
  FactorWellFormed
  TokenUsedOnce
  CodeUsedOnce
  LoginPasskeyStays
  LinkedHasNoOwnFactor
PROPERTY
  RemovalIsProven
CHECK_DEADLOCK FALSE
