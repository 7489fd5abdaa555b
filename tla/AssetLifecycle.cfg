\* Registrations, status changes, removals, the chain and the indexer at once.
CONSTANTS
  s1 = s1
  S1 = S1
  s2 = s2
  x1 = x1
  x2 = x2
  User = {u1, u2}
  Serial = {s1, S1, s2}
  Address = {x1, x2}
  Norm <- MCNorm
  Asked <- MCAsked
  Worker = {w1, w2}
  MaxToken = 2
  MaxChain = 2
  None = None
SPECIFICATION Spec
CHECK_DEADLOCK FALSE
INVARIANTS
  IdentifiersUnique
  RefusedIsTaken
  ConfirmedWasMinted
  RemovedOwnNothing
SYMMETRY Symmetry
