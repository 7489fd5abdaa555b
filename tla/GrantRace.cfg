\* Two handlers view through, revoke and decide on two grants.
SPECIFICATION Spec
CONSTANTS
  own = own
  mgr = mgr
  del = del
  User <- MCUser
  Role <- MCRole
  InScope <- MCScope
  Owner = own
  Custodian = NoUser
  NoUser = NoUser
  Version = {v1}
  Share = {s1}
  Grant = {g1, g2}
  Worker = {w1, w2}
  Limits = {1, 2}
  NoLimit = NoLimit
  NoShare = NoShare
  NoGrant = NoGrant
  NoWorker = NoWorker
\* Once every request is decided and every grant revoked nothing is left to do.
CHECK_DEADLOCK FALSE
SYMMETRY Symmetry
INVARIANTS
  CounterIsTrue
PROPERTIES
  MeteredPromise
