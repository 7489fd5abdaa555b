\* Three concurrent handlers; the document belongs to an ordinary user.
\* No symmetry, as EveryHandlerEnds is a liveness property.
SPECIFICATION FairSpec
CONSTANTS
  own = own
  del = del
  mgr = mgr
  adm = adm
  User <- MCUser
  Role <- MCRole
  InScope <- MCScope
  Owner = own
  Custodian = NoUser
  Request = {r1}
  Worker = {w1, w2, w3}
  OwnerApproval = TRUE
  NoUser = NoUser
  NoRequest = NoRequest
  NoWorker = NoWorker
INVARIANTS
  NoCopyWithoutConsent
  IndependentApproval
PROPERTIES
  FailedFetchKeepsApproval
  MeteredPromise
  EveryHandlerEnds
