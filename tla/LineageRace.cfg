\* Two handlers at a time; serial numbers are the server's.
SPECIFICATION Spec
CONSTANTS
  own = own
  mgr = mgr
  adm = adm
  User <- MCUser
  Role <- MCRole
  InScope <- MCScope
  Owner = mgr
  Custodian = NoUser
  NoUser = NoUser
  Asset = {a1, a2, a3}
  Copy = {c1, c2}
  Worker = {w1, w2}
  RequestedSerial = {}
  NoAsset = NoAsset
  NoCopy = NoCopy
\* Once every row and every copy is used nothing is left to do.
CHECK_DEADLOCK FALSE
SYMMETRY Symmetry
INVARIANTS
  LineageIsAChain
  ReviewedBeforeApproval
