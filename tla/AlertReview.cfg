\* Two handlers at a time work on one alert about a Manager.
SPECIFICATION Spec
CONSTANTS
  aud = aud
  mgr = mgr
  sub = sub
  adm = adm
  User <- MCUser
  Role <- MCRole
  Subject = sub
  Alert = {a1}
  Worker = {w1, w2}
  NoUser = NoUser
  NoAlert = NoAlert
SYMMETRY Symmetry
INVARIANTS
  EscalatedBeforeRevocation
  SomebodyCanAct
