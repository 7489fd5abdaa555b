\* An Admin and a wallet whose owner is the other Admin, or that an earlier
\* registry may have left roles to; two requests at a time and the
\* reconciler, and three requests and faults.
SPECIFICATION Spec
CONSTANTS
  Wallet = {a1, w3}
  Admin = {a1}
  Covered = {w3}
  WriterRole = {MANAGER}
  AuditorRole = AUDITOR
  Requester = {h1, h2}
  Reconciler = {loop}
  MaxEvents = 3
  Given = {"AUDITOR"}
  None = None
INVARIANTS
  NoMixedPower
  AnAdminRemains
PROPERTY
  RolesConverge
