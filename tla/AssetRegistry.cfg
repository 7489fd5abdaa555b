\* Two accounts, two tokens, two serial numbers and two identities.
SPECIFICATION Spec
CONSTANTS
  gov = gov
  op = op
  Account = {gov, op}
  Governor = gov
  Registrar = gov
  Token = {t1, t2}
  Serial = {s1, s2}
  Did = {d1, d2}
  Content = {h1}
  NoAccount = NoAccount
  NoToken = NoToken
  Blank = Blank
SYMMETRY Symmetry
INVARIANTS
  SeparationOfDuties
  SerialIndexIsTrue
