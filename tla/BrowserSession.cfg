SPECIFICATION Spec
CONSTANTS
  Tabs = {t1, t2}
  Accounts = {admin, org}
  Tokens = {k1, k2}
  k1 = k1
  k2 = k2
  admin = admin
  org = org
  Role <- MCRole
  Owner <- MCOwner
  CallIds = {c1, c2}
  Reached = {"login", "profile", "admin"}
  None = None
SYMMETRY BrowserSymmetry
INVARIANTS
  TypeOK
  ScreenSpeaksForItsUser
  RolesAreOwn
PROPERTIES
  SessionsEndForCause
CHECK_DEADLOCK TRUE
