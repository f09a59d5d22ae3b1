SPECIFICATION Spec
CONSTANTS
  Requests = {r1, r2, r3}
  careorg = careorg
  neworg = neworg
  n1 = n1
  n2 = n2
  n3 = n3
  e1 = e1
  e2 = e2
  e3 = e3
  Usernames = {n1, n2, n3, e3}
  Emails = {e1, e2, e3}
  Roles = {"", "org", "admin"}
  InitialUsers <- MCUsers
  InitialOrganizations <- MCOrganizations
  Kinds = {"register", "review", "publish", "report"}
  Faults = TRUE
SYMMETRY RequestSymmetry
INVARIANTS
  TypeOK
  AnsweredIsComplete
  RefusedOnlyIfTaken
  PublishedByApproved
  VerdictsAreRecorded
