SPECIFICATION Spec
CONSTANTS
  Projects = {1, 2}
  Category <- MCCategory
  Users = {u1, org}
  u1 = u1
  org = org
  Role <- MCRole
  Hours <- MCHours
  PageSize = 1
  Teaser = 1
  Top = 2
  Ranks = 2
  Picked = {"medical"}
  MaxGiven = 1
  MaxDrift = 2
  MaxCalls = 2
  None = None
INVARIANTS
  TypeOK
  ListMatchesButtons
  NoticeIsTrue
  FrontPageAddsUp
PROPERTIES
  LoadingEnds
