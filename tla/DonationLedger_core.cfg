SPECIFICATION Spec
CONSTANTS
  Requests = {r1, r2, r3}
  Users = {u1, u2}
  Projects = {p1, p2}
  p1 = p1
  p2 = p2
  u1 = u1
  u2 = u2
  Owner <- MCOwner
  InitialProjects <- MCProjects
  InitialUsers <- MCUsers
  Amounts = {15}
  Names = {"Li"}
  NoName = ""
  MaxDecimal = 60
  MaxOpenConns = 2
  Kinds = {"donate", "review", "profile"}
  Faults = TRUE
SYMMETRY RequestSymmetry
INVARIANTS
  TypeOK
  CreditsAreDonations
  BalancedUnlessOverwritten
  CompletedIsEarned
  OnlyApprovedRaiseMoney
  RecordedOnce
  DeadlockAmongRivals
  ReviewsAreRecorded
  NeverStuck
PROPERTIES
  LockedRowsStand
  EveryStepAdvances
  KeepsPromise
