SPECIFICATION FairSpec
CONSTANTS
  Requests = {r1, r2, r3}
  Users = {u1}
  Projects = {p1}
  p1 = p1
  p2 = p2
  u1 = u1
  u2 = u2
  Owner <- MCOwner
  InitialProjects <- MCProjects
  InitialUsers <- MCUsers
  Amounts = {0, 15}
  Names = {}
  NoName = ""
  MaxDecimal = 1000
  MaxOpenConns = 2
  Kinds = {"donate", "profile"}
  Faults = TRUE
PROPERTIES
  EveryRequestEnds
