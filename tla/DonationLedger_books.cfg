SPECIFICATION Spec
CONSTANTS
  Requests = {r1, r2}
  Users = {u1, u2}
  Projects = {p1}
  p1 = p1
  p2 = p2
  u1 = u1
  u2 = u2
  Owner <- MCOwner
  InitialProjects <- MCProjects
  InitialUsers <- MCUsers
  Amounts = {10}
  Names = {"Li"}
  NoName = ""
  MaxDecimal = 1000
  MaxOpenConns = 2
  Kinds = {"donate"}
  Faults = FALSE
SYMMETRY RequestSymmetry
INVARIANTS
  BooksBalance
