SPECIFICATION Spec
CONSTANTS
  Projects = {p1, p2}
  Gifts = {g1, g2}
  Opening <- MCOpening
  MaxReads = 2
  Limit = 2
  None = None
SYMMETRY DialogSymmetry
INVARIANTS
  TypeOK
  OneGiftAtATime
  ThanksAreForTheProjectNamed
  AmountIsListed
  PageIsCurrent
