SPECIFICATION Spec
CONSTANTS
  Projects = {p1}
  Organizations = {o1}
  o1 = o1
  p1 = p1
  Of <- MCOf
  Reports <- MCReports
  MaxLoads = 1
  MaxReviews = 1
  None = None
INVARIANTS
  OwnReportsAreTaken
