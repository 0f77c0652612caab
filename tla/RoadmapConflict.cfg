SPECIFICATION Spec
CONSTANTS
  m1 = m1
  c1 = c1
  c2 = c2
  p1 = p1
  p2 = p2
  r1 = r1
  r2 = r2
  Roadmaps <- const_Roadmaps
  Columns <- const_Columns
  Posts <- const_Posts
  Requests <- const_Requests
  Positions <- const_Positions
  MaxItems = 2
SYMMETRY Symm
INVARIANT ConflictMeansShown
CHECK_DEADLOCK FALSE
