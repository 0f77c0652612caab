SPECIFICATION Spec
CONSTANTS
  u1 = u1
  u2 = u2
  e1 = e1
  e2 = e2
  s1 = s1
  s2 = s2
  m1 = m1
  c1 = c1
  c2 = c2
  p1 = p1
  p2 = p2
  a1 = a1
  a2 = a2
  t1 = t1
  t2 = t2
  r1 = r1
  r2 = r2
  Users <- const_Users
  Events <- const_Events
  Streams <- const_Streams
  Roadmaps <- const_Roadmaps
  Columns <- const_Columns
  Posts <- const_Posts
  Positions <- const_Positions
  Null = Null
  Statuses <- const_Statuses
  Tags <- const_Tags
  Requests <- const_Requests
  MaxItems = 2
  MaxKeys = 3
  MaxReplacements = 3
SYMMETRY Symm
INVARIANTS
  TypeOK
  NothingMissed
  OwnNewsOnly
  RestsOnFile
  ChangesAnnounced
  TagsReplaced
  LastTagsWin
PROPERTIES
  ImplementsInbox
  ImplementsPlacement
  ReordersWhole
CHECK_DEADLOCK FALSE
