SPECIFICATION Spec
CONSTANTS
  u1 = u1
  p1 = p1
  p2 = p2
  c1 = c1
  c2 = c2
  c3 = c3
  r1 = r1
  r2 = r2
  None = None
  Users <- const_Users
  Posts <- const_Posts
  CommentIds <- const_CommentIds
  Requests <- const_Requests
  MaxVotes = 2
SYMMETRY Symm
INVARIANTS
  TypeOK
  AnswersTrue
  RepliesOneDeep
CHECK_DEADLOCK FALSE
