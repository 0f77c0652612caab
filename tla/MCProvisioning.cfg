SPECIFICATION FairSpec
CONSTANTS
  s1 = s1
  s2 = s2
  s3 = s3
  s4 = s4
  p1 = p1
  review = review
  planned = planned
  open = open
  extra = extra
  StatusIds <- const_StatusIds
  Names <- const_Names
  InitialNames <- const_InitialNames
  DefaultName = open
  PostIds <- const_PostIds
  None = None
INVARIANTS
  TypeOK
  NamesUnique
  DefaultIsTheListeners
PROPERTIES
  StatuslessOnlyEarly
  ListenerEnds
