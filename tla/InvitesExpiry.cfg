SPECIFICATION Spec
CONSTANTS
  a = a
  f = f
  i1 = i1
  i2 = i2
  t1 = t1
  t2 = t2
  t3 = t3
  r1 = r1
  r2 = r2
  Users <- const_Users
  Founder = f
  InviteIds <- const_OneInvite
  Tokens <- const_Tokens
  Requests <- const_Requests
  InviteTTL = 1
  RetryWait = 1
  MaxTime = 2
PROPERTY OnlyOverdueExpire
