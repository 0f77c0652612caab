SPECIFICATION Spec
CONSTANTS
  d1 = d1
  d2 = d2
  s1 = s1
  s2 = s2
  r1 = r1
  r2 = r2
  orgs = orgs
  Devices <- const_Devices
  SessionIds <- const_SessionIds
  Payloads <- const_Payloads
  Requests <- const_Requests
  Second = 2
  AccessTTL = 2
  RefreshTTL = 4
  MaxLatency = 2
  MaxTime = 7
SYMMETRY Symm
INVARIANTS
  TypeOK
  RowsOutliveTokens
  RenewalNotCutShort
PROPERTIES
  EndsByLogout
  EndedStaysEnded
  ImplementsLogins
