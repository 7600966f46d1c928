SPECIFICATION FairSpec
CONSTANTS
  me = me
  other = other
  s1 = s1
  s2 = s2
  n1 = n1
  Nobody = Nobody
  Null = Null
  Me = me
  Clients <- TwoClients
  ServerObjs <- TwoServers
  Crunchers <- OneCruncher
INVARIANTS
  ClientTypeOK
  CountIsExact
  LosesOnlyLatecomers
  NothingHeldAtUninitialize
PROPERTIES
  OutlivesClients
  ClientEnds
  ServerEndsAfterClients
