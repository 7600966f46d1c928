SPECIFICATION FairSpec
CONSTANTS
  c1 = c1
  c2 = c2
  NoReg = NoReg
  Clients <- TwoClients
  Failing <- TwoClients
  MaxSubs = 2
INVARIANTS
  TypeOK
  UndefinedOnlyByRace
PROPERTIES
  ErasesCalledUnlessRaced
  CalledOncePerRound
  CallsAllUnlessRaced
  DestructorReturns
