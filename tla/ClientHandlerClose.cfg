SPECIFICATION FairSpec
CONSTANTS
  c1 = c1
  c2 = c2
  Null = Null
  COM_MTA = COM_MTA
  Clients <- TwoClients
  Failing <- OneFails
  Apartment = "MTA"
  MaxSubs <- OnceEach
  MaxList = 2
PROPERTIES
  CloseTerminates
  DisconnectedDropped
