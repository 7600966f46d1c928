SPECIFICATION Spec
CONSTANTS
  c1 = c1
  c2 = c2
  Null = Null
  COM_MTA = COM_MTA
  Clients <- TwoClients
  Failing <- OneFails
  Apartment = "STA"
  MaxSubs <- TwiceAndOnce
  MaxList = 3
PROPERTIES
  DisconnectsTheFailedClient
