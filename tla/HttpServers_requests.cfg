SPECIFICATION FairSpec
CONSTANTS
  h1 = h1
  s1 = s1
  Http = {h1}
  Https = {s1}
  alice = alice
  bob = bob
  NoOne = NoOne
  carol = carol
  Nameless = {NoOne, carol}
  temperature = temperature
  humidity = humidity
  Service = temperature
  Credentials <- MCCredentials
  Grants <- MCGrants
  MaxRequests = 2
  MaxPieces = 2
  MaxTime = 2
INVARIANTS
  TypeOK
  BlocksAreOwned
  
PROPERTIES
  AnswersAreAuthorised
  AuthorisedIsAnswered
  ImplementsRequestServer
CHECK_DEADLOCK FALSE
