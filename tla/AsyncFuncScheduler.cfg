SPECIFICATION FairSpec
CONSTANTS
  rebooter = rebooter
  http = http
  NoClient = NoClient
  Clients <- MCClients
  Patient <- MCPatient
  Codes <- MCCodes
  MaxEventCount = 2
  MaxCalls = 3
INVARIANTS
  ExactlyOnceInOrder
  NoLostWakeup
  ReplyIsOutcome
  PatientFrameAlive
  StrayNotificationsBounded
PROPERTIES
  ImplementsAsyncCall
  EveryClientReturns
