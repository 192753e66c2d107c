SPECIFICATION FairSpec
CONSTANTS
  Handlers = {"onConnect", "onNews", "onBroken"}
  AnyHandlers = {"onAny"}
  EventOf <- MCEventOf
  Params <- MCParams
  Namespaces <- MCNamespaces
  DefaultNs <- MCRoot
  ServerSends <- AllTexts
  MaxPackets = 2
  MessageCap = 1
  MaxAckDigits = 2
  MaxSerializeSize = 100
  SampleMessages <- MCMessages
  SampleTexts <- MCTexts
  Stuck = {"onNews"}
INVARIANTS TypeOK DispatchedOnce ConnectHandlerMayEmit RoundTrip AcceptedHasBody
PROPERTIES ReadLoopDrains
CHECK_DEADLOCK FALSE
