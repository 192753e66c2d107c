SPECIFICATION FairSpec
CONSTANTS
  Handlers = {"onConnect"}
  AnyHandlers = {}
  EventOf <- MCEventOf
  Params <- CallbackParams
  Namespaces <- MCNamespaces
  DefaultNs <- MCRoot
  ServerSends <- ConnectOnly
  MaxPackets = 1
  MessageCap = 1
  MaxAckDigits = 2
  MaxSerializeSize = 100
  SampleMessages <- MCMessages
  SampleTexts <- MCTexts
  Stuck = {}
PROPERTIES ConnectCallbackCalled
CHECK_DEADLOCK FALSE
