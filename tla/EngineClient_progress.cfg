SPECIFICATION AnsweredSpec
CONSTANTS
  Senders = {s1}
  Hook = hook
  Closers = {c1}
  HandlerCloser = handlerClose
  HandlerCloses = FALSE
  Firsts = {"polling"}
  Supported = {"polling", "websocket"}
  UpgradeOffers <- AllOffers
  Faults = {"dial", "send", "stop", "cancel"}
  SendFrom = {"connecting", "connected", "ready"}
  CloseFrom = {"connected", "ready"}
  ServerPackets = {"ping", "message"}
  MaxServerPackets = 1
  MessageCap = 1
INVARIANTS CleanShutdown
PROPERTIES CloseReturns SendReturns
CHECK_DEADLOCK FALSE
