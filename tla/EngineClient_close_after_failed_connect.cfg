SPECIFICATION FairSpec
CONSTANTS
  Senders = {}
  Hook = hook
  Closers = {c1}
  HandlerCloser = handlerClose
  HandlerCloses = FALSE
  Firsts = {"polling"}
  Supported = {"polling", "websocket"}
  UpgradeOffers <- OnlyUpgrade
  Faults = {"handshake"}
  SendFrom = {}
  CloseFrom = {"failed"}
  ServerPackets = {}
  MaxServerPackets = 0
  MessageCap = 2
PROPERTIES CloseReturns
CHECK_DEADLOCK FALSE
