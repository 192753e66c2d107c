SPECIFICATION AnsweredSpec
CONSTANTS
  Senders = {s1}
  Hook = hook
  Closers = {c1}
  HandlerCloser = handlerClose
  HandlerCloses = FALSE
  Firsts = {"polling"}
  Supported = {"polling", "websocket"}
  UpgradeOffers <- OnlyUpgrade
  Faults = {}
  SendFrom = {"connected"}
  CloseFrom = {"connected"}
  ServerPackets = {}
  MaxServerPackets = 0
  MessageCap = 2
PROPERTIES SendAfterCloseFails
CHECK_DEADLOCK FALSE
