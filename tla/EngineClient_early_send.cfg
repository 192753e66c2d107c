SPECIFICATION Spec
CONSTANTS
  Senders = {s1}
  Hook = hook
  Closers = {}
  HandlerCloser = handlerClose
  HandlerCloses = FALSE
  Firsts = {"polling"}
  Supported = {"polling", "websocket"}
  UpgradeOffers <- OnlyUpgrade
  Faults = {}
  SendFrom = {"connected"}
  CloseFrom = {}
  ServerPackets = {}
  MaxServerPackets = 0
  MessageCap = 2
PROPERTIES UpgradeFence
CHECK_DEADLOCK FALSE
