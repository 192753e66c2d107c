SPECIFICATION Spec
CONSTANTS
  Senders = {s1, s2}
  Hook = hook
  Closers = {c1, c2}
  HandlerCloser = handlerClose
  HandlerCloses = FALSE
  Firsts = {"polling"}
  Supported = {"polling", "websocket"}
  UpgradeOffers <- AllOffers
  Faults = {"dial", "handshake", "open", "stop"}
  SendFrom = {"ready"}
  CloseFrom = {"connected", "ready"}
  ServerPackets = {"ping", "message"}
  MaxServerPackets = 2
  MessageCap = 2
INVARIANTS MessagesClosedOnce
PROPERTIES UpgradeFence OnServerTransport
CHECK_DEADLOCK FALSE
