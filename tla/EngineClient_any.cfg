SPECIFICATION Spec
CONSTANTS
  Senders = {s1}
  Hook = hook
  Closers = {c1}
  HandlerCloser = handlerClose
  HandlerCloses = TRUE
  Firsts = {"polling", "websocket"}
  Supported = {"polling", "websocket"}
  UpgradeOffers <- AllOffers
  Faults = {"dial", "handshake", "open", "send", "read", "stop", "cancel"}
  SendFrom = {"fresh", "connecting", "connected", "ready", "failed"}
  CloseFrom = {"fresh", "connecting", "connected", "ready", "failed"}
  ServerPackets = {"ping", "message", "close"}
  MaxServerPackets = 1
  MessageCap = 1
INVARIANTS TypeOK TransportExclusive ReadersEndFirst
PROPERTIES UsesTransports
CHECK_DEADLOCK FALSE
