SPECIFICATION Spec
CONSTANTS
  Senders = {}
  Hook = hook
  Closers = {c1}
  HandlerCloser = handlerClose
  HandlerCloses = FALSE
  Firsts = {"polling"}
  Supported = {"polling", "websocket"}
  UpgradeOffers <- NoOffer
  Faults = {}
  SendFrom = {}
  CloseFrom = {"ready"}
  ServerPackets = {"ping"}
  MaxServerPackets = 1
  MessageCap = 2
INVARIANTS NoNilTransport
CHECK_DEADLOCK FALSE
