SPECIFICATION FairSpec
CONSTANTS
  Senders = {w1, w2}
  MaxMessages = 2
  MessageCap = 1
INVARIANTS TypeOK OneReceiver InOrder
PROPERTIES KeepsContract StopEnds NoReceiverLeft
CHECK_DEADLOCK FALSE
