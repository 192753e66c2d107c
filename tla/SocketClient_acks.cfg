SPECIFICATION FairSpec
CONSTANTS
  Emits = {e1, e2, e3}
  WithAck = {e1, e2}
  WithTimeout = {e1}
  Refused = {e3}
  Panicking = {e1}
  MaxAcks = 2
INVARIANTS TypeOK SettledOnce RoutedToOwner AckNotLost HandOverNeverBlocks SettledLeavesTable
PROPERTIES EmitIsSettled AnswerRunsCallback
CHECK_DEADLOCK FALSE
