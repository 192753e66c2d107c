SPECIFICATION FairSpec
CONSTANTS
  Stoppers = {s1, s2}
  MaxRuns = 2
  MessageCap = 1
  PayloadLimits = {2, 3}
  BodySizes = {2, 3}
  MaxInt = 3
INVARIANTS TypeOK HandshakeFirst GateFollowsSid StopClosesOnce WholeBodies StopNotLost
PROPERTIES KeepsContract StopEnds
CHECK_DEADLOCK FALSE
