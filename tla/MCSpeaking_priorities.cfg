\* All five priorities, nobody pauses or leaves; all that is queued is served.
SPECIFICATION FairSpec
CONSTANTS
  MaxClients = 2
  Fds = {1,2}
  MaxMessages = 3
  MaxBlocks = 0
  MaxSets = 2
  MaxCommands = 0
  Prios = {1, 3, 4, 5}
  Commands = {}
  MayDisconnect = FALSE
  MayMark = FALSE
  MayFail = FALSE
  MayBreak = FALSE
INVARIANT TypeOK
INVARIANT NothingLost
INVARIANT NotStranded
PROPERTY PriorityInterplay
PROPERTY EventOrder
PROPERTY AllServed
CHECK_DEADLOCK FALSE
