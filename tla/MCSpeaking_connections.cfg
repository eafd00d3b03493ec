\* Clients come and go; modules refuse messages, report marks and break.
SPECIFICATION Spec
CONSTANTS
  MaxClients = 3
  Fds = {1,2}
  MaxMessages = 3
  MaxBlocks = 0
  MaxSets = 0
  MaxCommands = 0
  Prios = {}
  Commands = {}
  MayDisconnect = TRUE
  MayMark = TRUE
  MayFail = TRUE
  MayBreak = TRUE
INVARIANT NoFault
INVARIANT SettingsKept
INVARIANT MaxFdCovers
\* The server may stay idle for ever when no client asks anything.
CHECK_DEADLOCK FALSE
