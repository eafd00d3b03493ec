\* Blocks, every command that stops or pauses, refused and marked messages.
SPECIFICATION Spec
CONSTANTS
  MaxClients = 1
  Fds = {1}
  MaxMessages = 2
  MaxBlocks = 1
  MaxSets = 1
  MaxCommands = 2
  Prios = {3}
  Commands = {"stop", "stopAll", "cancel", "cancelAll", "pause", "resume", "pauseAll", "resumeAll"}
  MayDisconnect = FALSE
  MayMark = TRUE
  MayFail = TRUE
  MayBreak = FALSE
INVARIANT SessionAgrees
INVARIANT OneBlockPerQueue
INVARIANT SingleOwner
INVARIANT OneVoice
CHECK_DEADLOCK FALSE
