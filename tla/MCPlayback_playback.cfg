\* Two messages with the sound on the server's side and one trouble of each kind.
SPECIFICATION FairSpec
CONSTANTS
  MaxQueueSize = 0
  Modules = {m1}
  NoModule = NoModule
  MaxSpeak = 2
  MaxTroubles = 1
  Script <- MCScript
  Troubles = {"stop", "pause", "refuse", "break"}
  MayQuit = TRUE
INVARIANT OwnEvents
INVARIANT Silence
PROPERTY SessionKept
PROPERTY AllEnd
\* The server may stay silent for ever.
CHECK_DEADLOCK FALSE
