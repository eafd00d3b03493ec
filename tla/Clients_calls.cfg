\* Two threads of a program share a connection to a server that may die.
SPECIFICATION FairSpec
CONSTANTS
  Callers = {c1, c2}
  Nobody = Nobody
  Kinds = {"say", "key", "command", "setting", "notification", "query", "list"}
  MaxCalls = 3
  MaxEvents = 1
  MayBreak = TRUE
INVARIANT OwnReply
PROPERTY InOrder
PROPERTY AllReturn
\* Nobody has to call anything.
CHECK_DEADLOCK FALSE
