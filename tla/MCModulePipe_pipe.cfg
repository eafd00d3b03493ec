\* A message and two queries share the pipe of a module that may die.
SPECIFICATION FairSpec
CONSTANTS
  MaxQueries = 2
  MaxSpeak = 2
  MaxEvents = 3
  MayBreak = TRUE
INVARIANT OwnReply
PROPERTY EventsInOrder
PROPERTY AllAnswered
PROPERTY AllHandled
\* Nobody has to ask anything.
CHECK_DEADLOCK FALSE
