----------------------------- MODULE ModulePipe -----------------------------
(***************************************************************************)
(* How two threads of the server share the one pipe that a module answers  *)
(* on (src/src/server/output.c): the thread that sent a command and waits  *)
(* for its reply (output_send_data, output_read_reply), and the output     *)
(* thread that waits for events while a message is spoken                  *)
(* (output_read_event).  Whoever finds the pipe free reads the next        *)
(* message and, when it is the other one's, hands it over.                 *)
(*                                                                         *)
(* Commands come from several threads, one at a time: output_lock().  So   *)
(* there is one replyer, that sends a query (LIST VOICES, LOGLEVEL, DEBUG, *)
(* at any time) or speaks (when nothing is spoken; its data is accepted    *)
(* with a single reply here).  Every section under read_mutex is an        *)
(* action; a thread in `asleep' waits on its condition: reply_cond for the *)
(* replyer, event_cond for the output thread.                              *)
(*                                                                         *)
(* The module is the environment: it takes commands in order, answers each *)
(* with one reply, and sends events of its own while it speaks.            *)
(***************************************************************************)
EXTENDS Naturals, Sequences, FiniteSets

CONSTANTS
  MaxQueries,  \* queries in a behaviour
  MaxSpeak,    \* messages spoken in a behaviour
  MaxEvents,   \* events of a message before its last one
  MayBreak     \* the module may die

ASSUME PipeAssumption ==
  {MaxQueries, MaxSpeak, MaxEvents} \subseteq Nat /\ MayBreak \in BOOLEAN

VARIABLES
  commands,        \* the pipe to the module
  pipe,            \* the pipe from the module
  broken,          \* the module died: the pipe ends
  sound,           \* events the module has still to send, 0 when it is silent
  readingMessage,  \* output->reading_message
  reply, event,    \* output->reply, output->event
  readingEvents,   \* output->reading_events
  waitingForReply, \* output->waiting_for_reply
  asleep,          \* the threads in pthread_cond_wait
  replyer,         \* what the replyer does: where it is and for which command
  reader,          \* where the output thread is
  speaking,        \* the speak() thread follows a message
  queries, spoken, \* bounds; their sum numbers the commands
  sent, taken,     \* history: events sent by the module, handled by the reader
  dropped,         \* history: a message was thrown away as unexpected
  answer           \* history: the reply returned last, and to which command

vars == <<commands, pipe, broken, sound, readingMessage, reply, event,
          readingEvents, waitingForReply, asleep, replyer, reader, speaking,
          queries, spoken, sent, taken, dropped, answer>>

module   == <<commands, pipe, broken, sound, sent>>
bounds   == <<queries, spoken>>

None    == [kind |-> "none", n |-> 0]
Command == 0 .. MaxQueries + MaxSpeak

Init ==
  /\ commands = <<>> /\ pipe = <<>> /\ broken = FALSE /\ sound = 0
  /\ readingMessage = FALSE /\ reply = None /\ event = None
  /\ readingEvents = FALSE /\ waitingForReply = FALSE /\ asleep = {}
  /\ replyer = [at |-> "free", cmd |-> 0, speaks |-> FALSE]
  /\ reader = "none" /\ speaking = FALSE
  /\ queries = 0 /\ spoken = 0
  /\ sent = 0 /\ taken = 0 /\ dropped = FALSE /\ answer = [cmd |-> 0, n |-> 0]

IsEvent(m) == m.kind \in {"event", "last"}

-----------------------------------------------------------------------------
(* The module. *)

ModuleAnswers ==
  /\ ~broken /\ commands # <<>>
  /\ LET c == Head(commands)
     IN  /\ pipe' = Append(pipe, [kind |-> "reply", n |-> c.n])
         /\ sound' = IF c.speaks THEN MaxEvents + 1 ELSE sound
  /\ commands' = Tail(commands)
  /\ UNCHANGED <<broken, sent>>

(* The last event may come early (the text is short, or a stop was sent).  *)
ModuleSends ==
  /\ ~broken /\ sound > 0
  /\ \E kind \in {"event", "last"} :
       /\ kind = "event" => sound > 1
       /\ pipe' = Append(pipe, [kind |-> kind, n |-> sent + 1])
       /\ sound' = IF kind = "last" THEN 0 ELSE sound - 1
  /\ sent' = sent + 1
  /\ UNCHANGED <<commands, broken>>

ModuleDies ==
  /\ MayBreak /\ ~broken /\ broken' = TRUE /\ sound' = 0
  /\ UNCHANGED <<commands, pipe, sent>>

ModuleSteps ==
  /\ ModuleAnswers \/ ModuleSends
  /\ UNCHANGED <<readingMessage, reply, event, readingEvents, waitingForReply,
                 asleep, replyer, reader, speaking, bounds, taken, dropped, answer>>

-----------------------------------------------------------------------------
(* The replyer: output_send_data(cmd, output, 1).                          *)

SendsReply(speaks) ==
  /\ replyer.at = "free" /\ ~broken
  /\ replyer' = [at |-> "send", cmd |-> queries + spoken + 1, speaks |-> speaks]
  /\ waitingForReply' = TRUE

Query ==
  /\ queries < MaxQueries /\ SendsReply(FALSE)
  /\ queries' = queries + 1
  /\ UNCHANGED <<module, readingMessage, reply, event, readingEvents, asleep, reader,
                 speaking, spoken, taken, dropped, answer>>

Speak ==
  /\ spoken < MaxSpeak /\ ~speaking /\ SendsReply(TRUE)
  /\ spoken' = spoken + 1 /\ speaking' = TRUE
  /\ UNCHANGED <<module, readingMessage, reply, event, readingEvents, asleep, reader,
                 queries, taken, dropped, answer>>

(* safe_write(); a write to a module that died fails. *)
ReplyerSends ==
  /\ replyer.at = "send"
  /\ IF broken
     THEN replyer' = [replyer EXCEPT !.at = "done"] /\ UNCHANGED commands
     ELSE /\ commands' = Append(commands, [n |-> replyer.cmd, speaks |-> replyer.speaks])
          /\ replyer' = [replyer EXCEPT !.at = "look"]
  /\ answer' = IF broken THEN [cmd |-> replyer.cmd, n |-> 0] ELSE answer
  /\ UNCHANGED <<pipe, broken, sound, sent, readingMessage, reply, event, readingEvents,
                 waitingForReply, asleep, reader, speaking, bounds, taken, dropped>>

Awake(t) == t \notin asleep

(* The top of the loop of output_read_reply(): wait, take, or read.        *)
ReplyerWaits ==
  /\ replyer.at = "look" /\ Awake("replyer")
  /\ readingMessage /\ reply = None
  /\ asleep' = asleep \cup {"replyer"}
  /\ UNCHANGED <<module, readingMessage, reply, event, readingEvents, waitingForReply,
                 replyer, reader, speaking, bounds, taken, dropped, answer>>

Returned(n) ==
  /\ replyer' = [replyer EXCEPT !.at = "done"]
  /\ answer' = [cmd |-> replyer.cmd, n |-> n]

BuggyReplyerTakes ==
  /\ replyer.at = "look" /\ Awake("replyer") /\ reply # None
  /\ Returned(reply.n) /\ UNCHANGED reply
  /\ asleep' = asleep \ {"reader"}
  /\ UNCHANGED <<module, readingMessage, event, readingEvents, waitingForReply,
                 reader, speaking, bounds, taken, dropped>>

SilentReplyerTakes ==
  /\ replyer.at = "look" /\ Awake("replyer") /\ reply # None
  /\ Returned(reply.n) /\ reply' = None
  /\ UNCHANGED <<module, readingMessage, event, readingEvents, waitingForReply, asleep,
                 reader, speaking, bounds, taken, dropped>>

ReplyerTakes ==
  /\ replyer.at = "look" /\ Awake("replyer") /\ reply # None
  /\ Returned(reply.n) /\ reply' = None
  /\ asleep' = asleep \ {"reader"}
  /\ UNCHANGED <<module, readingMessage, event, readingEvents, waitingForReply,
                 reader, speaking, bounds, taken, dropped>>

ReplyerReads ==
  /\ replyer.at = "look" /\ Awake("replyer") /\ reply = None /\ ~readingMessage
  /\ readingMessage' = TRUE
  /\ replyer' = [replyer EXCEPT !.at = "read"]
  /\ UNCHANGED <<module, reply, event, readingEvents, waitingForReply, asleep, reader,
                 speaking, bounds, taken, dropped, answer>>

(* output_read_message() returned, the mutex is held again: reply_cond is  *)
(* signalled, on which only the replyer itself can wait.                   *)
ReplyerGets ==
  /\ replyer.at = "read" /\ pipe # <<>>
  /\ pipe' = Tail(pipe)
  /\ readingMessage' = FALSE
  /\ \/ ~IsEvent(Head(pipe)) /\ Returned(Head(pipe).n)
        /\ UNCHANGED <<event, asleep, dropped>>
     \/ IsEvent(Head(pipe)) /\ ~readingEvents
        /\ dropped' = TRUE
        /\ replyer' = [replyer EXCEPT !.at = "look"]
        /\ UNCHANGED <<event, asleep, answer>>
     \/ IsEvent(Head(pipe)) /\ readingEvents
        /\ event' = Head(pipe)
        /\ asleep' = asleep \ {"reader"}
        /\ replyer' = [replyer EXCEPT !.at = "handed"]
        /\ UNCHANGED <<dropped, answer>>
  /\ UNCHANGED <<commands, broken, sound, sent, reply, readingEvents, waitingForReply,
                 reader, speaking, bounds, taken>>

ReplyerBreaks ==
  /\ replyer.at = "read" /\ broken /\ pipe = <<>>
  /\ readingMessage' = FALSE /\ Returned(0)
  /\ UNCHANGED <<module, reply, event, readingEvents, waitingForReply, asleep, reader,
                 speaking, bounds, taken, dropped>>

(* It waits for the event to be consumed before it reads on.  The branch   *)
(* for an event that nobody will read any more dereferences NULL.          *)
ReplyerWaitsHanded ==
  /\ replyer.at = "handed" /\ Awake("replyer") /\ event # None /\ readingEvents
  /\ asleep' = asleep \cup {"replyer"}
  /\ UNCHANGED <<module, readingMessage, reply, event, readingEvents, waitingForReply,
                 replyer, reader, speaking, bounds, taken, dropped, answer>>

BuggyReplyerGoesOn ==
  /\ replyer.at = "handed" /\ Awake("replyer")
  /\ replyer' = [replyer EXCEPT !.at = "look"]
  /\ UNCHANGED <<module, readingMessage, reply, event, readingEvents, waitingForReply,
                 asleep, reader, speaking, bounds, taken, dropped, answer>>

ReplyerGoesOn ==
  /\ replyer.at = "handed" /\ Awake("replyer") /\ (event = None \/ ~readingEvents)
  /\ dropped' = (dropped \/ event # None)
  /\ event' = None
  /\ replyer' = [replyer EXCEPT !.at = "look"]
  /\ UNCHANGED <<module, readingMessage, reply, readingEvents, waitingForReply, asleep,
                 reader, speaking, bounds, taken, answer>>

(* The command is over.  After SPEAK was accepted, output_speak() starts   *)
(* reading events and creates the output thread.                           *)
StartsReading == replyer.speaks /\ answer.n # 0

ReplyerDone ==
  /\ replyer.at = "done"
  /\ waitingForReply' = FALSE
  /\ readingEvents' = (readingEvents \/ StartsReading)
  /\ reader' = IF StartsReading THEN "look" ELSE reader
  /\ speaking' = (speaking /\ (replyer.speaks => StartsReading))
  /\ replyer' = [replyer EXCEPT !.at = "free"]
  /\ UNCHANGED <<module, readingMessage, reply, event, asleep, bounds, taken, dropped,
                 answer>>

-----------------------------------------------------------------------------
(* The output thread: output_module_is_speaking() until the last event.    *)

ReaderWaits ==
  /\ reader = "look" /\ Awake("reader")
  /\ readingMessage /\ event = None
  /\ asleep' = asleep \cup {"reader"}
  /\ UNCHANGED <<module, readingMessage, reply, event, readingEvents, waitingForReply,
                 replyer, reader, speaking, bounds, taken, dropped, answer>>

Handles(m) ==
  /\ taken' = m.n
  /\ reader' = IF m.kind = "last" THEN "done" ELSE "look"

ReaderTakes ==
  /\ reader = "look" /\ Awake("reader") /\ event # None
  /\ Handles(event) /\ event' = None
  /\ asleep' = asleep \ {"replyer"}
  /\ UNCHANGED <<module, readingMessage, reply, readingEvents, waitingForReply,
                 replyer, speaking, bounds, dropped, answer>>

ReaderReads ==
  /\ reader = "look" /\ Awake("reader") /\ event = None /\ ~readingMessage
  /\ readingMessage' = TRUE /\ reader' = "read"
  /\ UNCHANGED <<module, reply, event, readingEvents, waitingForReply, asleep,
                 replyer, speaking, bounds, taken, dropped, answer>>

BuggySignalsReply == UNCHANGED asleep
SignalsReply      == asleep' = asleep \ {"replyer"}

(* A reply that nobody waits for makes the thread give up: BROKEN.         *)
ReaderGets ==
  /\ reader = "read" /\ pipe # <<>>
  /\ pipe' = Tail(pipe)
  /\ readingMessage' = FALSE
  /\ SignalsReply
  /\ \/ IsEvent(Head(pipe)) /\ Handles(Head(pipe))
        /\ UNCHANGED <<reply, dropped>>
     \/ ~IsEvent(Head(pipe)) /\ waitingForReply
        /\ reply' = Head(pipe) /\ reader' = "handed"
        /\ UNCHANGED <<taken, dropped>>
     \/ ~IsEvent(Head(pipe)) /\ ~waitingForReply
        /\ dropped' = TRUE /\ reader' = "done"
        /\ UNCHANGED <<taken, reply>>
  /\ UNCHANGED <<commands, broken, sound, sent, event, readingEvents, waitingForReply,
                 replyer, speaking, bounds, answer>>

ReaderBreaks ==
  /\ reader = "read" /\ broken /\ pipe = <<>>
  /\ readingMessage' = FALSE /\ reader' = "done"
  /\ SignalsReply
  /\ UNCHANGED <<module, reply, event, readingEvents, waitingForReply, replyer,
                 speaking, bounds, taken, dropped, answer>>

ReaderHanded ==
  /\ reader = "handed" /\ Awake("reader")
  /\ IF reply = None
     THEN reader' = "look" /\ UNCHANGED asleep
     ELSE asleep' = asleep \cup {"reader"} /\ UNCHANGED reader
  /\ UNCHANGED <<module, readingMessage, reply, event, readingEvents, waitingForReply,
                 replyer, speaking, bounds, taken, dropped, answer>>

(* The speak() thread, told of the end: the output thread is joined, then  *)
(* output_stop_reading_events().                                           *)
StopReading ==
  /\ speaking /\ reader = "done"
  /\ reader' = "none" /\ speaking' = FALSE
  /\ dropped' = (dropped \/ event # None)
  /\ event' = None /\ readingEvents' = FALSE
  /\ asleep' = asleep \ {"replyer"}
  /\ UNCHANGED <<module, readingMessage, reply, waitingForReply, replyer, bounds,
                 taken, answer>>

-----------------------------------------------------------------------------
ReplyerSteps ==
  \/ ReplyerSends \/ ReplyerWaits \/ ReplyerTakes \/ ReplyerReads \/ ReplyerGets
  \/ ReplyerBreaks \/ ReplyerWaitsHanded \/ ReplyerGoesOn \/ ReplyerDone
ReaderSteps ==
  \/ ReaderWaits \/ ReaderTakes \/ ReaderReads \/ ReaderGets \/ ReaderBreaks
  \/ ReaderHanded

Dies ==
  /\ ModuleDies
  /\ UNCHANGED <<readingMessage, reply, event, readingEvents, waitingForReply,
                 asleep, replyer, reader, speaking, bounds, taken, dropped, answer>>

Next == ModuleSteps \/ Dies \/ ReplyerSteps \/ ReaderSteps \/ StopReading \/ Query \/ Speak

Spec == Init /\ [][Next]_vars

(* The threads run and the module answers; nobody has to ask or to speak.  *)
FairSpec ==
  /\ Spec
  /\ WF_vars(ModuleSteps) /\ WF_vars(ReplyerSteps) /\ WF_vars(ReaderSteps)
  /\ WF_vars(StopReading)

-----------------------------------------------------------------------------
Message == [kind : {"reply", "event", "last"}, n : Nat]

TypeOK ==
  /\ commands \in Seq([n : Command, speaks : BOOLEAN])
  /\ pipe \in Seq(Message)
  /\ {broken, readingMessage, readingEvents, waitingForReply, speaking, dropped} \subseteq BOOLEAN
  /\ sound \in 0 .. MaxEvents + 1
  /\ reply = None \/ (reply \in Message /\ reply.kind = "reply")
  /\ event = None \/ (event \in Message /\ event.kind \in {"event", "last"})
  /\ asleep \subseteq {"replyer", "reader"}
  /\ replyer \in [at : {"free", "send", "look", "read", "handed", "done"},
                   cmd : Command, speaks : BOOLEAN]
  /\ reader \in {"none", "look", "read", "handed", "done"}
  /\ answer \in [cmd : Command, n : Command]
  /\ queries \in 0 .. MaxQueries /\ spoken \in 0 .. MaxSpeak
  /\ {sent, taken} \subseteq Nat

(* A command gets its own reply, whichever of the two threads read it.     *)
OwnReply == answer.n \in {0, answer.cmd} /\ (answer.n = 0 => answer.cmd = 0 \/ broken)

(* Events are handled in the order in which the module sent them, none     *)
(* skipped and none twice, and a message is over only when all were; and   *)
(* no message of the module is thrown away as unexpected.                  *)
EventsInOrder ==
  [][/\ taken' # taken => taken' = taken + 1
     /\ speaking /\ ~speaking' /\ ~broken => taken = sent
     /\ ~dropped']_vars

(* A command sent to a module gets an answer, or the module died.          *)
AllAnswered == (replyer.at # "free") ~> (replyer.at = "free")

(* The output thread sleeps though nobody reads the pipe: the replyer read *)
(* its own reply and signalled reply_cond only (output.c:320).             *)
Forgotten ==
  /\ reader = "look" /\ ~Awake("reader") /\ ~readingMessage /\ event = None
  /\ replyer.at \in {"done", "free"}

(* A message that is spoken ends, unless the output thread is forgotten    *)
(* and no further command comes to take up the reading.                    *)
AllHandled == speaking ~> (~speaking \/ Forgotten)

(* The module's events are handled "also when there is no client or        *)
(* speaking command" (output.c:221).                                       *)
EventsHandled == speaking ~> ~speaking
=============================================================================
