----------------------------- MODULE LibSpeechd -----------------------------
(***************************************************************************)
(* The C client library in threaded mode (src/src/api/c/libspeechd.c): the *)
(* events thread (spd_events_handler) reads everything the server sends,   *)
(* calls the callbacks and hands replies over to whoever waits in          *)
(* spd_send_data_wo_mutex().                                               *)
(*                                                                         *)
(* mutex_reply_ready and mutex_reply_ack are held within one action only;  *)
(* a thread in `asleep' waits on cond_reply_ready or, for the events       *)
(* thread, on cond_reply_ack.                                              *)
(***************************************************************************)
EXTENDS ClientLibrary

VARIABLES
  socket,     \* connection->socket is a descriptor, not -1
  ssipMutex,  \* the caller that holds connection->ssip_mutex
  reply,      \* connection->reply
  asleep,
  handled     \* history: the number of the item taken last by caller or callback

local == <<socket, ssipMutex, reply, asleep, handled>>

(* The lines of a call.  spd_say, spd_sayf; spd_key, spd_char, spd_wchar,  *)
(* spd_sound_icon; STOP, CANCEL, PAUSE and RESUME.                         *)
SayLines     == <<"priority", "speak", "text", "dot">>
KeyLines     == <<"priority", "key">>
CommandLines == <<"command">>

(* spd_set_voice_rate() and the like; a value out of range, or no name, is *)
(* refused before anything is sent and is no call here.                    *)
SettingLines == <<"setting">>

(* spd_set_notification(): one line for each kind of event, here two.      *)
NotificationLines == <<"notification", "notification">>

(* spd_get_*, spd_get_client_id; spd_list_*.  They do not take the mutex.  *)
QueryLines == <<"query">>
ListLines  == <<"list">>

Lines(kind) ==
  CASE kind = "say"          -> SayLines
    [] kind = "key"          -> KeyLines
    [] kind = "command"      -> CommandLines
    [] kind = "setting"      -> SettingLines
    [] kind = "notification" -> NotificationLines
    [] kind = "query"        -> QueryLines
    [] kind = "list"         -> ListLines

TakesMutex(kind)   == kind \notin {"query", "list"}
WaitsForReply(line) == line # "text"

LibSpeechdInit ==
  /\ socket = TRUE /\ ssipMutex = Nobody /\ reply = NoItem /\ asleep = {} /\ handled = 0

-----------------------------------------------------------------------------
(* The callers. *)

MayCall(kind) == TakesMutex(kind) => ssipMutex = Nobody

Call(c) ==
  /\ ~Busy(c) /\ calls < MaxCalls
  /\ \E kind \in Kinds :
       /\ MayCall(kind)
       /\ caller' = [caller EXCEPT ![c] = [at |-> "check", call |-> calls + 1,
                                           kind |-> kind, todo |-> Lines(kind)]]
       /\ ssipMutex' = IF TakesMutex(kind) THEN c ELSE ssipMutex
       /\ overlap' = (overlap \/ \E d \in Callers \ {c} :
                        Busy(d) /\ ~(TakesMutex(kind) /\ TakesMutex(caller[d].kind)))
  /\ calls' = calls + 1
  /\ UNCHANGED <<server, library, socket, reply, asleep, handler, handled>>

(* The call returns, and gives the mutex back if it had taken it. *)
Returns(c) ==
  /\ caller' = [caller EXCEPT ![c] = Idle]
  /\ ssipMutex' = IF ssipMutex = c THEN Nobody ELSE ssipMutex

Continues(c) ==
  IF Len(caller[c].todo) = 1 THEN Returns(c)
  ELSE /\ caller' = [caller EXCEPT ![c].at = "check", ![c].todo = Tail(@)]
       /\ UNCHANGED ssipMutex

(* connection->socket is looked at before mutex_reply_ready is taken. *)
Check(c) ==
  /\ caller[c].at = "check"
  /\ IF socket THEN caller' = [caller EXCEPT ![c].at = "write"] /\ UNCHANGED ssipMutex
               ELSE Returns(c)
  /\ UNCHANGED <<server, library, socket, reply, asleep, handler, calls, handled, overlap>>

(* Under mutex_reply_ready: the line is written (a failed write returns -1, *)
(* which the test `!write()' takes for success) and the reply awaited.     *)
Write(c) ==
  /\ caller[c].at = "write"
  /\ LET line == Head(caller[c].todo)
     IN  /\ toServer' = IF socket /\ link
                        THEN Append(toServer, [call |-> caller[c].call, line |-> line])
                        ELSE toServer
         /\ IF WaitsForReply(line)
            THEN /\ caller' = [caller EXCEPT ![c].at = "wait"]
                 /\ asleep' = asleep \cup {c}
                 /\ UNCHANGED ssipMutex
            ELSE Continues(c) /\ UNCHANGED asleep
  /\ UNCHANGED <<library, link, inData, text, texts, fromServer, written, socket, reply, handler,
                 calls, handled, overlap>>

BuggyAcknowledged == asleep
Acknowledged == asleep \ {"handler"}

(* Woken, the caller takes what it finds; nothing means a broken socket.   *)
(* A refused line ends the call: a failed SET PRIORITY or SPEAK is         *)
(* followed by no text, a failed SET NOTIFICATION by no other.             *)
StopsAt(item) == item = NoItem \/ ~item.ok

Take(c) ==
  /\ caller[c].at = "wait" /\ c \notin asleep
  /\ IF StopsAt(reply) THEN Returns(c) ELSE Continues(c)
  /\ handled' = IF reply = NoItem THEN handled ELSE reply.n
  /\ asleep' = IF reply = NoItem THEN asleep ELSE Acknowledged
  /\ reply' = NoItem
  /\ UNCHANGED <<server, library, socket, handler, calls, overlap>>

(* A query reads its parameter out of a reply that is NULL; the lists look *)
(* at it first (ret_ok).                                                   *)
GetsNothing(c) ==
  \/ caller[c].at = "check" /\ ~socket
  \/ caller[c].at = "wait" /\ reply = NoItem

CallerSteps(c) ==
  /\ Check(c) \/ Write(c) \/ Take(c)
  /\ running' = ~(caller[c].kind = "query" /\ GetsNothing(c))

-----------------------------------------------------------------------------
(* The events thread. *)

HandlerReads ==
  /\ handler.at = "read" /\ socket /\ fromServer # <<>>
  /\ fromServer' = Tail(fromServer)
  /\ handler' = [at |-> IF Head(fromServer).kind = "event" THEN "callback" ELSE "deliver",
                 item |-> Head(fromServer)]
  /\ UNCHANGED <<library, link, toServer, inData, text, texts, written, socket, ssipMutex, reply,
                 asleep, caller, calls, handled, overlap>>

HandlerCalls ==
  /\ handler.at = "callback"
  /\ handler' = [at |-> "read", item |-> NoItem]
  /\ handled' = handler.item.n
  /\ UNCHANGED <<server, library, socket, ssipMutex, reply, asleep, caller, calls, overlap>>

(* pthread_cond_signal(&cond_reply_ready): one of the callers that wait.   *)
SignalsReady(new) ==
  \/ \E c \in Callers \cap asleep : new = asleep \ {c}
  \/ Callers \cap asleep = {} /\ new = asleep

BuggyHandlerDelivers ==
  /\ handler.at = "deliver"
  /\ reply' = handler.item
  /\ SignalsReady(asleep')
  /\ handler' = [at |-> "read", item |-> NoItem]
  /\ UNCHANGED <<server, library, socket, ssipMutex, caller, calls, handled, overlap>>

(* The reply is put down and the thread waits until somebody took it.      *)
HandlerDelivers ==
  /\ handler.at = "deliver"
  /\ reply' = handler.item
  /\ \E woken \in SUBSET (Callers \cup {"handler"}) :
       SignalsReady(woken) /\ asleep' = woken \cup {"handler"}
  /\ handler' = [at |-> "ack", item |-> NoItem]
  /\ UNCHANGED <<server, library, socket, ssipMutex, caller, calls, handled, overlap>>

HandlerGoesOn ==
  /\ handler.at = "ack" /\ "handler" \notin asleep
  /\ IF reply = NoItem
     THEN handler' = [at |-> "read", item |-> NoItem] /\ UNCHANGED asleep
     ELSE asleep' = asleep \cup {"handler"} /\ UNCHANGED handler
  /\ UNCHANGED <<server, library, socket, ssipMutex, reply, caller, calls, handled, overlap>>

(* get_reply() met the end of the stream and closed the socket. *)
HandlerFails ==
  /\ handler.at = "read" /\ ~link /\ fromServer = <<>>
  /\ socket' = FALSE
  /\ handler' = [at |-> "broken", item |-> NoItem]
  /\ UNCHANGED <<server, library, ssipMutex, reply, asleep, caller, calls, handled, overlap>>

HandlerGivesUp ==
  /\ handler.at = "broken"
  /\ SignalsReady(asleep')
  /\ handler' = [at |-> "gone", item |-> NoItem]
  /\ UNCHANGED <<server, library, socket, ssipMutex, reply, caller, calls, handled, overlap>>

HandlerSteps ==
  \/ HandlerReads \/ HandlerCalls \/ HandlerDelivers \/ HandlerGoesOn
  \/ HandlerFails \/ HandlerGivesUp
=============================================================================
