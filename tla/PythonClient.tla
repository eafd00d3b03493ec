---------------------------- MODULE PythonClient ----------------------------
(***************************************************************************)
(* The Python client library (src/src/api/python/speechd/client.py): the   *)
(* communication thread appends replies to _com_buffer and releases a      *)
(* semaphore; a caller sends, looks whether the thread is alive, acquires  *)
(* the semaphore and takes the first reply.  Nothing in it keeps calls of  *)
(* two threads apart: here the program makes one call at a time.           *)
(***************************************************************************)
EXTENDS ClientLibrary

VARIABLE replies   \* _com_buffer; _ssip_reply_semaphore is its length

PythonInit == replies = <<>>

(* Speaker.say(); char(), key() and sound_icon(); the setters and stop();  *)
(* the getters and lists.  send_data() sends text and dot at once.         *)
PyLines(kind) ==
  CASE kind = "say"     -> <<"priority", "speak", "data">>
    [] kind = "key"     -> <<"priority", "key">>
    [] kind \in {"command", "setting", "notification"} -> <<"command">>
    [] kind \in {"query", "list"} -> <<"query">>

Sent(call, line) ==
  IF line = "data" THEN <<[call |-> call, line |-> "text"], [call |-> call, line |-> "dot"]>>
                   ELSE <<[call |-> call, line |-> line]>>

PyCall(c) ==
  /\ \A d \in Callers : ~Busy(d)
  /\ calls < MaxCalls
  /\ \E kind \in Kinds :
       caller' = [caller EXCEPT ![c] = [at |-> "write", call |-> calls + 1,
                                        kind |-> kind, todo |-> PyLines(kind)]]
  /\ calls' = calls + 1
  /\ UNCHANGED <<server, library, handler, overlap, replies>>

PyReturns(c) == caller' = [caller EXCEPT ![c] = Idle]
Moves(c, at) == caller' = [caller EXCEPT ![c].at = at]

(* What is sent to a server that has died is lost, or raises an exception. *)
PyWrite(c) ==
  /\ caller[c].at = "write"
  /\ \/ /\ link /\ Moves(c, "alive")
        /\ toServer' = toServer \o Sent(caller[c].call, Head(caller[c].todo))
     \/ ~link /\ (Moves(c, "alive") \/ PyReturns(c)) /\ UNCHANGED toServer
  /\ UNCHANGED <<library, link, inData, text, texts, fromServer, written, handler, calls,
                 overlap, replies>>

(* "This check is dumb but seems to work": see Stranded in Clients. *)
PyAlive(c) ==
  /\ caller[c].at = "alive"
  /\ IF handler.at = "gone" THEN PyReturns(c) ELSE Moves(c, "wait")
  /\ UNCHANGED <<server, library, handler, calls, overlap, replies>>

(* A reply that is not 2xx is raised, which ends the call.                 *)
BuggyPyStopsAt(item) == FALSE
PyStopsAt(item) == ~item.ok

PyTake(c) ==
  /\ caller[c].at = "wait" /\ replies # <<>>
  /\ replies' = Tail(replies)
  /\ IF PyStopsAt(Head(replies)) \/ Len(caller[c].todo) = 1
     THEN PyReturns(c)
     ELSE caller' = [caller EXCEPT ![c].at = "write", ![c].todo = Tail(@)]
  /\ UNCHANGED <<server, library, handler, calls, overlap>>

PyCallerSteps(c) == PyWrite(c) \/ PyAlive(c) \/ PyTake(c)

-----------------------------------------------------------------------------
(* The communication thread. *)

PyReads ==
  /\ handler.at = "read" /\ fromServer # <<>>
  /\ fromServer' = Tail(fromServer)
  /\ IF Head(fromServer).kind = "event"
     THEN handler' = [at |-> "callback", item |-> Head(fromServer)] /\ UNCHANGED replies
     ELSE replies' = Append(replies, Head(fromServer)) /\ UNCHANGED handler
  /\ UNCHANGED <<library, link, toServer, inData, text, texts, written, caller, calls, overlap>>

(* _CallbackHandler: the program's function, or nothing when speak() has   *)
(* not registered it yet.                                                  *)
PyCallback ==
  /\ handler.at = "callback"
  /\ handler' = [at |-> "read", item |-> NoItem]
  /\ UNCHANGED <<server, library, caller, calls, overlap, replies>>

PyFails ==
  /\ handler.at = "read" /\ ~link /\ fromServer = <<>>
  /\ handler' = [at |-> "gone", item |-> NoItem]
  /\ UNCHANGED <<server, library, caller, calls, overlap, replies>>

PyHandlerSteps == PyReads \/ PyCallback \/ PyFails
=============================================================================
