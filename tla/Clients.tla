------------------------------ MODULE Clients ------------------------------
(***************************************************************************)
(* A program that speaks through one of the two client libraries.          *)
(***************************************************************************)
EXTENDS LibSpeechd, PythonClient

vars == <<server, program, local, replies>>

Init == LibraryInit /\ LibSpeechdInit /\ PythonInit

ServerAnswers == ServerReads /\ UNCHANGED <<program, local, replies>>
ServerSays    == (ServerReports \/ ServerDies) /\ UNCHANGED <<program, local, replies>>

Calls(c) ==
  \/ library = "c" /\ running /\ Call(c) /\ UNCHANGED <<running, replies>>
  \/ library = "python" /\ PyCall(c) /\ UNCHANGED <<running, local>>

Proceeds(c) ==
  \/ library = "c" /\ running /\ CallerSteps(c) /\ UNCHANGED replies
  \/ library = "python" /\ PyCallerSteps(c) /\ UNCHANGED <<running, local>>

Dispatches ==
  \/ library = "c" /\ running /\ HandlerSteps /\ UNCHANGED <<running, replies>>
  \/ library = "python" /\ PyHandlerSteps /\ UNCHANGED <<running, local>>

Next ==
  \/ ServerAnswers \/ ServerSays \/ Dispatches
  \/ \E c \in Callers : Calls(c) \/ Proceeds(c)

Spec == Init /\ [][Next]_vars

(* Threads run and a live server answers; nobody has to call. *)
FairSpec ==
  /\ Spec
  /\ WF_vars(ServerAnswers) /\ WF_vars(Dispatches)
  /\ \A c \in Callers : WF_vars(Proceeds(c))

-----------------------------------------------------------------------------
(* While only calls that the library keeps apart meet, the reply a caller  *)
(* is about to take is the answer to the line it sent: spd_say() and       *)
(* speak() return the number of their own message.                         *)
Answers(item, c) ==
  /\ item.call = caller[c].call
  /\ item.line = IF Head(caller[c].todo) = "data" THEN "dot" ELSE Head(caller[c].todo)

OwnReply ==
  ~overlap => \A c \in Callers : caller[c].at = "wait" =>
    /\ library = "c" /\ c \notin asleep /\ reply # NoItem => Answers(reply, c)
    /\ library = "python" /\ replies # <<>> => Answers(Head(replies), c)

(* With libspeechd, replies and events are handled in the order in which   *)
(* the server wrote them: no callback runs before the reply that was sent  *)
(* first was taken (spd_events_handler waits for cond_reply_ack), and no   *)
(* reply is lost.  The Python library takes replies and events in two      *)
(* threads: there `handled' does not change.                               *)
InOrder == [][handled' # handled => handled' = handled + 1]_vars

(* The events thread gave up before this caller began to wait: the check   *)
(* of the socket and the wait are not under one mutex.                     *)
Stranded(c) ==
  /\ handler.at = "gone" /\ caller[c].at = "wait"
  /\ IF library = "c" THEN c \in asleep ELSE replies = <<>>

(* Every call returns, the server's death included, but for that case, for *)
(* replies that overlapping calls took from each other, and for a program  *)
(* that crashed: a query whose reply is NULL dereferences it.              *)
AllReturn ==
  \A c \in Callers : Busy(c) ~> (~Busy(c) \/ Stranded(c) \/ overlap \/ ~running)
=============================================================================
